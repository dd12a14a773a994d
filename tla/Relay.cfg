SPECIFICATION Spec
CONSTANTS
  Requests = {r1, r2, r3}
  Recipients = {"a", "b"}
  MaxConcurrency = 1
  BlockingThreads = 2
SYMMETRY Symmetry
INVARIANTS
  TypeOK
  SlotsAreConserved
  NobodyIsForgotten
  OneRecordPerTask
  StopLosesNothing
  AnswerTellsDelivery
CHECK_DEADLOCK FALSE
