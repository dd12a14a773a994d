SPECIFICATION LiveSpec
CONSTANTS
  Requests = {r1, r2, r3}
  Recipients = {"a"}
  MaxConcurrency = 1
  BlockingThreads = 2
PROPERTIES
  SubmissionEnds
  StopEnds
CHECK_DEADLOCK FALSE
