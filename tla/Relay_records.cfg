SPECIFICATION Spec
CONSTANTS
  Requests = {r1}
  Recipients = {"a"}
  MaxConcurrency = 1
  BlockingThreads = 2
INVARIANT OneRecordPerPost
CHECK_DEADLOCK FALSE
