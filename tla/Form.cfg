SPECIFICATION Spec
CONSTANTS
  Requests <- SomeRequests
  Tokens <- SomeTokens
  NameParams = {"name=a", "name=b"}
  FilenameParams = {"filename=f"}
  MaxFiles = 1
  MaxFields = 2
  MaxPartSize = 6
  MaxBoundaryLength = 3
  MaxHeaderCount = 3
  MaxHeaderSize = 6
INVARIANTS
  TypeOK
  ReadsBack
  PartsAreDelimited
  SegmentsRespectQuotes
  FitsIntake
PROPERTY Terminates
CHECK_DEADLOCK FALSE
