SPECIFICATION Spec
CONSTANTS
  Worlds <- SomeWorlds
  DefaultOf <- SomeDefaults
  LowerOf <- SomeWords
  SenderOf <- SomeSenders
  FloatOf <- SomeFloats
  Texts <- SomeTexts
  TypeOf <- SomeTypes
  Normal <- SomeNormal
  Hashes = {"h1", "H1", "h2"}
  Blank = {"", " "}
  Placeholders = {"CHANGEME", ""}
  MaxInt = 12
  MaxDigits = 2
  MaxPort = 10
  MaxCount = 11
  MaxTimeout = 11
  MaxDepth = 5
INVARIANTS TypeOK EachSettingHasOneSource SecretsReadBack RecordMeansGraceful ListensEverywhereOrNowhere FailsClosed
CHECK_DEADLOCK FALSE
