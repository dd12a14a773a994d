SPECIFICATION Spec
CONSTANTS
  AddressOf <- SomeAddressOf
  WithAt <- SomeWithAt
  Controls <- SomeControls
  Inputs <- SomeInputs
  CharsetName <- SomeCharsetName
  Lead = "l"
  Continuation = "c"
  Base64Of <- SomeBase64Of
  HexOf <- SomeHexOf
  EncodedLocals = {"=@x"}
  LowerName <- SomeLowerName
  LongNames = {"Long"}
  MessageIds = {"id"}
  Containers = {"multipart"}
  TypeTokens = {"image", "png", "multipart"}
  MaxLine = 40
  AddressRoom = 10
  MaxEncodedWord = 13
INVARIANT NamesHoldNoLineBreak
CHECK_DEADLOCK FALSE
