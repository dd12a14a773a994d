SPECIFICATION Spec
CONSTANTS
  Policies <- OwnPolicy
  Tokens = {"own"}
  Paths = {"a"}
  Mailboxes = {"x@a"}
  DomainOf <- OneDomain
  Names = {}
  RefusedNames = {}
  Keys = {"from", "to", "subject", "text", "attachment", "inline"}
  FrameSizes = {13}
  TextSizes <- SomeTexts
  FileSizes <- SomeFiles
  MaxBodyBytes = 13
  MaxAttachments = 1
  MaxAttachmentBytes = 2
  MaxRecipients = 1
  FieldHeadroom = 4
INVARIANT AnswerHasItsGround
CHECK_DEADLOCK FALSE
