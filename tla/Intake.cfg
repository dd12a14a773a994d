SPECIFICATION Spec
CONSTANTS
  Policies <- SomePolicies
  Tokens = {"own", "shared", "wrong"}
  Paths = {"a", "b"}
  Mailboxes = {"x@a", "y@b"}
  DomainOf <- SomeDomains
  Names = {"X-A", "Bcc"}
  RefusedNames = {"Bcc"}
  Keys = {"from", "to", "subject", "text", "header", "unknown"}
  FrameSizes = {2, 6}
  TextSizes <- SomeTexts
  FileSizes = {}
  MaxBodyBytes = 6
  MaxAttachments = 0
  MaxAttachmentBytes = 0
  MaxRecipients = 1
  FieldHeadroom = 4
INVARIANTS
  TypeOK
  AnswerHasItsGround
  HeadersAreTheMap
  ReadsNoMoreThanItMust
PROPERTY StepsOfTask
CHECK_DEADLOCK FALSE
