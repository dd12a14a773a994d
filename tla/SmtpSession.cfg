SPECIFICATION FairSpec
CONSTANTS
  N = 3
  ReplyCodes <- Codes
  MaxChallenges = 3
INVARIANTS
  TypeOK
  SuccessIsTaken
  OnlyTheEndIsInDoubt
  NothingInTheClear
  PermanentNeedsAnAnswer
  QuitDiscipline
PROPERTIES
  ImplementsSubmission
  SessionEnds
CHECK_DEADLOCK FALSE
