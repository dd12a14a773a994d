SPECIFICATION Spec
CONSTANTS
  N = 1
  ReplyCodes <- FewCodes
  MaxChallenges = 2
INVARIANT QuitWhileOpen
CHECK_DEADLOCK FALSE
