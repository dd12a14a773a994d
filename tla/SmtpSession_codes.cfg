SPECIFICATION Spec
CONSTANTS
  N = 1
  ReplyCodes <- FewCodes
  MaxChallenges = 2
INVARIANT TheCodeDecides
CHECK_DEADLOCK FALSE
