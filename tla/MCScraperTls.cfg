SPECIFICATION FairSpec
CONSTANTS
  N = 3
  InitRec = 2
  MinRec = 1
  MaxRec = 2
  MaxRedirects = 1
  Tls = TRUE
  Stdin = TRUE
  LogMayFail = TRUE
INVARIANT ExitCodeTells
PROPERTIES ImplementsAttempts EveryCandidateEnds
CHECK_DEADLOCK FALSE
