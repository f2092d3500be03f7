SPECIFICATION GetSpec
CONSTANTS
  N = 3
  InitRec = 2
  MinRec = 2
  MaxRec = 2
  MaxRedirects = 1
  Tls = FALSE
  Stdin = FALSE
  LogMayFail = FALSE
  Targets <- MCTargets
  Text <- MCText
  NameChars <- MCNameChars
  Bodies <- MCBodies
  Required = {"item"}
  Rejected = {"gone"}
  StreamBuffer = 2
  MaxCalls = 6
INVARIANTS FileIsOneBody SummaryAgrees NothingIsLost
PROPERTY ReplacedByLookalikes
CHECK_DEADLOCK FALSE
