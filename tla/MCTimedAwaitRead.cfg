SPECIFICATION FairSpec
CONSTANTS
  Scripts <- ReadScripts
  TimersLast = TRUE
PROPERTY EveryAwaitReturns
CHECK_DEADLOCK FALSE
