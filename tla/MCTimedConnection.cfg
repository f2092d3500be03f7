SPECIFICATION AttemptSpec
CONSTANTS
  Scripts <- PolicyScripts
  TimersLast = FALSE
  ReplySizes <- AllReplies
INVARIANTS CancelsItsOwn OnlyUntimedSucceeds RequestReachesTarget
PROPERTIES SingleAwaitReturns ImplementsAttempts
CHECK_DEADLOCK FALSE
