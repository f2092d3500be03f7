SPECIFICATION AdaptiveSpec
CONSTANTS
  N = 4
  InitRec = 1
  MinRec = 1
  MaxRec = 2
  MaxRedirects = 0
  Tls = FALSE
  Stdin = FALSE
  LogMayFail = FALSE
  SampleSize = 3
  Interval = 1
  Velocities <- MCVelocities
PROPERTIES PoolRefined ControllerRefined
CHECK_DEADLOCK FALSE
