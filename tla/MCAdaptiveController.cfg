SPECIFICATION Spec
CONSTANTS
  InitRec = 2
  MinRec = 1
  MaxRec = 4
  SampleSize = 3
  Interval = 2
  Velocities <- MCVelocities
INVARIANT WithinMinMax
PROPERTIES ImplementsRecommendation
