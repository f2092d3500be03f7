SPECIFICATION ResponseSpec
CONSTANTS
  Candidates = {c1, c2, c3}
  Redirected = {c1}
  MaxFound = 3
  MaxRuns = 2
  Locations <- MCLocations
  Targets <- MCTargets
  scheme = "http"
  authority <- MCAuthority
INVARIANTS  LossesFailTheRun SummaryMatchesList SpoiltOncePerRun
INVARIANTS ForeignAuthorityRefused FollowedAsMeant
PROPERTY OnlyAppends
CHECK_DEADLOCK FALSE
