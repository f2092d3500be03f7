SPECIFICATION Spec
CONSTANTS
  Templates <- MCTemplates
  SizeMax = 15
  Digits = 2
INVARIANTS EmitsTheProduct CardinalityIsCount OnceWithLeadZero
CHECK_DEADLOCK FALSE
