SPECIFICATION Spec
CONSTANTS
  Numerals <- MCNumerals
  Lengths <- MCLengths
  Lettered <- MCLettered
  Names <- MCNames
  Addresses <- MCAddresses
  Lines <- MCLines
  BadRegexes = {"invalid"}
  SizeMax = 7
  MaxWindow = 5
INVARIANTS HonoursOptions LeavesNoTrace AssumptionsMet EndpointAsWritten
CHECK_DEADLOCK FALSE
