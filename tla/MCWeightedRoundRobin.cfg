CONSTANTS
  NumServers = 4
  NoWeight = NoWeight
  IntMax = 140
  MaxCalls = 34
  Settings <- MCSettings
SPECIFICATION WRRSpec
\* The number of calls is bounded.
CHECK_DEADLOCK FALSE
INVARIANTS
  WRRTypeOK
  NeverAhead
  RoundsAreProportional
  ExactWithinRoom
