CONSTANTS
  NumServers = 3
  r1 = r1
  r2 = r2
  r3 = r3
  r4 = r4
  Requests <- MCRequests
  NoServer = NoServer
  Unit = 4
  Durations = {2}
  Errors = {FALSE, TRUE}
SYMMETRY MCSymmetry
SPECIFICATION LTSpec
INVARIANTS
  CountsInFlight
  AverageWithinSamples
  EveryServerGetsTried
