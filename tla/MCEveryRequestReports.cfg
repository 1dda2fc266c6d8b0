CONSTANTS
  NumServers = 2
  r1 = r1
  r2 = r2
  r3 = r3
  r4 = r4
  Requests <- MCRequests
  NoServer = NoServer
  NullServers <- MCNone
  BadUrlServers <- MCNone
  AbsoluteForm <- MCNone
SPECIFICATION RPSpec
CHECK_DEADLOCK FALSE
INVARIANT EveryRequestReports
