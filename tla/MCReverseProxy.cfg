CONSTANTS
  NumServers = 3
  r1 = r1
  r2 = r2
  r3 = r3
  r4 = r4
  Requests <- MCRequests
  NoServer = NoServer
  NullServers <- MCNullServers
  BadUrlServers <- MCBadUrlServers
  AbsoluteForm <- MCAbsoluteForm
SPECIFICATION RPSpec
\* Every request ends, and then nothing is left to do.
CHECK_DEADLOCK FALSE
INVARIANTS
  RPTypeOK
  ActiveIsInFlight
  
  BoxNamesTheSlot
PROPERTIES
  KeepsBalancerProtocol
  ImplementsLeastBusy
