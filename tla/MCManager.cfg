CONSTANTS
  users = users
  orders = orders
  r1 = r1
  r2 = r2
  Services <- MCServices
  Requests <- MCRequests
  Configs <- MCConfigs
  NoRoute = NoRoute
  MaxBuilds = 3
SPECIFICATION ManagerSpec
\* Every request is answered and no more configurations arrive.
CHECK_DEADLOCK FALSE
INVARIANTS
  ManagerTypeOK
  RequestsGoForward
  MissingOnlyIfRemoved
  MostSpecificWins
