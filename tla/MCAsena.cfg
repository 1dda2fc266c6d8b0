CONSTANTS
  a = a
  b = b
  nullrouter = nullrouter
  timer1 = timer1
  users = users
  orders = orders
  r1 = r1
  Contents <- MCContents
  Malformed <- NoContents
  BadService <- NoContents
  NullService <- NoContents
  NullRouter <- MCNullRouter
  FirstContent = a
  Main = Main
  Reloaders <- OneReloader
  NoConfig = NoConfig
  Surroundings <- SlowBuildAndSignal
  MaxEdits = 2
  Services <- MCServices
  Requests <- MCRequests
  Configs <- MCConfigs
  NoRoute = NoRoute
  MaxBuilds = 4
  HttpOf <- MCHttpOf
SPECIFICATION AsenaFairSpec
\* The process ends, or everything is applied and answered.
CHECK_DEADLOCK FALSE
PROPERTIES
  FollowsFile
  RoutesCatchUp
  GracefulShutdown
