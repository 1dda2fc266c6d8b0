CONSTANTS
  a = a
  b = b
  broken = broken
  mixed = mixed
  nullservice = nullservice
  nullrouter = nullrouter
  timer1 = timer1
  timer2 = timer2
  Contents <- MCContents
  Malformed <- MCMalformed
  BadService <- NoContents
  NullService <- NoContents
  NullRouter <- NoContents
  FirstContent = a
  Main = Main
  Reloaders <- OneReloader
  NoConfig = NoConfig
  Surroundings <- SlowBuild
  MaxEdits = 3
SPECIFICATION DCFairSpec
\* When the file is no longer changed the pipeline comes to rest.
CHECK_DEADLOCK FALSE
INVARIANT TravelInOrder
PROPERTIES
  NoRedundantReload
  ChangesAreDetected
  AppliedUnlessDropped
