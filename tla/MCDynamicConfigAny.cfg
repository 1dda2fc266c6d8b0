CONSTANTS
  a = a
  b = b
  broken = broken
  mixed = mixed
  nullservice = nullservice
  nullrouter = nullrouter
  timer1 = timer1
  timer2 = timer2
  Contents <- MCAllContents
  Malformed <- MCMalformed
  BadService <- MCBadService
  NullService <- MCNullService
  NullRouter <- MCNullRouter
  FirstContent = a
  Main = Main
  Reloaders <- TwoReloaders
  NoConfig = NoConfig
  Surroundings <- AnySurroundings
  MaxEdits = 3
SPECIFICATION DCSpec
\* When the file is no longer changed the pipeline comes to rest.
CHECK_DEADLOCK FALSE
INVARIANTS
  DCTypeOK
  OnlyAcceptedConfigs
  
  NoTimerAfterStop
