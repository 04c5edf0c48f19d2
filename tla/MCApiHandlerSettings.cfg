SPECIFICATION Spec
CONSTANTS
  Workers = {w1}
  NoWorker = NoWorker
  TokenLifetime = 1
  MaxSecond = 1
  MaxLogins = 1
  MayStop = TRUE
  Paths <- AllPaths
  Bodies <- AllBodies
  LooseHeaders <- AllLooseHeaders
INVARIANTS
  SettingsServed
CHECK_DEADLOCK TRUE
