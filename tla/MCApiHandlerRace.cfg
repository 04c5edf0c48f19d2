SPECIFICATION FairSpec
CONSTANTS
  Workers = {w1, w2}
  NoWorker = NoWorker
  TokenLifetime = 0
  MaxSecond = 1
  MaxLogins = 2
  MayStop = TRUE
  Paths <- RacePaths
  Bodies <- UserLogin
  LooseHeaders <- NoLooseHeaders
INVARIANTS
  OwnContext
  AdmittedStillStored
PROPERTIES
  GrantedCopies
  RevokedByHolder
  ServiceImplemented
  SomeRequestAnswered
CHECK_DEADLOCK TRUE
