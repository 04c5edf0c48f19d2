SPECIFICATION Spec
SYMMETRY ThreadSymmetry
CONSTANTS
  Workers = {w1, w2}
  NoWorker = NoWorker
  TokenLifetime = 1
  MaxSecond = 1
  MaxLogins = 1
  MayStop = FALSE
  Paths <- AllPaths
  Bodies <- AllBodies
  LooseHeaders <- AllLooseHeaders
INVARIANTS
  InductiveInv
PROPERTIES
  OnlyFoundTextsThrow
CHECK_DEADLOCK TRUE
