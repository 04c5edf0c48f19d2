SPECIFICATION FairSpec
CONSTANTS
  N = 3
  MaxFrames = 10
  Mode = "VERIFY_TIME"
INVARIANTS
  TypeOK
  TornOnlyWhenLapped
  TimesAdvance
  NewFrameShown
  UntimedIsOld
PROPERTIES
  RoundsGoOn
CHECK_DEADLOCK FALSE
