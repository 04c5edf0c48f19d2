SPECIFICATION Spec
CONSTANTS
  N = 3
  MaxFrames = 3
  Mode = "MODE_TIME"
INVARIANTS
  NewFrameShown
CHECK_DEADLOCK FALSE
