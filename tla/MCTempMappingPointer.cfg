CONSTANTS
  Fan = 18
  Size = 8
  Table = 100
  None = None
  Page0 = 0
  Frames <- MCFrames
SPECIFICATION Spec
CHECK_DEADLOCK FALSE
INVARIANT PointerReachesFrame
