CONSTANTS
  PageSize = 2
  Bits = 2
  Bytes = 2
  a = a
  b = b
  Callers <- MCCallers
  Addresses <- MCAddresses
  Beyond <- MCBeyond
  MaxStolen = 2
SYMMETRY Symmetry
SPECIFICATION Spec
CHECK_DEADLOCK FALSE
INVARIANTS
  TypeOK
  Exclusive
  Accounted
PROPERTY ImplementsFrameSet
