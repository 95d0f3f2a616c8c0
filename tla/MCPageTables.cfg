CONSTANTS
  Root = Root
  Page0 = Page0
  Self = Self
  Idle = Idle
  t1 = t1
  t2 = t2
  t3 = t3
  t4 = t4
  t5 = t5
  d1 = d1
  d2 = d2
  Fan = 2
  Frames <- MCFrames
  Data <- MCData
  Virt <- MCVirt
  Junk <- MCJunk
SYMMETRY Symmetry
SPECIFICATION Spec
INVARIANTS
  TypeOK
  TreeShaped
  TablesStayPrivate
PROPERTIES
  OnlyTablesWritten
  ImplementsAddressSpace
