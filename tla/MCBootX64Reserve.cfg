CONSTANTS
  Word = 64
  Page = 2
  KernelAddress = 32
  DescriptorSize = 48
  Slack = 100
  MemoryMaps <- MCMemoryMaps
  KernelFileSize = 5
  MaxSplit = 2
  MaxEvents = 0
  MaxFailures = 0
SPECIFICATION Spec
CHECK_DEADLOCK FALSE
INVARIANT ReservesAtKernelAddress
