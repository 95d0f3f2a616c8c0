CONSTANTS
  PageSize = 2
  Fan = 4
  Bits = 4
  Slack = 1
  Stride = 2
  HigherHalf = 9
  TopPage = 24
  ImageBase = 1
  ImageSize = 2
  KernelFileSize = 1
  MaxFileSize = 3
  StackPages = 1
  FrameBufferBase = 8
  FrameBufferSize = 3
  MemoryMaps <- MCMemoryMaps
  Phys <- MCPhys
  Firmware <- MCFirmware
  Anywhere <- MCAnywhere
  PTPage = PTPage
  Self = Self
  Idle = Idle
  MaxFailures = 2
SPECIFICATION Spec
CHECK_DEADLOCK FALSE
INVARIANT KernelIsLoaded
