CONSTANTS
  PageSize = 2
  Fan = 4
  Bits = 4
  Slack = 1
  Stride = 2
  HigherHalf = 10
  TopPage = 60
  ImageBase = 1
  ImageSize = 2
  KernelFileSize = 3
  MaxFileSize = 4
  StackPages = 1
  FrameBufferBase = 9
  FrameBufferSize = 4
  MemoryMaps <- MCMemoryMaps
  Phys <- MCPhys
  Firmware <- MCFirmware
  Anywhere <- MCAnywhere
  PTPage = PTPage
  Self = Self
  Idle = Idle
  MaxFailures = 1
  ArgsPage = 0
SPECIFICATION BootSpec
CHECK_DEADLOCK FALSE
INVARIANTS
  KernelIsTold
  OnlyBgcolorUnset
  DynamicMemoryIsFree
PROPERTIES
  CleanBootDiesOnlyBeforeCli
  CleanBootReachesIdle
