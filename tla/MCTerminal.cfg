CONSTANTS
  FontWidth = 2
  FontHeight = 2
  VerticalResolution = 4
  HorizontalResolution = 5
  PixelsPerScanline = 6
  FrameBufferPixels = 24
  Strings <- MCStrings
  Numbers <- MCNumbers
  Unknown = 99
  Garbage = {7, 10, 99}
  MaxDrawn = 7
  MaxRow = 3
SPECIFICATION Spec
CHECK_DEADLOCK FALSE
INVARIANTS
  TypeOK
  CharactersStay
  StrayOnlyBelowLastLine
  TextReadsBack
  NumberReadsBack
