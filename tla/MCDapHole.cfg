SPECIFICATION Spec
CONSTANTS
  Hdr = 2
  PktSize = 4
  Wnd = 4
  Dec = 3
  Frame <- MCPlain
  MaxFrames = 3
INVARIANT OnlyWrittenMessages
CHECK_DEADLOCK FALSE
