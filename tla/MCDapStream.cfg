SPECIFICATION FairSpec
CONSTANTS
  Hdr = 2
  PktSize = 4
  Wnd = 4
  Dec = 3
  Frame <- MCFrame
  MaxFrames = 3
INVARIANTS
  TypeOK
  CompleteFramesServed
  BufferAligned
  NeverFull
  OnlyWellFormedRuns
PROPERTY RpcSpec
CHECK_DEADLOCK FALSE
