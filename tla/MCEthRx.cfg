SPECIFICATION FairSpec
CONSTANTS
  N = 3
  Buffers = {b1, b2, b3, b4}
  NULL = NULL
  Unplug = "idle"
  MaxFrames = 5
INVARIANTS
  BuffersAccounted
  RecoveryPossible
PROPERTY QueueSpec
