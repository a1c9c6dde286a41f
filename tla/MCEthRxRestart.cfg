SPECIFICATION Spec
CONSTANTS
  N = 2
  Buffers = {b1, b2, b3}
  NULL = NULL
  Unplug = "any"
  MaxFrames = 8
PROPERTY BufferHandedOverOnce
