SPECIFICATION Spec
CONSTANT MaxBits = 72
INVARIANTS
  TypeOK
  ClocksMatchCount
  ChunksSupported
  BitsInOrder
CHECK_DEADLOCK FALSE
