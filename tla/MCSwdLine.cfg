SPECIFICATION Spec
CONSTANT Turnaround = 1
INVARIANTS
  EndsInStep
  WordInOrder
  AckHonest
CHECK_DEADLOCK FALSE
