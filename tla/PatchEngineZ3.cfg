SPECIFICATION Spec
CONSTANTS
  generations = 3
  pop_size = 8
  Z3Ints <- MCZ3Ints
INVARIANTS
  Z3Sound
CHECK_DEADLOCK FALSE
