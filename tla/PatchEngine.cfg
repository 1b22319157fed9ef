SPECIFICATION Spec
CONSTANTS
  generations = 3
  pop_size = 8
  Z3Ints <- MCZ3Ints
INVARIANTS
  TypeOK
  BestOfAll
  BestSurvives
  VerifiedPasses
PROPERTIES
  Terminates
CHECK_DEADLOCK FALSE
