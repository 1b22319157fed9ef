SPECIFICATION Spec
CONSTANTS
  Requests <- MCRequests
  Envs <- MCEnvs
INVARIANTS
  TypeOK
  NullSafe
  InBounds
  Conservative
PROPERTIES
  FinishedKept
CHECK_DEADLOCK FALSE
