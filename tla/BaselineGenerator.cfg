SPECIFICATION Spec
CONSTANTS
  PathIds = {"test000001", "test000002"}
  MaxVersions = 3
  MaxRuns = 3
INVARIANTS
  TypeOK
  OwnPaths
  FreshPaths
  
CHECK_DEADLOCK FALSE
