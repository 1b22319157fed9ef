SPECIFICATION Spec
CONSTANTS
  FeedMax = 3
  LogMax = 2
  ChartMax = 3
  MaxFaults = 4
  MaxStarts = 2
INVARIANTS
  TypeOK
  PendingShown
  DisplayAgrees
CHECK_DEADLOCK FALSE
