SPECIFICATION Spec
CONSTANTS
  a1 = a1
  a2 = a2
  a3 = a3
  Addrs = {a1, a2, a3}
  EventLists <- MCEventLists
INVARIANTS
  TypeOK
  FaultsExact
  HealsOnlyFaults
CHECK_DEADLOCK FALSE
