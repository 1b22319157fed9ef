SPECIFICATION Spec
CONSTANTS
  p1 = p1
  p2 = p2
  t1 = t1
  t2 = t2
  t3 = t3
  a1 = a1
  a2 = a2
  Threads = {t1, t2, t3}
  Processes = {p1, p2}
  ProcessOf <- MCTwoAndOne
  Heap <- MCHeapsApart
  NULL = NULL
  HeapMax = 2
  RequestMax = 1
  RingMax = 1
  Callocs = FALSE
  Exits = TRUE
INVARIANTS
  TypeOK
  TracksHeap
  NoFalseAlarm
