SPECIFICATION Spec
CONSTANTS
  p1 = p1
  p2 = p2
  t1 = t1
  t2 = t2
  t3 = t3
  a1 = a1
  a2 = a2
  Threads = {t1, t2}
  Processes = {p1}
  ProcessOf <- MCOneProcess
  Heap <- MCOneHeap
  NULL = NULL
  HeapMax = 1
  RequestMax = 2
  RingMax = 3
  Callocs = TRUE
  Exits = FALSE
INVARIANTS
  MisusesReported
