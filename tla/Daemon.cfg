SPECIFICATION DaemonSpec
CONSTANTS
  TextLo = 16
  TextHi = 31
  Pages <- MCPages
  PageLen = 16
  PageStarts <- MCPageStarts
  SysNo = 4
  MmapError <- MCMmapError
  OwnRet = 7
  Signals = {rt}
  Faults = TRUE
  RelMod = 64
  FaultAddrs <- MCFaultAddrs
  MaxCalls = 2
  RealTime = {rt}
INVARIANTS
  DaemonTypeOK
  RunsItself
  RedirectionsWhole
  ReportsTrue
  OneWordLeft
  ServedInOrder
PROPERTIES
  EveryServed
CHECK_DEADLOCK FALSE
