SPECIFICATION Spec
CONSTANTS
  TextLo = 16
  TextHi = 31
  Pages <- MCPages
  PageLen = 16
  PageStarts <- MCPageStarts
  SysNo = 4
  MmapError <- MCMmapError
  OwnRet = 7
  Signals = {}
  Faults = FALSE
  RelMod = 64
  FaultAddrs <- MCFaultAddrs
  MaxCalls = 2
  RealTime = {}
INVARIANTS
  ReturnReleases
CHECK_DEADLOCK FALSE
