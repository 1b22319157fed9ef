SPECIFICATION FairSpec
CONSTANTS
  TextLo = 16
  TextHi = 31
  Pages <- MCPage
  PageLen = 16
  PageStarts <- MCPageStarts
  SysNo = 4
  MmapError <- MCMmapError
  OwnRet = 7
  Signals = {}
  Faults = FALSE
  RelMod = 64
  FaultAddrs <- MCFaultAddrs
  PatchSizes <- MCPatchSizes
PROPERTIES
  SwapsRunning
CHECK_DEADLOCK FALSE
