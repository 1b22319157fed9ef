SPECIFICATION FairSpec
CONSTANTS
  TextLo = 16
  TextHi = 39
  Pages <- MCPages
  PageLen = 16
  PageStarts <- MCPageStarts
  SysNo = 4
  MmapError <- MCMmapError
  OwnRet = 7
  Signals = {sig}
  Faults = TRUE
  RelMod = 64
  FaultAddrs <- MCFaultAddrs
  PatchSizes <- MCPatchSizes
INVARIANTS
  TypeOK
  AllOrNothing
  JmpAfterPatch
  SuccessUsesPage
  SuccessResumes
  JumpLandsIfNear
PROPERTIES
  LetsGo
  ImplementsHotSwap
CHECK_DEADLOCK FALSE
