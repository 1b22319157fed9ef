-------------------------- MODULE MCPatchInjector --------------------------
EXTENDS PatchInjectorProofs
MCPageStarts == {16, 32, 40, 48, 64, 104, 120}
MCPages == {48, 104}
MCFaultAddrs == {0, 24, 29, 34, 36}
MCPatchSizes == {1, 10}
MCPage == {48}
MCFaultAddr == {24}
MCMmapError == -12
=============================================================================
