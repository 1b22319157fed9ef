--------------------------- MODULE MCPatchEngine ----------------------------
EXTENDS PatchEngine
MCZ3Ints == -2 .. 2
=============================================================================
