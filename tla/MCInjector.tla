----------------------------- MODULE MCInjector -----------------------------
EXTENDS Injector
MCPages == {48, 104}
MCFaultAddrs == {0, 19, 24}
MCMmapError == -12
MCPageStarts == {16, 24, 32, 48, 64, 104, 120}
=============================================================================
