------------------------------ MODULE MCDaemon ------------------------------
EXTENDS Daemon
MCPages == {48, 104}
MCFaultAddrs == {19, 24}
MCMmapError == -12
MCPageStarts == {16, 24, 32, 48, 64, 104, 120}
=============================================================================
