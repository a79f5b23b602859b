------------------------- MODULE MCDaemonClient -------------------------
EXTENDS DaemonClient, TLC

TaskSymmetry == Permutations(Tasks)
=========================================================================
