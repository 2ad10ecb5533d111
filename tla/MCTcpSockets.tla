----------------------------- MODULE MCTcpSockets -----------------------------
EXTENDS TcpSockets, TLC

Symmetry == Permutations(Tcb)
=============================================================================
