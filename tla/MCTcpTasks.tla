----------------------------- MODULE MCTcpTasks -----------------------------
EXTENDS TcpTasks

CONSTANTS n1, n2, n3

Pool == {n1, n2, n3}
=============================================================================
