------------------------------ MODULE MCTcpConn ------------------------------
EXTENDS TcpConnInv

QuotaA2 == [e \in Host |-> IF e = A THEN 2 ELSE 0]
QuotaA3B1 == [e \in Host |-> IF e = A THEN 3 ELSE 1]
OnlyA == {A}
Both == {A, B}
=============================================================================
