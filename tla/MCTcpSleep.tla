------------------------------ MODULE MCTcpSleep ------------------------------
\* The blocking of sockets for TLC.
EXTENDS TcpSleep

Created == [s \in Sem |-> IF s = Net THEN 1 ELSE 0]

=============================================================================
