----------------------------- MODULE MCTcpSocket -----------------------------
(* The instance of TcpSocket that TLC checks                                *)
EXTENDS TcpSocket

\* Two messages over the first socket and one over the second
Sends == [s \in Sockets |-> IF s = 1 THEN 2 ELSE 1]
=============================================================================
