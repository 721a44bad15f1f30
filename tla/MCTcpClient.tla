---------------------------- MODULE MCTcpClient ----------------------------
(* Instances of TcpClient for TLC: up to four calls, each with an id of    *)
(* its own.                                                                *)
EXTENDS TcpClient

CONSTANTS c1, c2, c3, c4

MCSrc == [c \in Calls |-> CASE c = c1 -> 1 [] c = c2 -> 2 [] c = c3 -> 3 [] c = c4 -> 4]

=============================================================================
