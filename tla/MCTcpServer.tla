---------------------------- MODULE MCTcpServer ----------------------------
(* Instances of TcpServer for TLC: two connections, and requests for t1    *)
(* and t2 on both of them and for t3, which nobody handles, on one.        *)
EXTENDS TcpServer

CONSTANTS k1, k2, t1, t2, t3, r1, r2, r3, r4, r5

MCConnOf == [r \in Reqs |-> IF r \in {r1, r2, r5} THEN k1 ELSE k2]
MCTopicOf == [r \in Reqs |-> CASE r \in {r1, r3} -> t1 [] r \in {r2, r4} -> t2 [] r = r5 -> t3]

=============================================================================
