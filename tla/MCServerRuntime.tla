-------------------------- MODULE MCServerRuntime --------------------------
(* Instances of ServerRuntime for TLC: the client of serviced (top         *)
(* priority), the module that registers the server through it, and a third *)
(* one of default priority whose init() may fail.                          *)
EXTENDS ServerRuntime

CONSTANTS srvd_client, srv_regist, other

MCPriority == [m \in Modules |-> IF m = srvd_client THEN 1 ELSE 0]

(* The registering module also calls into one of its own priority, which   *)
(* is there or not by the order of the static initializers.                *)
MCUses == [m \in Modules |-> IF m = srv_regist THEN {srvd_client, other} ELSE {}]

=============================================================================
