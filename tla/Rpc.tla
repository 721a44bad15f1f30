-------------------------------- MODULE Rpc --------------------------------
(***************************************************************************)
(* What a remote call promises the coroutine that makes it, with the wire, *)
(* the callbacks and the channel left out: a call that was made is         *)
(* answered at most once, and only while it is pending; it comes back with *)
(* its own answer, or with a failure and no answer.                        *)
(***************************************************************************)
CONSTANTS Calls, NoCall

VARIABLES status, result

vars == <<status, result>>

Init ==
    /\ status = [c \in Calls |-> "idle"]
    /\ result = [c \in Calls |-> NoCall]

Begin(c) ==
    /\ status[c] = "idle"
    /\ status' = [status EXCEPT ![c] = "pending"]
    /\ UNCHANGED result

Answer(c) ==
    /\ status[c] = "pending" /\ result[c] = NoCall
    /\ result' = [result EXCEPT ![c] = c]
    /\ UNCHANGED status

Return(c) ==
    /\ status[c] = "pending" /\ result[c] = c
    /\ status' = [status EXCEPT ![c] = "done"]
    /\ UNCHANGED result

Fail(c) ==
    /\ status[c] = "pending" /\ result[c] = NoCall
    /\ status' = [status EXCEPT ![c] = "failed"]
    /\ UNCHANGED result

Next == \E c \in Calls : Begin(c) \/ Answer(c) \/ Return(c) \/ Fail(c)

Spec == Init /\ [][Next]_vars

=============================================================================
