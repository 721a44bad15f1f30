------------------------ MODULE TcpClientRefinement ------------------------
(***************************************************************************)
(* TcpClient implements Rpc: for distinct ids, any number of calls and any *)
(* behaviour of the peer, the coroutines that call see remote calls.       *)
(***************************************************************************)
EXTENDS TcpClientProofs

(* What a step that leaves calls and answers alone does to Rpc: nothing.   *)
LEMMA Invisible ==
    ASSUME UNCHANGED <<pc, failed, got>>
    PROVE  UNCHANGED Abstract!vars
BY DEF status, Abstract!vars

(* How the status of the calls changes when the pc of one does.            *)
LEMMA StatusStep ==
    ASSUME TypeOK, NEW c \in Calls, NEW v \in {"sending", "waiting", "returned"},
           pc' = [pc EXCEPT ![c] = v],
           failed' = failed \/ failed' = failed \cup {c}
    PROVE  status' = [status EXCEPT ![c] = IF v = "returned"
                                           THEN IF c \in failed' THEN "failed" ELSE "done"
                                           ELSE "pending"]
<1>1. ASSUME NEW d \in Calls, d # c PROVE status'[d] = status[d]
  BY <1>1 DEF status, TypeOK
<1>2. status'[c] = IF v = "returned"
                   THEN IF c \in failed' THEN "failed" ELSE "done" ELSE "pending"
  BY DEF status, TypeOK
<1>3. status = [d \in Calls |-> status[d]] /\ status' = [d \in Calls |-> status'[d]]
  BY DEF status
<1> QED
  BY <1>1, <1>2, <1>3

LEMMA RefineStep ==
    ASSUME TypeOK, TypeOK', DistinctSrc, IInv, [Next]_vars
    PROVE  [Abstract!Next]_(Abstract!vars)
<1>1. CASE async_connect \/ connected \/ connect_failed \/ query_end \/ peer_close
           \/ UNCHANGED vars
  BY <1>1, Invisible DEF async_connect, connected, connect_failed, query_end, peer_close,
     vars, clientVars
<1>2. CASE (\E i \in 1..Len(requests) : reply(i)) \/ (\E b \in PushBodies : push(b))
  BY ZenonT(30), <1>2, Invisible DEF reply, push, clientVars
<1>3. ASSUME NEW c \in Calls, call(c) PROVE Abstract!Next
  <2>1. /\ pc[c] = "idle" /\ pc' = [pc EXCEPT ![c] = "sending"]
        /\ failed' = failed /\ got' = got
    BY <1>3 DEF call
  <2>2. status' = [status EXCEPT ![c] = "pending"] /\ status[c] = "idle"
    BY ZenonT(30), <2>1, StatusStep DEF status
  <2> QED
    BY ZenonT(30), <2>1, <2>2 DEF Abstract!Next, Abstract!Begin
<1>4. CASE send_done
  <2>1. PICK c \in Calls : c = Head(sendq) /\ pc[c] = "sending"
    BY <1>4, TailElements DEF send_done, TypeOK, IInv, SendingOK
  <2>2. pc' = [pc EXCEPT ![c] = "waiting"] /\ failed' = failed /\ got' = got
    BY <1>4, <2>1 DEF send_done, wait
  <2>3. status' = [status EXCEPT ![c] = "pending"]
    BY ZenonT(30), <2>2, StatusStep
  <2>4. status' = status
    BY ZenonT(30), <2>1, <2>3 DEF status
  <2> QED
    BY <2>2, <2>4 DEF Abstract!vars
<1>5. CASE send_failed
  <2>1. PICK c \in Calls : c = Head(sendq) /\ pc[c] = "sending"
    BY <1>5, TailElements DEF send_failed, TypeOK, IInv, SendingOK
  <2>2. failed' = failed \cup {c} /\ got' = got /\ status[c] = "pending"
    BY <1>5, <2>1 DEF send_failed, status
  <2>3. CASE pc' = [pc EXCEPT ![c] = "waiting"]
    <3>1. status' = [status EXCEPT ![c] = "pending"]
      BY ZenonT(30), <2>2, <2>3, StatusStep
    <3>2. status' = status
      BY ZenonT(30), <2>2, <3>1 DEF status
    <3> QED
      BY <2>2, <3>2 DEF Abstract!vars
  <2>4. CASE pc' = [pc EXCEPT ![c] = "returned"]
    <3>1. status' = [status EXCEPT ![c] = "failed"]
      BY ZenonT(30), <2>2, <2>4, StatusStep
    <3>2. got[c] = NoCall
      BY <2>1 DEF IInv, Consumed, Sent
    <3> QED
      BY ZenonT(30), <2>2, <3>1, <3>2 DEF Abstract!Next, Abstract!Fail
  <2> QED
    BY <1>5, <2>1, <2>3, <2>4 DEF send_failed, wait
<1>6. CASE query
  <2>1. PICK f \in Frames : f = Head(inbox) /\ FrameOK(f)
    BY <1>6, TailElements DEF query, TypeOK, IInv, WireOK
  <2>2. filling_buffer(f) /\ pc' = pc /\ failed' = failed
    BY <1>6, <2>1 DEF query
  <2>3. CASE buffers[f.src] = NoCall
    BY <2>2, <2>3, Invisible DEF filling_buffer
  <2>4. CASE buffers[f.src] # NoCall
    <3>1. f.src \in Ids
      BY DEF Frames
    <3>2. PICK c \in Calls : c = buffers[f.src]
      BY <2>4, <3>1 DEF TypeOK
    <3>3. Src[c] = f.src /\ f.body = c /\ Sent(c)
      BY <2>1, <2>4, <3>1, <3>2 DEF IInv, Registered, FrameOK, DistinctSrc
    <3>4. got[c] = NoCall
      BY <3>2, <3>3 DEF IInv, Consumed
    <3>5. pc[c] = "waiting"
      BY <3>3, <3>4, ClientAssumption DEF IInv, OwnResponse, Sent
    <3>6. got' = [got EXCEPT ![c] = c]
      BY <2>2, <2>4, <3>2, <3>3 DEF filling_buffer
    <3>7. status' = status /\ status[c] = "pending"
      BY <2>2, <3>5 DEF status
    <3> QED
      BY ZenonT(30), <3>4, <3>6, <3>7 DEF Abstract!Next, Abstract!Answer
  <2> QED
    BY <2>3, <2>4
<1>7. CASE resume
  <2>1. PICK c \in Calls : c = woken
    BY <1>7 DEF resume, TypeOK
  <2>2. failed' = failed /\ got' = got
    BY <1>7 DEF resume
  <2>3. CASE signal # Src[c]
    BY SMTT(30), <1>7, <2>1, <2>2, <2>3, Invisible DEF resume
  <2>4. CASE signal = Src[c]
    <3>1. pc' = [pc EXCEPT ![c] = "returned"]
      BY <1>7, <2>1, <2>4 DEF resume
    <3>2. got[c] = c /\ pc[c] \in {"waiting", "returned"} /\ c \notin failed
      BY SMTT(30), <1>7, <2>1, <2>4, ClientAssumption DEF resume, IInv, ChannelOK, Consumed, Sent
    <3>3. status' = [status EXCEPT ![c] = "done"]
      BY ZenonT(30), <2>2, <3>1, <3>2, StatusStep
    <3>4. CASE pc[c] = "waiting"
      <4>1. status[c] = "pending"
        BY <3>4 DEF status
      <4> QED
        BY ZenonT(30), <2>2, <3>2, <3>3, <4>1 DEF Abstract!Next, Abstract!Return
    <3>5. CASE pc[c] = "returned"
      <4>1. status' = status
        BY ZenonT(30), <3>2, <3>3, <3>5 DEF status
      <4> QED
        BY <2>2, <4>1 DEF Abstract!vars
    <3> QED
      BY <3>2, <3>4, <3>5
  <2> QED
    BY <2>3, <2>4
<1> QED
  BY SMTT(30), <1>1, <1>2, <1>3, <1>4, <1>5, <1>6, <1>7 DEF Next, ClientNext, PeerNext

(* The client implements Rpc (basic_client.hpp, async_call and             *)
(* async_call_buffer, over tcp.hpp).                                       *)
THEOREM Refinement ==
    ASSUME DistinctSrc
    PROVE  Spec => ImplementsRpc
<1>1. Init => Abstract!Init
  BY DEF Init, Abstract!Init, status
<1>2. TypeOK /\ TypeOK' /\ IInv /\ [Next]_vars => [Abstract!Next]_(Abstract!vars)
  BY RefineStep
<1>3. TypeOK /\ TypeOK' /\ IInv /\ [Next]_vars => IInv'
  BY InvStep
<1> QED
  BY <1>1, <1>2, <1>3, InvInit, TypeCorrect, PTL DEF Spec, ImplementsRpc, Abstract!Spec

=============================================================================
