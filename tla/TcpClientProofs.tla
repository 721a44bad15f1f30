-------------------------- MODULE TcpClientProofs --------------------------
(***************************************************************************)
(* Proofs about TcpClient for every set of calls and every environment.    *)
(***************************************************************************)
EXTENDS TcpClient, SequenceTheorems, TLAPS

(* Type correctness: every variable of the client and of the wire stays in *)
(* its set, for any number of calls and frames.                            *)
THEOREM TypeCorrect == Spec => []TypeOK
<1>1. Init => TypeOK
  <2> SUFFICES ASSUME Init PROVE TypeOK
    OBVIOUS
  <2>1. buffers \in [Ids -> Calls \cup {NoCall}] /\ signal \in Ids
    BY DEF Init, Ids
  <2>2. pushed \in 0..MaxPush
    BY ClientAssumption DEF Init
  <2> QED
    BY <2>1, <2>2 DEF Init, TypeOK
<1>2. TypeOK /\ [Next]_vars => TypeOK'
  <2> SUFFICES ASSUME TypeOK, [Next]_vars PROVE TypeOK'
    OBVIOUS
  <2> USE ClientAssumption
  <2>1. CASE async_connect
    BY <2>1 DEF async_connect, TypeOK, wireVars
  <2>2. CASE connected
    BY <2>2 DEF connected, TypeOK, wireVars
  <2>3. CASE connect_failed
    BY <2>3 DEF connect_failed, TypeOK, wireVars
  <2>4. ASSUME NEW c \in Calls, call(c) PROVE TypeOK'
    BY <2>4 DEF call, regist_resp_func, TypeOK, wireVars, Ids
  <2>5. CASE send_done
    BY <2>5 DEF send_done, wait, TypeOK
  <2>6. CASE send_failed
    <3>1. Head(sendq) \in Calls /\ Tail(sendq) \in Seq(Calls)
      BY <2>6 DEF send_failed, TypeOK
    <3>2. /\ waiters' \in Seq(Calls)
          /\ pc' \in [Calls -> {"idle", "sending", "waiting", "returned"}]
          /\ conn' \in {"none", "connecting", "open", "lost", "shut"}
      <4>1. CASE Head(sendq) \in BufferCalls
        <5>1. /\ waiters' = Append(waiters, Head(sendq)) /\ conn' = conn
              /\ pc' = [pc EXCEPT ![Head(sendq)] = "waiting"]
          BY <2>6, <4>1 DEF send_failed, wait
        <5> QED
          BY <3>1, <5>1 DEF TypeOK
      <4>2. CASE Head(sendq) \notin BufferCalls
        BY ZenonT(30), <2>6, <3>1, <4>2 DEF send_failed, TypeOK
      <4> QED
        BY <4>1, <4>2
    <3> QED
      BY <2>6, <3>1, <3>2 DEF send_failed, TypeOK, wireVars
  <2>7. CASE query
    <3>1. Head(inbox) \in Frames /\ Tail(inbox) \in Seq(Frames)
      BY <2>7 DEF query, TypeOK
    <3> DEFINE f == Head(inbox)
    <3>2. f.src \in Ids /\ f.body \in Bodies /\ 0 \in Ids
      BY <3>1 DEF Frames, Ids
    <3>3. \E v \in Ids : try_send(v)
      BY <2>7, <3>2 DEF query, filling_buffer
    <3>4. waiters' \in Seq(Calls) /\ woken' \in Calls \cup {NoCall} /\ signal' \in Ids
      <4>1. CASE waiters = <<>>
        BY <3>3, <4>1 DEF try_send, TypeOK
      <4>2. CASE waiters # <<>>
        <5>1. Head(waiters) \in Calls /\ Tail(waiters) \in Seq(Calls)
          BY <4>2 DEF TypeOK
        <5> QED
          BY ZenonT(30), <3>3, <4>2, <5>1 DEF try_send
      <4> QED
        BY <4>1, <4>2
    <3>5. got' \in [Calls -> Bodies \cup {NoCall}] /\ buffers' \in [Ids -> Calls \cup {NoCall}]
      BY ZenonT(30), <2>7, <3>2 DEF query, filling_buffer, TypeOK
    <3> QED
      BY <2>7, <3>1, <3>4, <3>5 DEF query, TypeOK
  <2>8. CASE query_end
    <3>1. inbox' \in Seq(Frames)
      <4>1. CASE inbox' = inbox
        BY <4>1 DEF TypeOK
      <4>2. CASE inbox # <<>> /\ inbox' = Tail(inbox)
        BY <4>2 DEF TypeOK
      <4> QED
        BY <2>8, <4>1, <4>2 DEF query_end
    <3> QED
      BY ZenonT(30), <2>8, <3>1 DEF query_end, TypeOK
  <2>9. CASE resume
    <3>1. woken \in Calls /\ signal' \in Ids
      BY <2>9 DEF resume, TypeOK, Ids
    <3>2. /\ waiters' \in Seq(Calls)
          /\ pc' \in [Calls -> {"idle", "sending", "waiting", "returned"}]
          /\ conn' \in {"none", "connecting", "open", "lost", "shut"}
      <4>1. CASE signal = Src[woken]
        BY ZenonT(30), <2>9, <3>1, <4>1 DEF resume, TypeOK
      <4>2. CASE signal # Src[woken]
        <5>1. waiters' = Append(waiters, woken) /\ conn' = conn /\ pc' = pc
          BY <2>9, <4>2 DEF resume
        <5> QED
          BY <3>1, <5>1 DEF TypeOK
      <4> QED
        BY <4>1, <4>2
    <3> QED
      BY <2>9, <3>1, <3>2 DEF resume, TypeOK, wireVars
  <2>10. ASSUME NEW i \in 1..Len(requests), reply(i) PROVE TypeOK'
    <3>1. requests[i] \in Calls /\ RemoveAt(requests, i) \in Seq(Calls)
      BY SMTT(30) DEF TypeOK, RemoveAt
    <3>2. [src |-> Src[requests[i]], body |-> requests[i]] \in Frames
      BY <3>1 DEF Frames, Ids, Bodies
    <3> QED
      BY SMTT(30), <2>10, <3>1, <3>2 DEF reply, TypeOK, clientVars
  <2>11. ASSUME NEW b \in PushBodies, push(b) PROVE TypeOK'
    <3>1. [src |-> 0, body |-> b] \in Frames
      BY DEF Frames, Ids, Bodies
    <3> QED
      BY <2>11, <3>1 DEF push, TypeOK, clientVars
  <2>12. CASE peer_close
    BY <2>12 DEF peer_close, TypeOK, wireVars
  <2>13. CASE UNCHANGED vars
    BY <2>13 DEF vars, clientVars, wireVars, TypeOK
  <2> QED
    BY SMTT(30), <2>1, <2>2, <2>3, <2>4, <2>5, <2>6, <2>7, <2>8, <2>9, <2>10, <2>11,
       <2>12, <2>13 DEF Next, ClientNext, PeerNext
<1> QED
  BY <1>1, <1>2, PTL DEF Spec

-----------------------------------------------------------------------------
(* The elements of a queue after an element joined it or the first left.   *)
LEMMA AppendElements ==
    ASSUME NEW S, NEW s \in Seq(S), NEW e \in S
    PROVE  /\ Len(Append(s, e)) = Len(s) + 1
           /\ \A i \in 1..(Len(s) + 1) :
                Append(s, e)[i] = IF i \in 1..Len(s) THEN s[i] ELSE e
OBVIOUS

LEMMA TailElements ==
    ASSUME NEW S, NEW s \in Seq(S), s # <<>>
    PROVE  /\ Len(s) \in Nat /\ Len(s) > 0 /\ Head(s) = s[1] /\ Head(s) \in S
           /\ Len(Tail(s)) = Len(s) - 1
           /\ \A i \in 1..(Len(s) - 1) : i + 1 \in 1..Len(s) /\ Tail(s)[i] = s[i + 1]
OBVIOUS

LEMMA RemoveIndexed ==
    ASSUME NEW S, NEW s \in Seq(S), NEW i \in 1..Len(s)
    PROVE  /\ RemoveAt(s, i) \in Seq(S) /\ Len(RemoveAt(s, i)) = Len(s) - 1
           /\ \A j \in 1..(Len(s) - 1) :
                RemoveAt(s, i)[j] = IF j <= i - 1 THEN s[j] ELSE s[j + 1]
<1> DEFINE a == SubSeq(s, 1, i - 1)
           b == SubSeq(s, i + 1, Len(s))
<1>1. /\ a \in Seq(S) /\ Len(a) = i - 1
      /\ \A j \in 1..(i - 1) : a[j] = s[j]
  OBVIOUS
<1>2. /\ b \in Seq(S) /\ Len(b) = Len(s) - i
      /\ \A j \in 1..(Len(s) - i) : b[j] = s[i + j]
  OBVIOUS
<1>3. RemoveAt(s, i) = a \o b
  BY DEF RemoveAt
<1> HIDE DEF a, b
<1>4. /\ a \o b \in Seq(S) /\ Len(a \o b) = Len(s) - 1
      /\ \A j \in 1..(Len(s) - 1) : (a \o b)[j] = IF j <= i - 1 THEN a[j] ELSE b[j - (i - 1)]
  <2>1. /\ a \o b \in Seq(S) /\ Len(a \o b) = Len(a) + Len(b)
        /\ \A j \in 1..(Len(a) + Len(b)) :
             (a \o b)[j] = IF j <= Len(a) THEN a[j] ELSE b[j - Len(a)]
    BY ZenonT(30), <1>1, <1>2, ConcatProperties
  <2>2. Len(a) + Len(b) = Len(s) - 1
    BY <1>1, <1>2
  <2> QED
    BY <1>1, <2>1, <2>2
<1>5. \A j \in 1..(Len(s) - 1) : (a \o b)[j] = IF j <= i - 1 THEN s[j] ELSE s[j + 1]
  BY <1>1, <1>2, <1>4
<1> QED
  BY <1>3, <1>4, <1>5, Zenon

LEMMA RemoveElements ==
    ASSUME NEW S, NEW s \in Seq(S), NEW i \in 1..Len(s)
    PROVE  \A j \in 1..Len(RemoveAt(s, i)) :
               \E k \in 1..Len(s) : RemoveAt(s, i)[j] = s[k]
<1>0. Len(s) \in Nat
  OBVIOUS
<1>1. Len(RemoveAt(s, i)) = Len(s) - 1
  BY RemoveIndexed
<1> SUFFICES ASSUME NEW j \in 1..(Len(s) - 1)
             PROVE  \E k \in 1..Len(s) : RemoveAt(s, i)[j] = s[k]
  BY <1>1
<1>2. RemoveAt(s, i)[j] = IF j <= i - 1 THEN s[j] ELSE s[j + 1]
  BY RemoveIndexed
<1>3. j \in 1..Len(s) /\ j + 1 \in 1..Len(s)
  BY <1>0
<1> QED
  BY <1>2, <1>3, Zenon

(* What the code relies on for a call to get its own answer.               *)

(* A request that reached the peer: its call has left async_send without   *)
(* an error.                                                               *)
Sent(c) == pc[c] \in {"waiting", "returned"} /\ c \notin failed

(* A frame is the answer to a request the peer got, or carries src 0.      *)
FrameOK(f) ==
    /\ f.body \in Calls => f.src = Src[f.body] /\ Sent(f.body)
    /\ f.body \notin Calls => f.src = 0

Registered == \A s \in Ids : buffers[s] # NoCall => Src[buffers[s]] = s

WireOK ==
    /\ \A i \in 1..Len(inbox) : FrameOK(inbox[i])
    /\ \A i \in 1..Len(requests) : Sent(requests[i])

SendingOK ==
    /\ \A i \in 1..Len(sendq) : pc[sendq[i]] = "sending"
    /\ \A i, j \in 1..Len(sendq) : i # j => sendq[i] # sendq[j]

ChannelOK ==
    /\ \A i \in 1..Len(waiters) : pc[waiters[i]] \in {"waiting", "returned"}
    /\ woken # NoCall => pc[woken] \in {"waiting", "returned"}
    /\ (woken # NoCall /\ signal = Src[woken]) => got[woken] = woken

Consumed ==
    \A c \in Calls :
        got[c] # NoCall => got[c] = c /\ Sent(c) /\ buffers[Src[c]] # c

(* A call whose send failed has left async_send.                           *)
FailedOK == \A c \in failed : pc[c] \in {"waiting", "returned"}

IInv == /\ Registered /\ WireOK /\ SendingOK /\ ChannelOK /\ Consumed
        /\ OwnResponse /\ FailedOK

(* The invariant says what is claimed: a registered callback a frame is    *)
(* meant for belongs to a call that still waits.                           *)
LEMMA InvImpliesAlive ==
    ASSUME TypeOK, DistinctSrc, IInv
    PROVE  CallbackAlive
<1> SUFFICES ASSUME NEW i \in 1..Len(inbox), buffers[inbox[i].src] # NoCall,
                    inbox[i].body # Empty
             PROVE  pc[buffers[inbox[i].src]] = "waiting"
  BY DEF CallbackAlive
<1> DEFINE f == inbox[i]
           c == buffers[f.src]
<1>1. f \in Frames /\ FrameOK(f)
  BY DEF TypeOK, IInv, WireOK
<1>2. f.src \in Ids /\ c \in Calls
  BY <1>1 DEF Frames, TypeOK
<1>3. Src[c] = f.src
  BY <1>2 DEF IInv, Registered
<1>4. f.body = c
  BY <1>1, <1>2, <1>3 DEF FrameOK, DistinctSrc
<1>5. Sent(c)
  BY <1>1, <1>2, <1>4 DEF FrameOK
<1>6. pc[c] # "returned"
  BY <1>2, <1>3, <1>5, ClientAssumption DEF IInv, OwnResponse, Consumed, Sent
<1> QED
  BY <1>5, <1>6 DEF Sent

(* Steps that touch neither the calls nor the map nor the channel, and at  *)
(* most drop the first frame.                                              *)
LEMMA QuietStep ==
    ASSUME TypeOK, IInv,
           UNCHANGED <<pc, failed, buffers, got, sendq, waiters, woken, signal, requests>>,
           inbox' = inbox \/ (inbox # <<>> /\ inbox' = Tail(inbox))
    PROVE  IInv'
<1>1. Registered' /\ SendingOK' /\ ChannelOK' /\ Consumed' /\ OwnResponse'
  BY DEF IInv, Registered, SendingOK, ChannelOK, Consumed, OwnResponse, Sent
<1>4. FailedOK'
  BY DEF IInv, FailedOK
<1>2. \A i \in 1..Len(inbox') : \E j \in 1..Len(inbox) : inbox'[i] = inbox[j]
  <2>1. CASE inbox' = inbox
    BY <2>1
  <2>2. CASE inbox # <<>> /\ inbox' = Tail(inbox)
    <3> SUFFICES ASSUME NEW i \in 1..Len(inbox')
                 PROVE  \E j \in 1..Len(inbox) : inbox'[i] = inbox[j]
      OBVIOUS
    <3>1. i + 1 \in 1..Len(inbox) /\ inbox'[i] = inbox[i + 1]
      BY <2>2 DEF TypeOK
    <3> QED
      BY <3>1
  <2> QED
    BY <2>1, <2>2
<1>3. WireOK'
  BY <1>2 DEF IInv, WireOK, FrameOK, Sent
<1> QED
  BY <1>1, <1>3, <1>4 DEF IInv

(* The first call in async_send leaves it.                                 *)
LEMMA SendLeaves ==
    ASSUME TypeOK, SendingOK, sendq # <<>>, sendq' = Tail(sendq),
           NEW v, pc' = [pc EXCEPT ![Head(sendq)] = v]
    PROVE  SendingOK'
<1>1. /\ Head(sendq) = sendq[1] /\ Len(sendq) \in Nat /\ Len(sendq) > 0
      /\ Len(sendq') = Len(sendq) - 1
      /\ \A i \in 1..(Len(sendq) - 1) :
           i + 1 \in 1..Len(sendq) /\ sendq'[i] = sendq[i + 1]
  BY TailElements DEF TypeOK
<1>2. \A i \in 1..Len(sendq') : sendq[i + 1] # sendq[1] /\ sendq[i + 1] \in Calls
  <2>1. 1 \in 1..Len(sendq) /\ \A i \in 1..Len(sendq') : i + 1 # 1
    BY <1>1
  <2> QED
    BY <1>1, <2>1 DEF SendingOK, TypeOK
<1>3. \A i \in 1..Len(sendq') : pc'[sendq'[i]] = "sending"
  BY <1>1, <1>2 DEF SendingOK, TypeOK
<1>4. \A i, j \in 1..Len(sendq') : i # j => sendq'[i] # sendq'[j]
  BY <1>1 DEF SendingOK
<1> QED
  BY <1>3, <1>4 DEF SendingOK

(* A call joins the queue of the channel.                                  *)
LEMMA WaitJoins ==
    ASSUME TypeOK, ChannelOK, NEW c \in Calls,
           pc' = [pc EXCEPT ![c] = "waiting"], waiters' = Append(waiters, c),
           UNCHANGED <<got, woken, signal>>
    PROVE  ChannelOK'
<1>1. /\ Len(waiters') = Len(waiters) + 1
      /\ \A i \in 1..(Len(waiters) + 1) :
           waiters'[i] = IF i \in 1..Len(waiters) THEN waiters[i] ELSE c
  BY AppendElements DEF TypeOK
<1>2. \A i \in 1..Len(waiters') : pc'[waiters'[i]] \in {"waiting", "returned"}
  BY <1>1 DEF ChannelOK, TypeOK
<1> QED
  BY <1>2 DEF ChannelOK, TypeOK

(* A frame joins those on their way to the client.                         *)
LEMMA FrameJoins ==
    ASSUME TypeOK, WireOK, NEW f \in Frames, FrameOK(f),
           inbox' = Append(inbox, f), UNCHANGED <<pc, failed>>,
           \A j \in 1..Len(requests') :
               \E k \in 1..Len(requests) : requests'[j] = requests[k]
    PROVE  WireOK'
<1>1. inbox \in Seq(Frames)
  BY DEF TypeOK
<1>2. \A j \in 1..Len(inbox') :
         inbox'[j] = f \/ \E k \in 1..Len(inbox) : inbox'[j] = inbox[k]
  BY <1>1, AppendElements
<1> QED
  BY <1>2 DEF WireOK, FrameOK, Sent

(* A request leaves those the peer has not answered.                       *)
LEMMA RequestLeaves ==
    ASSUME TypeOK, NEW i \in 1..Len(requests)
    PROVE  \A j \in 1..Len(RemoveAt(requests, i)) :
               \E k \in 1..Len(requests) : RemoveAt(requests, i)[j] = requests[k]
<1>1. PICK s \in Seq(Calls) : s = requests
  BY DEF TypeOK
<1>2. i \in 1..Len(s)
  BY <1>1
<1>3. \A j \in 1..Len(RemoveAt(s, i)) : \E k \in 1..Len(s) : RemoveAt(s, i)[j] = s[k]
  BY <1>2, RemoveElements
<1> QED
  BY <1>1, <1>3

(* The invariant is inductive.                                             *)
LEMMA InvStep ==
    ASSUME TypeOK, TypeOK', DistinctSrc, IInv, [Next]_vars
    PROVE  IInv'
<1> USE ClientAssumption
<1>1. CASE async_connect
  BY <1>1, QuietStep DEF async_connect, wireVars
<1>2. CASE connected
  BY <1>2, QuietStep DEF connected, wireVars
<1>3. CASE connect_failed
  BY <1>3, QuietStep DEF connect_failed, wireVars
<1>4. ASSUME NEW c \in Calls, call(c) PROVE IInv'
  <2>1. /\ pc[c] = "idle" /\ pc' = [pc EXCEPT ![c] = "sending"]
        /\ buffers' = [buffers EXCEPT ![Src[c]] = c] /\ sendq' = Append(sendq, c)
        /\ UNCHANGED <<failed, got, waiters, woken, signal, requests, inbox>>
    BY <1>4 DEF call, regist_resp_func, wireVars
  <2>2. Src[c] \in Ids /\ got[c] = NoCall
    BY <2>1 DEF IInv, Consumed, Sent, Ids
  <2>3. \A d \in Calls : Sent(d) => Sent(d)'
    BY <2>1 DEF Sent, TypeOK
  <2>4. Registered'
    BY SMTT(30), <2>1, <2>2 DEF IInv, Registered, TypeOK
  <2>5. WireOK'
    BY SMTT(30), <2>1, <2>3 DEF IInv, WireOK, FrameOK, TypeOK
  <2>6. SendingOK'
    <3>1. \A i \in 1..Len(sendq) : sendq[i] # c
      BY <2>1 DEF IInv, SendingOK
    <3>2. /\ Len(sendq') = Len(sendq) + 1
          /\ \A i \in 1..(Len(sendq) + 1) :
               sendq'[i] = IF i \in 1..Len(sendq) THEN sendq[i] ELSE c
      BY <2>1, AppendElements DEF TypeOK
    <3>3. Len(sendq) \in Nat /\ \A i \in 1..Len(sendq) : sendq[i] \in Calls
      BY DEF TypeOK
    <3>4. \A i \in 1..Len(sendq') : pc'[sendq'[i]] = "sending"
      BY SMTT(30), <2>1, <3>1, <3>2, <3>3 DEF IInv, SendingOK, TypeOK
    <3>5. \A i, j \in 1..Len(sendq') : i # j => sendq'[i] # sendq'[j]
      BY SMTT(30), <3>1, <3>2, <3>3 DEF IInv, SendingOK
    <3> QED
      BY <3>4, <3>5 DEF SendingOK
  <2>7. ChannelOK'
    BY <2>1 DEF IInv, ChannelOK, TypeOK
  <2>8. Consumed'
    BY SMTT(30), <2>1, <2>2, <2>3 DEF IInv, Consumed, TypeOK, DistinctSrc
  <2>9. OwnResponse' /\ FailedOK'
    BY <2>1 DEF IInv, OwnResponse, FailedOK, TypeOK
  <2> QED
    BY SMTT(30), <2>4, <2>5, <2>6, <2>7, <2>8, <2>9 DEF IInv
<1>5. CASE send_done
  <2>0. PICK c \in Calls : c = Head(sendq)
    BY SMTT(30), <1>5, TailElements DEF send_done, TypeOK
  <2>1. /\ sendq # <<>> /\ pc[c] = "sending" /\ sendq' = Tail(sendq)
        /\ pc' = [pc EXCEPT ![c] = "waiting"] /\ waiters' = Append(waiters, c)
        /\ requests' = requests \/ requests' = Append(requests, c)
        /\ UNCHANGED <<failed, buffers, got, woken, signal, inbox>>
    BY <1>5, <2>0, TailElements DEF send_done, wait, TypeOK, IInv, SendingOK
  <2>2. c \notin failed
    BY <2>1 DEF IInv, FailedOK
  <2>3. SendingOK'
    BY ZenonT(30), <2>0, <2>1, SendLeaves DEF IInv
  <2>4. (\A d \in Calls : Sent(d) => Sent(d)') /\ Sent(c)'
    BY <2>1, <2>2 DEF Sent, TypeOK
  <2>5. WireOK'
    <3>1. (\A i \in 1..Len(requests) : Sent(requests[i]))'
      <4>1. CASE requests' = requests
        <5>1. \A k \in 1..Len(requests) : requests[k] \in Calls /\ Sent(requests[k])
          BY DEF IInv, WireOK, TypeOK
        <5> QED
          BY SMTT(30), <2>4, <4>1, <5>1
      <4>2. CASE requests' = Append(requests, c)
        <5>1. requests \in Seq(Calls)
          BY DEF TypeOK
        <5>2. \A i \in 1..Len(requests') :
                 requests'[i] = c \/ \E k \in 1..Len(requests) : requests'[i] = requests[k]
          BY <4>2, <5>1, AppendElements
        <5>3. \A k \in 1..Len(requests) : requests[k] \in Calls /\ Sent(requests[k])
          BY <5>1 DEF IInv, WireOK
        <5> QED
          BY SMTT(30), <2>4, <5>2, <5>3
      <4> QED
        BY SMTT(30), <2>1, <4>1, <4>2
    <3> QED
      BY SMTT(30), <2>1, <2>4, <3>1 DEF IInv, WireOK, FrameOK, TypeOK
  <2>6. ChannelOK'
    BY ZenonT(30), <2>1, WaitJoins DEF IInv
  <2>7. Registered' /\ Consumed' /\ OwnResponse' /\ FailedOK'
    BY <2>1, <2>4 DEF IInv, Registered, Consumed, OwnResponse, FailedOK, TypeOK
  <2> QED
    BY SMTT(30), <2>3, <2>5, <2>6, <2>7 DEF IInv
<1>6. CASE send_failed
  <2> DEFINE c == Head(sendq)
  <2>1. /\ sendq # <<>> /\ c \in Calls /\ pc[c] = "sending" /\ sendq' = Tail(sendq)
        /\ failed' = failed \cup {c}
        /\ UNCHANGED <<buffers, got, woken, signal, requests, inbox>>
    BY <1>6, TailElements DEF send_failed, TypeOK, IInv, SendingOK, wireVars
  <2>2. \/ pc' = [pc EXCEPT ![c] = "waiting"] /\ waiters' = Append(waiters, c)
        \/ pc' = [pc EXCEPT ![c] = "returned"] /\ waiters' = waiters
    BY <1>6 DEF send_failed, wait
  <2>3. \A d \in Calls : Sent(d) => Sent(d)' /\ d # c
    BY <2>1, <2>2 DEF Sent, TypeOK
  <2>4. SendingOK'
    BY ZenonT(30), <2>1, <2>2, SendLeaves DEF IInv
  <2>5. WireOK'
    BY SMTT(30), <2>1, <2>3 DEF IInv, WireOK, FrameOK, TypeOK
  <2>6. ChannelOK'
    <3>1. CASE pc' = [pc EXCEPT ![c] = "waiting"] /\ waiters' = Append(waiters, c)
      BY ZenonT(30), <2>1, <3>1, WaitJoins DEF IInv
    <3>2. CASE pc' = [pc EXCEPT ![c] = "returned"] /\ waiters' = waiters
      BY <2>1, <3>2 DEF IInv, ChannelOK, TypeOK
    <3> QED
      BY <2>2, <3>1, <3>2
  <2>7. Registered' /\ Consumed'
    BY SMTT(30), <2>1, <2>3 DEF IInv, Registered, Consumed, TypeOK
  <2>8. OwnResponse' /\ FailedOK'
    BY <2>1, <2>2, SMTT(30) DEF IInv, Consumed, Sent, OwnResponse, FailedOK, TypeOK
  <2> QED
    BY <2>4, <2>5, <2>6, <2>7, <2>8 DEF IInv
<1>7. CASE query
  <2>0. PICK f \in Frames : f = Head(inbox) /\ FrameOK(f)
    BY <1>7, TailElements DEF query, TypeOK, IInv, WireOK
  <2>1. /\ inbox # <<>> /\ inbox' = Tail(inbox) /\ woken = NoCall
        /\ filling_buffer(f)
        /\ UNCHANGED <<pc, failed, sendq, requests>>
    BY SMTT(30), <1>7, <2>0 DEF query
  <2>2. f.src \in Ids /\ buffers[f.src] \in Calls \cup {NoCall}
    BY SMTT(30) DEF Frames, TypeOK
  <2>3. WireOK'
    BY SMTT(30), <2>1, TailElements DEF IInv, WireOK, FrameOK, Sent, TypeOK
  <2>4. SendingOK' /\ FailedOK'
    BY SMTT(30), <2>1 DEF IInv, SendingOK, FailedOK
  <2>5. ASSUME NEW v, try_send(v)
        PROVE  /\ (\A i \in 1..Len(waiters) : pc[waiters[i]] \in {"waiting", "returned"})'
               /\ woken' # NoCall => /\ woken' \in Calls /\ signal' = v
                                     /\ pc'[woken'] \in {"waiting", "returned"}
    <3>1. CASE waiters = <<>>
      BY SMTT(30), <2>1, <2>5, <3>1 DEF try_send, IInv, ChannelOK
    <3>2. CASE waiters # <<>>
      <4>1. /\ Head(waiters) = waiters[1] /\ Head(waiters) \in Calls
            /\ 1 \in 1..Len(waiters) /\ Len(Tail(waiters)) = Len(waiters) - 1
            /\ \A i \in 1..(Len(waiters) - 1) :
                 i + 1 \in 1..Len(waiters) /\ Tail(waiters)[i] = waiters[i + 1]
        BY <3>2, TailElements DEF TypeOK
      <4>2. woken' = Head(waiters) /\ signal' = v /\ waiters' = Tail(waiters)
        BY <2>5, <3>2 DEF try_send
      <4> QED
        BY SMTT(30), <2>1, <4>1, <4>2 DEF IInv, ChannelOK
    <3> QED
      BY SMTT(30), <3>1, <3>2
  <2>6. CASE buffers[f.src] = NoCall
    <3>1. try_send(0) /\ UNCHANGED <<got, buffers>>
      BY SMTT(30), <2>1, <2>6 DEF filling_buffer
    <3>2. ChannelOK'
      BY <2>5, <3>1, SMTT(30) DEF ChannelOK, DistinctSrc
    <3>3. Registered' /\ Consumed' /\ OwnResponse'
      BY <2>1, <3>1 DEF IInv, Registered, Consumed, OwnResponse, Sent
    <3> QED
      BY SMTT(30), <2>3, <2>4, <3>2, <3>3 DEF IInv
  <2>7. CASE buffers[f.src] # NoCall
    <3>1. PICK c \in Calls : c = buffers[f.src]
      BY SMTT(30), <2>2, <2>7
    <3>2. Src[c] = f.src /\ f.body = c /\ Sent(c)
      BY SMTT(30), <2>0, <2>2, <3>1 DEF IInv, Registered, FrameOK, DistinctSrc
    <3>3. /\ try_send(f.src) /\ got' = [got EXCEPT ![c] = c]
          /\ buffers' = [buffers EXCEPT ![f.src] = NoCall]
      BY <2>1, <2>7, <3>1, <3>2, SMTT(30) DEF filling_buffer
    <3>4. ChannelOK'
      BY SMTT(30), <2>5, <3>2, <3>3 DEF ChannelOK, DistinctSrc, TypeOK
    <3>5. Registered'
      BY SMTT(30), <3>3 DEF IInv, Registered, TypeOK
    <3>6. Consumed'
      BY <2>1, <2>2, <3>2, <3>3, SMTT(30) DEF IInv, Consumed, Sent, DistinctSrc, TypeOK
    <3>7. OwnResponse'
      BY SMTT(30), <2>1, <3>2, <3>3 DEF IInv, OwnResponse, Sent, TypeOK
    <3> QED
      BY SMTT(30), <2>3, <2>4, <3>4, <3>5, <3>6, <3>7 DEF IInv
  <2> QED
    BY SMTT(30), <2>6, <2>7
<1>8. CASE query_end
  BY <1>8, QuietStep DEF query_end
<1>9. CASE resume
  <2>0. PICK c \in Calls : c = woken
    BY <1>9 DEF resume, TypeOK
  <2>1. /\ woken' = NoCall
        /\ UNCHANGED <<failed, buffers, got, sendq, requests, inbox>>
    BY <1>9 DEF resume, wireVars
  <2>2. pc[c] \in {"waiting", "returned"} /\ c # NoCall
    BY <2>0 DEF IInv, ChannelOK
  <2>3. CASE signal = Src[c]
    <3>1. pc' = [pc EXCEPT ![c] = "returned"] /\ waiters' = waiters
      BY SMTT(30), <1>9, <2>0, <2>3 DEF resume
    <3>2. \A d \in Calls : Sent(d) => Sent(d)'
      BY SMTT(30), <2>1, <3>1 DEF Sent, TypeOK
    <3>3. got[c] = c /\ Sent(c)
      BY <2>0, <2>2, <2>3, SMTT(30) DEF IInv, ChannelOK, Consumed
    <3>4. WireOK'
      BY <2>1, <3>2, SMTT(30) DEF IInv, WireOK, FrameOK, TypeOK
    <3>5. SendingOK'
      <4>1. \A i \in 1..Len(sendq) : sendq[i] \in Calls /\ sendq[i] # c
        BY SMTT(30), <2>2 DEF IInv, SendingOK, TypeOK
      <4> QED
        BY SMTT(30), <2>1, <3>1, <4>1 DEF IInv, SendingOK, TypeOK
    <3>6. ChannelOK'
      BY <2>1, <3>1 DEF IInv, ChannelOK, TypeOK
    <3>7. Registered' /\ Consumed' /\ FailedOK'
      BY SMTT(30), <2>1, <3>1, <3>2 DEF IInv, Registered, Consumed, FailedOK, TypeOK
    <3>8. OwnResponse'
      BY SMTT(30), <2>1, <3>1, <3>3 DEF IInv, OwnResponse, Sent, TypeOK
    <3> QED
      BY SMTT(30), <3>4, <3>5, <3>6, <3>7, <3>8 DEF IInv
  <2>4. CASE signal # Src[c]
    <3>1. pc' = pc /\ waiters' = Append(waiters, c)
      BY SMTT(30), <1>9, <2>0, <2>4 DEF resume
    <3>2. /\ Len(waiters') = Len(waiters) + 1
          /\ \A i \in 1..(Len(waiters) + 1) :
               waiters'[i] = IF i \in 1..Len(waiters) THEN waiters[i] ELSE c
      BY <3>1, AppendElements, SMTT(30) DEF TypeOK
    <3>3. ChannelOK'
      BY <2>1, <2>2, <3>1, <3>2, SMTT(30) DEF IInv, ChannelOK
    <3>4. WireOK' /\ SendingOK' /\ FailedOK'
      BY SMTT(30), <2>1, <3>1 DEF IInv, WireOK, FrameOK, Sent, SendingOK, FailedOK
    <3>5. Registered' /\ Consumed' /\ OwnResponse'
      BY <2>1, <3>1, SMTT(30) DEF IInv, Registered, Consumed, Sent, OwnResponse
    <3> QED
      BY SMTT(30), <3>3, <3>4, <3>5 DEF IInv
  <2> QED
    BY SMTT(30), <2>3, <2>4
<1>10. ASSUME NEW i \in 1..Len(requests), reply(i) PROVE IInv'
  <2>1. PICK c \in Calls : c = requests[i] /\ Sent(c)
    BY SMTT(30) DEF TypeOK, IInv, WireOK
  <2>2. PICK f \in Frames : f = [src |-> Src[c], body |-> c] /\ FrameOK(f)
    <3>1. [src |-> Src[c], body |-> c] \in Frames
      BY DEF Frames, Ids, Bodies
    <3>2. FrameOK([src |-> Src[c], body |-> c])
      BY <2>1 DEF FrameOK
    <3> QED
      BY <3>1, <3>2
  <2>3. inbox' = Append(inbox, f) /\ requests' = RemoveAt(requests, i) /\ UNCHANGED clientVars
    BY SMTT(30), <1>10, <2>1, <2>2 DEF reply
  <2>4. \A j \in 1..Len(RemoveAt(requests, i)) :
           \E k \in 1..Len(requests) : RemoveAt(requests, i)[j] = requests[k]
    BY RequestLeaves
  <2>5. WireOK'
    <3>1. FrameOK(f) /\ inbox' = Append(inbox, f) /\ pc' = pc /\ failed' = failed /\ WireOK
      BY <2>2, <2>3 DEF IInv, clientVars
    <3>2. \A j \in 1..Len(requests') : \E k \in 1..Len(requests) : requests'[j] = requests[k]
      BY SMTT(30), <2>3, <2>4
    <3> QED
      BY SMTT(30), <3>1, <3>2, FrameJoins
  <2> QED
    BY <2>3, <2>5, SMTT(30) DEF IInv, clientVars, Registered, SendingOK, ChannelOK, Consumed,
       OwnResponse, FailedOK, Sent
<1>11. ASSUME NEW b \in PushBodies, push(b) PROVE IInv'
  <2>1. PICK f \in Frames : f = [src |-> 0, body |-> b] /\ FrameOK(f)
    <3>1. [src |-> 0, body |-> b] \in Frames
      BY DEF Frames, Ids, Bodies
    <3>2. FrameOK([src |-> 0, body |-> b])
      BY DEF FrameOK
    <3> QED
      BY <3>1, <3>2
  <2>2. inbox' = Append(inbox, f) /\ UNCHANGED <<clientVars, requests>>
    BY SMTT(30), <1>11, <2>1 DEF push
  <2>3. WireOK'
    BY SMTT(30), <2>1, <2>2, FrameJoins DEF IInv, clientVars
  <2> QED
    BY <2>2, <2>3 DEF IInv, clientVars, Registered, SendingOK, ChannelOK, Consumed,
       OwnResponse, FailedOK, Sent
<1>12. CASE peer_close
  BY SMTT(30), <1>12, QuietStep DEF peer_close, wireVars
<1>13. CASE UNCHANGED vars
  BY SMTT(30), <1>13, QuietStep DEF vars, clientVars, wireVars
<1> QED
  BY SMTT(30), <1>1, <1>2, <1>3, <1>4, <1>5, <1>6, <1>7, <1>8, <1>9, <1>10, <1>11,
     <1>12, <1>13 DEF Next, ClientNext, PeerNext

LEMMA InvInit == Init => IInv
BY ClientAssumption DEF Init, IInv, Registered, WireOK, SendingOK, ChannelOK, Consumed,
   OwnResponse, FailedOK

(* With distinct ids, whatever the peer does and however many calls run at *)
(* once: a call returns with the answer to its own request or, when its    *)
(* send failed, with none; and a callback runs only while the locals of    *)
(* its caller are alive.                                                   *)
THEOREM ResponseCorrect ==
    ASSUME DistinctSrc
    PROVE  Spec => [](OwnResponse /\ CallbackAlive)
<1>1. TypeOK /\ TypeOK' /\ IInv /\ [Next]_vars => IInv'
  BY InvStep
<1>2. TypeOK /\ IInv => OwnResponse /\ CallbackAlive
  BY InvImpliesAlive DEF IInv
<1> QED
  BY <1>1, <1>2, InvInit, TypeCorrect, PTL DEF Spec

=============================================================================
