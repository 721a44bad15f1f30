--------------------------- MODULE TcpClientOrder ---------------------------
(***************************************************************************)
(* No wakeup is lost when the peer answers in the order it is asked, sends *)
(* nothing unasked and stays: although every answer wakes whoever is first *)
(* in the channel's queue, that is then the call the answer is for.        *)
(***************************************************************************)
EXTENDS TcpClientProofs

OrderlyPeer == InOrder /\ MaxPush = 0 /\ ~MayClose

Queued(c) == \E i \in 1..Len(waiters) : waiters[i] = c

Connected == conn \in {"none", "connecting", "open"} /\ failed = {}

(* The queue of the channel, the frames on their way and then the requests *)
(* not answered yet name the same calls in the same order.                 *)
Aligned ==
    /\ Len(waiters) = Len(inbox) + Len(requests)
    /\ \A i \in 1..Len(inbox) : inbox[i].src = Src[waiters[i]]
    /\ \A i \in 1..Len(inbox) : inbox[i].body = waiters[i]
    /\ \A j \in 1..Len(requests) : requests[j] = waiters[Len(inbox) + j]

DistinctWaiters == \A i, j \in 1..Len(waiters) : waiters[i] = waiters[j] => i = j

WaitingOK == \A c \in Calls : pc[c] = "waiting" <=> (woken = c \/ Queued(c))

Unanswered ==
    \A c \in Calls : (pc[c] = "sending" \/ Queued(c)) => buffers[Src[c]] = c

Signalled == woken # NoCall => signal = Src[woken] /\ ~Queued(woken)

OrderInv == /\ Connected /\ Aligned /\ DistinctWaiters /\ WaitingOK
            /\ Unanswered /\ Signalled

(* The queue after a call joined it, and after the first one left.         *)
LEMMA QueueGrows ==
    ASSUME TypeOK, NEW c \in Calls, waiters' = Append(waiters, c)
    PROVE  /\ Len(waiters') = Len(waiters) + 1 /\ Len(waiters) \in Nat
           /\ \A i \in 1..Len(waiters) : waiters'[i] = waiters[i]
           /\ waiters'[Len(waiters) + 1] = c
           /\ \A d : Queued(d)' <=> (Queued(d) \/ d = c)
<1>1. waiters \in Seq(Calls) /\ Len(waiters) \in Nat
  BY DEF TypeOK
<1>2. /\ Len(waiters') = Len(waiters) + 1
      /\ \A i \in 1..Len(waiters) : waiters'[i] = waiters[i]
      /\ waiters'[Len(waiters) + 1] = c
  BY <1>1, AppendElements
<1>3. \A d : Queued(d)' <=> (Queued(d) \/ d = c)
  BY <1>1, <1>2 DEF Queued
<1> QED
  BY <1>1, <1>2, <1>3

LEMMA QueueShrinks ==
    ASSUME TypeOK, DistinctWaiters, waiters # <<>>, waiters' = Tail(waiters)
    PROVE  /\ Len(waiters) \in Nat /\ Len(waiters) > 0
           /\ Len(waiters') = Len(waiters) - 1
           /\ \A i \in 1..(Len(waiters) - 1) : waiters'[i] = waiters[i + 1]
           /\ \A d : Queued(d)' <=> (Queued(d) /\ d # waiters[1])
<1>1. waiters \in Seq(Calls)
  BY DEF TypeOK
<1>2. /\ Len(waiters) \in Nat /\ Len(waiters) > 0 /\ Len(waiters') = Len(waiters) - 1
      /\ \A i \in 1..(Len(waiters) - 1) : waiters'[i] = waiters[i + 1]
  BY <1>1, TailElements
<1>3. ASSUME NEW d, Queued(d)' PROVE Queued(d) /\ d # waiters[1]
  <2>1. PICK i \in 1..(Len(waiters) - 1) : waiters[i + 1] = d
    BY <1>2, <1>3 DEF Queued
  <2>2. i + 1 \in 1..Len(waiters) /\ 1 \in 1..Len(waiters) /\ i + 1 # 1
    BY <1>2
  <2> QED
    BY <2>1, <2>2 DEF Queued, DistinctWaiters
<1>4. ASSUME NEW d, Queued(d), d # waiters[1] PROVE Queued(d)'
  <2>1. PICK i \in 1..Len(waiters) : waiters[i] = d
    BY <1>4 DEF Queued
  <2>2. i - 1 \in 1..(Len(waiters) - 1) /\ (i - 1) + 1 = i
    BY <1>2, <1>4, <2>1
  <2>3. waiters'[i - 1] = d
    BY <1>2, <2>1, <2>2
  <2> QED
    BY <1>2, <2>2, <2>3 DEF Queued
<1> QED
  BY <1>2, <1>3, <1>4

(* Steps that touch neither the calls nor the queues.                      *)
LEMMA OrderQuiet ==
    ASSUME OrderInv,
           UNCHANGED <<pc, failed, buffers, waiters, woken, signal, requests, inbox>>,
           conn' \in {"none", "connecting", "open"}
    PROVE  OrderInv'
BY DEF OrderInv, Connected, Aligned, DistinctWaiters, WaitingOK, Unanswered, Signalled, Queued

LEMMA OrderStep ==
    ASSUME OrderlyPeer, DistinctSrc, TypeOK, TypeOK', IInv, OrderInv, [Next]_vars
    PROVE  OrderInv'
<1>0. /\ NoCall \notin Calls /\ Src \in [Calls -> Nat]
      /\ waiters \in Seq(Calls) /\ inbox \in Seq(Frames) /\ requests \in Seq(Calls)
      /\ Len(waiters) \in Nat /\ Len(inbox) \in Nat /\ Len(requests) \in Nat
      /\ \A i \in 1..Len(waiters) : waiters[i] \in Calls
  BY SMTT(30), ClientAssumption DEF TypeOK
<1>1. CASE async_connect
  BY <1>1, OrderQuiet DEF async_connect, wireVars
<1>2. CASE connected
  BY <1>2, OrderQuiet DEF connected, wireVars
<1>3. CASE connect_failed \/ peer_close \/ (\E b \in PushBodies : push(b))
  BY <1>3 DEF connect_failed, peer_close, push, OrderlyPeer, TypeOK
<1>4. CASE send_failed
  BY <1>4 DEF send_failed, OrderInv, Connected
<1>5. CASE UNCHANGED vars
  <2>1. conn' \in {"none", "connecting", "open"}
    BY <1>5 DEF vars, clientVars, OrderInv, Connected
  <2> QED
    BY <1>5, <2>1, OrderQuiet DEF vars, clientVars, wireVars
<1>6. ASSUME NEW c \in Calls, call(c) PROVE OrderInv'
  <2>1. /\ pc[c] = "idle" /\ pc' = [pc EXCEPT ![c] = "sending"]
        /\ buffers' = [buffers EXCEPT ![Src[c]] = c]
        /\ UNCHANGED <<conn, failed, waiters, woken, signal, requests, inbox>>
    BY <1>6 DEF call, regist_resp_func, wireVars
  <2>2. Connected' /\ Aligned' /\ DistinctWaiters' /\ Signalled'
    BY ZenonT(30), <2>1 DEF OrderInv, Connected, Aligned, DistinctWaiters, Signalled, Queued
  <2>3. WaitingOK'
    BY <2>1 DEF OrderInv, WaitingOK, Queued, TypeOK
  <2>4. Unanswered'
    <3>1. \A d \in Calls : Src[d] \in Ids
      BY DEF Ids
    <3> QED
      BY <2>1, <3>1 DEF OrderInv, Unanswered, Queued, TypeOK, DistinctSrc
  <2> QED
    BY <2>2, <2>3, <2>4 DEF OrderInv

<1>7. CASE send_done
  <2>1. PICK c \in Calls : c = Head(sendq) /\ pc[c] = "sending"
    BY <1>7, TailElements DEF send_done, TypeOK, IInv, SendingOK
  <2>2. /\ pc' = [pc EXCEPT ![c] = "waiting"] /\ waiters' = Append(waiters, c)
        /\ requests' = Append(requests, c)
        /\ UNCHANGED <<conn, failed, buffers, woken, signal, inbox>>
    BY <1>7, <2>1 DEF send_done, wait, OrderInv, Connected
  <2>3. /\ Len(waiters') = Len(waiters) + 1
        /\ \A i \in 1..Len(waiters) : waiters'[i] = waiters[i]
        /\ waiters'[Len(waiters) + 1] = c
        /\ \A d : Queued(d)' <=> (Queued(d) \/ d = c)
    BY <2>2, QueueGrows
  <2>4. woken # c /\ ~Queued(c)
    BY <2>1 DEF OrderInv, WaitingOK
  <2>5. /\ Len(requests') = Len(requests) + 1
        /\ \A j \in 1..Len(requests) : requests'[j] = requests[j]
        /\ requests'[Len(requests) + 1] = c
    BY <1>0, <2>2, AppendElements
  <2>6. Aligned'
    <3>1. \A i \in 1..Len(inbox) : i \in 1..Len(waiters)
      BY <1>0 DEF OrderInv, Aligned
    <3>2. (\A i \in 1..Len(inbox) : inbox[i].src = Src[waiters[i]] /\ inbox[i].body = waiters[i])'
      BY <2>2, <2>3, <3>1 DEF OrderInv, Aligned
    <3>3. ASSUME NEW j \in 1..Len(requests') PROVE requests'[j] = waiters'[Len(inbox) + j]
      <4>1. CASE j \in 1..Len(requests)
        <5>1. Len(inbox) + j \in 1..Len(waiters)
          BY <1>0, <4>1 DEF OrderInv, Aligned
        <5> QED
          BY <2>3, <2>5, <4>1, <5>1 DEF OrderInv, Aligned
      <4>2. CASE j = Len(requests) + 1
        <5>1. Len(inbox) + j = Len(waiters) + 1
          BY <1>0, <4>2 DEF OrderInv, Aligned
        <5> QED
          BY SMTT(30), <2>3, <2>5, <4>2, <5>1
      <4> QED
        BY SMTT(30), <1>0, <2>5, <4>1, <4>2
    <3>4. Len(waiters') = Len(inbox') + Len(requests')
      BY SMTT(30), <1>0, <2>2, <2>3, <2>5 DEF OrderInv, Aligned
    <3> QED
      BY ZenonT(30), <2>2, <3>2, <3>3, <3>4 DEF Aligned
  <2>7. DistinctWaiters'
    <3>1. \A i \in 1..Len(waiters') : i \in 1..Len(waiters) \/ i = Len(waiters) + 1
      BY <1>0, <2>3
    <3>2. \A i \in 1..Len(waiters) : waiters[i] # c
      BY <2>4 DEF Queued
    <3> QED
      BY <2>3, <3>1, <3>2, Zenon DEF OrderInv, DistinctWaiters
  <2>8. WaitingOK'
    BY <2>2, <2>3, <2>4 DEF OrderInv, WaitingOK, TypeOK
  <2>9. Unanswered' /\ Signalled'
    BY SMTT(30), <2>1, <2>2, <2>3, <2>4 DEF OrderInv, Unanswered, Signalled, TypeOK
  <2> QED
    BY <2>2, <2>6, <2>7, <2>8, <2>9 DEF OrderInv, Connected
<1>8. CASE query
  <2>1. /\ inbox # <<>> /\ inbox' = Tail(inbox) /\ woken = NoCall
        /\ filling_buffer(inbox[1])
        /\ UNCHANGED <<conn, pc, failed, requests>>
    BY <1>8, <1>0, TailElements DEF query
  <2>2. /\ 1 \in 1..Len(inbox) /\ 1 \in 1..Len(waiters) /\ waiters # <<>>
        /\ Len(inbox') = Len(inbox) - 1
        /\ \A i \in 1..(Len(inbox) - 1) : i + 1 \in 1..Len(inbox) /\ inbox'[i] = inbox[i + 1]
    <3>1. /\ Len(inbox) > 0 /\ Len(inbox') = Len(inbox) - 1
          /\ \A i \in 1..(Len(inbox) - 1) : i + 1 \in 1..Len(inbox) /\ inbox'[i] = inbox[i + 1]
      BY <1>0, <2>1, TailElements
    <3>2. Len(waiters) > 0
      BY <1>0, <3>1 DEF OrderInv, Aligned
    <3> QED
      BY <1>0, <3>1, <3>2
  <2>3. PICK c \in Calls : c = waiters[1]
    BY <1>0, <2>2
  <2>4. Src[c] = inbox[1].src /\ buffers[Src[c]] = c /\ Queued(c)
    BY <2>2, <2>3 DEF OrderInv, Aligned, Unanswered, Queued
  <2>5. /\ buffers' = [buffers EXCEPT ![Src[c]] = NoCall] /\ try_send(Src[c])
    BY <1>0, <2>1, <2>4 DEF filling_buffer
  <2>6. woken' = c /\ signal' = Src[c] /\ waiters' = Tail(waiters)
    <3>1. Head(waiters) = waiters[1]
      BY <1>0, <2>2, TailElements
    <3> QED
      BY <2>2, <2>3, <2>5, <3>1 DEF try_send
  <2>7. /\ Len(waiters') = Len(waiters) - 1
        /\ \A i \in 1..(Len(waiters) - 1) : waiters'[i] = waiters[i + 1]
        /\ \A d : Queued(d)' <=> (Queued(d) /\ d # c)
    BY <2>2, <2>3, <2>6, QueueShrinks DEF OrderInv
  <2>8. Aligned'
    <3>1. \A i \in 1..Len(inbox') : i \in 1..(Len(waiters) - 1) /\ i \in 1..(Len(inbox) - 1)
      BY <1>0, <2>2 DEF OrderInv, Aligned
    <3>2. (\A i \in 1..Len(inbox) : inbox[i].src = Src[waiters[i]] /\ inbox[i].body = waiters[i])'
      BY <2>2, <2>7, <3>1 DEF OrderInv, Aligned
    <3>3. ASSUME NEW j \in 1..Len(requests') PROVE requests'[j] = waiters'[Len(inbox') + j]
      <4>1. /\ j \in 1..Len(requests) /\ Len(inbox') + j \in 1..(Len(waiters) - 1)
            /\ (Len(inbox') + j) + 1 = Len(inbox) + j
        BY SMTT(30), <1>0, <2>1, <2>2, <3>3 DEF OrderInv, Aligned
      <4>2. waiters'[Len(inbox') + j] = waiters[Len(inbox) + j]
        BY SMTT(30), <2>7, <4>1
      <4> QED
        BY SMTT(30), <2>1, <4>1, <4>2 DEF OrderInv, Aligned
    <3>4. Len(waiters') = Len(inbox') + Len(requests')
      BY <1>0, <2>1, <2>2, <2>7 DEF OrderInv, Aligned
    <3> QED
      BY <3>2, <3>3, <3>4 DEF Aligned
  <2>9. DistinctWaiters'
    <3> SUFFICES ASSUME NEW i \in 1..Len(waiters'), NEW j \in 1..Len(waiters'),
                        waiters'[i] = waiters'[j]
                 PROVE  i = j
      BY DEF DistinctWaiters
    <3>1. /\ i + 1 \in 1..Len(waiters) /\ j + 1 \in 1..Len(waiters)
          /\ i \in 1..(Len(waiters) - 1) /\ j \in 1..(Len(waiters) - 1)
      <4>1. Len(waiters') = Len(waiters) - 1 /\ Len(waiters) \in Nat
        BY <1>0, <2>7
      <4> QED
        BY <4>1
    <3>2. i + 1 = j + 1
      BY <2>7, <3>1, SMTT(30) DEF OrderInv, DistinctWaiters
    <3> QED
      BY <3>1, <3>2
  <2>10. WaitingOK' /\ Signalled'
    BY SMTT(30), <2>1, <2>4, <2>6, <2>7, <1>0 DEF OrderInv, WaitingOK, Signalled
  <2>11. Unanswered'
    <3>1. \A d \in Calls : Src[d] \in Ids /\ (d # c => Src[d] # Src[c])
      BY DEF Ids, DistinctSrc
    <3>2. pc[c] # "sending"
      BY <2>4 DEF OrderInv, WaitingOK
    <3> QED
      BY SMTT(30), <2>1, <2>5, <2>7, <3>1, <3>2 DEF OrderInv, Unanswered, TypeOK
  <2> QED
    BY SMTT(30), <2>1, <2>8, <2>9, <2>10, <2>11 DEF OrderInv, Connected
<1>9. CASE query_end
  <2>1. CASE inbox # <<>> /\ Head(inbox).body = Empty
    <3>1. Head(inbox) = inbox[1] /\ 1 \in 1..Len(inbox)
      BY <1>0, <2>1, TailElements
    <3>2. 1 \in 1..Len(waiters)
      BY <1>0, <3>1 DEF OrderInv, Aligned
    <3>3. Empty = waiters[1] /\ waiters[1] \in Calls
      BY <1>0, <2>1, <3>1, <3>2 DEF OrderInv, Aligned
    <3> QED
      BY <3>3, ClientAssumption
  <2>2. CASE inbox' = inbox
    <3>1. conn' \in {"none", "connecting", "open"}
      BY SMTT(30), <1>9 DEF query_end, OrderInv, Connected
    <3> QED
      BY SMTT(30), <1>9, <2>2, <3>1, OrderQuiet DEF query_end
  <2> QED
    BY <1>9, <2>1, <2>2 DEF query_end
<1>10. CASE resume
  <2>1. PICK c \in Calls : c = woken /\ signal = Src[c] /\ ~Queued(c)
    BY <1>10 DEF resume, TypeOK, OrderInv, Signalled
  <2>2. /\ pc' = [pc EXCEPT ![c] = "returned"] /\ woken' = NoCall /\ conn' = conn
        /\ UNCHANGED <<waiters, failed, buffers, requests, inbox>>
    BY <1>10, <2>1 DEF resume, wireVars, OrderInv, Connected
  <2>3. Connected' /\ Aligned' /\ DistinctWaiters' /\ Signalled'
    BY <2>2 DEF OrderInv, Connected, Aligned, DistinctWaiters, Signalled
  <2>4. WaitingOK'
    BY <1>0, <2>1, <2>2 DEF OrderInv, WaitingOK, Queued, TypeOK
  <2>5. Unanswered'
    BY <2>1, <2>2 DEF OrderInv, Unanswered, Queued, TypeOK
  <2> QED
    BY <2>3, <2>4, <2>5 DEF OrderInv
<1>11. ASSUME NEW i \in 1..Len(requests), reply(i) PROVE OrderInv'
  <2>1. i = 1 /\ requests' = RemoveAt(requests, 1) /\ UNCHANGED clientVars
    BY <1>11 DEF reply, OrderlyPeer
  <2>2. PICK f : f = [src |-> Src[requests[1]], body |-> requests[1]]
    BY ZenonT(30)
  <2>3. f \in Frames /\ f.src = Src[requests[1]] /\ f.body = requests[1]
    BY <1>0, <2>1, <2>2 DEF Frames, Ids, Bodies
  <2>4. inbox' = Append(inbox, f)
    BY <1>11, <2>1, <2>2 DEF reply
  <2>5. /\ Len(inbox') = Len(inbox) + 1
        /\ \A k \in 1..Len(inbox) : inbox'[k] = inbox[k]
        /\ inbox'[Len(inbox) + 1] = f
    BY <1>0, <2>3, <2>4, AppendElements
  <2>6. /\ 1 \in 1..Len(requests) /\ Len(requests') = Len(requests) - 1
        /\ \A j \in 1..(Len(requests) - 1) : requests'[j] = requests[j + 1]
    <3>1. 1 \in 1..Len(requests)
      BY <2>1
    <3>2. /\ Len(RemoveAt(requests, 1)) = Len(requests) - 1
          /\ \A j \in 1..(Len(requests) - 1) :
               RemoveAt(requests, 1)[j] = IF j <= 1 - 1 THEN requests[j] ELSE requests[j + 1]
      BY ZenonT(30), <1>0, <3>1, RemoveIndexed
    <3> QED
      BY <2>1, <3>1, <3>2
  <2>7. requests[1] = waiters[Len(inbox) + 1]
    BY <2>6 DEF OrderInv, Aligned
  <2>8. Aligned'
    <3>1. waiters' = waiters
      BY <2>1 DEF clientVars
    <3>2. ASSUME NEW k \in 1..Len(inbox')
          PROVE  inbox'[k].src = Src[waiters[k]] /\ inbox'[k].body = waiters[k]
      <4>1. CASE k \in 1..Len(inbox)
        BY <2>5, <4>1 DEF OrderInv, Aligned
      <4>2. CASE k = Len(inbox) + 1
        BY SMTT(30), <2>3, <2>5, <2>7, <4>2
      <4> QED
        BY SMTT(30), <1>0, <2>5, <4>1, <4>2
    <3>3. ASSUME NEW j \in 1..Len(requests') PROVE requests'[j] = waiters[Len(inbox') + j]
      <4>1. /\ j \in 1..(Len(requests) - 1) /\ j + 1 \in 1..Len(requests)
            /\ Len(inbox') + j = Len(inbox) + (j + 1)
        BY <1>0, <2>5, <2>6
      <4>2. requests'[j] = requests[j + 1]
        BY <2>6, <4>1
      <4>3. requests[j + 1] = waiters[Len(inbox) + (j + 1)]
        BY <4>1 DEF OrderInv, Aligned
      <4> QED
        BY SMTT(30), <4>1, <4>2, <4>3
    <3>4. Len(waiters) = Len(inbox') + Len(requests')
      BY <1>0, <2>5, <2>6 DEF OrderInv, Aligned
    <3> QED
      BY <3>1, <3>2, <3>3, <3>4 DEF Aligned
  <2>9. Connected' /\ DistinctWaiters' /\ WaitingOK' /\ Unanswered' /\ Signalled'
    BY <2>1 DEF clientVars, OrderInv, Connected, DistinctWaiters, WaitingOK, Unanswered,
       Signalled, Queued
  <2> QED
    BY <2>8, <2>9 DEF OrderInv
<1> QED
  BY SMTT(30), <1>1, <1>2, <1>3, <1>4, <1>5, <1>6, <1>7, <1>8, <1>9, <1>10, <1>11
     DEF Next, ClientNext, PeerNext

(* With a peer that answers in order and stays, an answer always wakes the *)
(* call it is for: no call is left waiting for a signal another one        *)
(* dropped (tcp.hpp, filling_buffer and wait).                             *)
THEOREM WakeupsInOrder ==
    ASSUME DistinctSrc, OrderlyPeer
    PROVE  Spec => []NoLostWakeup
<1>1. Init => OrderInv
  BY ClientAssumption DEF Init, OrderInv, Connected, Aligned, DistinctWaiters, WaitingOK,
     Unanswered, Signalled, Queued
<1>2. TypeOK /\ TypeOK' /\ IInv /\ OrderInv /\ [Next]_vars => OrderInv'
  BY OrderStep
<1>3. TypeOK /\ IInv /\ OrderInv => NoLostWakeup
  <2> SUFFICES ASSUME TypeOK, IInv, OrderInv, NEW c \in Calls,
                      pc[c] = "waiting", got[c] # NoCall
               PROVE  woken = c /\ signal = Src[c]
    BY DEF NoLostWakeup
  <2>1. ~Queued(c)
    BY DEF OrderInv, Unanswered, IInv, Consumed
  <2>2. woken = c /\ c # NoCall
    BY <2>1, ClientAssumption DEF OrderInv, WaitingOK
  <2> QED
    BY <2>2 DEF OrderInv, Signalled
<1>4. TypeOK /\ TypeOK' /\ IInv /\ [Next]_vars => IInv'
  BY InvStep
<1> QED
  BY <1>1, <1>2, <1>3, <1>4, InvInit, TypeCorrect, PTL DEF Spec


=============================================================================
