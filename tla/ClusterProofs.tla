--------------------------- MODULE ClusterProofs ---------------------------
(***************************************************************************)
(* Routing through gateway and serviced, for any number of backends,       *)
(* restarts, topics and requests: what the gateway accepts has a route,    *)
(* and a backend handles only what was asked of it.                        *)
(***************************************************************************)
EXTENDS Cluster, TLAPS

(* A route leads to a backend that has the topic.                          *)
Routes ==
    /\ contexts \in [Topics -> Backends \cup {None}]
    /\ \A t \in Topics : contexts[t] # None => t \in TopicsOf[contexts[t]]

Known == \A t \in told \cup gwTopics : t \in Topics /\ contexts[t] # None

(* A request under way: it names what was asked, and that has a route.     *)
Job(m) ==
    /\ m.call \in Calls /\ status[m.call] # "idle"
    /\ m.topic \in Topics /\ m.topic = asked[m.call] /\ contexts[m.topic] # None

UnderWay ==
    /\ status \in [Calls -> {"idle", "pending", "done", "failed"}]
    /\ asked \in [Calls -> Topics \cup {None}]
    /\ \A m \in hop : Job(m)
    /\ toServiced \in Seq([call : Calls, topic : Topics])
    /\ \A i \in 1..Len(toServiced) : Job(toServiced[i])
    /\ \A m \in hop : m \in [call : Calls, topic : Topics]

(* The request serviced is busy with, and what backends have handled.      *)
Forwarded ==
    /\ router \in [Backends \cup {Gateway} -> Topics \cup {None}]
    /\ fwd = [call |-> fwd.call, topic |-> fwd.topic, to |-> fwd.to, life |-> fwd.life, at |-> fwd.at]
    /\ fwd.at # "idle" =>
           /\ fwd.call \in Calls /\ status[fwd.call] # "idle"
           /\ fwd.topic = asked[fwd.call] /\ fwd.topic \in TopicsOf[fwd.to]
    /\ \A h \in handled :
           /\ h.call \in Calls /\ status[h.call] # "idle"
           /\ h.topic \in TopicsOf[h.by] /\ h.topic = asked[h.call]

IInv == Routes /\ Known /\ UnderWay /\ Forwarded

-----------------------------------------------------------------------------
(* Nothing is routed, asked or handled at the start.                       *)
LEMMA InitIInv == Init => IInv
<1> SUFFICES ASSUME Init PROVE IInv
  OBVIOUS
<1>1. Routes /\ Known
  BY DEF Init, Routes, Known
<1>2. UnderWay
  BY DEF Init, UnderWay
<1>3. Forwarded
  BY DEF Init, Forwarded, NoFwd
<1> QED BY <1>1, <1>2, <1>3 DEF IInv

callParts == <<told, gwTopics, router, asked, hop, toServiced, fwd, handled, status>>

(* put gives routes to topics of the backend that have none, and takes     *)
(* none away.                                                              *)
LEMMA PutKeeps ==
    ASSUME IInv, NEW b \in Backends, NEW T, T \subseteq TopicsOf[b],
           put(T, b) \/ UNCHANGED contexts, UNCHANGED callParts
    PROVE  IInv'
<1>1. /\ contexts' \in [Topics -> Backends \cup {None}]
      /\ \A t \in Topics : contexts[t] # None => contexts'[t] = contexts[t]
      /\ \A t \in Topics : contexts'[t] # contexts[t] => contexts'[t] = b /\ t \in T
  <2>1. CASE UNCHANGED contexts
    BY <2>1 DEF IInv, Routes
  <2>2. CASE put(T, b)
    BY <2>2 DEF IInv, Routes, put
  <2> QED BY <2>1, <2>2
<1>2. Routes'
  BY <1>1 DEF IInv, Routes
<1>3. Known'
  BY <1>1, ClusterAssumption DEF IInv, Known, Routes, callParts
<1>4. \A m : Job(m) => Job(m)'
  BY <1>1 DEF Job, callParts
<1>5. UnderWay'
  BY <1>4 DEF IInv, UnderWay, callParts
<1>6. Forwarded'
  BY DEF IInv, Forwarded, callParts
<1> QED BY <1>2, <1>3, <1>5, <1>6 DEF IInv

(* Registrations, connects and handshakes only put routes.                 *)
LEMMA RegistKeeps ==
    ASSUME IInv, NEW r \in Regs, ctx_regist(r) \/ connect(r) \/ ctx_shake(r)
    PROVE  IInv'
<1>1. r[1] \in Backends
  BY SMTT(30) DEF Regs
<1>2. UNCHANGED callParts
  BY ZenonT(30) DEF ctx_regist, connect, ctx_shake, callVars, gwVars, callParts
<1>3. CASE ctx_regist(r)
  BY <1>1, <1>2, <1>3, PutKeeps DEF ctx_regist
<1>4. CASE connect(r)
  <2>1. put({}, r[1]) \/ UNCHANGED contexts
    BY ZenonT(30), <1>4 DEF connect, shake, regist_done
  <2> QED BY SMTT(30), <1>1, <1>2, <2>1, PutKeeps
<1>5. CASE ctx_shake(r)
  <2>1. put(TopicsOf[r[1]], r[1])
    BY <1>5 DEF ctx_shake, regist_done
  <2> QED BY <1>1, <1>2, <2>1, PutKeeps
<1> QED BY <1>3, <1>4, <1>5

(* The gateway learns the topics that have routes (generate_topics).       *)
LEMMA LearnKeeps ==
    ASSUME IInv, shake_gateway \/ set_topics
    PROVE  IInv'
<1>1. UNCHANGED <<contexts, router, asked, hop, toServiced, fwd, handled, status>>
  BY DEF shake_gateway, set_topics, callVars, regVars
<1>2. Known'
  BY <1>1 DEF IInv, Known, shake_gateway, set_topics, generate_topics
<1>3. Routes'
  BY <1>1 DEF IInv, Routes
<1>4. \A m : Job(m) => Job(m)'
  BY <1>1 DEF Job
<1>5. UnderWay'
  BY <1>1, <1>4 DEF IInv, UnderWay
<1>6. Forwarded'
  BY <1>1 DEF IInv, Forwarded
<1> QED BY <1>2, <1>3, <1>5, <1>6 DEF IInv

(* serviced passes on the next request, to the backend of its topic.       *)
LEMMA TransferKeeps ==
    ASSUME IInv, transfer
    PROVE  IInv'
<1>1. PICK m : m = Head(toServiced)
  OBVIOUS
<1>2. PICK b : b = contexts[m.topic]
  OBVIOUS
<1>3. PICK c : do_complete(m, b, c)
  BY <1>1, <1>2 DEF transfer
<1>4. /\ toServiced # <<>> /\ toServiced' = Tail(toServiced)
      /\ UNCHANGED <<contexts, told, gwTopics, asked, hop, handled, status>>
  BY DEF transfer, gwVars
<1>5. /\ toServiced \in Seq([call : Calls, topic : Topics])
      /\ toServiced' \in Seq([call : Calls, topic : Topics])
      /\ m = toServiced[1] /\ 1 \in 1..Len(toServiced)
      /\ \A i \in 1..Len(toServiced') : i + 1 \in 1..Len(toServiced) /\ toServiced'[i] = toServiced[i + 1]
  BY <1>1, <1>4 DEF IInv, UnderWay
<1>6. Job(m)
  BY <1>5 DEF IInv, UnderWay
<1>7. b \in Backends /\ m.topic \in TopicsOf[b] /\ m.topic \in Topics
  BY <1>2, <1>6 DEF IInv, Routes, Job
<1>8. /\ router' = [router EXCEPT ![b] = m.topic] /\ router'[b] = m.topic
      /\ router' \in [Backends \cup {Gateway} -> Topics \cup {None}]
  BY <1>3, <1>7 DEF IInv, Forwarded, do_complete
<1>9. PICK l, st : fwd' = [call |-> m.call, topic |-> m.topic, to |-> b, life |-> l, at |-> st]
  BY ZenonT(30), <1>3, <1>8 DEF do_complete
<1>10. Routes' /\ Known'
  BY <1>4 DEF IInv, Routes, Known
<1>11. \A n : Job(n) => Job(n)'
  BY <1>4 DEF Job
<1>12. UnderWay'
  BY <1>4, <1>5, <1>11 DEF IInv, UnderWay
<1>13. Forwarded'
  <2>1. fwd'.call = m.call /\ fwd'.topic = m.topic /\ fwd'.to = b /\ fwd'.life = l /\ fwd'.at = st
    BY <1>9
  <2>2. fwd' = [call |-> fwd'.call, topic |-> fwd'.topic, to |-> fwd'.to, life |-> fwd'.life, at |-> fwd'.at]
    BY <1>9, <2>1
  <2>3. /\ fwd'.call \in Calls /\ status'[fwd'.call] # "idle"
        /\ fwd'.topic = asked'[fwd'.call] /\ fwd'.topic \in TopicsOf[fwd'.to]
    BY SMTT(30), <2>1, <1>4, <1>6, <1>7 DEF Job
  <2> QED BY SMTT(30), <2>2, <2>3, <1>4, <1>8 DEF IInv, Forwarded
<1> QED BY <1>10, <1>12, <1>13 DEF IInv

(* A backend handles the request, and its answer goes back.                *)
LEMMA ServeKeeps ==
    ASSUME IInv, serve \/ relay
    PROVE  IInv'
<1>1. UNCHANGED <<contexts, told, gwTopics, router, asked, hop, toServiced, status>>
  BY DEF serve, relay, regVars, gwVars
<1>2. Routes' /\ Known'
  BY <1>1 DEF IInv, Routes, Known
<1>3. \A m : Job(m) => Job(m)'
  BY <1>1 DEF Job
<1>4. UnderWay'
  BY SMTT(30), <1>1, <1>3 DEF IInv, UnderWay
<1>5. CASE relay
  BY SMTT(30), <1>1, <1>2, <1>4, <1>5 DEF IInv, Forwarded, relay, NoFwd
<1>6. CASE serve
  <2>1. /\ fwd.at = "sent" /\ fwd' = [fwd EXCEPT !.at = "answered"]
        /\ handled' = handled \cup {[call |-> fwd.call, topic |-> fwd.topic, by |-> fwd.to]}
    BY <1>6 DEF serve
  <2>2. fwd = [call |-> fwd.call, topic |-> fwd.topic, to |-> fwd.to, life |-> fwd.life, at |-> fwd.at]
    BY DEF IInv, Forwarded
  <2>3. /\ fwd' = [call |-> fwd.call, topic |-> fwd.topic, to |-> fwd.to, life |-> fwd.life, at |-> "answered"]
        /\ fwd'.call = fwd.call /\ fwd'.topic = fwd.topic /\ fwd'.to = fwd.to
        /\ fwd'.life = fwd.life /\ fwd'.at = "answered"
    BY <2>1, <2>2
  <2>4. /\ fwd.call \in Calls /\ status[fwd.call] # "idle"
        /\ fwd.topic = asked[fwd.call] /\ fwd.topic \in TopicsOf[fwd.to]
    BY <2>1 DEF IInv, Forwarded
  <2>5. Forwarded'
    BY SMTT(30), <1>1, <2>1, <2>3, <2>4 DEF IInv, Forwarded
  <2> QED BY <2>5, <1>2, <1>4 DEF IInv
<1> QED BY <1>5, <1>6

(* A request comes in: no other one asks for anything else.                *)
LEMMA RequestKeeps ==
    ASSUME IInv, NEW c \in Calls, NEW t \in Asks[c], request(c, t)
    PROVE  IInv'
<1>1. /\ status[c] = "idle" /\ status' = [status EXCEPT ![c] = "pending"]
      /\ asked' = [asked EXCEPT ![c] = t] /\ t \in Topics
      /\ UNCHANGED <<contexts, told, gwTopics, router, hop, toServiced, fwd, handled>>
  BY ClusterAssumption DEF request, regVars, gwVars
<1>2. Routes' /\ Known'
  BY <1>1 DEF IInv, Routes, Known
<1>3. /\ status' \in [Calls -> {"idle", "pending", "done", "failed"}]
      /\ asked' \in [Calls -> Topics \cup {None}]
      /\ \A d \in Calls : status[d] # "idle" => status'[d] # "idle" /\ asked'[d] = asked[d]
  BY <1>1 DEF IInv, UnderWay
<1>4. \A m : Job(m) => Job(m)'
  BY SMTT(30), <1>1, <1>3 DEF Job
<1>5. UnderWay'
  BY SMTT(30), <1>1, <1>3, <1>4 DEF IInv, UnderWay
<1>6. Forwarded'
  BY SMTT(30), <1>1, <1>3 DEF IInv, Forwarded
<1> QED BY <1>2, <1>5, <1>6 DEF IInv

(* The gateway takes a request whose topic it knows, or refuses it.        *)
LEMMA AcceptKeeps ==
    ASSUME IInv, NEW c \in Calls, accept(c)
    PROVE  IInv'
<1>1. /\ status[c] = "pending"
      /\ UNCHANGED <<contexts, told, gwTopics, asked, toServiced, fwd, handled>>
  BY DEF accept, regVars, gwVars
<1>2. Routes' /\ Known'
  BY <1>1 DEF IInv, Routes, Known
<1>3. CASE /\ asked[c] \in gwTopics /\ router' = [router EXCEPT ![Gateway] = asked[c]]
           /\ hop' = hop \cup {[call |-> c, topic |-> asked[c]]} /\ UNCHANGED status
  <2>1. asked[c] \in Topics /\ contexts[asked[c]] # None
    BY <1>3 DEF IInv, Known
  <2>2. PICK m : m = [call |-> c, topic |-> asked[c]]
    BY ZenonT(30)
  <2>3. Job(m) /\ m \in [call : Calls, topic : Topics] /\ hop' = hop \cup {m}
    BY <1>1, <1>3, <2>1, <2>2 DEF Job
  <2>4. \A n : Job(n) => Job(n)'
    BY <1>1, <1>3 DEF Job
  <2>5. UnderWay'
    BY <1>1, <1>3, <2>3, <2>4 DEF IInv, UnderWay
  <2>6. Forwarded'
    BY SMTT(30), <1>1, <1>3, <2>1 DEF IInv, Forwarded
  <2> QED BY <1>2, <2>5, <2>6 DEF IInv
<1>4. CASE status' = [status EXCEPT ![c] = "failed"] /\ UNCHANGED <<router, hop>>
  <2>1. /\ status' \in [Calls -> {"idle", "pending", "done", "failed"}]
        /\ \A d \in Calls : status[d] # "idle" => status'[d] # "idle"
    BY <1>4 DEF IInv, UnderWay
  <2>2. \A n : Job(n) => Job(n)'
    BY SMTT(30), <1>1, <2>1 DEF Job
  <2>3. UnderWay'
    BY SMTT(30), <1>1, <1>4, <2>1, <2>2 DEF IInv, UnderWay
  <2>4. Forwarded'
    BY <1>1, <1>4, <2>1 DEF IInv, Forwarded
  <2> QED BY <1>2, <2>3, <2>4 DEF IInv
<1> QED BY SMTT(30), <1>3, <1>4 DEF accept

(* A request reaches the executor of the connection to serviced.           *)
LEMMA HopKeeps ==
    ASSUME IInv, NEW m \in hop, async_call_buffer(m)
    PROVE  IInv'
<1>1. /\ hop' = hop \ {m} /\ toServiced' = Append(toServiced, m)
      /\ UNCHANGED <<contexts, told, gwTopics, router, asked, fwd, handled, status>>
  BY DEF async_call_buffer, regVars, gwVars
<1>2. Job(m) /\ m \in [call : Calls, topic : Topics]
  BY DEF IInv, UnderWay
<1>3. Routes' /\ Known'
  BY <1>1 DEF IInv, Routes, Known
<1>4. \A n : Job(n) => Job(n)'
  BY <1>1 DEF Job
<1>5. /\ toServiced' \in Seq([call : Calls, topic : Topics])
      /\ \A i \in 1..Len(toServiced') :
             toServiced'[i] = m \/ (i \in 1..Len(toServiced) /\ toServiced'[i] = toServiced[i])
  BY SMTT(30), <1>1, <1>2 DEF IInv, UnderWay
<1>6. UnderWay'
  BY SMTT(30), <1>1, <1>2, <1>4, <1>5 DEF IInv, UnderWay
<1>7. Forwarded'
  BY SMTT(30), <1>1 DEF IInv, Forwarded
<1> QED BY <1>3, <1>6, <1>7 DEF IInv

(* A call returns.                                                         *)
LEMMA WaitKeeps ==
    ASSUME IInv, NEW c \in Calls, wait(c)
    PROVE  IInv'
<1>1. /\ status' = [status EXCEPT ![c] = "done"]
      /\ UNCHANGED <<contexts, told, gwTopics, router, asked, hop, toServiced, fwd, handled>>
  BY DEF wait, regVars, gwVars
<1>2. Routes' /\ Known'
  BY <1>1 DEF IInv, Routes, Known
<1>3. /\ status' \in [Calls -> {"idle", "pending", "done", "failed"}]
      /\ \A d \in Calls : status[d] # "idle" => status'[d] # "idle"
  BY <1>1 DEF IInv, UnderWay
<1>4. \A n : Job(n) => Job(n)'
  BY SMTT(30), <1>1, <1>3 DEF Job
<1>5. UnderWay'
  BY SMTT(30), <1>1, <1>3, <1>4 DEF IInv, UnderWay
<1>6. Forwarded'
  BY <1>1, <1>3 DEF IInv, Forwarded
<1> QED BY <1>2, <1>5, <1>6 DEF IInv

(* Steps that touch nothing the argument is about.                         *)
LEMMA OtherKeeps ==
    ASSUME IInv, UNCHANGED <<contexts, callParts>>
    PROVE  IInv'
<1>1. Routes' /\ Known'
  BY DEF IInv, Routes, Known, callParts
<1>2. \A m : Job(m) => Job(m)'
  BY DEF Job, callParts
<1>3. UnderWay' /\ Forwarded'
  BY <1>2 DEF IInv, UnderWay, Forwarded, callParts
<1> QED BY <1>1, <1>3 DEF IInv

(* The invariant of routing, over all restarts and lost connections.       *)
THEOREM Invariant == Spec => []IInv
<1>1. IInv /\ [Next]_vars => IInv'
  <2> SUFFICES ASSUME IInv, [Next]_vars PROVE IInv'
    OBVIOUS
  <2>1. ASSUME NEW r \in Regs, ctx_regist(r) \/ connect(r) \/ ctx_shake(r) PROVE IInv'
    BY <2>1, RegistKeeps
  <2>2. CASE shake_gateway \/ set_topics
    BY <2>2, LearnKeeps
  <2>3. CASE transfer
    BY <2>3, TransferKeeps
  <2>4. CASE serve \/ relay
    BY <2>4, ServeKeeps
  <2>5. ASSUME NEW c \in Calls, accept(c) PROVE IInv'
    BY <2>5, AcceptKeeps
  <2>6. ASSUME NEW c \in Calls, wait(c) PROVE IInv'
    BY <2>6, WaitKeeps
  <2>7. ASSUME NEW m \in hop, async_call_buffer(m) PROVE IInv'
    BY SMTT(30), <2>7, HopKeeps
  <2>8. ASSUME NEW c \in Calls, NEW t \in Asks[c], request(c, t) PROVE IInv'
    BY <2>8, RequestKeeps
  <2>9. CASE regist_gateway \/ filling_buffer
    BY <2>9, OtherKeeps DEF regist_gateway, filling_buffer, regVars, gwVars, callVars, callParts
  <2>10. ASSUME NEW b \in Backends, srv_regist(b) \/ die(b) PROVE IInv'
    BY <2>10, OtherKeeps DEF srv_regist, die, regVars, gwVars, callVars, callParts
  <2>11. CASE UNCHANGED vars
    BY <2>11, OtherKeeps DEF vars, regVars, gwVars, callVars, callParts
  <2> QED BY SMTT(30), <2>1, <2>2, <2>3, <2>4, <2>5, <2>6, <2>7, <2>8, <2>9, <2>10, <2>11 DEF Next, Running
<1> QED BY <1>1, InitIInv, PTL DEF Spec

(* What the gateway accepts, serviced has a route for, and keeps one: for  *)
(* any number of backends, restarts and requests (context_reg::put,        *)
(* generate_topics).                                                       *)
THEOREM GatewayKnowsRoutes == Spec => []GatewayKnows
<1>1. IInv => GatewayKnows
  <2> SUFFICES ASSUME IInv PROVE GatewayKnows
    OBVIOUS
  <2>1. gwTopics \cup told \subseteq {t \in Topics : contexts[t] # None}
    BY DEF IInv, Known
  <2>2. \A i \in DOMAIN toServiced : i \in 1..Len(toServiced)
    BY DEF IInv, UnderWay
  <2> QED BY <2>1, <2>2 DEF IInv, UnderWay, Job, GatewayKnows
<1> QED BY <1>1, Invariant, PTL

(* A backend handles only requests for topics it has, under the topic the  *)
(* caller asked for, although the transfer contexts are shared by all      *)
(* requests (basic_transfer_context, attach_router).                       *)
THEOREM RoutedRight == Spec => []Routed
<1>1. IInv => Routed
  BY DEF IInv, Forwarded, Routed
<1> QED BY <1>1, Invariant, PTL
=============================================================================
