------------------------------ MODULE Cluster ------------------------------
(***************************************************************************)
(* The daemons together.  A backend (login, database) starts, connects to  *)
(* serviced and publishes itself; serviced connects back to it twice,      *)
(* shakes hands to learn its topics and puts one transfer context for all  *)
(* of them.  The gateway asks serviced once for the topics it has routes   *)
(* for.  An HTTP request to the gateway goes to serviced over the          *)
(* gateway's one connection, from there to a backend over the first of the *)
(* connections in the pool, and its answer comes back the same way.        *)
(*                                                                         *)
(* Each daemon runs with one io_context, so a step is the code between two *)
(* suspension points.  A backend may die and be started again; a connect   *)
(* may run into its 30ms timeout.  serviced and the gateway stay up.       *)
(***************************************************************************)
EXTENDS Naturals, Sequences, SequencesExt

CONSTANTS
    Backends,  \* the backend daemons; a backend is its host and port
    Group,     \* Group[b]: the group it publishes itself under
    TopicsOf,  \* TopicsOf[b]: the topics of its contexts_
    Mortal,    \* backends that may die
    MaxLives,  \* bound on the times a backend is started; its last life lasts
    Calls,     \* HTTP requests to the gateway, each on its own connection
    Gateway,   \* the gateway, as a peer of serviced
    Slow,      \* backends a connect from or to may time out
    Asks,      \* Asks[c]: the topics request c may name
    None       \* nobody, nothing

Topics == UNION {TopicsOf[b] : b \in Backends}

ASSUME ClusterAssumption ==
    /\ Mortal \subseteq Backends /\ MaxLives \in Nat \ {0}
    /\ Gateway \notin Backends /\ Slow \subseteq Backends
    /\ Asks \in [Calls -> SUBSET Topics]
    /\ None \notin Backends \cup Calls \cup Topics

(* A registration is the publish() of one life of a backend.               *)
Regs == Backends \X (1..MaxLives)

VARIABLES
    life,       \* life[b]: how often b was started
    alive,      \* backends that run
    boot,       \* boot[b]: its start: off, publishing, done
    reg,        \* reg[r]: how far serviced is with r, and the entry it made
    pool,       \* pool_[g]: the entries of group g
    session,    \* whose callback the handler ctx_regist holds
    contexts,   \* contexts[t]: the backend topic t is routed to
    gw,         \* the gateway's start: publishing, shaking, told, done
    told,       \* the topics serviced told the gateway
    gwTopics,   \* topics the gateway has a context for
    router,     \* router[p]: router_ of the transfer context of p
    asked,      \* asked[c]: the topic of request c
    hop,        \* request c and the router it waits to be forwarded with
    toServiced, \* requests on the gateway's connection, in order
    fwd,        \* the request serviced's accept() is busy with
    handled,    \* what the backends handled
    toGateway,  \* answers on the gateway's connection
    status, result \* of the requests, as in Rpc

bootVars == <<life, alive, boot>>
regVars == <<reg, pool, session, contexts>>
gwVars == <<gw, told, gwTopics>>
callVars == <<router, asked, hop, toServiced, fwd, handled, toGateway, status, result>>
vars == <<bootVars, regVars, gwVars, callVars>>

NoFwd == [call |-> None, topic |-> None, to |-> None, life |-> 0, at |-> "idle"]

(* A tcp::client of the pool: not made yet, connecting, connected to one   *)
(* life of the backend, or shut down.                                      *)
Client(st, l) == [st |-> st, life |-> l]
Null == Client("null", 0)

Init ==
    /\ life = [b \in Backends |-> 0] /\ alive = {}
    /\ boot = [b \in Backends |-> "off"]
    /\ reg = [r \in Regs |-> [at |-> "none", entry |-> 0]]
    /\ pool = [g \in Range(Group) |-> <<>>]
    /\ session = None /\ contexts = [t \in Topics |-> None]
    /\ gw = "publishing" /\ told = {} /\ gwTopics = {}
    /\ router = [p \in Backends \cup {Gateway} |-> None]
    /\ asked = [c \in Calls |-> None] /\ hop = {}
    /\ toServiced = <<>> /\ fwd = NoFwd /\ handled = {} /\ toGateway = <<>>
    /\ status = [c \in Calls |-> "idle"] /\ result = [c \in Calls |-> None]

Reaches(b, c) == c.st = "open" /\ b \in alive /\ c.life = life[b]

-----------------------------------------------------------------------------
(* The pool.                                                               *)

(* Faulty: the clients take turns.                                         *)
round_robin_turns(entities) == entities[Len(entities)]

(* Every call makes its own round_robin, whose index starts at 0.          *)
round_robin(entities) == entities[1]

(* The first entry with this host and port.                                *)
find(p, b) == SelectInSeq(p[Group[b]], LAMBDA e : e.host = b)

(* The client a call to b goes through.                                    *)
picked(p, b) == round_robin(p[Group[b]][find(p, b)].clients)

(* add: a new entry whose first client exists and connects when the        *)
(* coroutine first suspends.                                               *)
add(r) ==
    /\ pool' = [pool EXCEPT ![Group[r[1]]] =
                   Append(@, [host |-> r[1], clients |-> <<Client("connecting", 0), Null>>])]
    /\ reg' = [reg EXCEPT ![r] = [at |-> "first", entry |-> Len(pool[Group[r[1]]]) + 1]]

(* Client i of r's entry becomes c.                                        *)
Set(p, r, i, c) == [p EXCEPT ![Group[r[1]]][reg[r].entry].clients[i] = c]

(* The client that invoke picked for b is shut down.                       *)
ShutDown(p, b) == [p EXCEPT ![Group[b]][find(p, b)].clients[1] = Client("broken", 0)]

(* The answer to a registration goes through the callback the handler      *)
(* holds when it is done.  It wakes the peer it reaches when that one      *)
(* still waits for its own.                                                *)
reply(s) ==
    boot' = IF s \in Regs /\ s[1] \in alive /\ life[s[1]] = s[2] THEN [boot EXCEPT ![s[1]] = "done"] ELSE boot

(* context_reg::put: a topic keeps the context it has.                     *)
put(topics, b) ==
    contexts' = [t \in Topics |-> IF contexts[t] = None /\ t \in topics THEN b ELSE contexts[t]]


(* The end of shake and of ctx_regist.                                     *)
regist_done(r, topics) ==
    /\ put(topics, r[1])
    /\ reg' = [reg EXCEPT ![r].at = "done"]
    /\ reply(session)

(* invoke<shake_response> once add has returned.  A client that is not     *)
(* connected fails to send and is shut down, and shake goes on with an     *)
(* empty response.  A client whose backend has died fails to send too, or  *)
(* sends and waits for an answer that nobody reads any more.               *)
shake(r, p) ==
    \E b \in {r[1]} : \E c \in {picked(p, r[1])} :
        \/ /\ Reaches(b, c)
           /\ pool' = p /\ reg' = [reg EXCEPT ![r].at = "shaking"]
           /\ UNCHANGED <<contexts, boot>>
        \/ /\ ~Reaches(b, c)
           /\ pool' = ShutDown(p, b) /\ regist_done(r, {})
        \/ /\ ~Reaches(b, c) /\ c.st = "open"
           /\ pool' = p /\ reg' = [reg EXCEPT ![r].at = "stuck"]
           /\ UNCHANGED <<contexts, boot>>

-----------------------------------------------------------------------------
(* A backend: its modules run one after the other, srvd_client first, then *)
(* srv_regist.  A backend is listening before its modules run.             *)

(* srvd_client::run: whether the connection to serviced came about.        *)
srvd_run(b) == IF b \in Slow THEN BOOLEAN ELSE {TRUE}

(* srvd_client::publish: without a connection the call fails at once, and  *)
(* the start goes on all the same.                                         *)
publish(r, connected) ==
    /\ boot' = [boot EXCEPT ![r[1]] = IF connected THEN "publishing" ELSE "done"]
    /\ reg' = [reg EXCEPT ![r].at = IF connected THEN "wire" ELSE @]

srv_regist(b) ==
    /\ b \notin alive /\ life[b] < MaxLives
    /\ alive' = alive \cup {b} /\ life' = [life EXCEPT ![b] = @ + 1]
    /\ \E connected \in srvd_run(b) : publish(<<b, life[b] + 1>>, connected)
    /\ UNCHANGED <<pool, session, contexts, gwVars, callVars>>

die(b) ==
    /\ b \in alive \cap Mortal /\ life[b] < MaxLives
    /\ alive' = alive \ {b} /\ boot' = [boot EXCEPT ![b] = "off"]
    /\ UNCHANGED <<life, regVars, gwVars, callVars>>

(* ctx_shake of the backend and the rest of shake in serviced.             *)
ctx_shake(r) ==
    /\ reg[r].at = "shaking" /\ Reaches(r[1], picked(pool, r[1]))
    /\ regist_done(r, TopicsOf[r[1]])
    /\ UNCHANGED <<life, alive, pool, session, gwVars, callVars>>

-----------------------------------------------------------------------------
(* serviced.                                                               *)

(* accept() reads a registration: the one handler object of the topic      *)
(* takes the callback, and handle() runs until add suspends.               *)
ctx_regist(r) ==
    /\ reg[r].at = "wire"
    /\ session' = r /\ add(r)
    /\ UNCHANGED <<bootVars, contexts, gwVars, callVars>>

(* A connect of add ends.  The first failure ends the loop over the        *)
(* clients; a client that was shut down meanwhile fails too.               *)
connect(r) ==
    /\ reg[r].at \in {"first", "second"}
    /\ \E b \in {r[1]}, i \in {IF reg[r].at = "first" THEN 1 ELSE 2} :
       \E mine \in {pool[Group[b]][reg[r].entry].clients[i]} :
           \/ /\ b \in alive /\ mine.st = "connecting" /\ i = 1
              /\ pool' = Set(Set(pool, r, 1, Client("open", life[b])), r, 2, Client("connecting", 0))
              /\ reg' = [reg EXCEPT ![r].at = "second"]
              /\ UNCHANGED <<contexts, boot>>
           \/ /\ b \in alive /\ mine.st = "connecting" /\ i = 2
              /\ \E p \in {Set(pool, r, 2, Client("open", life[b]))} : shake(r, p)
           \/ /\ b \notin alive \/ mine.st = "broken" \/ b \in Slow
              /\ \E p \in {Set(pool, r, i, Client("broken", 0))} : shake(r, p)
    /\ UNCHANGED <<life, alive, session, gwVars, callVars>>

(* The gateway publishes itself: nothing suspends, it gets its own answer. *)
regist_gateway ==
    /\ gw = "publishing"
    /\ session' = Gateway /\ gw' = "shaking"
    /\ UNCHANGED <<bootVars, reg, pool, contexts, told, gwTopics, callVars>>

(* Faulty: the topics of backends whose registration has only begun.       *)
generate_topics_early == UNION {TopicsOf[r[1]] : r \in {q \in Regs : reg[q].at # "none"}}

generate_topics == {t \in Topics : contexts[t] # None}

(* ctx_shake of serviced, for the gateway.                                 *)
shake_gateway ==
    /\ gw = "shaking"
    /\ told' = generate_topics /\ gw' = "told"
    /\ UNCHANGED <<bootVars, regVars, gwTopics, callVars>>

(* The transfer context passes the request on under the router it was      *)
(* given last.                                                             *)
do_complete(m, b, c) ==
    /\ router' = [router EXCEPT ![b] = m.topic]
    /\ fwd' = [call |-> m.call, topic |-> router'[b], to |-> b, life |-> c.life,
               at |-> IF Reaches(b, c) THEN "sent" ELSE "stuck"]

(* accept() on the gateway's connection: it awaits the backend's answer    *)
(* before it reads on.  When the client does not reach the backend, the    *)
(* send fails or not, but nobody ever ends the wait.                       *)
transfer ==
    /\ fwd.at = "idle" /\ toServiced # <<>>
    /\ \E m \in {Head(toServiced)} : \E b \in {contexts[m.topic]} : \E c \in {picked(pool, b)} :
           /\ do_complete(m, b, c)
           /\ IF c.st = "open" /\ ~Reaches(b, c)
              THEN pool' \in {pool, ShutDown(pool, b)}
              ELSE UNCHANGED pool
    /\ toServiced' = Tail(toServiced)
    /\ UNCHANGED <<bootVars, reg, session, contexts, gwVars, asked, hop, handled, toGateway, status, result>>


(* The backend's answer is written back through the callback of accept().  *)
relay ==
    /\ fwd.at = "answered"
    /\ toGateway' = Append(toGateway, fwd.call) /\ fwd' = NoFwd
    /\ UNCHANGED <<bootVars, regVars, gwVars, router, asked, hop, toServiced, handled, status, result>>

(* A backend handles a forwarded request.                                  *)
serve ==
    /\ fwd.at = "sent" /\ fwd.to \in alive /\ life[fwd.to] = fwd.life
    /\ handled' = handled \cup {[call |-> fwd.call, topic |-> fwd.topic, by |-> fwd.to]}
    /\ fwd' = [fwd EXCEPT !.at = "answered"]
    /\ UNCHANGED <<bootVars, regVars, gwVars, router, asked, hop, toServiced, toGateway, status, result>>

-----------------------------------------------------------------------------
(* The gateway.                                                            *)

set_topics ==
    /\ gw = "told"
    /\ gwTopics' = gwTopics \cup told /\ gw' = "done"
    /\ UNCHANGED <<bootVars, regVars, told, callVars>>

(* Requests are sent to a gateway that is up: before, every one is a bad   *)
(* request, like one for a topic it does not know.                         *)
request(c, t) ==
    /\ status[c] = "idle" /\ gw = "done"
    /\ status' = [status EXCEPT ![c] = "pending"] /\ asked' = [asked EXCEPT ![c] = t]
    /\ UNCHANGED <<bootVars, regVars, gwVars, router, hop, toServiced, fwd, handled, toGateway, result>>

(* accept(): no context, bad request.  Otherwise the one transfer context  *)
(* takes the router and do_complete passes it on, by value, to the module  *)
(* that owns the connection to serviced; that is another coroutine.        *)
accept(c) ==
    /\ status[c] = "pending" /\ result[c] = None
    /\ \A m \in hop : m.call # c
    /\ \A i \in DOMAIN toServiced : toServiced[i].call # c
    /\ fwd.call # c /\ ~Contains(toGateway, c)
    /\ IF asked[c] \in gwTopics
       THEN /\ router' = [router EXCEPT ![Gateway] = asked[c]]
            /\ hop' = hop \cup {[call |-> c, topic |-> asked[c]]}
            /\ UNCHANGED status
       ELSE /\ status' = [status EXCEPT ![c] = "failed"]
            /\ UNCHANGED <<router, hop>>
    /\ UNCHANGED <<bootVars, regVars, gwVars, asked, toServiced, fwd, handled, toGateway, result>>

(* Faulty: the router is read when the request is sent.                    *)
async_call_buffer_late(m) ==
    /\ m \in hop
    /\ hop' = hop \ {m} /\ toServiced' = Append(toServiced, [m EXCEPT !.topic = router[Gateway]])
    /\ UNCHANGED <<bootVars, regVars, gwVars, router, asked, fwd, handled, toGateway, status, result>>

async_call_buffer(m) ==
    /\ m \in hop
    /\ hop' = hop \ {m} /\ toServiced' = Append(toServiced, m)
    /\ UNCHANGED <<bootVars, regVars, gwVars, router, asked, fwd, handled, toGateway, status, result>>

Waiting(c) == status[c] = "pending" /\ result[c] = None

(* Faulty: one slot for the callbacks, which the last request has taken.   *)
filling_buffer_last ==
    /\ toGateway # <<>>
    /\ \E c \in Calls :
           /\ Waiting(c) /\ \A d \in Calls \ {c} : Waiting(d) /\ d # Head(toGateway) => d = c
           /\ result' = [result EXCEPT ![c] = Head(toGateway)]
    /\ toGateway' = Tail(toGateway)
    /\ UNCHANGED <<bootVars, regVars, gwVars, router, asked, hop, toServiced, fwd, handled, status>>

(* The callback found under src converts the answer and sends it.          *)
filling_buffer ==
    /\ toGateway # <<>>
    /\ result' = [result EXCEPT ![Head(toGateway)] = Head(toGateway)]
    /\ toGateway' = Tail(toGateway)
    /\ UNCHANGED <<bootVars, regVars, gwVars, router, asked, hop, toServiced, fwd, handled, status>>

(* wait() ends; serviced answers in order, so no wake-up is taken by the   *)
(* wrong request (TcpClientOrder).                                         *)
wait(c) ==
    /\ status[c] = "pending" /\ result[c] # None
    /\ status' = [status EXCEPT ![c] = "done"]
    /\ UNCHANGED <<bootVars, regVars, gwVars, router, asked, hop, toServiced, fwd, handled, toGateway, result>>

-----------------------------------------------------------------------------
Running ==
    \/ \E r \in Regs : ctx_regist(r) \/ connect(r) \/ ctx_shake(r)
    \/ regist_gateway \/ shake_gateway \/ set_topics
    \/ transfer \/ serve \/ relay
    \/ \E c \in Calls : accept(c) \/ wait(c)
    \/ \E m \in hop : async_call_buffer(m)
    \/ filling_buffer

Next ==
    \/ Running
    \/ \E b \in Backends : srv_regist(b) \/ die(b)
    \/ \E c \in Calls : \E t \in Asks[c] : request(c, t)

Spec == Init /\ [][Next]_vars
(* The event loops run what is ready.  Nobody has to start a backend, to   *)
(* kill it or to send a request.                                           *)
FairSpec == Spec /\ WF_vars(Running)

-----------------------------------------------------------------------------
(* client_pool.h:26-101: whenever invoke may be called for a backend - it  *)
(* has routes, or its registration is about to shake hands - the pool has  *)
(* an entry for it and the client picked is a client: no null pointer is   *)
(* dereferenced and the coroutine does not run off its end.  The second    *)
(* client of an entry may be null for ever.                                *)
InvokeDefined ==
    \A b \in Backends :
        (\/ \E t \in Topics : contexts[t] = b
         \/ \E l \in 1..MaxLives : reg[<<b, l>>].at \in {"first", "second", "shaking"})
        => /\ find(pool, b) # 0
           /\ picked(pool, b) # Null

(* A backend handles only requests for topics it has, under the topic the  *)
(* caller asked for, although the gateway has one context for all topics   *)
(* and serviced one per backend.                                           *)
Routed ==
    \A h \in handled : h.topic \in TopicsOf[h.by] /\ h.topic = asked[h.call]

(* What the gateway accepts, serviced has a route for: a forwarded request *)
(* is never dropped at serviced for want of a context.                     *)
GatewayKnows ==
    /\ gwTopics \cup told \subseteq {t \in Topics : contexts[t] # None}
    /\ \A i \in DOMAIN toServiced : contexts[toServiced[i].topic] # None

(* From end to end a request is answered as a call promises: at most once  *)
(* and with its own answer, whatever dies on the way.                      *)
Rpc == INSTANCE Rpc WITH NoCall <- None
Implements == Rpc!Spec

Died == \E b \in Backends : life[b] > 1 \/ (life[b] = 1 /\ b \notin alive)



=============================================================================
