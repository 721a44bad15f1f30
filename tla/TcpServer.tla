----------------------------- MODULE TcpServer -----------------------------
(***************************************************************************)
(* The server side: one accept() coroutine per connection reads requests,  *)
(* looks the topic up in context_reg and hands the request to the context. *)
(* A context owns ONE handler object for all requests of its topic, on     *)
(* every connection: visit() overwrites the request it holds and           *)
(* attach_session() the callback that will send the answer.  handle() is   *)
(* spawned and runs at once up to its first suspension; accept() goes on   *)
(* reading meanwhile.                                                      *)
(*                                                                         *)
(* Every coroutine runs on the acceptor's single-threaded io_context, so a *)
(* step is the code between two suspension points.                         *)
(***************************************************************************)
EXTENDS Naturals, Sequences

CONSTANTS
    Conns,      \* connections
    Topics,     \* routers a request may name
    Reqs,       \* requests
    ConnOf,     \* ConnOf[r]: the connection request r is sent on
    TopicOf,    \* TopicOf[r]: the topic it names
    Handled,    \* topics with a tcp context in context_reg
    Suspending, \* topics whose handle() may suspend
    Exclusive,  \* topics no request is sent for while one of them is pending
    MayClose,   \* TRUE: a peer may leave
    None        \* "no request"

ASSUME ServerAssumption ==
    /\ ConnOf \in [Reqs -> Conns] /\ TopicOf \in [Reqs -> Topics]
    /\ Suspending \subseteq Handled /\ Handled \subseteq Topics
    /\ None \notin Reqs
    /\ Exclusive \subseteq Topics /\ MayClose \in BOOLEAN

VARIABLES
    conn,      \* conn[k]: open, lost (peer gone) or closed (object destroyed)
    sent,      \* sent[k]: the requests sent on connection k, in order
    wire,      \* wire[k]: requests on connection k that accept has not read
    request,   \* request[t]: the request the handler of topic t holds
    session,   \* session[t]: the request whose connection and src cb_ holds
    suspended, \* requests whose handle() is suspended
    answers,   \* answers[k]: frames written to connection k
    dangling   \* requests answered through a destroyed connection object

vars == <<conn, sent, wire, request, session, suspended, answers, dangling>>

(* A frame sent back: the src it carries is that of request src, its       *)
(* content was computed for request body, and it is serialised in the way  *)
(* request way asked for.                                                  *)
Answers == [src : Reqs, body : Reqs, way : Reqs]

In(r, q) == \E i \in 1..Len(q) : q[i] = r

(* Requests that were sent and not answered yet.                           *)
Pending == {r \in Reqs : In(r, wire[ConnOf[r]]) \/ r \in suspended}

Init ==
    /\ conn = [k \in Conns |-> "open"]
    /\ sent = [k \in Conns |-> <<>>] /\ wire = [k \in Conns |-> <<>>]
    /\ request = [t \in Topics |-> None] /\ session = [t \in Topics |-> None]
    /\ suspended = {} /\ answers = [k \in Conns |-> <<>>] /\ dangling = {}

(* A peer sends a request, each once.                                      *)
peer_send(r) ==
    /\ ~In(r, sent[ConnOf[r]]) /\ conn[ConnOf[r]] = "open"
    /\ TopicOf[r] \in Exclusive => \A q \in Pending : TopicOf[q] # TopicOf[r]
    /\ sent' = [sent EXCEPT ![ConnOf[r]] = Append(@, r)]
    /\ wire' = [wire EXCEPT ![ConnOf[r]] = Append(@, r)]
    /\ UNCHANGED <<conn, request, session, suspended, answers, dangling>>

(* The end of handle_request for request r: the response it computed is    *)
(* serialised in the way of the request the handler holds NOW and sent     *)
(* through the callback it holds NOW.  The callback of accept() keeps a    *)
(* bare pointer to the connection object; to a connection the peer has     *)
(* left, the write fails.                                                  *)
respond(r, w, s) ==
    LET k == ConnOf[s] IN
      \/ /\ conn[k] = "open"
         /\ answers' = [answers EXCEPT ![k] = Append(@, [src |-> s, body |-> r, way |-> w])]
         /\ UNCHANGED dangling
      \/ /\ conn[k] = "lost"
         /\ UNCHANGED <<answers, dangling>>
      \/ /\ conn[k] = "closed"
         /\ dangling' = dangling \cup {r}
         /\ UNCHANGED answers

(* Faulty do_completes, to show that a property notices: the handler keeps *)
(* the first callback ever attached; handle() is posted instead of run at  *)
(* once.                                                                   *)
do_complete_first_session(t, r) ==
    /\ request' = [request EXCEPT ![t] = r]
    /\ session' = [session EXCEPT ![t] = IF @ = None THEN r ELSE @]
    /\ respond(r, r, session'[t])
    /\ UNCHANGED suspended

do_complete_posted(t, r) ==
    /\ request' = [request EXCEPT ![t] = r]
    /\ session' = [session EXCEPT ![t] = r]
    /\ suspended' = suspended \cup {r}
    /\ UNCHANGED <<answers, dangling>>

(* basic_context::do_complete and the start of tcp::handle_request: the    *)
(* shared handler takes the request and the callback, and handle() runs to *)
(* its end or to its first suspension.                                     *)
do_complete(t, r) ==
    /\ request' = [request EXCEPT ![t] = r]
    /\ session' = [session EXCEPT ![t] = r]
    /\ \/ /\ t \in Suspending
          /\ suspended' = suspended \cup {r}
          /\ UNCHANGED <<answers, dangling>>
       \/ /\ respond(r, r, r)
          /\ UNCHANGED suspended


(* One round of accept(): a topic without a tcp context is skipped, and    *)
(* the peer gets no answer.                                                *)
accept(k) ==
    /\ conn[k] \in {"open", "lost"} /\ wire[k] # <<>>
    /\ wire' = [wire EXCEPT ![k] = Tail(@)]
    /\ LET r == Head(wire[k])
           t == TopicOf[r]
       IN \/ /\ t \in Handled
             /\ do_complete(t, r)
          \/ /\ t \notin Handled
             /\ UNCHANGED <<request, session, suspended, answers, dangling>>
    /\ UNCHANGED <<conn, sent>>

(* A faulty end of handle(): an early return leaves out the response.      *)
handle_gives_up(r) ==
    /\ r \in suspended
    /\ suspended' = suspended \ {r}
    /\ UNCHANGED <<conn, sent, wire, request, session, answers, dangling>>

(* What handle() awaited completes.                                        *)
handle_resumes(r) ==
    /\ r \in suspended
    /\ suspended' = suspended \ {r}
    /\ respond(r, request[TopicOf[r]], session[TopicOf[r]])
    /\ UNCHANGED <<conn, sent, wire, request, session>>

(* recv fails: accept() returns, start_accept's coroutine shuts the socket *)
(* down and drops the last owner of the connection object.  The close      *)
(* callback is created there but not awaited, so it does not run.          *)
accept_ends(k) ==
    /\ conn[k] = "lost"
    /\ conn' = [conn EXCEPT ![k] = "closed"]
    /\ wire' = [wire EXCEPT ![k] = <<>>]
    /\ UNCHANGED <<sent, request, session, suspended, answers, dangling>>

(* A peer leaves.                                                          *)
peer_close(k) ==
    /\ MayClose /\ conn[k] = "open"
    /\ conn' = [conn EXCEPT ![k] = "lost"]
    /\ UNCHANGED <<sent, wire, request, session, suspended, answers, dangling>>

Next ==
    \/ \E r \in Reqs : peer_send(r) \/ handle_resumes(r)
    \/ \E k \in Conns : accept(k) \/ accept_ends(k) \/ peer_close(k)

Spec == Init /\ [][Next]_vars

(* The io_context runs every coroutine that can go on, and what a handler  *)
(* awaits completes.                                                       *)
Fairness ==
    /\ \A k \in Conns : WF_vars(accept(k))
    /\ \A r \in Reqs : WF_vars(handle_resumes(r))

FairSpec == Spec /\ Fairness

-----------------------------------------------------------------------------
(* The types; TcpServerProofs proves it together with the properties.      *)
TypeOK ==
    /\ conn \in [Conns -> {"open", "lost", "closed"}]
    /\ sent \in [Conns -> Seq(Reqs)] /\ wire \in [Conns -> Seq(Reqs)]
    /\ request \in [Topics -> Reqs \cup {None}]
    /\ session \in [Topics -> Reqs \cup {None}]
    /\ suspended \in SUBSET Reqs
    /\ answers \in [Conns -> Seq(Answers)]
    /\ dangling \in SUBSET Reqs

(* Every answer goes back to the connection and the src of the request it  *)
(* was computed for, serialised as that request asked, although the        *)
(* handler object is shared (handler.hpp, attach_session and visit).       *)
AnswerMatches ==
    \A k \in Conns : \A i \in 1..Len(answers[k]) :
        LET a == answers[k][i] IN
          a.src = a.body /\ a.way = a.body /\ ConnOf[a.body] = k

Inline(r) == TopicOf[r] \in Handled \ Suspending


(* No handler that does not suspend answers through a connection object    *)
(* that is gone (tcp.hpp, the lambda of accept() captures `this`).         *)
NoDangling == \A r \in dangling : ~Inline(r)

(* Every request for a registered topic is answered, unless its connection *)
(* is lost.                                                                *)
EveryRequestAnswered ==
    \A r \in Reqs :
        (In(r, sent[ConnOf[r]]) /\ TopicOf[r] \in Handled)
          ~> \/ \E i \in 1..Len(answers[ConnOf[r]]) : answers[ConnOf[r]][i].src = r
             \/ conn[ConnOf[r]] # "open"

=============================================================================
