----------------------------- MODULE TcpClient -----------------------------
(***************************************************************************)
(* The client side of one TCP connection: basic_client<tcp> and the half   *)
(* of class tcp that it uses.  Any number of async_call and                *)
(* async_call_buffer coroutines share the connection.  Each registers a    *)
(* callback under a random src, writes its request, and waits on ONE       *)
(* unbuffered channel; the query() coroutine reads the answers, runs the   *)
(* callback registered under the answer's src, and posts that src to       *)
(* whichever coroutine is first in the channel's queue.                    *)
(*                                                                         *)
(* All coroutines run on one single-threaded io_context, so a step is the  *)
(* code between two suspension points.  The peer is the environment: the   *)
(* constants say how it and the application behave.                        *)
(***************************************************************************)
EXTENDS Naturals, Sequences, FiniteSets, SequencesExt

CONSTANTS
    Calls,       \* the invocations of async_call and async_call_buffer
    BufferCalls, \* those among them that are async_call_buffer
    Src,         \* Src[c]: the id uuid_generator draws for call c
    NoCall,      \* "no call": an empty slot
    Push,        \* the body of a frame that answers no call
    Empty,       \* the body of a frame whose header.length is 0
    InOrder,     \* TRUE: the peer answers requests in the order it got them
    Sequential,  \* TRUE: the application awaits a call before it makes another
    PushBodies,  \* what the peer may send unasked: Push, Empty or both
    MaxPush,     \* bound on the frames the peer sends unasked
    MayClose     \* TRUE: the connection may be refused or lost

ASSUME ClientAssumption ==
    /\ BufferCalls \subseteq Calls
    /\ Src \in [Calls -> Nat]
    /\ NoCall \notin Calls /\ Push \notin Calls /\ Empty \notin Calls
    /\ NoCall # Push /\ NoCall # Empty /\ Push # Empty
    /\ InOrder \in BOOLEAN /\ Sequential \in BOOLEAN /\ MayClose \in BOOLEAN
    /\ PushBodies \subseteq {Push, Empty} /\ MaxPush \in Nat

VARIABLES
    conn,     \* the socket: none, connecting, open, lost (peer gone), shut
    looping,  \* TRUE while the query() coroutine of the connection runs
    pc,       \* pc[c]: where the coroutine of call c is
    failed,   \* calls whose async_send returned an error
    buffers,  \* buffers_: src |-> the call whose callback is registered
    got,      \* got[c]: the body call c's callback consumed
    sendq,    \* calls inside async_write, in the order they entered it
    waiters,  \* calls inside buffer_channel_.async_receive, oldest first
    woken,    \* the call whose receive completion is posted, or NoCall
    signal,   \* the src that completion carries
    requests, \* requests the peer has and has not answered
    inbox,    \* frames on their way to the client
    pushed    \* number of frames the peer has sent unasked

clientVars == <<conn, looping, pc, failed, buffers, got, sendq, waiters,
                woken, signal>>
wireVars == <<requests, inbox>>
vars == <<clientVars, wireVars, pushed>>

Ids == {Src[c] : c \in Calls} \cup {0}
Bodies == Calls \cup {Push, Empty}
Frames == [src : Ids, body : Bodies]
InFlight == {c \in Calls : pc[c] \in {"sending", "waiting"}}

Init ==
    /\ conn = "none" /\ looping = FALSE
    /\ pc = [c \in Calls |-> "idle"]
    /\ failed = {}
    /\ buffers = [s \in Ids |-> NoCall]
    /\ got = [c \in Calls |-> NoCall]
    /\ sendq = <<>> /\ waiters = <<>>
    /\ woken = NoCall /\ signal = 0
    /\ requests = <<>> /\ inbox = <<>> /\ pushed = 0

-----------------------------------------------------------------------------
(* basic_client::async_connect makes a fresh protocol object and connects. *)
async_connect ==
    /\ conn = "none"
    /\ conn' = "connecting"
    /\ UNCHANGED <<looping, pc, failed, buffers, got, sendq, waiters, woken,
                   signal, wireVars, pushed>>

(* The connection is made: the query coroutine is spawned and starts to    *)
(* read before async_connect returns to its caller.                        *)
connected ==
    /\ conn = "connecting"
    /\ conn' = "open" /\ looping' = TRUE
    /\ UNCHANGED <<pc, failed, buffers, got, sendq, waiters, woken, signal,
                   wireVars, pushed>>

(* The connection is refused or times out: make_error shuts the socket     *)
(* down and no query coroutine is spawned.                                 *)
connect_failed ==
    /\ conn = "connecting" /\ MayClose
    /\ conn' = "shut"
    /\ UNCHANGED <<looping, pc, failed, buffers, got, sendq, waiters, woken,
                   signal, wireVars, pushed>>

(* regist_resp_func: a callback registered under the same src is replaced. *)
regist_resp_func(c) == buffers' = [buffers EXCEPT ![Src[c]] = c]

(* async_call and async_call_buffer up to the suspension in async_send:    *)
(* the callback is registered before the request is written.  The          *)
(* application calls after async_connect has returned, whatever it said.   *)
call(c) ==
    /\ pc[c] = "idle" /\ conn \notin {"none", "connecting"}
    /\ Sequential => InFlight = {}
    /\ regist_resp_func(c)
    /\ pc' = [pc EXCEPT ![c] = "sending"]
    /\ sendq' = Append(sendq, c)
    /\ UNCHANGED <<conn, looping, failed, got, waiters, woken, signal,
                   wireVars, pushed>>

(* wait(src) up to its suspension: the caller queues on the channel.       *)
wait(c) ==
    /\ pc' = [pc EXCEPT ![c] = "waiting"]
    /\ waiters' = Append(waiters, c)

(* async_send succeeds and the caller goes on to wait.  A write to a       *)
(* connection the peer has left can still succeed; nobody gets it.         *)
send_done ==
    /\ sendq # <<>> /\ conn \in {"open", "lost"}
    /\ wait(Head(sendq))
    /\ sendq' = Tail(sendq)
    /\ requests' = IF conn = "open" THEN Append(requests, Head(sendq)) ELSE requests
    /\ UNCHANGED <<conn, looping, failed, buffers, got, woken, signal, inbox, pushed>>

(* async_send fails.  async_call runs make_error, which shuts the socket   *)
(* down, and returns a default Response; its callback stays registered.    *)
(* async_call_buffer does not look at the error and goes on to wait.       *)
send_failed ==
    /\ sendq # <<>> /\ conn \in {"lost", "shut"}
    /\ LET c == Head(sendq) IN
         /\ failed' = failed \cup {c}
         /\ \/ /\ c \in BufferCalls
               /\ wait(c)
               /\ UNCHANGED conn
            \/ /\ c \notin BufferCalls
               /\ pc' = [pc EXCEPT ![c] = "returned"]
               /\ conn' = "shut"
               /\ UNCHANGED waiters
    /\ sendq' = Tail(sendq)
    /\ UNCHANGED <<looping, buffers, got, woken, signal, wireVars, pushed>>

(* A faulty try_send, to show that a property notices: the newest receiver *)
(* is posted the value.                                                    *)
try_send_newest(v) ==
    \/ /\ waiters = <<>>
       /\ UNCHANGED <<waiters, woken, signal>>
    \/ /\ waiters # <<>>
       /\ woken' = Last(waiters) /\ signal' = v
       /\ waiters' = Front(waiters)

(* buffer_channel_.try_send on a channel without buffer: the oldest        *)
(* receiver is posted the value; with no receiver the value is dropped.    *)
try_send(v) ==
    \/ /\ waiters = <<>>
       /\ UNCHANGED <<waiters, woken, signal>>
    \/ /\ waiters # <<>>
       /\ woken' = Head(waiters) /\ signal' = v
       /\ waiters' = Tail(waiters)

(* Faulty filling_buffers: one posts the body where the src is meant, one  *)
(* forgets to run the callback, one forgets to signal.                     *)
filling_buffer_wrong_value(f) ==
    /\ buffers[f.src] # NoCall
    /\ got' = [got EXCEPT ![buffers[f.src]] = f.body]
    /\ buffers' = [buffers EXCEPT ![f.src] = NoCall]
    /\ try_send(f.body)

filling_buffer_no_callback(f) ==
    /\ buffers[f.src] # NoCall
    /\ buffers' = [buffers EXCEPT ![f.src] = NoCall]
    /\ try_send(f.src)
    /\ UNCHANGED got

filling_buffer_no_signal(f) ==
    /\ buffers[f.src] # NoCall
    /\ got' = [got EXCEPT ![buffers[f.src]] = f.body]
    /\ buffers' = [buffers EXCEPT ![f.src] = NoCall]
    /\ UNCHANGED <<waiters, woken, signal>>

(* filling_buffer: run the callback registered under the frame's src, drop *)
(* the registration and signal the src; an unknown src signals 0.          *)
filling_buffer(f) ==
    \/ /\ buffers[f.src] # NoCall
       /\ got' = [got EXCEPT ![buffers[f.src]] = f.body]
       /\ buffers' = [buffers EXCEPT ![f.src] = NoCall]
       /\ try_send(f.src)
    \/ /\ buffers[f.src] = NoCall
       /\ try_send(0)
       /\ UNCHANGED <<got, buffers>>

(* One round of query().  A completion posted by the previous round runs   *)
(* before the next read completes: both go through one FIFO queue.  What a *)
(* registered context does with a frame nobody waits for is not client     *)
(* state.                                                                  *)
query ==
    /\ looping /\ woken = NoCall
    /\ inbox # <<>> /\ Head(inbox).body # Empty
    /\ filling_buffer(Head(inbox))
    /\ inbox' = Tail(inbox)
    /\ UNCHANGED <<conn, looping, pc, failed, sendq, requests, pushed>>

(* recv fails, on a frame without body or because the connection is gone:  *)
(* query() returns and the coroutine of async_connect ends.  Waiting calls *)
(* are not told.                                                           *)
query_end ==
    /\ looping /\ woken = NoCall
    /\ \/ /\ inbox # <<>> /\ Head(inbox).body = Empty
          /\ inbox' = Tail(inbox)
       \/ /\ conn # "open"
          /\ UNCHANGED inbox
    /\ looping' = FALSE
    /\ UNCHANGED <<conn, pc, failed, buffers, got, sendq, waiters, woken,
                   signal, requests, pushed>>

(* A faulty resumption of wait(src): it returns on any value.              *)
resume_unchecked ==
    /\ woken # NoCall
    /\ pc' = [pc EXCEPT ![woken] = "returned"]
    /\ woken' = NoCall /\ signal' = 0
    /\ UNCHANGED <<conn, looping, failed, buffers, got, sendq, waiters, wireVars, pushed>>

(* wait(src) resumes with a posted value: it returns when the value is its *)
(* own src and queues again behind the others when it is not.              *)
resume ==
    /\ woken # NoCall
    /\ \/ /\ signal = Src[woken]
          /\ pc' = [pc EXCEPT ![woken] = "returned"]
          /\ conn' = IF woken \in failed THEN "shut" ELSE conn
          /\ UNCHANGED waiters
       \/ /\ signal # Src[woken]
          /\ waiters' = Append(waiters, woken)
          /\ UNCHANGED <<conn, pc>>
    /\ woken' = NoCall /\ signal' = 0
    /\ UNCHANGED <<looping, failed, buffers, got, sendq, wireVars, pushed>>

-----------------------------------------------------------------------------
(* The peer answers a request it has, under the request's src.             *)
reply(i) ==
    /\ conn = "open"
    /\ InOrder => i = 1
    /\ inbox' = Append(inbox, [src |-> Src[requests[i]], body |-> requests[i]])
    /\ requests' = RemoveAt(requests, i)
    /\ UNCHANGED <<clientVars, pushed>>

(* The peer sends a frame that answers no call.                            *)
push(b) ==
    /\ conn = "open" /\ pushed < MaxPush
    /\ inbox' = Append(inbox, [src |-> 0, body |-> b])
    /\ pushed' = pushed + 1
    /\ UNCHANGED <<clientVars, requests>>

(* The peer goes away.                                                     *)
peer_close ==
    /\ conn = "open" /\ MayClose
    /\ conn' = "lost"
    /\ UNCHANGED <<looping, pc, failed, buffers, got, sendq, waiters, woken,
                   signal, wireVars, pushed>>

ClientNext ==
    \/ async_connect \/ connected \/ connect_failed
    \/ \E c \in Calls : call(c)
    \/ send_done \/ send_failed
    \/ query \/ query_end \/ resume

PeerNext ==
    \/ \E i \in 1..Len(requests) : reply(i)
    \/ \E b \in PushBodies : push(b)
    \/ peer_close

Next == ClientNext \/ PeerNext

Spec == Init /\ [][Next]_vars

(* The io_context runs every completion it is handed, and the peer answers *)
(* the requests it has.                                                    *)
Fairness ==
    /\ WF_vars(connected) /\ WF_vars(send_done \/ send_failed)
    /\ WF_vars(query) /\ WF_vars(resume)
    /\ WF_vars(\E i \in 1..Len(requests) : reply(i))

FairSpec == Spec /\ Fairness

-----------------------------------------------------------------------------
TypeOK ==
    /\ conn \in {"none", "connecting", "open", "lost", "shut"}
    /\ looping \in BOOLEAN
    /\ pc \in [Calls -> {"idle", "sending", "waiting", "returned"}]
    /\ failed \in SUBSET Calls
    /\ buffers \in [Ids -> Calls \cup {NoCall}]
    /\ got \in [Calls -> Bodies \cup {NoCall}]
    /\ sendq \in Seq(Calls) /\ waiters \in Seq(Calls)
    /\ woken \in Calls \cup {NoCall} /\ signal \in Ids
    /\ requests \in Seq(Calls) /\ inbox \in Seq(Frames)
    /\ pushed \in 0..MaxPush

(* The ids drawn for the calls are distinct and none is 0, the value       *)
(* filling_buffer signals for an unknown src.                              *)
DistinctSrc == \A c, d \in Calls : Src[c] # 0 /\ (c # d => Src[c] # Src[d])

(* A call that returns has consumed the answer to its own request, whatever*)
(* the order of the answers, the frames nobody asked for and the loss of   *)
(* the connection; a call whose send failed has consumed nothing           *)
(* (basic_client.hpp, async_call: the resp it returns).                    *)
OwnResponse ==
    \A c \in Calls :
        pc[c] = "returned" => got[c] = IF c \in failed THEN NoCall ELSE c

(* A callback captures the caller's locals by reference (basic_client.hpp, *)
(* `[&]` in async_call): when a frame arrives for a registered callback,   *)
(* the caller that registered it is still suspended in wait().             *)
CallbackAlive ==
    \A i \in 1..Len(inbox) :
        LET c == buffers[inbox[i].src] IN
          (c # NoCall /\ inbox[i].body # Empty) => pc[c] = "waiting"

(* The client keeps the promise of a remote call: seen through status and  *)
(* got it is Rpc.  A call whose send failed and that still waits is        *)
(* pending.                                                                *)
status ==
    [c \in Calls |-> CASE pc[c] = "idle" -> "idle"
                       [] pc[c] = "returned" -> IF c \in failed THEN "failed" ELSE "done"
                       [] OTHER -> "pending"]

Abstract == INSTANCE Rpc WITH result <- got

(* Every step of the client is a step of Rpc or invisible: an answer is    *)
(* consumed once and while its call is pending (tcp.hpp, filling_buffer),  *)
(* and no call returns without one (tcp.hpp, wait).                        *)
ImplementsRpc == Abstract!Spec

(* No wakeup is lost: a call whose answer was consumed is not left waiting *)
(* in the channel; its own src is posted to it and to nobody else          *)
(* (tcp.hpp, filling_buffer and wait).                                     *)
NoLostWakeup ==
    \A c \in Calls :
        (pc[c] = "waiting" /\ got[c] # NoCall) => (woken = c /\ signal = Src[c])

(* Every call that has sent its request returns.                           *)
EveryCallReturns == \A c \in Calls : pc[c] = "waiting" ~> pc[c] = "returned"

=============================================================================
