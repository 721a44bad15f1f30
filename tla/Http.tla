-------------------------------- MODULE Http --------------------------------
(***************************************************************************)
(* One HTTP connection of http.hpp: the accept() loop of the server, the   *)
(* session below it, the transfer context of the gateway and the           *)
(* conversion it does, and at the other end either the client of the same  *)
(* class (send_request, query, wait) or any other HTTP peer.               *)
(*                                                                         *)
(* What matters of the text is where one message ends and the next begins, *)
(* so a stream is a sequence of units: a command line, a Content-Length    *)
(* field, the blank line that ends a header, a unit of body.  A read takes *)
(* up to the delimiter it waits for and any amount of what follows.        *)
(***************************************************************************)
EXTENDS Integers, Sequences, SequencesExt, FiniteSets

CONSTANTS
    Scripts,     \* the sequences of requests a peer may send
    Contexts,    \* Contexts[path]: none, other (of tcp), handler, transfer
    Result,      \* Result[path]: the value its handler or its backend returns
    AnswerSize,  \* units of body of an answer of a transfer
    AllowOrigin, AllowMethods, AllowHeaders, \* http_config
    None

ASSUME HttpAssumption ==
    /\ AnswerSize \in Nat
    /\ \A script \in Scripts : \A rq \in Range(script) :
           /\ rq.form \in {"good", "parts", "method", "url", "version", "field"}
           /\ rq.body \in Nat /\ rq.length \in {0, rq.body}
           /\ rq.path \in DOMAIN Contexts \cap DOMAIN Result

VARIABLES
    peer,     \* who is at the other end: client (of this library) or other
    requests, \* the requests it sends, in order
    sent,     \* number of requests sent
    eager,    \* requests sent before the ones before them were done with
    eof,      \* the peer has closed its side
    net,      \* units on the way to the server
    pc,       \* accept(): line, body, transfer, write, closed
    cur,      \* the request accept() is busy with
    buf,      \* its buffer while it waits for the rest of the body
    handled,  \* what handlers and backends were given
    sendq,    \* the writes in progress on the socket
    out,      \* units written to the peer
    taken,    \* how many of them the client has read
    query_pc, \* query(): line, body, ended
    query_buf, \* its buffer
    slot,     \* the call whose callback is in buffers_[http_src]
    filled,   \* filled[c]: the answer its callback was run with
    waiters,  \* calls in wait(), in order
    woken     \* calls that have returned

serverVars == <<net, pc, cur, buf, handled, sendq, out>>
clientVars == <<taken, query_pc, query_buf, slot, filled, waiters, woken>>
Indices == DOMAIN requests

vars == <<peer, requests, sent, eager, eof, serverVars, clientVars>>

Init ==
    /\ peer \in {"client", "other"} /\ requests \in Scripts
    /\ sent = 0 /\ eager = {} /\ eof = FALSE /\ net = <<>>
    /\ pc = "line" /\ cur = None /\ buf = <<>>
    /\ handled = {} /\ sendq = <<>> /\ out = <<>>
    /\ taken = 0 /\ query_pc = "line" /\ query_buf = <<>> /\ slot = None
    /\ filled = [i \in Indices |-> None] /\ waiters = <<>> /\ woken = {}

-----------------------------------------------------------------------------
(* Statuses and the values that stand in for one.                          *)

ok == 200
no_content == 204
bad_request == 400
forbidden == 403
version_not_supported == 505
internal_server_error == 500
Eof == 2     \* asio::error::eof
BadUrl == 1  \* some error of the url parser

(* The statuses whose reason is one word.                                  *)
OneWord == {0, 100, 102, 200, 201, 202, 302, 401, 403, 409, 410, 423}
MoreWords ==
    {101, 103, 226} \cup (203..208) \cup ((300..308) \ {302, 306})
    \cup ((400..418) \ {401, 403, 409, 410})
    \cup {421, 422, 424, 425, 426, 428, 429, 431, 451} \cup (500..508) \cup {510, 511}
statuses == OneWord \cup MoreWords

(* The words of status_to_string: one for "Unknown" too.                   *)
status_words(v) == IF v \in MoreWords THEN 2 ELSE 1
string_to_status(v) == IF v \in statuses THEN v ELSE internal_server_error

-----------------------------------------------------------------------------
(* The text.                                                               *)

Unit(i, k, n) == [r |-> i, k |-> k, n |-> n]
Body(i, n) == [j \in 1..n |-> Unit(i, "body", j)]
Field(i, n) == IF n = 0 THEN <<>> ELSE <<Unit(i, "length", n)>>

(* A request as it is on the wire.                                         *)
Text(i) ==
    <<Unit(i, "line", 0)>> \o Field(i, requests[i].length) \o <<Unit(i, "end", 0)>>
    \o Body(i, requests[i].body)

(* How much of s a read up to the blank line may take.                     *)
async_read_until(s) == {n \in 1..Len(s) : \E j \in 1..n : s[j].k = "end"}

FirstEnd(s) == SelectInSeq(s, LAMBDA u : u.k = "end")
AfterHeader(s) == SubSeq(s, FirstEnd(s) + 1, Len(s))
Drop(s, n) == SubSeq(s, n + 1, Len(s))

(* The value of the first Content-Length in the buffer, in the header or   *)
(* behind it; 0 when there is none.                                        *)
filter_key(s) ==
    LET j == SelectInSeq(s, LAMBDA u : u.k = "length") IN IF j = 0 THEN 0 ELSE s[j].n


(* recv counts what is left of the header as body.                         *)
remain_size(s) == filter_key(s) - Len(s)

string_to_method(rq) == IF rq.form = "method" THEN Eof ELSE 0
string_to_version(rq) == IF rq.form = "version" THEN version_not_supported ELSE 0

(* A command line has three parts, all known.  What is left of a body in   *)
(* front of it makes the method unknown.                                   *)
parse_command_line(s, i) ==
    CASE Head(s).k # "line" \/ requests[i].form = "parts" -> Eof
      [] string_to_method(requests[i]) # 0 -> string_to_method(requests[i])
      [] requests[i].form = "url" -> BadUrl
      [] OTHER -> string_to_version(requests[i])

-----------------------------------------------------------------------------
(* The peer.                                                               *)

(* All of the answer to request i is out.                                  *)
Complete(i) ==
    /\ \E j \in DOMAIN out : out[j].r = i
    /\ \A j \in DOMAIN sendq : Head(sendq[j]).r # i

Done == waiters = <<>> /\ \A i \in 1..sent : Complete(i)

(* There is one slot for callbacks, buffers_[http_src].                    *)
regist_resp_func(c) == slot' = c

wait(c) == waiters' = Append(waiters, c)

(* send_request: the callback takes the one slot, then the request is      *)
(* written and the call waits.                                             *)
send_request ==
    /\ ~eof /\ sent < Len(requests)
    /\ sent' = sent + 1
    /\ eager' = IF Done THEN eager ELSE eager \cup {sent + 1}
    /\ net' = IF pc = "closed" THEN net ELSE net \o Text(sent + 1)
    /\ IF peer = "client"
       THEN regist_resp_func(sent + 1) /\ wait(sent + 1)
       ELSE UNCHANGED <<slot, waiters>>
    /\ UNCHANGED <<peer, requests, eof, pc, cur, buf, handled, sendq, out, taken, query_pc, query_buf, filled, woken>>

peer_close ==
    /\ ~eof /\ sent > 0 /\ eof' = TRUE
    /\ UNCHANGED <<peer, requests, sent, eager, serverVars, clientVars>>

-----------------------------------------------------------------------------
(* The server.                                                             *)

(* make_response: the status line and the content, or an empty line.       *)
Response(i, status, content) ==
    <<Unit(i, "line", status)>> \o (IF content = <<>> THEN <<Unit(i, "end", 0)>> ELSE content)

(* accept() awaits the write.                                              *)
make_response(i, status, content) ==
    /\ sendq' = Append(sendq, Response(i, status, content))
    /\ pc' = "write" /\ cur' = i /\ buf' = <<>>
    /\ UNCHANGED handled

(* The loop goes on without an answer.                                     *)
Skip ==
    /\ pc' = "line" /\ cur' = None /\ buf' = <<>> /\ UNCHANGED <<handled, sendq>>

(* accept() returns, or an exception ends it: the connection is closed.    *)
Close ==
    /\ pc' = "closed" /\ cur' = None /\ buf' = <<>> /\ UNCHANGED <<handled, sendq>>

check_origin(origin) == origin \in AllowOrigin
check_method(methods) == methods \subseteq AllowMethods
check_headers(headers) == headers # {} /\ headers \subseteq AllowHeaders

(* The header of an answer to a preflight, with its fields.                *)
set_options_header(i) == <<Unit(i, "end", 1)>>

(* What is left of a buffer, sent back as part of the answer to i.         *)
Echo(i, s) == [j \in DOMAIN s |-> Unit(i, IF s[j].k = "line" THEN "echo" ELSE s[j].k, s[j].n)]

(* mpc_http_options: the header is read, and the answer's header put       *)
(* behind whatever is left in the same buffer.                             *)
mpc_http_options(i, s) ==
    \E rq \in {requests[i]}, rest \in {Echo(i, AfterHeader(s))} :
        \/ rq.form = "field" /\ Close
        \/ rq.form # "field" /\ rq.origin = None /\ make_response(i, no_content, rest)
        \/ /\ rq.form # "field" /\ rq.origin # None
           /\ IF check_origin(rq.origin) /\ check_method(rq.methods) /\ check_headers(rq.headers)
              THEN make_response(i, no_content, rest \o set_options_header(i))
              ELSE make_response(i, forbidden, rest)

(* Faulty: the header is left in front of the body.                        *)
Content_whole(i, s) == s

(* What follows the header, with the parameters of the url behind it.      *)
Content(i, s) ==
    AfterHeader(s) \o (IF requests[i].method = "get" THEN <<Unit(i, "params", 0)>> ELSE <<>>)

Given(i, way, s) == [r |-> i, way |-> way, content |-> s]

(* consume: a request whose header is no header is left as it was.         *)
consume(i, s) == Given(i, "binary", IF requests[i].form = "field" THEN <<>> ELSE Content(i, s))

(* handle_request: an error is not answered; otherwise the write is        *)
(* started and accept() goes on.  The visit before it fails unnoticed.     *)
handle_request(i, s) ==
    /\ pc' = "line" /\ cur' = None /\ buf' = <<>>
    /\ handled' = handled \cup {consume(i, s)}
    /\ sendq' = IF Result[requests[i].path] # 0 THEN sendq
                ELSE Append(sendq, Response(i, 0, Field(i, 1) \o <<Unit(i, "end", 0)>> \o Body(i, 1)))

(* convert::from_http_to_tcp.                                              *)
from_http_to_tcp(i, s) ==
    Given(i, IF requests[i].method = "get" THEN "kv" ELSE "json", Content(i, s))

(* Faulty: the transfer is not awaited.                                    *)
transfer_spawned(i, s) ==
    /\ pc' = "line" /\ cur' = None /\ buf' = <<>> /\ handled' = handled \cup {from_http_to_tcp(i, s)}
    /\ sendq' = Append(sendq, Response(i, Result[requests[i].path],
                                       Field(i, AnswerSize) \o <<Unit(i, "end", 0)>> \o Body(i, AnswerSize)))

(* do_complete of the transfer context: it awaits the backend.             *)
transfer(i, s) ==
    IF requests[i].form = "field" THEN Close
    ELSE /\ pc' = "transfer" /\ cur' = i /\ buf' = <<>>
         /\ handled' = handled \cup {from_http_to_tcp(i, s)}
         /\ UNCHANGED sendq

(* The rest of accept() once the body is there.                            *)
dispatch(i, s) ==
    \E c \in {Contexts[requests[i].path]} :
        \/ c = "none" /\ make_response(i, bad_request, <<>>)
        \/ c = "other" /\ Skip
        \/ c = "handler" /\ handle_request(i, s)
        \/ c = "transfer" /\ transfer(i, s)

recv(i, s) ==
    \/ filter_key(s) = 0 /\ Close
    \/ filter_key(s) > 0 /\ remain_size(s) <= 0 /\ dispatch(i, s)
    \/ /\ filter_key(s) > 0 /\ remain_size(s) > 0
       /\ pc' = "body" /\ cur' = i /\ buf' = s /\ UNCHANGED <<handled, sendq>>

(* What accept() does with the command line.                               *)
command_line(s, i) ==
    \/ parse_command_line(s, i) # 0 /\ make_response(i, parse_command_line(s, i), <<>>)
    \/ /\ parse_command_line(s, i) = 0 /\ requests[i].method = "options"
       /\ mpc_http_options(i, Tail(s))
    \/ /\ parse_command_line(s, i) = 0 /\ requests[i].method # "options"
       /\ recv(i, Tail(s))

(* One round of accept(): its buffer is new, and what a read took beyond   *)
(* the request is gone with it.                                            *)
accept ==
    /\ pc = "line"
    /\ \E n \in async_read_until(net) : \E s \in {SubSeq(net, 1, n)} :
           /\ net' = Drop(net, n)
           /\ command_line(s, s[FirstEnd(s)].r)
    /\ UNCHANGED <<peer, requests, sent, eager, eof, out, clientVars>>

(* Faulty: what is read is never committed to the buffer.                  *)
async_read_uncommitted ==
    /\ pc = "body" /\ Len(net) >= remain_size(buf)
    /\ net' = Drop(net, remain_size(buf))
    /\ dispatch(cur, buf)
    /\ UNCHANGED <<peer, requests, sent, eager, eof, out, clientVars>>

(* The rest of the body is there; session::async_read.                     *)
async_read ==
    /\ pc = "body" /\ Len(net) >= remain_size(buf)
    /\ net' = Drop(net, remain_size(buf))
    /\ dispatch(cur, buf \o SubSeq(net, 1, remain_size(buf)))
    /\ UNCHANGED <<peer, requests, sent, eager, eof, out, clientVars>>

(* The peer is gone before what accept() waits for came.                   *)
accept_ends ==
    /\ eof
    /\ \/ pc = "line" /\ async_read_until(net) = {}
       \/ pc = "body" /\ Len(net) < remain_size(buf)
    /\ Close
    /\ UNCHANGED <<peer, requests, sent, eager, eof, net, out, clientVars>>

(* The answer of the backend is converted (from_tcp_to_http) and written.  *)
from_tcp_to_http ==
    /\ pc = "transfer"
    /\ make_response(cur, Result[requests[cur].path],
                     Field(cur, AnswerSize) \o <<Unit(cur, "end", 0)>> \o Body(cur, AnswerSize))
    /\ UNCHANGED <<peer, requests, sent, eager, eof, net, out, clientVars>>

(* async_write writes as much as the socket takes and queues again for the *)
(* rest, behind the other writes.                                          *)
async_send ==
    /\ sendq # <<>>
    /\ \E n \in 1..Len(Head(sendq)) :
           /\ out' = out \o SubSeq(Head(sendq), 1, n)
           /\ IF n < Len(Head(sendq))
              THEN sendq' = Append(Tail(sendq), Drop(Head(sendq), n)) /\ UNCHANGED <<pc, cur>>
              ELSE /\ sendq' = Tail(sendq)
                   /\ IF pc = "write" /\ cur = Head(Head(sendq)).r
                      THEN pc' = "line" /\ cur' = None
                      ELSE UNCHANGED <<pc, cur>>
    /\ UNCHANGED <<peer, requests, sent, eager, eof, net, buf, handled, clientVars>>

-----------------------------------------------------------------------------
(* The client.                                                             *)

Unread == Drop(out, taken)

(* The query() loop of the client ends; nobody wakes the calls in wait().  *)
QueryEnds ==
    /\ query_pc' = "ended" /\ query_buf' = <<>>
    /\ UNCHANGED <<slot, filled, waiters, woken>>

QueryGoesOn ==
    /\ query_pc' = "line" /\ query_buf' = <<>>
    /\ UNCHANGED <<slot, filled, waiters, woken>>

(* The callback in the slot is run and dropped; the channel has no buffer, *)
(* so the call that has waited longest gets the wake-up.                   *)
filling_buffer(s) ==
    /\ query_pc' = "line" /\ query_buf' = <<>>
    /\ filled' = IF slot = None THEN filled ELSE [filled EXCEPT ![slot] = Head(s).r]
    /\ slot' = None
    /\ IF waiters = <<>> THEN UNCHANGED <<waiters, woken>>
       ELSE waiters' = Tail(waiters) /\ woken' = woken \cup {Head(waiters)}


(* The status line has three parts when the reason is one word.  A status  *)
(* that is not ok ends query() with an error, but 0 is no error.           *)
status_line(s) ==
    CASE Head(s).k # "line" \/ status_words(Head(s).n) # 1 -> QueryEnds
      [] OTHER -> \E st \in {string_to_status(Head(s).n)} :
                      \/ st = ok /\ filling_buffer(s)
                      \/ st = 0 /\ QueryGoesOn
                      \/ st \notin {ok, 0} /\ QueryEnds

(* query(): the status line counts as body too.                            *)
query ==
    /\ peer = "client" /\ query_pc = "line"
    /\ \E n \in async_read_until(Unread) : \E s \in {SubSeq(Unread, 1, n)} :
           /\ taken' = taken + n
           /\ \/ filter_key(s) = 0 /\ QueryEnds
              \/ filter_key(s) > 0 /\ remain_size(s) <= 0 /\ status_line(s)
              \/ /\ filter_key(s) > 0 /\ remain_size(s) > 0
                 /\ query_pc' = "body" /\ query_buf' = s
                 /\ UNCHANGED <<slot, filled, waiters, woken>>
    /\ UNCHANGED <<peer, requests, sent, eager, eof, serverVars>>

query_body ==
    /\ query_pc = "body" /\ Len(Unread) >= remain_size(query_buf)
    /\ taken' = taken + remain_size(query_buf)
    /\ status_line(query_buf \o SubSeq(Unread, 1, remain_size(query_buf)))
    /\ UNCHANGED <<peer, requests, sent, eager, eof, serverVars>>

(* The server has closed the connection.                                   *)
query_ends ==
    /\ peer = "client" /\ pc = "closed" /\ sendq = <<>>
    /\ \/ query_pc = "line" /\ async_read_until(Unread) = {}
       \/ query_pc = "body" /\ Len(Unread) < remain_size(query_buf)
    /\ QueryEnds
    /\ UNCHANGED <<peer, requests, sent, eager, eof, serverVars, taken>>

-----------------------------------------------------------------------------
Running ==
    \/ accept \/ async_read \/ accept_ends \/ from_tcp_to_http \/ async_send
    \/ query \/ query_body \/ query_ends

Next == send_request \/ peer_close \/ Running

Spec == Init /\ [][Next]_vars

(* The io_context runs what is ready; a backend answers.                   *)
FairSpec == Spec /\ WF_vars(Running)

-----------------------------------------------------------------------------
Mine(g) == SelectSeq(g.content, LAMBDA u : u.r = g.r /\ u.k # "params")

(* A handler or a backend is given what follows the header of its own      *)
(* request, in order and from its first unit on, never a unit of an        *)
(* earlier request (accept, recv, from_http_to_tcp).                       *)
OwnBody ==
    \A g \in handled :
        /\ IsPrefix(Mine(g), Body(g.r, requests[g.r].body))
        /\ IsPrefix(Mine(g), g.content)
        /\ \A u \in Range(g.content) : u.r >= g.r

(* What a handler or a backend is not given of its body is still on the    *)
(* socket: nothing of it is lost, and it is whole when it came together    *)
(* with the header (recv, session::async_read).                            *)
NoBodyLost ==
    [][\A g \in handled' \ handled :
           requests[g.r].form # "field" =>
               Mine(g) \o SelectSeq(net', LAMBDA u : u.r = g.r) = Body(g.r, requests[g.r].body)]_vars

(* A call of accept() whose write nobody awaits, with a request behind it. *)
Careless ==
    \E i \in eager : i > 1 /\ Contexts[requests[i - 1].path] = "handler"

(* Answers are written whole, in the order of the requests, none twice,    *)
(* and every one starts with its status line: accept() awaits each write   *)
(* and each transfer, so even pipelined requests are answered in turn.     *)
(* Only the write of a handler's answer is not awaited.                    *)
AnswersWhole ==
    ~Careless =>
        \A j \in DOMAIN out :
            /\ out[j].k = "line" => \A h \in 1..(j - 1) : out[h].r < out[j].r
            /\ j > 1 /\ out[j].r # out[j - 1].r => out[j].k = "line"


Unanswered(i) ==
    \/ Contexts[requests[i].path] = "other"
    \/ Contexts[requests[i].path] = "handler" /\ Result[requests[i].path] # 0

=============================================================================
