-------------------------- MODULE TcpServerProofs --------------------------
(***************************************************************************)
(* What TcpServer promises for any number of connections, topics and       *)
(* requests: answers match their requests although a topic has one handler *)
(* object, as long as no request for a topic whose handler suspends        *)
(* arrives while one is pending.                                           *)
(***************************************************************************)
EXTENDS TcpServer, TLAPS

(* The callers keep off topics whose handler suspends.                     *)
KeptApart == Suspending \subseteq Exclusive

(* A request is on the connection it was sent on, and there once.          *)
OnWire ==
    \A k \in Conns : \A i \in 1..Len(wire[k]) :
        /\ ConnOf[wire[k][i]] = k /\ In(wire[k][i], sent[k])
        /\ wire[k][i] \notin suspended
        /\ \A j \in 1..Len(wire[k]) : wire[k][i] = wire[k][j] => i = j

(* A suspended handler still holds its own request and callback.           *)
Held ==
    \A r \in suspended :
        /\ TopicOf[r] \in Suspending /\ In(r, sent[ConnOf[r]])
        /\ request[TopicOf[r]] = r /\ session[TopicOf[r]] = r

(* No two requests for a topic callers keep apart are pending.             *)
Apart ==
    \A r, q \in Pending : TopicOf[r] = TopicOf[q] /\ TopicOf[r] \in Exclusive => r = q

IInv == TypeOK /\ OnWire /\ Held /\ Apart /\ AnswerMatches /\ NoDangling

-----------------------------------------------------------------------------
(* What the head and the tail of a sequence are, as accept() takes them.   *)
LEMMA TakeFirst ==
    ASSUME NEW S, NEW q \in Seq(S), q # <<>>
    PROVE  /\ Len(q) \in Nat /\ Len(q) # 0 /\ Head(q) = q[1] /\ Head(q) \in S
           /\ Tail(q) \in Seq(S) /\ Len(Tail(q)) = Len(q) - 1
           /\ \A i \in 1..Len(Tail(q)) : i + 1 \in 1..Len(q) /\ Tail(q)[i] = q[i + 1]
  OBVIOUS

(* What appending adds, as send and respond do.                            *)
LEMMA AddLast ==
    ASSUME NEW S, NEW q \in Seq(S), NEW x \in S
    PROVE  /\ Append(q, x) \in Seq(S) /\ Len(Append(q, x)) = Len(q) + 1 /\ Len(q) \in Nat
           /\ \A i \in 1..Len(q) : Append(q, x)[i] = q[i]
           /\ Append(q, x)[Len(q) + 1] = x
  OBVIOUS

(* Initially nothing was sent.                                             *)
LEMMA InitIInv == Init => IInv
  BY ServerAssumption
  DEF Init, IInv, TypeOK, OnWire, Held, Apart, AnswerMatches, NoDangling, Pending, In

(* The frame that a request's own callback sends matches it (tcp.hpp,      *)
(* handle_request).                                                        *)
LEMMA RespondOwn ==
    ASSUME TypeOK, AnswerMatches, NEW r \in Reqs, respond(r, r, r)
    PROVE  /\ answers' \in [Conns -> Seq(Answers)] /\ dangling' \in SUBSET Reqs
           /\ AnswerMatches'
           /\ dangling' = dangling \/ (dangling' = dangling \cup {r} /\ conn[ConnOf[r]] = "closed")
<1>1. ConnOf[r] \in Conns
  BY ServerAssumption
<1>2. CASE conn[ConnOf[r]] = "open" /\ UNCHANGED dangling
           /\ answers' = [answers EXCEPT ![ConnOf[r]] = Append(@, [src |-> r, body |-> r, way |-> r])]
  <2> DEFINE a == [src |-> r, body |-> r, way |-> r]
  <2>1. a \in Answers
    BY DEF Answers
  <2>2. answers[ConnOf[r]] \in Seq(Answers)
    BY <1>1 DEF TypeOK
  <2>3. answers' = [answers EXCEPT ![ConnOf[r]] = Append(answers[ConnOf[r]], a)]
    BY <1>2
  <2> HIDE DEF a
  <2>4. answers' \in [Conns -> Seq(Answers)]
    BY ZenonT(30), <2>1, <2>2, <2>3, AddLast DEF TypeOK
  <2>5. ASSUME NEW k \in Conns, NEW i \in 1..Len(answers'[k])
        PROVE  \/ i \in 1..Len(answers[k]) /\ answers'[k][i] = answers[k][i]
               \/ k = ConnOf[r] /\ answers'[k][i] = a
    <3>1. CASE k = ConnOf[r]
      <4>1. answers'[k] = Append(answers[k], a)
        BY <3>1, <1>1, <2>3 DEF TypeOK
      <4> QED BY <4>1, <3>1, <2>1, <2>2, <2>5, AddLast
    <3>2. CASE k # ConnOf[r]
      BY <3>2, <2>3, <2>5 DEF TypeOK
    <3> QED BY <3>1, <3>2
  <2>6. a.src = r /\ a.body = r /\ a.way = r
    BY DEF a
  <2>7. AnswerMatches'
    BY <2>5, <2>6 DEF AnswerMatches
  <2> QED BY <1>2, <2>4, <2>7 DEF TypeOK
<1>3. CASE UNCHANGED answers
  <2>1. AnswerMatches'
    BY <1>3 DEF AnswerMatches
  <2> QED BY <1>3, <2>1 DEF respond, TypeOK
<1> QED BY <1>2, <1>3 DEF respond

(* A step that makes no request pending leaves those that are, apart.      *)
LEMMA ApartKept ==
    ASSUME Apart, Pending' \subseteq Pending
    PROVE  Apart'
  BY DEF Apart

(* A peer sends a request: new on its connection, and alone of its topic   *)
(* where callers keep apart.                                               *)
LEMMA SendKeeps ==
    ASSUME IInv, NEW r \in Reqs, peer_send(r)
    PROVE  IInv'
<1> DEFINE k == ConnOf[r]
<1>1. k \in Conns
  BY ServerAssumption
<1>2. /\ wire[k] \in Seq(Reqs) /\ sent[k] \in Seq(Reqs)
      /\ wire'[k] = Append(wire[k], r) /\ sent'[k] = Append(sent[k], r)
      /\ \A l \in Conns : l # k => wire'[l] = wire[l] /\ sent'[l] = sent[l]
  BY <1>1 DEF IInv, TypeOK, peer_send
<1>3. TypeOK'
  BY <1>1, <1>2, AddLast DEF IInv, TypeOK, peer_send
<1>4. \A l \in Conns, q \in Reqs : In(q, sent[l]) => In(q, sent'[l])
  <2>1. \A q \in Reqs : In(q, sent[k]) => In(q, Append(sent[k], r))
    BY <1>2, AddLast DEF In
  <2> QED BY ZenonT(30), <1>2, <2>1
<1>5. In(r, sent'[k]) /\ ~In(r, sent[k])
  BY <1>2, AddLast DEF In, peer_send
<1> HIDE DEF k
<1>6. \A i \in 1..Len(wire[k]) : wire[k][i] \in Reqs /\ wire[k][i] # r
  BY <1>1, <1>2, <1>5 DEF IInv, OnWire
<1>7. r \notin suspended
  BY <1>5 DEF IInv, Held, k
<1>8. UNCHANGED <<suspended, request, session, answers, dangling>>
  BY DEF peer_send
<1>9. OnWire'
  <2> SUFFICES ASSUME NEW l \in Conns, NEW i \in 1..Len(wire'[l])
               PROVE  /\ ConnOf[wire'[l][i]] = l /\ In(wire'[l][i], sent'[l])
                      /\ wire'[l][i] \notin suspended
                      /\ \A j \in 1..Len(wire'[l]) : wire'[l][i] = wire'[l][j] => i = j
    BY <1>8 DEF OnWire
  <2>1. CASE l # k
    <3>1. wire'[l] = wire[l] /\ wire[l] \in Seq(Reqs)
      BY <2>1, <1>2 DEF IInv, TypeOK
    <3>2. wire[l][i] \in Reqs
      BY <3>1
    <3> QED BY <3>1, <3>2, <1>4 DEF IInv, OnWire
  <2>2. CASE l = k
    <3>1. CASE i \in 1..Len(wire[k])
      <4>1. wire'[k][i] = wire[k][i] /\ wire[k][i] \in Reqs
        BY <3>1, <1>2, <1>6, AddLast
      <4>2. ConnOf[wire[k][i]] = k /\ In(wire[k][i], sent'[k]) /\ wire[k][i] \notin suspended
        BY <3>1, <4>1, <1>1, <1>4 DEF IInv, OnWire
      <4>3. ASSUME NEW j \in 1..Len(wire'[k]), wire'[k][i] = wire'[k][j]
            PROVE  i = j
        <5>1. j \in 1..Len(wire[k]) \/ wire'[k][j] = r
          BY <1>2, AddLast
        <5>2. j \in 1..Len(wire[k])
          BY ZenonT(30), <5>1, <4>1, <4>3, <3>1, <1>6
        <5>3. wire'[k][j] = wire[k][j]
          BY <5>2, <1>2, AddLast
        <5> QED BY ZenonT(30), <5>2, <5>3, <4>1, <4>3, <3>1, <1>1 DEF IInv, OnWire
      <4> QED BY <4>1, <4>2, <4>3, <2>2
    <3>2. CASE i = Len(wire[k]) + 1
      <4>1. wire'[k][i] = r
        BY <3>2, <1>2, AddLast
      <4>2. \A j \in 1..Len(wire'[k]) : j # i => j \in 1..Len(wire[k]) /\ wire'[k][j] = wire[k][j]
        BY <3>2, <1>2, AddLast
      <4> QED BY <4>1, <4>2, <2>2, <1>5, <1>6, <1>7 DEF k
    <3> QED BY <3>1, <3>2, <2>2, <1>2, AddLast
  <2> QED BY <2>1, <2>2
<1>10. Held'
  BY <1>4, <1>8, ServerAssumption DEF IInv, TypeOK, Held
<1>11. \A q \in Pending' : q \in Pending \/ q = r
  <2> SUFFICES ASSUME NEW q \in Reqs, q \in Pending' PROVE q \in Pending \/ q = r
    BY DEF Pending
  <2>1. ConnOf[q] \in Conns
    BY ServerAssumption
  <2>2. CASE q \in suspended
    BY <2>2 DEF Pending
  <2>3. CASE In(q, wire'[ConnOf[q]])
    <3>1. In(q, wire[ConnOf[q]]) \/ q = r
      <4>1. CASE ConnOf[q] # k
        BY <4>1, <2>1, <2>3, <1>2
      <4>2. CASE ConnOf[q] = k
        BY <4>2, <2>3, <1>2, AddLast DEF In
      <4> QED BY <4>1, <4>2
    <3> QED BY <3>1 DEF Pending
  <2> QED BY <2>2, <2>3, <1>8 DEF Pending
<1>12. TopicOf[r] \in Exclusive => \A q \in Pending : TopicOf[q] # TopicOf[r]
  BY DEF peer_send
<1>13. Apart'
  BY <1>11, <1>12 DEF IInv, Apart
<1>14. AnswerMatches' /\ NoDangling'
  BY <1>8 DEF IInv, AnswerMatches, NoDangling
<1> QED BY <1>3, <1>9, <1>10, <1>13, <1>14 DEF IInv

(* accept() takes a request off its connection; it may become suspended.   *)
LEMMA TakeKeeps ==
    ASSUME IInv, NEW k \in Conns, wire[k] # <<>>,
           wire' = [wire EXCEPT ![k] = Tail(@)], sent' = sent,
           suspended' = suspended \/ suspended' = suspended \cup {Head(wire[k])}
    PROVE  /\ Head(wire[k]) \in Reqs /\ ConnOf[Head(wire[k])] = k
           /\ In(Head(wire[k]), sent[k])
           /\ Head(wire[k]) \notin suspended /\ Head(wire[k]) \in Pending
           /\ wire' \in [Conns -> Seq(Reqs)]
           /\ OnWire' /\ Pending' \subseteq Pending
<1>1. PICK r : r = Head(wire[k])
  OBVIOUS
<1>2. wire[k] \in Seq(Reqs)
  BY DEF IInv, TypeOK
<1>3. /\ r = wire[k][1] /\ r \in Reqs /\ 1 \in 1..Len(wire[k])
      /\ wire'[k] = Tail(wire[k]) /\ wire'[k] \in Seq(Reqs)
      /\ \A i \in 1..Len(wire'[k]) : i + 1 \in 1..Len(wire[k]) /\ wire'[k][i] = wire[k][i + 1]
  BY <1>1, <1>2, TakeFirst DEF IInv, TypeOK
<1>4. ConnOf[r] = k /\ In(r, sent[k]) /\ r \notin suspended
  BY <1>3 DEF IInv, OnWire
<1>5. r \in Pending
  BY <1>3, <1>4 DEF Pending, In
<1>6. \A l \in Conns : l # k => wire'[l] = wire[l]
  BY DEF IInv, TypeOK
<1>7. wire' \in [Conns -> Seq(Reqs)]
  BY <1>3 DEF IInv, TypeOK
<1>8. OnWire'
  <2> SUFFICES ASSUME NEW l \in Conns, NEW i \in 1..Len(wire'[l])
               PROVE  /\ ConnOf[wire'[l][i]] = l /\ In(wire'[l][i], sent[l])
                      /\ wire'[l][i] \notin suspended'
                      /\ \A j \in 1..Len(wire'[l]) : wire'[l][i] = wire'[l][j] => i = j
    BY ZenonT(30) DEF OnWire
  <2>1. CASE l = k
    <3>1. wire'[k][i] = wire[k][i + 1] /\ i + 1 \in 1..Len(wire[k])
      BY <2>1, <1>3
    <3>2. wire[k][i + 1] # r
      <4>1. i + 1 # 1
        BY <2>1, <1>3
      <4>2. wire[k][i + 1] = wire[k][1] => i + 1 = 1
        BY <3>1, <1>3 DEF IInv, OnWire
      <4> QED BY <4>1, <4>2, <1>3
    <3>3. ConnOf[wire[k][i + 1]] = k /\ In(wire[k][i + 1], sent[k]) /\ wire[k][i + 1] \notin suspended
      BY <3>1 DEF IInv, OnWire
    <3>4. ASSUME NEW j \in 1..Len(wire'[k]), wire'[k][i] = wire'[k][j]
          PROVE  i = j
      <4>1. wire[k][i + 1] = wire[k][j + 1] /\ j + 1 \in 1..Len(wire[k])
        BY <3>1, <3>4, <1>3
      <4>2. i + 1 = j + 1
        BY <4>1, <3>1 DEF IInv, OnWire
      <4> QED BY <4>2
    <3> QED BY <2>1, <3>1, <3>2, <3>3, <3>4, <1>1
  <2>2. CASE l # k
    <3>1. wire'[l] = wire[l]
      BY <2>2, <1>6
    <3>2. wire[l][i] # r
      BY <3>1, <2>2, <1>4 DEF IInv, OnWire
    <3> QED BY <3>1, <3>2, <1>1 DEF IInv, OnWire
  <2> QED BY ZenonT(30), <2>1, <2>2
<1>9. Pending' \subseteq Pending
  <2> SUFFICES ASSUME NEW q \in Reqs, q \in Pending' PROVE q \in Pending
    BY DEF Pending
  <2>1. ConnOf[q] \in Conns
    BY ServerAssumption
  <2>2. CASE q \in suspended'
    BY <2>2, <1>1, <1>5 DEF Pending
  <2>3. CASE In(q, wire'[ConnOf[q]])
    <3>1. In(q, wire[ConnOf[q]])
      <4>1. CASE ConnOf[q] = k
        BY <4>1, <2>3, <1>3 DEF In
      <4>2. CASE ConnOf[q] # k
        BY <4>2, <2>1, <2>3, <1>6
      <4> QED BY <4>1, <4>2
    <3> QED BY <3>1 DEF Pending
  <2> QED BY <2>2, <2>3 DEF Pending
<1> QED BY <1>1, <1>3, <1>4, <1>5, <1>7, <1>8, <1>9

(* One round of accept(): the handler of the topic takes the request; when *)
(* another request was suspended in it, the two were not kept apart.       *)
LEMMA AcceptKeeps ==
    ASSUME KeptApart, IInv, NEW k \in Conns, accept(k)
    PROVE  IInv'
<1>1. PICK r : r = Head(wire[k])
  OBVIOUS
<1>2. PICK t : t = TopicOf[r]
  OBVIOUS
<1>3. /\ wire[k] # <<>> /\ conn[k] \in {"open", "lost"}
      /\ wire' = [wire EXCEPT ![k] = Tail(@)] /\ sent' = sent /\ conn' = conn
  BY DEF accept
<1>4. /\ suspended' = suspended \/ suspended' = suspended \cup {r}
      /\ \/ t \in Handled /\ do_complete(t, r)
         \/ t \notin Handled /\ UNCHANGED <<request, session, suspended, answers, dangling>>
  BY <1>1, <1>2 DEF accept, do_complete
<1>5. /\ r \in Reqs /\ ConnOf[r] = k /\ In(r, sent[k]) /\ r \notin suspended /\ r \in Pending
      /\ wire' \in [Conns -> Seq(Reqs)] /\ OnWire' /\ Pending' \subseteq Pending
  BY ZenonT(30), <1>1, <1>3, <1>4, TakeKeeps
<1>6. t \in Topics
  BY <1>2, <1>5, ServerAssumption
<1>7. Apart'
  BY <1>5, ApartKept DEF IInv
<1>8. CASE t \notin Handled /\ UNCHANGED <<request, session, suspended, answers, dangling>>
  <2>1. TypeOK'
    BY <1>3, <1>5, <1>8 DEF IInv, TypeOK
  <2>2. Held' /\ AnswerMatches' /\ NoDangling'
    BY <1>3, <1>8 DEF IInv, Held, AnswerMatches, NoDangling
  <2> QED BY <2>1, <2>2, <1>5, <1>7 DEF IInv
<1>9. CASE t \in Handled /\ do_complete(t, r)
  <2>1. request' = [request EXCEPT ![t] = r] /\ session' = [session EXCEPT ![t] = r]
    BY <1>9 DEF do_complete
  <2>2. \A q \in suspended : TopicOf[q] # t
    <3> SUFFICES ASSUME NEW q \in suspended, TopicOf[q] = t PROVE FALSE
      OBVIOUS
    <3>1. q \in Pending /\ t \in Exclusive
      BY DEF IInv, TypeOK, Held, Pending, KeptApart
    <3>2. q = r
      BY <3>1, <1>2, <1>5 DEF IInv, Apart
    <3> QED BY <3>2, <1>5
  <2>3. \A q \in suspended : /\ TopicOf[q] \in Suspending /\ In(q, sent'[ConnOf[q]])
                             /\ request'[TopicOf[q]] = q /\ session'[TopicOf[q]] = q
    <3> SUFFICES ASSUME NEW q \in suspended
                 PROVE  /\ TopicOf[q] \in Suspending /\ In(q, sent'[ConnOf[q]])
                        /\ request'[TopicOf[q]] = q /\ session'[TopicOf[q]] = q
      OBVIOUS
    <3>1. /\ TopicOf[q] \in Suspending /\ In(q, sent'[ConnOf[q]])
          /\ request[TopicOf[q]] = q /\ session[TopicOf[q]] = q
      BY <1>3 DEF IInv, Held
    <3>2. TopicOf[q] \in Topics /\ TopicOf[q] # t
      BY <2>2, ServerAssumption DEF IInv, TypeOK
    <3> QED BY <3>1, <3>2, <2>1 DEF IInv, TypeOK
  <2>4. CASE t \in Suspending /\ suspended' = suspended \cup {r} /\ UNCHANGED <<answers, dangling>>
    <3>1. TypeOK'
      BY ZenonT(30), <2>1, <2>4, <1>3, <1>5 DEF IInv, TypeOK
    <3>2. request'[t] = r /\ session'[t] = r
      BY <2>1, <1>6 DEF IInv, TypeOK
    <3>3. Held'
      BY <3>2, <2>3, <2>4, <1>2, <1>3, <1>5 DEF Held
    <3>4. AnswerMatches' /\ NoDangling'
      BY <2>4 DEF IInv, AnswerMatches, NoDangling
    <3> QED BY <3>1, <3>3, <3>4, <1>5, <1>7 DEF IInv
  <2>5. CASE respond(r, r, r) /\ UNCHANGED suspended
    <3>1. /\ answers' \in [Conns -> Seq(Answers)] /\ dangling' \in SUBSET Reqs
          /\ AnswerMatches' /\ dangling' = dangling
      BY <2>5, <1>3, <1>5, RespondOwn DEF IInv
    <3>2. TypeOK'
      BY ZenonT(30), <3>1, <2>1, <2>5, <1>3, <1>5 DEF IInv, TypeOK
    <3>3. Held'
      BY <2>3, <2>5 DEF Held
    <3>4. NoDangling'
      BY <3>1 DEF IInv, NoDangling
    <3> QED BY <3>1, <3>2, <3>3, <3>4, <1>5, <1>7 DEF IInv
  <2> QED BY <2>4, <2>5, <1>9 DEF do_complete
<1> QED BY <1>4, <1>8, <1>9

(* What a suspended handler awaited completes: it answers through its own  *)
(* callback.                                                               *)
LEMMA ResumeKeeps ==
    ASSUME KeptApart, IInv, NEW r \in Reqs, handle_resumes(r)
    PROVE  IInv'
<1>1. /\ r \in suspended /\ suspended' = suspended \ {r}
      /\ UNCHANGED <<conn, sent, wire, request, session>>
  BY DEF handle_resumes
<1>2. TopicOf[r] \in Suspending /\ respond(r, r, r)
  BY <1>1 DEF IInv, Held, handle_resumes
<1>3. /\ answers' \in [Conns -> Seq(Answers)] /\ dangling' \in SUBSET Reqs /\ AnswerMatches'
      /\ dangling' = dangling \/ dangling' = dangling \cup {r}
  BY <1>2, RespondOwn DEF IInv
<1>4. TypeOK' /\ Held'
  BY <1>1, <1>3 DEF IInv, TypeOK, Held
<1>5. OnWire'
  BY <1>1 DEF IInv, OnWire
<1>6. Pending' \subseteq Pending
  BY <1>1 DEF Pending
<1>7. Apart'
  BY <1>6, ApartKept DEF IInv
<1>8. NoDangling'
  BY <1>2, <1>3 DEF IInv, NoDangling, Inline
<1> QED BY <1>3, <1>4, <1>5, <1>7, <1>8 DEF IInv

(* A connection ends: what was not read is gone.                           *)
LEMMA EndKeeps ==
    ASSUME IInv, NEW k \in Conns, accept_ends(k) \/ peer_close(k)
    PROVE  IInv'
<1>1. /\ UNCHANGED <<sent, request, session, suspended, answers, dangling>>
      /\ conn' \in [Conns -> {"open", "lost", "closed"}]
      /\ wire' = wire \/ wire' = [wire EXCEPT ![k] = <<>>]
  BY ZenonT(30) DEF accept_ends, peer_close, IInv, TypeOK
<1>2. /\ wire' \in [Conns -> Seq(Reqs)]
      /\ \A l \in Conns : wire'[l] = wire[l] \/ wire'[l] = <<>>
  <2>1. <<>> \in Seq(Reqs) /\ wire \in [Conns -> Seq(Reqs)]
    BY DEF IInv, TypeOK
  <2>2. CASE wire' = wire
    BY <2>1, <2>2
  <2>3. CASE wire' = [wire EXCEPT ![k] = <<>>]
    BY <2>1, <2>3
  <2> QED BY <1>1, <2>2, <2>3
<1>3. TypeOK'
  BY <1>1, <1>2 DEF IInv, TypeOK
<1>4. OnWire'
  <2> SUFFICES ASSUME NEW l \in Conns, NEW i \in 1..Len(wire'[l])
               PROVE  wire'[l] = wire[l]
    BY <1>1 DEF IInv, OnWire
  <2> QED BY <1>2
<1>5. Held' /\ AnswerMatches' /\ NoDangling'
  BY <1>1 DEF IInv, Held, AnswerMatches, NoDangling
<1>6. Pending' \subseteq Pending
  BY <1>1, <1>2, ServerAssumption DEF Pending, In
<1>7. Apart'
  BY <1>6, ApartKept DEF IInv
<1> QED BY <1>3, <1>4, <1>5, <1>7 DEF IInv

(* The invariant of the server: inductive as long as callers keep apart    *)
(* (basic_context, do_complete: one handler object for a topic).           *)
THEOREM Invariant == KeptApart => (Spec => []IInv)
<1> SUFFICES ASSUME KeptApart PROVE Spec => []IInv
  OBVIOUS
<1>1. Init => IInv
  BY InitIInv
<1>2. IInv /\ [Next]_vars => IInv'
  <2> SUFFICES ASSUME IInv, [Next]_vars PROVE IInv'
    OBVIOUS
  <2>1. ASSUME NEW r \in Reqs, peer_send(r) PROVE IInv'
    BY <2>1, SendKeeps
  <2>2. ASSUME NEW r \in Reqs, handle_resumes(r) PROVE IInv'
    BY <2>2, ResumeKeeps
  <2>3. ASSUME NEW k \in Conns, accept(k) PROVE IInv'
    BY <2>3, AcceptKeeps
  <2>4. ASSUME NEW k \in Conns, accept_ends(k) \/ peer_close(k) PROVE IInv'
    BY <2>4, EndKeeps
  <2>5. CASE UNCHANGED vars
    <3>1. UNCHANGED <<conn, sent, wire, request, session, suspended, answers, dangling>>
      BY <2>5 DEF vars
    <3>2. TypeOK' /\ OnWire'
      BY <3>1 DEF IInv, TypeOK, OnWire
    <3>3. Pending' = Pending
      BY <3>1 DEF Pending
    <3>4. Held' /\ Apart'
      BY <3>1, <3>3, ApartKept DEF IInv, Held
    <3>5. AnswerMatches' /\ NoDangling'
      BY <3>1 DEF IInv, AnswerMatches, NoDangling
    <3> QED BY <3>2, <3>4, <3>5 DEF IInv
  <2> QED BY <2>1, <2>2, <2>3, <2>4, <2>5 DEF Next
<1> QED BY <1>1, <1>2, PTL DEF Spec

(* Every answer goes to the connection and the src of the request it was   *)
(* computed for, although the handler object of a topic is shared: for any *)
(* number of connections and requests, when callers keep apart             *)
(* (handler.hpp, attach_session and visit).                                *)
THEOREM AnswersMatch == KeptApart => (Spec => []AnswerMatches)
<1>1. IInv => AnswerMatches
  BY DEF IInv
<1> QED BY <1>1, Invariant, PTL

(* A handler that does not suspend never answers through a connection      *)
(* object that is gone (tcp.hpp, the callback of accept).                  *)
THEOREM InlineNeverDangles == KeptApart => (Spec => []NoDangling)
<1>1. IInv => NoDangling
  BY DEF IInv
<1> QED BY <1>1, Invariant, PTL
=============================================================================
