------------------------------ MODULE Message ------------------------------
(***************************************************************************)
(* Whole messages: basic_tcp_protocol::commit writes the topic, for a      *)
(* response the result, the header and the body in the way the header      *)
(* names; consume reads them on the other side into a message object.  For *)
(* a response that is a new one in every call; a request is kept: the      *)
(* handler of a topic has one for all the messages it gets, and            *)
(* basic_context::do_complete handles it whether or not consume returned   *)
(* an error.                                                               *)
(***************************************************************************)
EXTENDS Binary, Protocols

CONSTANTS
    Kinds,      \* kinds tried, with all their values, in a body of one field
    Topics,     \* the topics of the services that are tried
    Spell,      \* the characters of each topic
    Pick,       \* for each kind two values of its fields
    Results,    \* results of responses
    Headers,    \* pairs of a uuid and a timestamp
    Ways,       \* the ways a body is written
    MaxMessages \* bound on the messages one object receives

AllKinds ==
    {"uint", "uint32", "bool", "short", "int", "long", "string", "strings", "repeated", "map", "fixed"}

ASSUME MessageAssumption ==
    /\ Kinds \subseteq AllKinds
    /\ Results \subseteq Signed(Word) /\ Ways \subseteq Signed(Short)
    /\ MaxMessages \in Nat \ {0}

(* serialize_way                                                           *)
binary == 0
json == 1
kv == 2

-----------------------------------------------------------------------------
(* A direction of a protocol: the body as its sender and its receiver      *)
(* declare it, and the kinds of the values in front of it (basic_tcp_-     *)
(* protocol, tcp_header).                                                  *)
Message(router, response, out, in) ==
    [router |-> router, response |-> response, out |-> out, in |-> in]
Served ==
    {Message(l[1].router, FALSE, l[1].request, l[2].request) : l \in Links}
        \cup {Message(l[1].router, TRUE, l[1].response, l[2].response) : l \in Links}
Probes == {Message("probe", FALSE, <<<<"value", k>>>>, <<<<"value", k>>>>) : k \in Kinds}
Messages == {m \in Served : m.router \in Topics} \cup Probes

Head_(m) == (IF m.response THEN <<"int">> ELSE <<>>) \o <<"uint", "long", "short">>
Kind(field) == field[2]
KindsOf(layout) == [i \in DOMAIN layout |-> Kind(layout[i])]

Default(kind) ==
    CASE kind = "bool" -> FALSE
      [] kind \in {"string", "strings", "repeated", "map"} -> <<>>
      [] kind = "fixed" -> [i \in 1..FixedSize |-> 0]
      [] OTHER -> 0
Defaults(kinds) == [i \in DOMAIN kinds |-> Default(kinds[i])]

(* The bodies tried: all values in a probe, two in every other field.      *)
Bodies(m) ==
    IF m \in Probes THEN {<<v>> : v \in Values(Kind(m.out[1]))}
    ELSE {[i \in DOMAIN m.out |-> Pick[Kind(m.out[i])][n]] : n \in 1..2}
Heads(m) ==
    IF m \in Probes THEN LET h == CHOOSE h \in Headers : TRUE
                         IN  {<<h[1], h[2], w>> : w \in Ways \cap {binary, json}}
    ELSE {(IF m.response THEN <<r>> ELSE <<>>) \o <<h[1], h[2], w>> :
             r \in (IF m.response THEN Results ELSE {0}), h \in Headers, w \in Ways}

-----------------------------------------------------------------------------
(* tcp_header::serialize, to_binary: field after field.                    *)
to_fields(kinds, values) ==
    FlattenSeq([i \in DOMAIN kinds |-> to_datas(kinds[i], values[i])])

(* deserialize, from_binary: up to the first that throws.                  *)
from_fields(kinds, b) ==
    LET Add(fields, r) ==
            IF r.ok THEN Got(Append(fields.value, r.value), r.rest)
            ELSE [ok |-> FALSE, value |-> fields.value, rest |-> r.rest]
        Field(fields, kind) == IF fields.ok THEN Add(fields, from_datas(kind, fields.rest)) ELSE fields
        step[i \in 0..Len(kinds)] == IF i = 0 THEN Got(<<>>, b) ELSE Field(step[i - 1], kinds[i])
    IN  step[Len(kinds)]

(* The json form of a body: a value under the name of each field.  A       *)
(* number is an int64 again when it is parsed, or a uint64 if it is too    *)
(* large for that.                                                         *)
NoText == [text |-> FALSE]
JsonKinds == {"uint", "uint32", "bool", "string", "strings"}
HasJson(layout) == \A i \in DOMAIN layout : Kind(layout[i]) \in JsonKinds
json_value(kind, v) ==
    [type |-> IF kind \notin {"uint", "uint32"} THEN kind
              ELSE IF v < 2^(Long - 1) THEN "int64" ELSE "uint64",
     value |-> v]
to_json(layout, values) ==
    IF layout = <<>> THEN NoText
    ELSE [text |-> TRUE,
          object |-> [n \in {layout[i][1] : i \in DOMAIN layout} |->
              LET i == CHOOSE j \in DOMAIN layout : layout[j][1] = n
              IN  json_value(Kind(layout[i]), values[i])]]

(* from_json: at, as_int64, as_string ... throw at the first field whose   *)
(* value has another type; the text is parsed whole and stays in the       *)
(* buffer.                                                                 *)
JsonType(kind) == IF kind \in {"uint", "uint32"} THEN "int64" ELSE kind
from_json(layout, tail, b) ==
    LET Fits(i) == tail.text /\ layout[i][1] \in DOMAIN tail.object
                     /\ tail.object[layout[i][1]].type = JsonType(Kind(layout[i]))
        fit == {n \in 0..Len(layout) : \A i \in 1..n : Fits(i)}
        most == CHOOSE n \in fit : \A k \in fit : k <= n
    IN  [ok |-> most = Len(layout),
         value |-> [i \in 1..most |-> tail.object[layout[i][1]].value],
         rest |-> b]

(* to_kv writes a ? and the = between fields (a two-argument to_datas is   *)
(* the one that does nothing); from_kv sets every field to its default.    *)
kv_mark == 1
to_kv(layout) == [i \in DOMAIN layout |-> kv_mark]
from_kv(layout, b) == Got(Defaults(KindsOf(layout)), b)

-----------------------------------------------------------------------------
VARIABLES
    message,  \* the message of the object, its fields and kinds
    sent,     \* the values committed last
    buffer,   \* the bytes on their way
    tail,     \* the json text behind them
    cut,      \* the end of the message was lost
    object,   \* the receiver's message object: the values in order
    before,   \* the object before the last consume
    outcome,  \* "idle", "wire" (committed), "ok" or "error" (consumed)
    count     \* number of messages

vars == <<message, sent, buffer, tail, cut, object, before, outcome, count>>

HeadLen == Len(Head_(message))
Way(values) == values[HeadLen]
BodyOf(values) == SubSeq(values, HeadLen + 1, Len(values))
InKinds == Head_(message) \o KindsOf(message.in)

Init ==
    /\ message \in Messages
    /\ sent = <<>> /\ buffer = <<>> /\ tail = NoText /\ cut = FALSE
    /\ object = Defaults(InKinds) /\ before = object
    /\ outcome = "idle" /\ count = 0

commit(head, body) ==
    /\ outcome # "wire" /\ count < MaxMessages
    /\ Way(head) = json => HasJson(message.out)
    /\ LET way == Way(head)
       IN  /\ buffer' = to_datas("string", Spell[message.router])
                 \o to_fields(Head_(message), head)
                 \o (CASE way = binary -> to_fields(KindsOf(message.out), body)
                       [] way = kv -> to_kv(message.out)
                       [] OTHER -> <<>>)
           /\ tail' = IF way = json THEN to_json(message.out, body) ELSE NoText
    /\ sent' = head \o body
    /\ outcome' = "wire" /\ cut' = FALSE /\ count' = count + 1
    /\ object' = IF message.response THEN Defaults(InKinds) ELSE object
    /\ UNCHANGED <<message, before>>

(* Of what follows the topic only the first bytes are there.               *)
truncate(n) ==
    /\ outcome = "wire" /\ ~cut
    /\ Len(to_datas("string", Spell[message.router])) <= n
    /\ n < Len(buffer) \/ (n = Len(buffer) /\ tail # NoText)
    /\ buffer' = SubSeq(buffer, 1, n) /\ tail' = NoText /\ cut' = TRUE
    /\ UNCHANGED <<message, sent, object, before, outcome, count>>

(* Reads the values in front of the body and then the body, in the way the *)
(* header that came with it says.                                          *)
Read(b) ==
    LET Body(head, way) ==
            CASE way = binary -> from_fields(KindsOf(message.in), head.rest)
              [] way = json -> from_json(message.in, tail, head.rest)
              [] way = kv -> from_kv(message.in, head.rest)
              [] OTHER -> Got(<<>>, head.rest)
        Joined(head, body) == [ok |-> body.ok, value |-> head.value \o body.value, rest |-> body.rest]
        Rest(head) == IF head.ok THEN Joined(head, Body(head, Way(head.value))) ELSE head
    IN  Rest(from_fields(Head_(message), b))

(* Faulty: an object is emptied before it is filled.                       *)
consume_fresh ==
    /\ outcome = "wire"
    /\ \E r \in {Read(from_string(buffer).rest)} :
           /\ object' = r.value \o SubSeq(Defaults(InKinds), Len(r.value) + 1, Len(object))
           /\ buffer' = r.rest
           /\ outcome' = IF r.ok THEN "ok" ELSE "error"
    /\ before' = object
    /\ UNCHANGED <<message, sent, tail, cut, count>>

(* The values read take the place of the first ones of the object.         *)
consume ==
    /\ outcome = "wire"
    /\ \E r \in {Read(from_string(buffer).rest)} :
           /\ object' = r.value \o SubSeq(object, Len(r.value) + 1, Len(object))
           /\ buffer' = r.rest
           /\ outcome' = IF r.ok THEN "ok" ELSE "error"
    /\ before' = object
    /\ UNCHANGED <<message, sent, tail, cut, count>>

Next ==
    \/ \E head \in Heads(message), body \in Bodies(message) : commit(head, body)
    \/ \E n \in 0..Len(buffer) : truncate(n)
    \/ consume

Spec == Init /\ [][Next]_vars

-----------------------------------------------------------------------------
Done == outcome \in {"ok", "error"}

(* A body written as binary or json arrives as it was sent, with its       *)
(* header and result, or the reader is told: in json a number that is no   *)
(* int64 is refused.  A body written as kv arrives empty and one written   *)
(* in no known way leaves the body of the message before.  Of a binary     *)
(* message nothing is left in the buffer (basic_tcp_protocol::commit and   *)
(* consume, the generated bodies).                                         *)
Fits == \A i \in DOMAIN message.out :
            Kind(message.out[i]) = "uint" => sent[HeadLen + i] < 2^(Long - 1)
RoundTrip ==
    Done /\ ~cut =>
        IF Way(sent) = json /\ ~Fits THEN outcome = "error"
        ELSE /\ outcome = "ok"
             /\ SubSeq(object, 1, HeadLen) = SubSeq(sent, 1, HeadLen)
             /\ BodyOf(object) = CASE Way(sent) \in {binary, json} -> BodyOf(sent)
                                   [] Way(sent) = kv -> Defaults(KindsOf(message.in))
                                   [] OTHER -> BodyOf(before)
             /\ Way(sent) = binary => buffer = <<>>

(* b is the text a, or a with its end replaced by zeros.                   *)
ZeroFilled(a, b) ==
    /\ Len(a) = Len(b)
    /\ \E k \in 0..Len(a) : SubSeq(a, 1, k) = SubSeq(b, 1, k) /\ \A i \in (k + 1)..Len(b) : b[i] = 0
Damaged(kind, a, b) ==
    \/ kind = "string" /\ ZeroFilled(a, b)
    \/ /\ kind = "strings" /\ a # <<>> /\ Len(a) = Len(b)
       /\ Front(a) = Front(b) /\ ZeroFilled(Last(a), Last(b))

(* A message that was cut short and yet read without an error is intact    *)
(* but for the end of the text it ends with: no number, no flag and no     *)
(* earlier text is ever wrong unnoticed.  What the receiver has of a body  *)
(* sent as kv, or in no known way, does not depend on the bytes of it.     *)
CutNoticed ==
    outcome = "ok" /\ cut =>
        \A i \in DOMAIN object :
            \/ object[i] = sent[i]
            \/ i = Len(object) /\ Damaged(InKinds[i], sent[i], object[i])
            \/ i > HeadLen /\ Way(sent) \notin {binary, json}

(* When consume fails, what the handler then works with is the beginning   *)
(* of the new message followed by the rest of the one before: fields are   *)
(* replaced in order, each as a whole or not at all                        *)
(* (basic_context::do_complete runs the handler on it all the same).       *)
NewThenOld ==
    outcome = "error" =>
        \E k \in 0..(Len(object) - 1) :
            /\ \A i \in 1..k :
                   \/ object[i] = sent[i]
                   \/ i > HeadLen /\ Damaged(InKinds[i], sent[i], object[i])
            /\ \A i \in (k + 1)..Len(object) : object[i] = before[i]

=============================================================================
