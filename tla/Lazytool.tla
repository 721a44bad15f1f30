------------------------------ MODULE Lazytool ------------------------------
(***************************************************************************)
(* lazytool: reads the .virgo files named on the command line and writes   *)
(* for each a header and a source with the classes of its declarations.    *)
(* Text is a sequence of chunks: runs of letters or of digits, spaces and  *)
(* marks.  What is generated is kept as the list of calls the generated    *)
(* functions make, one entry per field.                                    *)
(***************************************************************************)
EXTENDS Naturals, Sequences, FiniteSets, SequencesExt

CONSTANTS
    Letters,     \* the chunks of letters
    Digits,      \* the chunks of digits
    Sources,     \* what the declarations in a.virgo may be
    Other,       \* the declarations in b.virgo
    Commands,    \* command lines: sequences of arguments
    FaultyCommands \* those tried with files that have a mistake

Spaces == {" ", "\n"}
Marks == {"{", "}", ";", "-", ">", ","}

ASSUME LazytoolAssumption ==
    /\ Letters \cap (Digits \cup Spaces \cup Marks) = {}
    /\ Digits \cap (Spaces \cup Marks) = {}

-----------------------------------------------------------------------------
(* Declarations.  A type is the chunks of its name, or of its element or   *)
(* its key and value; a field of an enum has the empty type.               *)
Plain(name) == [form |-> "plain", of |-> <<name>>]
Vector(name) == [form |-> "vector", of |-> <<name>>]
Map(key, value) == [form |-> "map", of |-> <<key, value>>]
NoType == [form |-> "none", of |-> <<>>]
Field(type, name) == [type |-> type, name |-> name]
Declaration(kind, name, router, parts) ==
    [kind |-> kind, name |-> name, router |-> router, parts |-> parts]

PartsOf(kind) == IF kind = "message" THEN 2 ELSE 1

(* How a declaration is written.                                           *)
TypeText(t) ==
    CASE t.form = "plain" -> t.of[1] \o <<" ">>
      [] t.form = "vector" -> <<"repeated", " ">> \o t.of[1] \o <<" ">>
      [] t.form = "map" -> <<"map", " ">> \o t.of[1] \o <<",">> \o t.of[2] \o <<" ">>
      [] OTHER -> <<>>
FieldsText(fields) ==
    <<"{", "\n">>
        \o FlattenSeq([i \in DOMAIN fields |->
                         TypeText(fields[i].type) \o fields[i].name \o <<";", "\n">>])
        \o <<"}", "\n">>
Text(d) ==
    <<d.kind, " ">> \o d.name
        \o IF d.kind = "message"
           THEN <<" ", "-", ">", " ">> \o d.router \o <<"\n", "{", "\n", "request", "\n">>
                  \o FieldsText(d.parts[1]) \o <<"response", "\n">> \o FieldsText(d.parts[2]) \o <<"}", "\n">>
           ELSE <<"\n">> \o FieldsText(d.parts[1])
TextOf(ds) == FlattenSeq([i \in DOMAIN ds |-> Text(ds[i])])

-----------------------------------------------------------------------------
(* read_value: skips spaces, then reads up to an end mark, leaving out     *)
(* spaces in between; a character that does not belong in the token stops  *)
(* it.  closed: what stopped it was a }.                                   *)
Allowed(token) ==
    CASE token = "strict" -> Letters
      [] token = "standard" -> Letters \cup Digits
      [] token = "loose" -> Letters \cup Digits \cup Marks

(* The first place in t behind its leading spaces that is in S, or 0.      *)
FirstIn(t, S) ==
    LET word == SelectInSeq(t, LAMBDA c : c \notin Spaces)
    IN  IF word = 0 THEN 0 ELSE SelectInSubSeq(t, word, Len(t), LAMBDA c : c \in S)
NotSpace(c) == c \notin Spaces

(* Faulty: a character that stops the reading stays in the file.           *)
read_value_unread(token, end, t) ==
    LET i == FirstIn(t, {end} \cup ((Marks \cup Digits \cup Letters) \ Allowed(token)))
        found == i # 0 /\ t[i] = end
    IN  [ok |-> found,
         value |-> IF found THEN SelectSeq(SubSeq(t, 1, i - 1), NotSpace) ELSE <<>>,
         closed |-> i # 0 /\ t[i] = "}",
         rest |-> IF i = 0 THEN <<>> ELSE SubSeq(t, IF found THEN i + 1 ELSE i, Len(t))]

read_value(token, end, t) ==
    LET i == FirstIn(t, {end} \cup ((Marks \cup Digits \cup Letters) \ Allowed(token)))
        found == i # 0 /\ t[i] = end
    IN  [ok |-> found,
         value |-> IF found THEN SelectSeq(SubSeq(t, 1, i - 1), NotSpace) ELSE <<>>,
         closed |-> i # 0 /\ t[i] = "}",
         rest |-> IF i = 0 THEN <<>> ELSE SubSeq(t, i + 1, Len(t))]

(* field_base::add_field: the first field of a name stays.                 *)
add_field(fields, type, name) ==
    IF \E i \in DOMAIN fields : fields[i].name = name THEN fields
    ELSE Append(fields, Field(type, name))

-----------------------------------------------------------------------------
(* The generator.  json_type of a field's type (check_type).               *)
Integers == {<<"int", "32">>, <<"uint", "32">>, <<"int", "64">>, <<"uint", "64">>,
             <<"bool">>, <<"float">>, <<"double">>}

check_type(t) ==
    CASE t.form = "plain" /\ t.of[1] \in Integers -> "integer"
      [] t.form = "plain" /\ t.of[1] = <<"string">> -> "string"
      [] t.form = "plain" /\ t.of[1] = <<"bytes">> -> "array"
      [] OTHER -> "object"

(* to_json: emplace of the value itself, json_value_from_array,            *)
(* json_value_from_object (generate_from_int, _string, _array, _object).   *)
json_writer(t) ==
    CASE check_type(t) \in {"integer", "string"} -> "value"
      [] check_type(t) = "array" -> "from_array"
      [] OTHER -> "from_object"
(* from_json: the accessor (generate_to_int, _string, _array, _object).    *)
json_reader(t) ==
    CASE check_type(t) = "integer" ->
            (CASE t.of[1] \in {<<"float">>, <<"double">>} -> "as_double"
               [] t.of[1] = <<"bool">> -> "as_bool"
               [] OTHER -> "as_int64")
      [] check_type(t) = "string" -> "as_string"
      [] check_type(t) = "array" -> "to_array"
      [] OTHER -> "value_to"

NamesOf(fields) == [i \in DOMAIN fields |-> fields[i].name]
(* The two sides of a coding, call by call.                                *)
generate_seialize_method_binary(fields) ==
    [to |-> NamesOf(fields), from |-> [i \in DOMAIN fields |-> <<fields[i].name, fields[i].type>>]]
generate_seialize_method_json(fields) ==
    [to |-> [i \in DOMAIN fields |-> <<fields[i].name, json_writer(fields[i].type)>>],
     from |-> [i \in DOMAIN fields |-> <<fields[i].name, json_reader(fields[i].type)>>]]
(* to_kv writes ? before the first field and = before the others.          *)
generate_seialize_method_kv(fields) ==
    [to |-> [i \in DOMAIN fields |-> <<IF i = 1 THEN "?" ELSE "=", fields[i].name>>],
     from |-> [i \in DOMAIN fields |-> <<fields[i].name, fields[i].type>>]]

(* A class of a message, declared in the header and defined in the source. *)
generate_data_field_define(name, fields) ==
    [class |-> name, accessors |-> fields]
genetate_source(name, fields) ==
    [impl |-> name, members |-> fields, described |-> NamesOf(fields),
     binary |-> generate_seialize_method_binary(fields),
     json |-> generate_seialize_method_json(fields),
     kv |-> generate_seialize_method_kv(fields),
     accessors |-> fields]
Suffix == <<<<"_req_body">>, <<"_resp_body">>>>
ClassName(d, i) == d.name \o Suffix[i]
generate_message(d) ==
    [header |-> [i \in 1..2 |-> generate_data_field_define(ClassName(d, i), d.parts[i])],
     source |-> [i \in 1..2 |-> genetate_source(ClassName(d, i), d.parts[i])]]
(* A struct or enum is in the header only.                                 *)
generate_normal_data(d) ==
    [header |-> <<[class |-> d.name, accessors |-> d.parts[1]]>>, source |-> <<>>]
(* The aliases of a message; an http response has no topic.                *)
generate_protocol_alias_define(d, protocol) ==
    [name |-> d.name, protocol |-> protocol,
     request |-> <<d.router, ClassName(d, 1)>>,
     response |-> IF protocol = "tcp" THEN <<d.router, ClassName(d, 2)>> ELSE <<ClassName(d, 2)>>]

IsMessage(d) == d.kind = "message"
generate(ds, protocol) ==
    [code |-> [i \in DOMAIN ds |-> IF IsMessage(ds[i]) THEN generate_message(ds[i])
                                   ELSE generate_normal_data(ds[i])],
     aliases |-> LET ms == SelectSeq(ds, IsMessage)
                 IN  [i \in DOMAIN ms |-> generate_protocol_alias_define(ms[i], protocol)]]

-----------------------------------------------------------------------------
VARIABLES
    disk,      \* the text of each file, by path
    fault,     \* what is wrong with a.virgo: "none", "cut" or the mark missing
    declared,  \* what a.virgo declares
    args,      \* arguments not looked at yet
    options,   \* protocol_ and output_state_
    inputs,    \* input_files_ not read yet
    path,      \* the path input files are appended to
    pc,        \* where the program is
    rest,      \* what is left of the file
    decl,      \* the declaration being read, its type and part
    fields_,   \* the declarations the schema has collected
    datas,     \* what schema::run returned
    output     \* the files generated, by path

vars == <<disk, fault, declared, args, options, inputs, path, pc, rest, decl, fields_, datas, output>>
setting == <<disk, fault, declared>>
command == <<args, options>>

Dir == <<"dir">>
A == Append(Dir, "a.virgo")
B == Append(Dir, "b.virgo")
Nobody == [kind |-> "none"]

(* b.virgo is right; a.virgo is right, or ends early, or lacks one mark.   *)
Init ==
    /\ declared \in Sources
    /\ \E text \in {TextOf(declared)} :
         \/ fault = "none" /\ disk = (A :> text @@ B :> TextOf(Other))
         \/ \E n \in 0..(Len(text) - 1) :
                fault = "cut" /\ disk = (A :> SubSeq(text, 1, n) @@ B :> TextOf(Other))
         \/ \E i \in {j \in DOMAIN text : text[j] \in Marks} :
                fault = text[i] /\ disk = (A :> RemoveAt(text, i) @@ B :> TextOf(Other))
    /\ args \in (IF fault = "none" THEN Commands ELSE FaultyCommands)
    /\ options = [protocol |-> "", output_state |-> FALSE, input_dir |-> FALSE]
    /\ inputs = <<>> /\ path = <<>> /\ pc = "command"
    /\ rest = <<>> /\ decl = Nobody /\ fields_ = <<>> /\ datas = <<>> /\ output = <<>>

-----------------------------------------------------------------------------
(* parse_command and parse_line.  An argument is a file, or an option with *)
(* the value behind its =; an option without one, --help, --version, a     *)
(* file with another suffix or a wrong directory end the program.          *)
parse_command ==
    /\ pc = "command" /\ args # <<>>
    /\ LET a == Head(args)
       IN  \/ /\ a.option = "file" /\ Last(a.value) \in {"a.virgo", "b.virgo"}
              /\ inputs' = Append(inputs, a.value)
              /\ pc' = pc /\ UNCHANGED options
           \/ /\ a.option = "file" /\ Last(a.value) \notin {"a.virgo", "b.virgo"}
              /\ pc' = "done" /\ UNCHANGED <<options, inputs>>
           \/ /\ a.option = "--cpp_out" /\ a.value = Dir
              /\ options' = [options EXCEPT !.output_state = TRUE]
              /\ pc' = pc /\ UNCHANGED inputs
           \/ /\ a.option = "--input_dir" /\ a.value = Dir
              /\ options' = [options EXCEPT !.input_dir = TRUE]
              /\ pc' = pc /\ UNCHANGED inputs
           \/ /\ a.option = "--protocol"
              /\ options' = [options EXCEPT !.protocol = a.value[1]]
              /\ pc' = pc /\ UNCHANGED inputs
           \/ /\ \/ a.option \in {"--help", "--version", "no value"}
                 \/ a.option \in {"--cpp_out", "--input_dir"} /\ a.value # Dir
              /\ pc' = "done" /\ UNCHANGED <<options, inputs>>
    /\ args' = Tail(args)
    /\ UNCHANGED <<setting, path, rest, decl, fields_, datas, output>>

(* run: the input directory, or else the current one; here they are one.   *)
start ==
    /\ pc = "command" /\ args = <<>>
    /\ path' = Dir /\ pc' = "open"
    /\ UNCHANGED <<setting, command, inputs, rest, decl, fields_, datas, output>>

(* path.append(file) changes path, and an absolute file replaces it.  The  *)
(* schema is the same for all files.                                       *)
Joined(file) == IF Len(file) > 1 THEN file ELSE path \o file
open_file ==
    /\ pc = "open" /\ inputs # <<>>
    /\ LET target == Joined(Head(inputs))
       IN  /\ path' = target
           /\ \/ target \in DOMAIN disk /\ rest' = disk[target] /\ pc' = "top" /\ UNCHANGED datas
              \/ target \notin DOMAIN disk /\ datas' = <<>> /\ pc' = "write" /\ UNCHANGED rest
    /\ inputs' = Tail(inputs)
    /\ UNCHANGED <<setting, command, decl, fields_, output>>

finish ==
    /\ pc = "open" /\ inputs = <<>> /\ pc' = "done"
    /\ UNCHANGED <<setting, command, inputs, path, rest, decl, fields_, datas, output>>

-----------------------------------------------------------------------------
(* schema::run and what it calls, one read_value at a time.                *)
reading == <<setting, command, inputs, path, output>>

(* An exception: run prints it and returns nothing.                        *)
Refuse == pc' = "write" /\ datas' = <<>> /\ rest' = <<>> /\ decl' = Nobody /\ UNCHANGED fields_
GoOn(next, r) == pc' = next /\ rest' = r.rest /\ UNCHANGED <<fields_, datas>>

(* The end of a part: the next one, or the declaration is complete.        *)
EndPart(r) ==
    \/ /\ decl.part < PartsOf(decl.kind)
       /\ decl' = [decl EXCEPT !.part = @ + 1]
       /\ GoOn("part", r)
    \/ /\ decl.part = PartsOf(decl.kind)
       /\ fields_' = Append(fields_, Declaration(decl.kind, decl.name, decl.router, decl.parts))
       /\ decl' = Nobody /\ pc' = "top" /\ rest' = r.rest /\ UNCHANGED datas

invoke ==
    /\ pc = "top" /\ rest # <<>>
    /\ \E r \in {read_value("strict", " ", rest)} :
       LET keyword == r.value \in {<<"message">>, <<"struct">>, <<"enum">>}
       IN  \/ ~r.ok /\ GoOn("top", r) /\ UNCHANGED decl
           \/ r.ok /\ ~keyword /\ Refuse
           \/ /\ r.ok /\ keyword
              /\ decl' = [kind |-> r.value[1], name |-> <<>>, router |-> <<>>, type |-> NoType, part |-> 1,
                          parts |-> [i \in 1..PartsOf(r.value[1]) |-> <<>>]]
              /\ GoOn("name", r)
    /\ UNCHANGED reading

(* Faulty: one declaration too few is returned.                            *)
end_of_file_short ==
    /\ pc = "top" /\ rest = <<>>
    /\ datas' = SubSeq(fields_, 1, Len(fields_) - 1) /\ pc' = "write"
    /\ UNCHANGED <<reading, rest, decl, fields_>>

end_of_file ==
    /\ pc = "top" /\ rest = <<>>
    /\ datas' = fields_ /\ pc' = "write"
    /\ UNCHANGED <<reading, rest, decl, fields_>>

Body(kind) == IF kind = "enum" THEN "field" ELSE "type"

(* Faulty: a name is anything up to the mark behind it.                    *)
parse_name_loose ==
    /\ pc = "name"
    /\ \E r \in {read_value("loose", IF decl.kind = "message" THEN "-" ELSE "{", rest)} :
           \/ ~r.ok /\ Refuse
           \/ /\ r.ok /\ decl' = [decl EXCEPT !.name = r.value]
              /\ GoOn(IF decl.kind = "message" THEN "router" ELSE Body(decl.kind), r)
    /\ UNCHANGED reading

parse_name ==
    /\ pc = "name"
    /\ \E r \in {read_value("standard", IF decl.kind = "message" THEN "-" ELSE "{", rest)} :
           \/ ~r.ok /\ Refuse
           \/ /\ r.ok /\ decl' = [decl EXCEPT !.name = r.value]
              /\ GoOn(IF decl.kind = "message" THEN "router" ELSE Body(decl.kind), r)
    /\ UNCHANGED reading


(* What stands between - and > is read and dropped.                        *)
parse_router ==
    /\ pc = "router"
    /\ \E arrow \in {read_value("standard", ">", rest)} :
       \E r \in {read_value("loose", "{", arrow.rest)} :
           \/ ~(arrow.ok /\ r.ok) /\ Refuse
           \/ arrow.ok /\ r.ok /\ decl' = [decl EXCEPT !.router = r.value] /\ GoOn("part", r)
    /\ UNCHANGED reading

(* Either word is accepted in either place.                                *)
read_protocol ==
    /\ pc = "part"
    /\ \E r \in {read_value("strict", "{", rest)} :
       LET known == r.ok /\ r.value \in {<<"request">>, <<"response">>}
       IN  \/ ~known /\ Refuse
           \/ known /\ GoOn("type", r) /\ UNCHANGED decl
    /\ UNCHANGED reading

(* The type of a field, or the } that ends the part.                       *)
parse_type ==
    /\ pc = "type"
    /\ \E r \in {read_value("standard", " ", rest)} :
       \E item \in {read_value("standard", " ", r.rest)}, key \in {read_value("standard", ",", r.rest)} :
       \E value \in {read_value("strict", " ", key.rest)} :
       LET Typed(t, last) == decl' = [decl EXCEPT !.type = t] /\ GoOn("field", last)
       IN  \/ ~r.ok /\ r.closed /\ EndPart(r)
           \/ ~r.ok /\ ~r.closed /\ Refuse
           \/ /\ r.ok /\ r.value = <<"repeated">>
              /\ IF item.ok THEN Typed(Vector(item.value), item) ELSE Refuse
           \/ /\ r.ok /\ r.value = <<"map">>
              /\ IF key.ok /\ value.ok THEN Typed(Map(key.value, value.value), value) ELSE Refuse
           \/ r.ok /\ r.value \notin {<<"repeated">>, <<"map">>} /\ Typed(Plain(r.value), r)
    /\ UNCHANGED reading

(* The name of a field; a } in front of its ; drops the field and ends the *)
(* part.                                                                   *)
parse_field ==
    /\ pc = "field"
    /\ \E r \in {read_value("standard", ";", rest)} :
           \/ ~r.ok /\ r.closed /\ EndPart(r)
           \/ ~r.ok /\ ~r.closed /\ Refuse
           \/ /\ r.ok
              /\ decl' = [decl EXCEPT !.parts[decl.part] = add_field(@, decl.type, r.value)]
              /\ GoOn(Body(decl.kind), r)
    /\ UNCHANGED reading

(* The generated files stand next to the input; without --cpp_out there is *)
(* no generator and the file is skipped.                                   *)
write ==
    /\ pc = "write"
    /\ \/ ~options.output_state /\ pc' = "open" /\ UNCHANGED output
       \/ options.output_state /\ Front(path) # Dir /\ pc' = "done" /\ UNCHANGED output
       \/ /\ options.output_state /\ Front(path) = Dir
          /\ output' = (path :> generate(datas, options.protocol)) @@ output
          /\ pc' = "open"
    /\ UNCHANGED <<setting, command, inputs, path, rest, decl, fields_, datas>>

Next ==
    \/ parse_command \/ start \/ open_file \/ finish
    \/ invoke \/ end_of_file \/ parse_name \/ parse_router \/ read_protocol
    \/ parse_type \/ parse_field \/ write

Spec == Init /\ [][Next]_vars
(* The program is one thread that never waits.                             *)
FairSpec == Spec /\ WF_vars(Next)

-----------------------------------------------------------------------------
(* What the tool reads of a declaration: later fields of the same name are *)
(* dropped.                                                                *)
Kept(fields) == FoldLeft(LAMBDA kept, f : add_field(kept, f.type, f.name), <<>>, fields)
AsRead(d) == [d EXCEPT !.parts = [i \in DOMAIN d.parts |-> Kept(d.parts[i])]]
(* A map whose value type has a digit in its name is refused.              *)
Readable(d) ==
    \A i \in DOMAIN d.parts : \A j \in DOMAIN d.parts[i] :
        LET t == d.parts[i][j].type
        IN  t.form = "map" => \A k \in DOMAIN t.of[2] : t.of[2][k] \in Letters
Right(ds) == [i \in DOMAIN ds |-> AsRead(ds[i])]
AllReadable(ds) == \A i \in DOMAIN ds : Readable(ds[i])


(* Of a file that ends early only whole declarations are generated: the    *)
(* first ones of the file, or none.                                        *)
NothingHalf ==
    A \in DOMAIN output /\ fault = "cut" /\ B \notin DOMAIN output =>
        \E n \in 0..Len(declared) :
            output[A] = generate(SubSeq(Right(declared), 1, n), options.protocol)

(* A missing mark is noticed: nothing is generated, unless it is the last  *)
(* brace of a message, which nothing depends on, or a semicolon.           *)
MissingMark ==
    A \in DOMAIN output /\ fault \in Marks \ {";"} /\ B \notin DOMAIN output =>
        \/ output[A] = generate(<<>>, options.protocol)
        \/ fault = "}" /\ output[A] = generate(Right(declared), options.protocol)

(* A missing semicolon loses fields but never adds one or moves one to     *)
(* another declaration or type: each field generated begins with the name  *)
(* of a field declared there, with the type of that one.                   *)
MissingSemicolon ==
    A \in DOMAIN output /\ fault = ";" /\ B \notin DOMAIN output =>
        \A i \in DOMAIN output[A].code : \A p \in DOMAIN output[A].code[i].header :
            LET got == output[A].code[i].header[p].accessors
                want == declared[i].parts[p]
            IN  \A j \in DOMAIN got : \E k \in DOMAIN want :
                    got[j].type = want[k].type /\ got[j].name[1] = want[k].name[1]

(* What the tool makes of a file with a mistake, of all three kinds        *)
(* (schema::run and what it calls).                                        *)
MistakesShow == NothingHalf /\ MissingMark /\ MissingSemicolon

(* What each json writer of a type produces and each reader accepts.       *)
Written(t) ==
    CASE json_writer(t) = "from_array" -> "array"
      [] json_writer(t) = "from_object" -> "object"
      [] t.of[1] = <<"string">> -> "string"
      [] t.of[1] = <<"bool">> -> "bool"
      [] t.of[1] \in {<<"float">>, <<"double">>} -> "double"
      [] OTHER -> "int64"
Accepted(reader) ==
    CASE reader = "as_int64" -> "int64" [] reader = "as_double" -> "double"
      [] reader = "as_bool" -> "bool" [] reader = "as_string" -> "string"
      [] reader = "to_array" -> "array" [] OTHER -> "object"


(* The schema is shared by the files and keeps its declarations: what is   *)
(* generated for b.virgo ends with the declarations of b.virgo, all of     *)
(* them, whatever a.virgo held and wherever it was refused.                *)
OthersBehind ==
    B \in DOMAIN output =>
        LET code == output[B].code
        IN  Len(code) >= Len(Other) /\ SubSeq(code, Len(code) - Len(Other) + 1, Len(code)) = generate(Right(Other), "tcp").code

(* The tool ends, whatever the files hold: every read of a character that  *)
(* fits nowhere moves on.                                                  *)
Terminates == <>(pc = "done")

=============================================================================
