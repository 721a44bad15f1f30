----------------------------- MODULE MCLazytool -----------------------------
(* Instances of Lazytool for TLC: files with every kind of declaration and *)
(* of field, alone, cut short anywhere and without any one mark.           *)
EXTENDS Lazytool

MCLetters ==
    {"message", "struct", "enum", "request", "response", "repeated", "map", "string", "bool", "bytes",
     "int", "double", "login", "color", "red", "green", "a", "b", "c"}
MCDigits == {"32", "64", "90"}

Int32 == <<"int", "32">>
Login ==
    Declaration("message", <<"login">>, <<"90">>,
        <<<<Field(Plain(Int32), <<"a">>), Field(Vector(<<"string">>), <<"b">>)>>,
          <<Field(Plain(<<"bool">>), <<"c">>)>>>>)
Empty == Declaration("message", <<"b">>, <<"a">>, <<<<>>, <<>>>>)
Color == Declaration("enum", <<"color">>, <<>>, <<<<Field(NoType, <<"red">>), Field(NoType, <<"green">>)>>>>)
Person ==
    Declaration("struct", <<"c">>, <<>>,
        <<<<Field(Plain(<<"bytes">>), <<"a">>), Field(Plain(<<"double">>), <<"b", "64">>),
            Field(Plain(<<"string">>), <<"a">>)>>>>)
Maps == Declaration("struct", <<"a">>, <<>>, <<<<Field(Map(Int32, <<"string">>), <<"b">>)>>>>)
DigitMap == Declaration("struct", <<"a">>, <<>>, <<<<Field(Map(Int32, Int32), <<"b">>)>>>>)
Wide ==
    Declaration("message", <<"a">>, <<"90", "a">>,
        <<<<Field(Plain(<<"bytes">>), <<"a">>), Field(Plain(<<"double">>), <<"b">>),
            Field(Plain(<<"string">>), <<"c">>), Field(Plain(<<"color">>), <<"red">>)>>, <<>>>>)

MCSources == {<<Login, Color>>, <<Person, Login>>, <<Color, Person>>, <<Empty, Wide>>, <<Maps, Empty>>, <<Login, DigitMap>>}
MCOther == <<Empty, Color>>

Option(name, value) == [option |-> name, value |-> value]
File(p) == Option("file", p)
Tcp == <<Option("--cpp_out", Dir), Option("--protocol", <<"tcp">>)>>
MCCommands ==
    {Tcp \o <<File(A), File(B)>>,
     Tcp \o <<File(<<"a.virgo">>), File(<<"b.virgo">>)>>,
     <<Option("--protocol", <<"http">>), Option("--input_dir", Dir), Option("--cpp_out", Dir), File(<<"a.virgo">>)>>,
     <<File(A)>>,
     <<File(A), Option("--cpp_out", <<"none">>)>>,
     <<Option("no value", <<>>), File(A)>>,
     <<File(<<"a.tbl">>)>>}
MCFaultyCommands == {Tcp \o <<File(A), File(B)>>}

=============================================================================
