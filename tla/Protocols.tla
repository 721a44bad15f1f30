----------------------------- MODULE Protocols -----------------------------
(***************************************************************************)
(* The message bodies generated from the .virgo files of the services: the *)
(* fields of a body in the order in which to_binary writes and from_binary *)
(* reads them, each with its name (the key in the json form) and its kind. *)
(* int32 is uint32_t (scalar_type.hpp), repeated string is a vector of     *)
(* strings.                                                                *)
(***************************************************************************)
EXTENDS Sequences

regist_req_body ==
    << <<"name", "string">>, <<"host", "string">>, <<"port", "uint32">>, <<"healthy", "bool">>,
       <<"group", "string">>, <<"weight", "uint32">>, <<"version", "string">> >>
regist_resp_body == <<>>

publish_req_body == << <<"topics", "strings">> >>
publish_resp_body == <<>>

subs_list_req_body == <<>>
subs_list_resp_body == << <<"keys", "strings">> >>

cmd_op_req_body == << <<"command", "string">>, <<"paramers", "strings">> >>
cmd_op_resp_body == << <<"output", "string">> >>

(* The register and the gateway have each their own copy of shake.         *)
shake_req_body == <<>>
shake_resp_body == << <<"topics", "strings">> >>
gateway_shake_req_body == <<>>
gateway_shake_resp_body == << <<"topics", "strings">> >>

query_sql_req_body == << <<"sql", "string">> >>
query_sql_resp_body == << <<"results", "strings">> >>

execute_sql_req_body == << <<"sql", "string">> >>
execute_sql_resp_body == << <<"affected", "uint32">> >>

login_req_body == << <<"username", "string">>, <<"password", "string">> >>
login_resp_body == <<>>

(* A protocol: its topic and the bodies of its request and response.       *)
Protocol(router, req, resp) == [router |-> router, request |-> req, response |-> resp]

regist == Protocol("9000", regist_req_body, regist_resp_body)
publish == Protocol("9001", publish_req_body, publish_resp_body)
subs_list == Protocol("9100", subs_list_req_body, subs_list_resp_body)
cmd_op == Protocol("9200", cmd_op_req_body, cmd_op_resp_body)
shake == Protocol("8000", shake_req_body, shake_resp_body)
gateway_shake == Protocol("8000", gateway_shake_req_body, gateway_shake_resp_body)
query_sql == Protocol("7000", query_sql_req_body, query_sql_resp_body)
execute_sql == Protocol("7001", execute_sql_req_body, execute_sql_resp_body)
login == Protocol("/login", login_req_body, login_resp_body)

(* Who writes with which declaration and who reads with which: a protocol  *)
(* with two copies is written with one and read with the other.            *)
Links ==
    {<<p, p>> : p \in {regist, publish, subs_list, cmd_op, query_sql, execute_sql, login}}
        \cup {<<shake, gateway_shake>>, <<gateway_shake, shake>>}

=============================================================================
