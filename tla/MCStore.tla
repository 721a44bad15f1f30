------------------------------ MODULE MCStore -------------------------------
EXTENDS Store

CONSTANTS c1, c2, c3

Account(n, name, password) == [id |-> n, acc |-> name, password |-> password]
Person(n, a) == [id |-> n, age |-> a]

Change(old, new, again) == [call |-> "change", acc |-> "ann", old |-> old, new |-> new, again |-> again]
Create(name) == [call |-> "create", acc |-> name, new |-> "p2"]
Removal(name) == [call |-> "remove", acc |-> name, new |-> ""]
Compose(what, where) == [call |-> what, where |-> where]
Add(n) == [op |-> "add", row |-> Person(n, 1), where |-> <<>>]

Young == <<<<"age", "<", 2>>>>
FirstOrLast == <<<<"id", "=", 1>>, <<"id", ">=", 3>>>>

MCCallers == {c1, c2, c3}
MCNames == {"ann", "bob"}
MCAccounts == {Account(1, "ann", "p1")}
MCPeople == {Person(1, 1), Person(2, 2), Person(3, 1)}
MCRows == {Person(n, a) : n \in 1..5, a \in 1..2}

AuthCalls ==
    {Change("p1", "p2", "p2"), Change("p2", "p3", "p3"), Change("p1", "p2", "p3"),
     Create("ann"), Create("bob"), Removal("ann")}
Others ==
    {Compose("delete", <<Young, FirstOrLast>>), Compose("delete", <<FirstOrLast, Young>>),
     Compose("find", <<FirstOrLast, <<<<"age", "<=", 1>>>>, <<<<"id", ">", 1>>>>>>),
     [call |-> "multi", sqls |-> <<Add(4), Add(5), Add(4)>>], [call |-> "multi", sqls |-> <<Add(4), Add(5)>>]}

Nothing == [call |-> "none"]

(* Two calls about accounts, which may be the same account; calls that     *)
(* share a view, with a transaction besides; and one of each.              *)
MCPlans ==
    {p \in [MCCallers -> AuthCalls \cup Others \cup {Nothing}] :
        \/ p[c1] \in AuthCalls /\ p[c2] \in AuthCalls /\ p[c3] = Nothing
        \/ p[c1].call = "delete" /\ p[c2].call = "delete" /\ p[c3].call = "multi"
        \/ p[c1] = Change("p1", "p2", "p2") /\ p[c2].call = "find" /\ p[c3].call = "delete"}
=============================================================================
