----------------------------- MODULE MCCluster -----------------------------
(* login, which may die once, and database, with one topic each.           *)
EXTENDS Cluster

CONSTANTS login, database, c1, c2

MCBackends == {login, database}
MCGroup == (login :> "services") @@ (database :> "database")
MCTopicsOf == (login :> {"/login"}) @@ (database :> {"/query"})
MCMortal == {login}
MCSlow == {login}
MCAsks == (c1 :> {"/login"}) @@ (c2 :> {"/query"})
MCCalls == {c1, c2}

=============================================================================
