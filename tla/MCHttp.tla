------------------------------- MODULE MCHttp -------------------------------
(* Every kind of request accept() tells apart, the body of a transfer long *)
(* enough for recv to read on.                                             *)
EXTENDS Http

Req(form, method, path, body) ==
    [form |-> form, method |-> method, path |-> path, body |-> body, length |-> body,
     origin |-> None, methods |-> {}, headers |-> {}]
Preflight(origin, headers) ==
    [Req("good", "options", "/login", 0) EXCEPT !.origin = origin, !.methods = {"POST"}, !.headers = headers]

MCKinds ==
    {Req("good", "post", "/login", 4), Req("good", "get", "/login", 0), Req("good", "get", "/sql", 1),
     Req("good", "post", "/nobody", 1), Req("good", "post", "/tcp", 1),
     Req("good", "post", "/handler", 1), Req("good", "post", "/failing", 1),
     Req("field", "post", "/login", 1), Req("field", "post", "/handler", 1),
     Req("parts", "post", "/login", 1), Req("method", "post", "/login", 1), Req("url", "post", "/login", 1), Req("version", "post", "/login", 1),
     Preflight(None, {}), Preflight("site", {"type"}), Preflight("elsewhere", {"type"})}

Second ==
    {Req("good", "post", "/login", 4), Req("good", "post", "/nobody", 1), Req("good", "post", "/handler", 1)}

MCScripts ==
    {<<a, b>> : a \in MCKinds, b \in Second}
    \cup {<<Req("good", "post", "/login", 3), Req("good", "post", "/handler", 1), Req("good", "post", "/nobody", 1)>>}

MCContexts ==
    [p \in {"/login", "/sql", "/nobody", "/tcp", "/handler", "/failing"} |->
        CASE p \in {"/login", "/sql"} -> "transfer"
          [] p = "/nobody" -> "none"
          [] p = "/tcp" -> "other"
          [] OTHER -> "handler"]
MCResult ==
    [p \in DOMAIN MCContexts |-> CASE p = "/login" -> 200 [] p = "/sql" -> 401 [] p = "/failing" -> 1 [] OTHER -> 0]
=============================================================================
