------------------------------- MODULE Store --------------------------------
(***************************************************************************)
(* Accounts: the cache of auth_module in the login daemon, the statements  *)
(* it sends to the database daemon, mysql_module and mysql_io_service      *)
(* there, and the tables.  serviced forwards the statements of a daemon    *)
(* one at a time and in order (Cluster), so those of login are a queue,    *)
(* and so are their answers.                                               *)
(*                                                                         *)
(* Getting a connection may time out, and a connection may break before or *)
(* after the server has done the statement.  login may die and start       *)
(* again.                                                                  *)
(***************************************************************************)
EXTENDS Tbl, FiniteSets

CONSTANTS
    Callers,     \* coroutines that call auth_module, a view or mysql_module
    Plans,       \* the calls they may make: a set of functions on Callers
    Names,       \* account names
    Accounts,    \* the table account when login starts
    People,      \* the other table, for select, remove and transactions
    Rows,        \* the rows that table may have
    AccColumn,   \* whether the table has the columns insert_view writes
    MaxRestarts, \* bound on the restarts of login
    None

ASSUME StoreAssumption ==
    /\ AccColumn \in BOOLEAN /\ MaxRestarts \in Nat
    /\ \A r \in Accounts : r.acc \in Names
    /\ People \subseteq Rows

VARIABLES
    plan,      \* plan[c]: the call of c
    at,        \* at[c]: idle, sent, done, lost
    affected,  \* affected[c]: what it returned, or the statements done so far
    restarts,  \* how often login died
    accounts_, \* the cache: name to password
    views,     \* the global views select_v and remove_v
    wire,      \* statements on the way to the database: whose and which
    late,      \* statements of a login that died
    answers,   \* answers on the way back: whose, rows and affected
    applied,   \* applied[c]: statements of its transaction that took effect
    account,   \* the table account
    people     \* the other table

vars == <<plan, at, affected, restarts, accounts_, views, wire, late, answers, applied, account, people>>

select_all == [op |-> "select", row |-> None, where |-> <<>>]

(* run(): load_account has sent its select.                                *)
run == <<[from |-> None, sql |-> select_all]>>

Init ==
    /\ plan \in Plans
    /\ at = [c \in Callers |-> "idle"] /\ affected = [c \in Callers |-> 0]
    /\ restarts = 0 /\ accounts_ = [n \in Names |-> None]
    /\ views = [select |-> view, remove |-> view]
    /\ wire = run /\ late = <<>> /\ answers = <<>>
    /\ applied = [c \in Callers |-> {}]
    /\ account = Accounts /\ people = People

-----------------------------------------------------------------------------
(* MySQL.  A primary key is unique; an update changes every row.           *)

Insert(table, row) == IF \E r \in table : r.id = row.id THEN table ELSE table \cup {row}

(* The first field of every row becomes 0, unless two rows then have the   *)
(* same key.                                                               *)
Update(table) == IF Cardinality(table) > 1 THEN table ELSE {[r EXCEPT !.id = 0] : r \in table}

Done(a, p, n, rows) == [account |-> a, people |-> p, affected |-> n, rows |-> rows]

(* What the server makes of a statement.                                   *)
Effect(sql) ==
    CASE sql.op = "insert" /\ AccColumn ->
             LET t == Insert(account, sql.row) IN Done(t, people, Cardinality(t \ account), {})
      [] sql.op = "update" /\ AccColumn ->
             LET t == Update(account) IN Done(t, people, Cardinality(t \ account), {})
      [] sql.op = "add" ->
             LET t == Insert(people, sql.row) IN Done(account, t, Cardinality(t \ people), {})
      [] sql.op = "remove" ->
             LET gone == {r \in people : Holds(sql.where, r)}
             IN Done(account, people \ gone, Cardinality(gone), {})
      [] sql.op = "select" -> Done(account, people, 0, account)
      [] OTHER -> Done(account, people, 0, {})

(* mysql_io_service.  No connection within a second, or no answer from the *)
(* server, is an error; an error is no rows or 0 rows, whatever the server *)
(* has done.  Only a query has a timeout for its answer.                   *)
async_query_only(sql) == {Effect(sql), Done(account, people, 0, {})}

async_execute(sql) ==
    LET e == Effect(sql)
    IN {e, Done(account, people, 0, {}), Done(e.account, e.people, 0, {})}

(* mysql_module: errors are logged.                                        *)
mysql_module(sql) ==
    IF sql.op \in {"select", "select people"} THEN async_query_only(sql) ELSE async_execute(sql)

-----------------------------------------------------------------------------
(* auth_module.                                                            *)

fill_account(cache, acc) == [cache EXCEPT ![acc.acc] = acc.password]

(* enter_view: the statement is sent, and the caller waits.                *)
enter(c, sql) ==
    /\ wire' = Append(wire, [from |-> c, sql |-> sql])
    /\ at' = [at EXCEPT ![c] = "sent"]

acc(c) == [id |-> 0, acc |-> plan[c].acc, password |-> plan[c].new]

create_account(c) ==
    /\ at[c] = "idle" /\ plan[c].call = "create"
    /\ enter(c, insert_view(acc(c)))
    /\ UNCHANGED <<plan, affected, restarts, accounts_, views, late, answers, applied, account, people>>

(* sql_remove sends an insert too, of an account without a password.       *)
remove_account(c) ==
    /\ at[c] = "idle" /\ plan[c].call = "remove"
    /\ enter(c, insert_view([acc(c) EXCEPT !.password = ""]))
    /\ UNCHANGED <<plan, affected, restarts, accounts_, views, late, answers, applied, account, people>>

check_password(n, password) == accounts_[n] # None /\ accounts_[n] = password

ctx_login(n, password) == IF check_password(n, password) THEN "ok" ELSE "unauthorized"

sql_update(row) == update_view(row)

(* The new password is in the cache before the database has it.            *)
change_password(c) ==
    /\ at[c] = "idle" /\ plan[c].call = "change"
    /\ IF plan[c].new = plan[c].again /\ check_password(plan[c].acc, plan[c].old)
       THEN accounts_' = fill_account(accounts_, acc(c)) /\ enter(c, sql_update(acc(c)))
       ELSE at' = [at EXCEPT ![c] = "done"] /\ UNCHANGED <<accounts_, wire>>
    /\ UNCHANGED <<plan, affected, restarts, views, late, answers, applied, account, people>>

(* Faulty: the account is cached whatever the database says.               *)
sql_insert_always(c, n) == fill_account(accounts_, acc(c))

sql_insert(c, n) == IF n = 0 THEN accounts_ ELSE fill_account(accounts_, acc(c))

sql_remove(c, n) == IF n = 0 THEN accounts_ ELSE [accounts_ EXCEPT ![plan[c].acc] = None]

(* Faulty: the old password is not put back.                               *)
change_done_kept(c, n) == accounts_

(* The end of change_password.  When the account was erased meanwhile, the *)
(* iterator dangles and what it writes to is no account any more.          *)
change_done(c, n) ==
    IF n # 0 \/ accounts_[plan[c].acc] = None THEN accounts_
    ELSE [accounts_ EXCEPT ![plan[c].acc] = plan[c].old]

(* enter_view::make_result: of all rows the database returned, the first.  *)
make_result(rows) == {r \in rows : \A s \in rows : r.id <= s.id}

load_account(rows) ==
    IF rows = {} THEN accounts_
    ELSE fill_account(accounts_, CHOOSE r \in make_result(rows) : TRUE)

(* The answer to the statement of a call, or of load_account, is in.       *)
resume ==
    /\ answers # <<>>
    /\ \E c \in {Head(answers).from}, n \in {Head(answers).affected} :
           /\ accounts_' = CASE c = None -> load_account(Head(answers).rows)
                             [] plan[c].call = "create" -> sql_insert(c, n)
                             [] plan[c].call = "remove" -> sql_remove(c, n)
                             [] plan[c].call = "change" -> change_done(c, n)
                             [] OTHER -> accounts_
           /\ IF c = None THEN UNCHANGED <<at, affected>>
              ELSE at' = [at EXCEPT ![c] = "done"] /\ affected' = [affected EXCEPT ![c] = n]
    /\ answers' = Tail(answers)
    /\ UNCHANGED <<plan, restarts, views, wire, late, applied, account, people>>

(* login dies and is started again: the cache is empty, its calls are      *)
(* lost, and what it had sent is still done, in part or not at all, on its *)
(* old connection.                                                         *)
restart ==
    /\ restarts < MaxRestarts /\ restarts' = restarts + 1
    /\ accounts_' = [n \in Names |-> None]
    /\ at' = [c \in Callers |-> IF at[c] = "sent" /\ plan[c].call # "multi" THEN "lost" ELSE at[c]]
    /\ views' = [select |-> view, remove |-> view]
    /\ wire' = run /\ answers' = <<>>
    /\ \E n \in 0..Len(wire) : late' = [j \in 1..n |-> wire[j].sql]
    /\ UNCHANGED <<plan, affected, applied, account, people>>

-----------------------------------------------------------------------------
(* A call that composes a statement with views.  plan[c].where is what it  *)
(* means: every one of the alternatives listed, each an "or" of            *)
(* comparisons.                                                            *)

Condition(alternatives) ==
    LET One(a) == compare(grep, a[1], a[2], a[3])
    IN FoldLeft(LAMBDA g, a : or(g, One(a)), One(Head(alternatives)), Tail(alternatives))

Composed(v, where) == FoldLeft(LAMBDA u, alternatives : merge(u, Condition(alternatives)), v, where)

compose(c) ==
    /\ at[c] = "idle" /\ plan[c].call \in {"find", "delete"}
    /\ \E v \in {IF plan[c].call = "find" THEN Composed(select_view(views.select), plan[c].where)
                 ELSE Composed(remove_view(views.remove), plan[c].where)} :
           /\ views' = IF plan[c].call = "find" THEN [views EXCEPT !.select = v]
                       ELSE [views EXCEPT !.remove = v]
           /\ enter(c, [op |-> IF plan[c].call = "find" THEN "select people" ELSE "remove",
                        row |-> None, where |-> v.where])
    /\ UNCHANGED <<plan, affected, restarts, accounts_, late, answers, applied, account, people>>

-----------------------------------------------------------------------------
(* The database daemon.                                                    *)

Answer(d) == [from |-> Head(wire).from, affected |-> d.affected, rows |-> d.rows]


answer(d) == Append(answers, Answer(d))

(* ctx_execute and ctx_query, with mysql_module behind them.               *)
ctx_execute ==
    /\ wire # <<>> /\ wire' = Tail(wire)
    /\ \E d \in mysql_module(Head(wire).sql) :
           account' = d.account /\ people' = d.people /\ answers' = answer(d)
    /\ UNCHANGED <<plan, at, affected, restarts, accounts_, views, late, applied>>

(* The same for a login that is no more: serviced has nobody to answer.    *)
ctx_execute_late ==
    /\ late # <<>> /\ late' = Tail(late)
    /\ \E d \in mysql_module(Head(late)) : account' = d.account /\ people' = d.people
    /\ UNCHANGED <<plan, at, affected, restarts, accounts_, views, wire, answers, applied>>

(* begin: on a connection that goes back to the pool.                      *)
begin(c) ==
    /\ at[c] = "idle" /\ plan[c].call = "multi"
    /\ at' = [at EXCEPT ![c] = "sent"]
    /\ UNCHANGED <<plan, affected, restarts, accounts_, views, wire, late, answers, applied, account, people>>

(* Faulty: a statement that fails is passed over.                          *)
multi_end_lenient(c, i, n) == i = Len(plan[c].sqls)

(* The transaction ends with its last statement or the first that affects  *)
(* no row.  commit and rollback make coroutines that nobody runs.          *)
multi_end(c, i, n) == n = 0 \/ i = Len(plan[c].sqls)

(* One statement of async_multi_execute, on a connection of its own.       *)
async_multi_execute(c) ==
    /\ at[c] = "sent" /\ plan[c].call = "multi"
    /\ \E i \in {affected[c] + 1} : \E d \in async_execute(plan[c].sqls[i]) :
           /\ account' = d.account /\ people' = d.people
           /\ applied' = IF d.people = people THEN applied ELSE [applied EXCEPT ![c] = @ \cup {i}]
           /\ affected' = [affected EXCEPT ![c] = IF multi_end(c, i, d.affected) /\ d.affected = 0 THEN 0 ELSE i]
           /\ at' = IF multi_end(c, i, d.affected) THEN [at EXCEPT ![c] = "done"] ELSE at
    /\ UNCHANGED <<plan, restarts, accounts_, views, wire, late, answers>>

-----------------------------------------------------------------------------
Running == ctx_execute \/ ctx_execute_late \/ resume \/ \E c \in Callers : async_multi_execute(c)

Next ==
    \/ \E c \in Callers :
           create_account(c) \/ remove_account(c) \/ change_password(c) \/ compose(c) \/ begin(c)
    \/ restart \/ Running

Spec == Init /\ [][Next]_vars

(* The io_contexts run what is ready, and the server answers or breaks.    *)
FairSpec == Spec /\ WF_vars(Running)

-----------------------------------------------------------------------------
(* ctx_login lets nobody in whose account has no row in the table,         *)
(* whatever fails and whenever login restarts (sql_insert, load_account).  *)
LoginHasRow == \A n \in Names : ctx_login(n, accounts_[n]) = "ok" => \E r \in account : r.acc = n

(* Two calls that use the same account.                                    *)
Rivals(c) ==
    {d \in Callers \ {c} : plan[d].call \in {"create", "remove", "change"} /\ plan[d].acc = plan[c].acc}

(* A change of password that nobody else interferes with ends with the new *)
(* password when the database has changed a row, and otherwise with the    *)
(* old one (change_password).                                              *)
ChangeAlone ==
    [][\A c \in Callers :
           plan[c].call = "change" /\ Rivals(c) = {} /\ at[c] = "sent" /\ at'[c] = "done" =>
               accounts_'[plan[c].acc] = IF affected'[c] = 0 THEN plan[c].old ELSE plan[c].new]_vars

(* A transaction that reports success has done all of its statements; one  *)
(* that does not has done none behind the first that failed                *)
(* (async_multi_execute).  That it has done none at all does not hold.     *)
AllOrReported ==
    \A c \in Callers : plan[c].call = "multi" /\ at[c] = "done" =>
        /\ affected[c] # 0 => applied[c] = DOMAIN plan[c].sqls
        /\ \A i \in applied[c] : 1..(i - 1) \subseteq applied[c]

Meant(where, row) ==
    \A j \in DOMAIN where : \E k \in DOMAIN where[j] :
        CompareHolds([field |-> where[j][k][1], op |-> where[j][k][2], value |-> where[j][k][3]], row)

(* A statement composed with grep, || and | selects the rows its author    *)
(* meant, although "and" binds more than "or" and the views are shared     *)
(* with every statement before it (grep_view, select_view, remove_view).   *)
StatementMeant ==
    \A w \in Range(wire) :
        w.from \in Callers /\ plan[w.from].call \in {"find", "delete"} =>
            \A row \in Rows : Holds(w.sql.where, row) <=> Meant(plan[w.from].where, row)

=============================================================================
