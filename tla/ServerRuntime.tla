--------------------------- MODULE ServerRuntime ---------------------------
(***************************************************************************)
(* How a server starts, runs its modules and stops: io_service_pool,       *)
(* basic_server::run and module_router.  The pool has one io_context per   *)
(* thread and hands them out round robin through an index nobody guards.   *)
(* Two coroutines take from it while the server runs: the accept loop, for *)
(* each connection, and module_router::run, for each module.  Modules run  *)
(* one after the other, higher priority first; a module's executor is      *)
(* empty until run() attaches one.                                         *)
(***************************************************************************)
EXTENDS Naturals, Sequences, FiniteSets, SequencesExt

CONSTANTS
    PoolSize,      \* number of io_contexts, and of threads
    Modules,       \* the module classes
    Priority,      \* Priority[m]: what AQUARIUS_MODULE registers it with
    MayFail,       \* modules whose init() may return false
    Uses,          \* Uses[m]: the modules m's run() calls into
    Requested,     \* modules the handlers of requests call into
    EarlyRequests, \* TRUE: a request may come before the modules have run
    MaxAccepts,    \* bound on the rounds of start_accept
    MayStop,       \* TRUE: SIGINT or SIGTERM may come
    None           \* "no executor attached"

ASSUME RuntimeAssumption ==
    /\ PoolSize \in Nat \ {0} /\ MaxAccepts \in Nat
    /\ Priority \in [Modules -> Nat] /\ Uses \in [Modules -> SUBSET Modules]
    /\ MayFail \subseteq Modules /\ Requested \subseteq Modules
    /\ EarlyRequests \in BOOLEAN /\ MayStop \in BOOLEAN

Loops == 0..(PoolSize - 1)

(* The constructor takes io_contexts for the signals, the acceptor and the *)
(* timer; run() takes one for the module router.                           *)
Taken == 4
LoopOf == [signals |-> 0, accept |-> 1 % PoolSize, router |-> 3 % PoolSize]
Takers == {"accept", "router"}

VARIABLES
    registered, \* modules put into the router, in that order
    main,       \* the thread in run(): static (before main), spawning, joining, done
    spawned,    \* number of io_contexts whose thread has been started
    stopped,    \* io_contexts told to stop
    enable,     \* enable_
    halt,       \* the signal handler: no, stopping, finished
    next,       \* next_to_service_
    take,       \* take[p]: where p is in get_io_service
    picked,     \* picked[p]: the index p used last
    uses,       \* uses[i]: how often index i was handed out
    accepts,    \* rounds of start_accept begun
    accepting,  \* start_accept has not left its loop
    router,     \* module_router::run: ready, waiting for a module, done, dead
    mod,        \* mod[m]: new, failed, running, finished
    executor,   \* executor[m]: the io_context attached to m
    missed,     \* <<m, d>>: m's run() called into d, which had no executor
    dropped     \* modules a request handler called into that had none

poolVars == <<next, take, picked, uses>>
mainVars == <<main, spawned, stopped, enable, halt>>
modVars == <<registered, router, mod, executor, missed, dropped>>
acceptVars == <<accepts, accepting>>
vars == <<poolVars, mainVars, modVars, acceptVars>>

Init ==
    /\ registered = <<>> /\ main = "static" /\ spawned = 0 /\ stopped = {}
    /\ enable = FALSE /\ halt = "no"
    /\ next = Taken % PoolSize /\ take = [p \in Takers |-> "idle"]
    /\ picked = [p \in Takers |-> LoopOf[p]]
    /\ uses = [i \in Loops |-> Cardinality({n \in 0..(Taken - 1) : n % PoolSize = i})]
    /\ accepts = 0 /\ accepting = TRUE /\ router = "ready"
    /\ mod = [m \in Modules |-> "new"] /\ executor = [m \in Modules |-> None]
    /\ missed = {} /\ dropped = {}

(* Loop i is free to run a handler: its thread runs, nobody told it to     *)
(* stop, and no handler of its own is in the middle of get_io_service.     *)
Free(i) ==
    /\ i < spawned /\ i \notin stopped
    /\ \A p \in Takers : LoopOf[p] = i => take[p] = "idle"

-----------------------------------------------------------------------------
(* module_router::put, from the static initializers of the modules, whose  *)
(* order across files is open; a second put under one name is refused.     *)
put(m) ==
    /\ main = "static" /\ m \notin Range(registered)
    /\ registered' = Append(registered, m)
    /\ UNCHANGED <<poolVars, mainVars, router, mod, executor, missed, dropped, acceptVars>>

(* basic_server::run spawns its coroutines, then io_service_pool::run      *)
(* starts one thread per io_context.                                       *)
spawn ==
    /\ \/ main = "static" /\ Range(registered) = Modules
       \/ main = "spawning" /\ spawned < PoolSize
    /\ main' = "spawning" /\ spawned' = spawned + 1
    /\ UNCHANGED <<poolVars, stopped, enable, halt, modVars, acceptVars>>

enabled ==
    /\ main = "spawning" /\ spawned = PoolSize
    /\ main' = "joining" /\ enable' = TRUE
    /\ UNCHANGED <<poolVars, spawned, stopped, halt, modVars, acceptVars>>

joined ==
    /\ main = "joining" /\ halt = "finished" /\ stopped = Loops
    /\ \A p \in Takers : take[p] = "idle"
    /\ main' = "done" /\ enable' = FALSE
    /\ UNCHANGED <<poolVars, spawned, stopped, halt, modVars, acceptVars>>

(* init_signal's handler closes the acceptor and calls stop.               *)
signal ==
    /\ MayStop /\ halt = "no" /\ Free(LoopOf.signals)
    /\ halt' = "stopping"
    /\ UNCHANGED <<poolVars, main, spawned, stopped, enable, modVars, acceptVars>>

(* Faulty: the last io_context is not told to stop.                        *)
stop_but_last ==
    /\ halt = "stopping"
    /\ halt' = "finished" /\ enable' = FALSE
    /\ stopped' = Loops \ {PoolSize - 1}
    /\ UNCHANGED <<poolVars, main, spawned, modVars, acceptVars>>

(* io_service_pool::stop: one io_context after the other, then the flag.   *)
stop ==
    /\ halt = "stopping"
    /\ \/ /\ Cardinality(stopped) < PoolSize
          /\ stopped' = stopped \cup {Cardinality(stopped)}
          /\ UNCHANGED <<halt, enable>>
       \/ /\ stopped = Loops
          /\ halt' = "finished" /\ enable' = FALSE
          /\ UNCHANGED stopped
    /\ UNCHANGED <<poolVars, main, spawned, modVars, acceptVars>>

-----------------------------------------------------------------------------
(* get_io_service: read the entry at the index, increment the index, wrap  *)
(* it.  Another thread may come between.                                   *)
fetch(p) ==
    /\ take[p] = "idle"
    /\ picked' = [picked EXCEPT ![p] = next]
    /\ uses' = [uses EXCEPT ![next] = @ + 1]
    /\ take' = [take EXCEPT ![p] = "fetched"]
    /\ UNCHANGED next

bump(p) ==
    /\ take[p] = "fetched"
    /\ next' = next + 1
    /\ take' = [take EXCEPT ![p] = "bumped"]
    /\ UNCHANGED <<picked, uses, mainVars, modVars, acceptVars>>



(* The increment done, the index wraps and the taker has its io_context.   *)
wrap(p) ==
    /\ take[p] = "bumped"
    /\ next' = IF next = PoolSize THEN 0 ELSE next
    /\ take' = [take EXCEPT ![p] = IF p = "router" THEN "taken" ELSE "idle"]
    /\ UNCHANGED <<picked, uses, mainVars, modVars, acceptVars>>

(* start_accept: an io_context for the next connection.  A round after the *)
(* first begins when a connection has come and its session is spawned; on  *)
(* a closed acceptor async_accept fails and the loop ends.                 *)
start_accept ==
    /\ Free(LoopOf.accept) /\ accepting /\ accepts < MaxAccepts
    /\ fetch("accept")
    /\ accepts' = accepts + 1 /\ accepting' = (halt = "no")
    /\ UNCHANGED <<mainVars, modVars>>

(* The modules that have not had their turn, by order of registration.     *)
Left == {i \in 1..Len(registered) : mod[registered[i]] = "new"}

(* Faulty: the modules run in the order they were registered.              *)
Turn_unsorted == registered[CHOOSE i \in Left : \A j \in Left : i <= j]

(* The module whose turn it is: of those left, the first registered among  *)
(* the ones with the highest priority (routers_by_priority_, descending).  *)
Turn ==
    registered[CHOOSE i \in Left :
        \A j \in Left \ {i} :
            \/ Priority[registered[i]] > Priority[registered[j]]
            \/ Priority[registered[i]] = Priority[registered[j]] /\ i < j]

(* module_router::run: take an io_context for the next module, or end.     *)
run ==
    /\ router = "ready" /\ Free(LoopOf.router)
    /\ \/ /\ Left # {}
          /\ fetch("router")
          /\ UNCHANGED router
       \/ /\ Left = {}
          /\ router' = "done"
          /\ UNCHANGED poolVars
    /\ UNCHANGED <<mainVars, registered, mod, executor, missed, dropped, acceptVars>>

(* Faulty: run() is spawned without waiting for it.                        *)
run_one_detached ==
    /\ take["router"] = "taken"
    /\ take' = [take EXCEPT !["router"] = "idle"]
    /\ mod' = [mod EXCEPT ![Turn] = "running"]
    /\ executor' = [executor EXCEPT ![Turn] = picked["router"]]
    /\ UNCHANGED <<next, picked, uses, mainVars, registered, router, missed, dropped, acceptVars>>

(* Faulty: after a failed init() the router waits for a run() that is not  *)
(* there.                                                                  *)
run_one_waits ==
    /\ take["router"] = "taken"
    /\ take' = [take EXCEPT !["router"] = "idle"]
    /\ router' = "waiting"
    /\ \/ /\ Turn \in MayFail
          /\ mod' = [mod EXCEPT ![Turn] = "failed"] /\ UNCHANGED executor
       \/ /\ mod' = [mod EXCEPT ![Turn] = "running"]
          /\ executor' = [executor EXCEPT ![Turn] = picked["router"]]
    /\ UNCHANGED <<next, picked, uses, mainVars, registered, missed, dropped, acceptVars>>

(* run_one: a module whose init() fails is passed over and never attached. *)
run_one ==
    /\ take["router"] = "taken"
    /\ take' = [take EXCEPT !["router"] = "idle"]
    /\ \/ /\ Turn \in MayFail
          /\ mod' = [mod EXCEPT ![Turn] = "failed"]
          /\ UNCHANGED <<router, executor>>
       \/ /\ mod' = [mod EXCEPT ![Turn] = "running"]
          /\ executor' = [executor EXCEPT ![Turn] = picked["router"]]
          /\ router' = "waiting"
    /\ UNCHANGED <<next, picked, uses, mainVars, registered, missed, dropped, acceptVars>>

(* The run() of module m, with the calls it makes into other modules       *)
(* (mpc_async_call, async_visit).  A call to a module that is registered   *)
(* but has no executor throws; the exception ends module_router::run.      *)
Reachable(m) == m \notin Range(registered) \/ executor[m] # None

module_run(m) ==
    /\ mod[m] = "running" /\ Free(executor[m])
    /\ \A d \in Uses[m] : executor[d] # None => Free(executor[d])
    /\ \/ /\ \A d \in Uses[m] : Reachable(d)
          /\ mod' = [mod EXCEPT ![m] = "finished"] /\ router' = "ready"
          /\ UNCHANGED missed
       \/ /\ \E d \in Uses[m] : ~Reachable(d)
          /\ mod' = [mod EXCEPT ![m] = "failed"] /\ router' = "dead"
          /\ missed' = missed \cup {<<m, d>> : d \in {e \in Uses[m] : ~Reachable(e)}}
    /\ UNCHANGED <<poolVars, mainVars, registered, executor, dropped, acceptVars>>

(* A handler on the acceptor's loop calls into module m.                   *)
async_schedule(m) ==
    /\ accepts > 1 /\ Free(LoopOf.accept)
    /\ EarlyRequests \/ router = "done"
    /\ dropped' = IF Reachable(m) THEN dropped ELSE dropped \cup {m}
    /\ UNCHANGED <<poolVars, mainVars, registered, router, mod, executor, missed, acceptVars>>

MainNext == spawn \/ enabled \/ joined
LoopNext ==
    \/ signal \/ stop \/ start_accept \/ run \/ run_one
    \/ \E p \in Takers : bump(p) \/ wrap(p)
    \/ \E m \in Modules : module_run(m)

Next ==
    \/ \E m \in Modules : put(m)
    \/ MainNext \/ LoopNext
    \/ \E m \in Requested : async_schedule(m)

Spec == Init /\ [][Next]_vars

(* Every thread goes on: the static initializers end, the main thread      *)
(* starts the others, and a loop runs what it can.                         *)
Fairness ==
    /\ WF_vars(\E m \in Modules : put(m)) /\ WF_vars(MainNext)
    /\ WF_vars(stop) /\ WF_vars(run) /\ WF_vars(run_one)
    /\ \A p \in Takers : WF_vars(bump(p)) /\ WF_vars(wrap(p))
    /\ \A m \in Modules : WF_vars(module_run(m))

FairSpec == Spec /\ Fairness

-----------------------------------------------------------------------------


(* A module's run() begins only when every module with a higher priority   *)
(* has finished its own, whatever the order they were registered in.       *)
PriorityOrder ==
    \A m, d \in Modules :
        mod[m] = "running" /\ Priority[d] > Priority[m] => mod[d] \in {"finished", "failed"}

(* Calls into modules find an executor.  The run() of a module can rely on *)
(* the modules with a higher priority unless their init() failed; one of   *)
(* the same priority may be missing, which ends the start-up.  Once        *)
(* module_router::run is through, a request handler can rely on every      *)
(* module whose init() succeeded: otherwise the exception ends the handler *)
(* and the request has no response.                                        *)
CallsReachModules ==
    /\ dropped = {}
    /\ \A call \in missed :
           \/ Priority[call[2]] <= Priority[call[1]]
           \/ mod[call[2]] = "failed"

(* Unless the server is told to stop, or a call between modules found no   *)
(* executor, every module has its turn.                                    *)
EveryModuleRuns == <>(router = "done" \/ missed # {} \/ halt # "no")

(* Once a signal has come, run() returns, even if the signal came while    *)
(* the threads were still being started.                                   *)
StopReturns == halt # "no" ~> main = "done"

=============================================================================
