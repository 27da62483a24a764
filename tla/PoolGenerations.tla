-------------------------- MODULE PoolGenerations ---------------------------
(***************************************************************************)
(* The pools of one server process: the one the lifespan starts with       *)
(* (app.py) and one more for each reload (config/reload.py), each with its *)
(* health watcher and its HTTP clients.  Pools are numbered in the order   *)
(* they are built.  app.state.pool, .config and .resolver change together, *)
(* with no await between, so current stands for all three.                 *)
(***************************************************************************)
EXTENDS Integers, FiniteSets

CONSTANT MaxPools   \* bound: how many pools a process builds

ASSUME PoolsAssumption == MaxPools \in Nat \ {0}

Pools == 1 .. MaxPools

VARIABLES server,     \* lifespan: "starting", "serving", "stopping", "stopped"
          current,    \* app.state.pool
          built,      \* how many pools there are
          clients,    \* clients[p]: the pool's HTTP clients: "none", "open", "closed"
          watcher,    \* watcher[p]: its health watcher: "new", "running", or asked
                      \* to stop: "stopping", "stopped"
          reloading,  \* the pool that the reload with the lock is starting, or 0
          queued,     \* reloads that wait for the lock
          drains,     \* the pools whose _drain task sleeps
          closing,    \* the pools in aclose(), waiting for their watcher
          dropped     \* the pools of reloads that failed, never started

poolVars == <<clients, watcher, dropped>>
taskVars == <<reloading, queued, drains, closing>>
genVars  == <<server, current, built, poolVars, taskVars>>

GenInit ==
  /\ server = "starting" /\ current = 1 /\ built = 1
  /\ clients = [p \in Pools |-> IF p = 1 THEN "open" ELSE "none"]
  /\ watcher = [p \in Pools |-> "new"]
  /\ reloading = 0 /\ queued = 0 /\ drains = {} /\ closing = {} /\ dropped = {}

-----------------------------------------------------------------------------
\* HealthWatcher.start, at the end of pool.start(): a watcher that was asked to
\* stop before finds the event set and ends at once.
Watched(p) == [watcher EXCEPT ![p] = IF @ = "new" THEN "running" ELSE "stopped"]

\* HealthWatcher.stop sets the event; the task ends after the probe it is in.
Unwatched(p) ==
  [watcher EXCEPT ![p] = CASE @ = "running" -> "stopping" [] @ = "new" -> "stopped" [] OTHER -> @]

\* The lifespan's pool has been probed; the server takes requests.
Started ==
  /\ server = "starting"
  /\ server' = "serving"
  /\ watcher' = Watched(1)
  /\ UNCHANGED <<current, built, clients, dropped, taskVars>>

\* A task that reloads waits for the lock.
Queue ==
  /\ built + queued < MaxPools
  /\ queued' = queued + 1
  /\ UNCHANGED <<server, current, built, poolVars, reloading, drains, closing>>

\* The handler of SIGHUP is installed before the pool is started, ...
Sighup == server \in {"starting", "serving"} /\ Queue

\* ... POST /admin/reload is answered when the server takes requests.
AdminReload == server = "serving" /\ Queue

\* The lock is free: the configuration is loaded and a pool built from it, ...
BeginReload ==
  /\ queued > 0 /\ reloading = 0
  /\ queued' = queued - 1
  /\ built' = built + 1 /\ reloading' = built + 1
  /\ clients' = [clients EXCEPT ![built + 1] = "open"]
  /\ UNCHANGED <<server, current, watcher, dropped, drains, closing>>

\* ... unless the configuration is bad.  That may show when the pool is there, or
\* some of its backends (the constructor of another, or of the resolver, raises):
\* nobody closes their clients.
FailReload ==
  /\ queued > 0 /\ reloading = 0
  /\ queued' = queued - 1
  /\ \/ UNCHANGED <<built, clients, dropped>>
     \/ /\ built' = built + 1
        /\ clients' = [clients EXCEPT ![built + 1] = "open"]
        /\ dropped' = dropped \cup {built + 1}
  /\ UNCHANGED <<server, current, watcher, reloading, drains, closing>>

\* Mutant: the pool that is drained is looked up after the swap.
Swap_DrainsNew ==
  /\ reloading # 0
  /\ watcher' = Watched(reloading)
  /\ current' = reloading /\ reloading' = 0
  /\ drains' = drains \cup {reloading}
  /\ UNCHANGED <<server, built, clients, dropped, queued, closing>>

\* Mutant: the replaced pool is not drained.
Swap_ForgetsOld ==
  /\ reloading # 0
  /\ watcher' = Watched(reloading)
  /\ current' = reloading /\ reloading' = 0
  /\ UNCHANGED <<server, built, clients, dropped, queued, drains, closing>>

\* The new pool has been probed and its watcher started; it replaces the pool
\* of that moment, for which a _drain task is created.
Swap ==
  /\ reloading # 0
  /\ watcher' = Watched(reloading)
  /\ current' = reloading /\ reloading' = 0
  /\ drains' = drains \cup {current}
  /\ UNCHANGED <<server, built, clients, dropped, queued, closing>>

\* The drain window is over, whoever still uses the pool: aclose().
DrainOver(p) ==
  /\ p \in drains
  /\ drains' = drains \ {p} /\ closing' = closing \cup {p}
  /\ watcher' = Unwatched(p)
  /\ UNCHANGED <<server, current, built, clients, dropped, reloading, queued>>

\* The watcher's task ends, by itself or cancelled after two seconds.
WatcherEnds(p) ==
  /\ watcher[p] = "stopping"
  /\ watcher' = [watcher EXCEPT ![p] = "stopped"]
  /\ UNCHANGED <<server, current, built, clients, dropped, taskVars>>

\* The rest of aclose(); the lifespan ends with its own.
CloseClients(p) ==
  /\ p \in closing /\ watcher[p] = "stopped"
  /\ closing' = closing \ {p}
  /\ clients' = [clients EXCEPT ![p] = "closed"]
  /\ server' = IF server = "stopping" /\ p = 1 THEN "stopped" ELSE server
  /\ UNCHANGED <<current, built, watcher, dropped, reloading, queued, drains>>

\* The server is told to stop and has finished its requests: the lifespan closes
\* the pool it started with.
Shutdown ==
  /\ server = "serving"
  /\ server' = "stopping"
  /\ closing' = closing \cup {1} /\ watcher' = Unwatched(1)
  /\ UNCHANGED <<current, built, clients, dropped, reloading, queued, drains>>

Renew == Started \/ BeginReload \/ FailReload \/ Swap

Retire(p) == DrainOver(p) \/ WatcherEnds(p) \/ CloseClients(p)

\* When the lifespan is over the process ends, and every task with it.
GenNext ==
  server # "stopped" /\ (Renew \/ Sighup \/ AdminReload \/ \E p \in Pools : Retire(p))

-----------------------------------------------------------------------------
GenTypeOK ==
  /\ server \in {"starting", "serving", "stopping", "stopped"}
  /\ current \in Pools /\ built \in Pools
  /\ clients \in [Pools -> {"none", "open", "closed"}]
  /\ watcher \in [Pools -> {"new", "running", "stopping", "stopped"}]
  /\ reloading \in Pools \cup {0} /\ queued \in Nat
  /\ drains \subseteq Pools /\ closing \subseteq Pools /\ dropped \subseteq Pools

\* Requests that come now are served by a pool whose clients are open and whose
\* watcher runs (reload.py:55-63): no reload, however reloads, signals during
\* the start and drains fall together, ever closes the pool in use.
CurrentPoolServes ==
  server = "serving" => clients[current] = "open" /\ watcher[current] = "running"

\* Every pool that has been built and is not closed is the one in use, or the
\* one being started, or some task is going to close it (reload.py:63, app.py:60),
\* or its reload failed; and none of the last is ever any of the others, nor does
\* its watcher run: what a reload leaves unclosed (reload.py:48-53) has never been
\* in use.
NoPoolForgotten ==
  LET known == {current, reloading} \cup drains \cup closing
  IN  /\ \A p \in 1 .. built : clients[p] = "open" => p \in known \cup dropped
      /\ \A p \in dropped : p \notin known /\ watcher[p] = "new"
=============================================================================
