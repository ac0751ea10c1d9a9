--------------------------- MODULE ServiceProcess ---------------------------
(* The life of one pod: entry point, connection and migrations beside other  *)
(* pods, start-up hooks, servers, probes, SIGTERM, and the restarts of its   *)
(* container. What its requests and ticks do is in the other modules.        *)
EXTENDS Integers

CONSTANTS
  Pod, This,          \* the pods that share the database, and the one modelled in full
  RETRY_ATTEMPTS, SESSION_IS_UTC,
  MaxFaults           \* bound on crashes and on outages of the stores

ASSUME ProcessAssumption ==
  /\ This \in Pod /\ "none" \notin Pod /\ MaxFaults \in Nat
  /\ RETRY_ATTEMPTS \in Nat \ {0} /\ SESSION_IS_UTC \in BOOLEAN

VARIABLES
  schema, ledger, holder, pods, dbUp,   \* see Migrations
  redisUp,
  configured,   \* the required variables are set
  start,        \* how far bootstrap is
  stop,         \* how far the shutdown is; "gone" when the container is not started again
  http,         \* the HTTP server listens
  hooks,        \* onModuleDestroy hooks that have not returned
  ready,        \* what the last probe found
  faults

Db == INSTANCE Migrations

dbVars      == <<schema, ledger, holder, pods, dbUp>>
processVars == <<start, stop, http, hooks, ready>>
allVars     == <<dbVars, redisUp, configured, processVars, faults>>

Init ==
  /\ Db!Init /\ redisUp \in BOOLEAN /\ configured \in BOOLEAN
  /\ start = "down" /\ stop = "running" /\ http = FALSE /\ hooks = {} /\ ready = FALSE
  /\ faults = 0

-----------------------------------------------------------------------------
(* Start-up.                                                                *)

\* A missing variable makes the entry point exit, and the container starts it again.
EnvironmentChecked == configured

StartProcess ==
  /\ start = "down" /\ stop = "running" /\ EnvironmentChecked
  /\ Db!Connect(This) /\ start' = "connecting"
  /\ UNCHANGED <<redisUp, configured, stop, http, hooks, ready, faults>>

ConnectionStep ==
  /\ start = "connecting" /\ Db!ConnectionStep(This)
  /\ UNCHANGED <<redisUp, configured, processVars, faults>>

BootstrapFails ==
  /\ start = "connecting" /\ pods[This].at = "off" /\ start' = "down"
  /\ UNCHANGED <<dbVars, redisUp, configured, stop, http, hooks, ready, faults>>

\* The modules exist: the shutdown hooks are enabled and the gRPC server listens before the
\* start-up hooks run.
ModulesCreated ==
  /\ start = "connecting" /\ pods[This].at = "ready" /\ start' = "init"
  /\ UNCHANGED <<dbVars, redisUp, configured, stop, http, hooks, ready, faults>>

\* The start-up hooks have returned. bootstrap does not look at a shutdown that has come
\* meanwhile, and listens after the servers were closed.
Listen ==
  /\ start = "init" /\ start' = "listening" /\ http' = TRUE
  /\ UNCHANGED <<dbVars, redisUp, configured, stop, hooks, ready, faults>>

-----------------------------------------------------------------------------
(* The probe of the container, on the readiness route.                      *)

DbAnswers == dbUp /\ stop # "drained"

\* ThrottlerGuard counts the request in Redis first, on a connection of its own; the cache
\* manager may connect again after its disconnection.
Readiness ==
  {b \in BOOLEAN : IF DbAnswers /\ redisUp THEN b \/ stop # "running" ELSE ~b}

Probe ==
  /\ start # "down" /\ ready' \in (IF http THEN Readiness ELSE {FALSE})
  /\ UNCHANGED <<dbVars, redisUp, configured, start, stop, http, hooks, faults>>

-----------------------------------------------------------------------------
(* Shutdown.                                                                *)

Gone ==
  /\ start' = "down" /\ http' = FALSE /\ hooks' = {} /\ ready' = FALSE
  /\ Db!Die(This) /\ UNCHANGED <<redisUp, configured>>

\* Before the shutdown hooks are enabled the signal ends the process at once.
TerminateEarly == start = "connecting" /\ Gone /\ stop' = "gone" /\ UNCHANGED faults

Terminate ==
  /\ start \in {"init", "listening"} /\ stop = "running"
  /\ stop' = "hooks" /\ hooks' = {"keys", "cache"}
  /\ UNCHANGED <<dbVars, redisUp, configured, start, http, ready, faults>>

KeysDestroyed ==
  /\ "keys" \in hooks /\ hooks' = hooks \ {"keys"}
  /\ UNCHANGED <<dbVars, redisUp, configured, start, stop, http, ready, faults>>

\* cacheManager.disconnect() races a timer; mutated, there is no timer.
CacheDisconnects ==
  /\ "cache" \in hooks /\ redisUp /\ hooks' = hooks \ {"cache"}
  /\ UNCHANGED <<dbVars, redisUp, configured, start, stop, http, ready, faults>>
NoTimer == FALSE /\ UNCHANGED allVars
CacheTimesOut ==
  /\ "cache" \in hooks /\ hooks' = hooks \ {"cache"}
  /\ UNCHANGED <<dbVars, redisUp, configured, start, stop, http, ready, faults>>

\* The servers close after the hooks, then the connection to the database. The signal that
\* Nest sends again meets the listener of main.ts, and the Redis connections that no hook
\* closes keep the process alive until it is killed.
Dispose ==
  /\ stop = "hooks" /\ hooks = {} /\ stop' = "drained" /\ http' = FALSE
  /\ UNCHANGED <<dbVars, redisUp, configured, start, hooks, ready, faults>>

\* The grace period of the container is over.
Kill == stop \in {"hooks", "drained"} /\ Gone /\ stop' = "gone" /\ UNCHANGED faults

-----------------------------------------------------------------------------
(* The surroundings.                                                        *)

Fault == faults < MaxFaults /\ faults' = faults + 1

\* The container is started again unless it was being stopped.
Crash ==
  /\ Fault /\ start # "down" /\ Gone
  /\ stop' = IF stop = "running" THEN "running" ELSE "gone"

StoreDown ==
  /\ Fault
  /\ \/ dbUp /\ dbUp' = FALSE /\ UNCHANGED redisUp
     \/ redisUp /\ redisUp' = FALSE /\ UNCHANGED dbUp
  /\ UNCHANGED <<schema, ledger, holder, pods, configured, processVars>>

DbComesUp ==
  /\ ~dbUp /\ dbUp' = TRUE
  /\ UNCHANGED <<schema, ledger, holder, pods, redisUp, configured, processVars, faults>>
RedisComesUp ==
  /\ ~redisUp /\ redisUp' = TRUE /\ UNCHANGED <<dbVars, configured, processVars, faults>>
FixEnvironment ==
  /\ ~configured /\ configured' = TRUE /\ UNCHANGED <<dbVars, redisUp, processVars, faults>>

PeerStep(p) ==
  /\ Db!Connect(p) \/ Db!ConnectionStep(p)
  /\ UNCHANGED <<redisUp, configured, processVars, faults>>
PeerDies(p) ==
  /\ Fault /\ pods[p].at # "off" /\ Db!Die(p) /\ UNCHANGED <<redisUp, configured, processVars>>

-----------------------------------------------------------------------------
Next ==
  \/ StartProcess \/ ConnectionStep \/ BootstrapFails \/ ModulesCreated \/ Listen \/ Probe
  \/ TerminateEarly \/ Terminate \/ KeysDestroyed \/ CacheDisconnects \/ CacheTimesOut
  \/ Dispose \/ Kill \/ Crash \/ StoreDown \/ DbComesUp \/ RedisComesUp \/ FixEnvironment
  \/ \E p \in Pod \ {This} : PeerStep(p) \/ PeerDies(p)

Spec == Init /\ [][Next]_allVars

\* The container restarts and probes the process, bootstrap and the hooks go on, the timer
\* fires and the stores come back. The start-up hooks return, but for a JwksService that was
\* destroyed in its sleep. Nobody has to send a SIGTERM, nor to kill.
Fairness ==
  /\ WF_allVars(StartProcess) /\ WF_allVars(ConnectionStep) /\ WF_allVars(BootstrapFails)
  /\ WF_allVars(ModulesCreated) /\ WF_allVars(Listen /\ stop = "running") /\ WF_allVars(Probe)
  /\ WF_allVars(KeysDestroyed) /\ WF_allVars(CacheTimesOut) /\ WF_allVars(Dispose)
  /\ WF_allVars(DbComesUp) /\ WF_allVars(RedisComesUp) /\ WF_allVars(FixEnvironment)
  /\ \A p \in Pod \ {This} : WF_allVars(PeerStep(p))

FairSpec == Spec /\ Fairness

-----------------------------------------------------------------------------
(* Properties                                                               *)

\* Every variable keeps its type: the database, the connections, bootstrap and the shutdown.
TypeOK ==
  /\ Db!TypeOK
  /\ redisUp \in BOOLEAN /\ configured \in BOOLEAN /\ http \in BOOLEAN /\ ready \in BOOLEAN
  /\ start \in {"down", "connecting", "init", "listening"}
  /\ stop \in {"running", "hooks", "drained", "gone"}
  /\ hooks \subseteq {"keys", "cache"} /\ faults \in 0..MaxFaults

\* Pods that start together, die in their migrations or lose the database never serve over a
\* part of the schema their entities describe, nor does a probe find such a pod ready.
ReadyOnWholeSchema ==
  /\ \A p \in Pod : pods[p].at = "ready" => Db!Whole(schema)
  /\ start \in {"init", "listening"} \/ ready => Db!Whole(schema)

\* Pods that find the database empty do not both create it: the CREATE of the second throws,
\* and its retry finds nothing to do. Only the later migrations may be executed twice.
CreatedOnce == ledger["InitialSchema"] <= 1 /\ ledger["AddScheduledMessages"] <= 1

\* Where a second execution of the timestamptz migration moved the instants of the messages,
\* the table of migrations names it twice: whatever the crashes, one execution keeps them.
ShiftIsRecorded == schema.shifted => ledger["AlterTimestamptz"] > 1

\* The strengthening the three need: the table of migrations and the schema agree, whoever
\* committed last, and the servers are there over a connection that is ready. ProcessInv is
\* inductive.
ServersInv ==
  /\ start \in {"init", "listening"} => pods[This].at = "ready"
  /\ http \/ ready => start = "listening"

ProcessInv == TypeOK /\ Db!LedgerOfSchema /\ Db!ConnectionsInv /\ ServersInv

\* Whatever races, outages and crashes its start met, the pod is found ready in the end, and
\* stays so until a SIGTERM.
ReadyInTheEnd == <>[](ready \/ stop # "running")

\* A shutdown gets past its hooks and closes its servers and its connection to the database,
\* even when Redis does not answer the disconnection. The process is not gone then: what is
\* drained stays alive until it is killed.
ShutdownDrains == stop = "hooks" ~> stop \in {"drained", "gone"}
=============================================================================
