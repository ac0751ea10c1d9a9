----------------------------- MODULE Migrations -----------------------------
(* The TypeORM connection of each pod and the migrations it runs at start-up *)
(* (DB_MIGRATIONS_RUN=true, as in production), over one PostgreSQL database. *)
EXTENDS Integers

CONSTANTS
  Pod,
  RETRY_ATTEMPTS,    \* connection attempts TypeOrmCoreModule makes, 10 by default
  SESSION_IS_UTC     \* the sessions of the database have UTC as their time zone

VARIABLES
  schema,    \* what the committed DDL has made
  ledger,    \* rows of the table of executed migrations
  holder,    \* the pod whose transaction has the locks of its DDL, or "none"
  pods,      \* where each pod's connection is, and the migrations it found pending
  dbUp

dbVars == <<schema, ledger, holder, pods, dbUp>>

NoSchema == [jobs |-> "none", messages |-> "none", processing |-> FALSE, retryCount |-> FALSE,
             shifted |-> FALSE]
Off == [at |-> "off", todo |-> {}, tries |-> 1]

-----------------------------------------------------------------------------
(* The migrations: each gives the set of schemas it may make of d, none when *)
(* one of its statements throws.                                            *)

\* CREATE refuses what exists; mutated, it has IF NOT EXISTS.
CreateIfNotExists(d, e, absent) == {IF absent THEN e ELSE d}
Create(d, e, absent) == IF absent THEN {e} ELSE {}

InitialSchema(d) == Create(d, [d EXCEPT !.jobs = "NO ACTION"], d.jobs = "none")

AddScheduledMessages(d) == Create(d, [d EXCEPT !.messages = "timestamp"], d.messages = "none")

AddProcessingStatus(d) == {e \in {[d EXCEPT !.processing = TRUE]} : d.messages # "none"}

\* AT TIME ZONE 'UTC' turns a timestamptz into a timestamp, which the session's own zone
\* turns back.
AlterTimestamptz(d) ==
  LET again == d.messages = "timestamptz" IN
  {e \in {[d EXCEPT !.messages = "timestamptz",
                    !.shifted = d.shifted \/ (again /\ ~SESSION_IS_UTC)]} : d.messages # "none"}

JobsCategoryFkSetNull(d) == {e \in {[d EXCEPT !.jobs = "SET NULL"]} : d.jobs # "none"}

AddRetryCount(d) == {e \in {[d EXCEPT !.retryCount = TRUE]} : d.messages # "none"}

Migration ==
  {"InitialSchema", "AddScheduledMessages", "AddProcessingStatus", "AlterTimestamptz",
   "JobsCategoryFkSetNull", "AddRetryCount"}

Up(m, d) ==
  CASE m = "InitialSchema"         -> InitialSchema(d)
    [] m = "AddScheduledMessages"  -> AddScheduledMessages(d)
    [] m = "AddProcessingStatus"   -> AddProcessingStatus(d)
    [] m = "AlterTimestamptz"      -> AlterTimestamptz(d)
    [] m = "JobsCategoryFkSetNull" -> JobsCategoryFkSetNull(d)
    [] m = "AddRetryCount"         -> AddRetryCount(d)

Run(m, todo, ds) == IF m \in todo THEN UNION {Up(m, d) : d \in ds} ELSE ds

\* All the pending migrations, in the order of their timestamps and in one transaction.
RunAll(d, todo) ==
  LET tables   == Run("AddScheduledMessages", todo, Run("InitialSchema", todo, {d}))
      messages == Run("AlterTimestamptz", todo, Run("AddProcessingStatus", todo, tables))
  IN  Run("AddRetryCount", todo, Run("JobsCategoryFkSetNull", todo, messages))

\* The migrations of an empty database, of the release before the enum's fourth value, and of
\* this one.
Release == {{}, {"InitialSchema", "AddScheduledMessages"}, Migration}

Init ==
  /\ \E done \in Release : /\ ledger = [m \in Migration |-> IF m \in done THEN 1 ELSE 0]
                           /\ schema \in RunAll(NoSchema, done)
  /\ holder = "none" /\ pods = [p \in Pod |-> Off] /\ dbUp \in BOOLEAN

-----------------------------------------------------------------------------
(* The connection.                                                          *)

Goto(p, at) == pods' = [pods EXCEPT ![p].at = at]

Connect(p) ==
  /\ pods[p].at = "off" /\ Goto(p, "connecting") /\ UNCHANGED <<schema, ledger, holder, dbUp>>

\* The executed migrations are read before the transaction, under no lock.
LoadLedger(p) ==
  LET todo == {m \in Migration : ledger[m] = 0} IN
  /\ pods[p].at = "connecting" /\ dbUp
  /\ pods' = [pods EXCEPT ![p] = [@ EXCEPT !.at = IF todo = {} THEN "ready" ELSE "pending",
                                           !.todo = todo]]
  /\ UNCHANGED <<schema, ledger, holder, dbUp>>

\* The first statement takes locks that make the other pods' transactions wait.
BeginTransaction(p) ==
  /\ pods[p].at = "pending" /\ dbUp /\ holder = "none" /\ holder' = p
  /\ Goto(p, "migrating") /\ UNCHANGED <<schema, ledger, dbUp>>

\* Each executed migration gets a row; mutated, one that has a row gets no other.
RecordedOnce(todo) == [m \in Migration |-> IF m \in todo THEN 1 ELSE ledger[m]]
Recorded(todo) == [m \in Migration |-> ledger[m] + IF m \in todo THEN 1 ELSE 0]

Commit(p) ==
  /\ pods[p].at = "migrating" /\ dbUp
  /\ schema' \in RunAll(schema, pods[p].todo)
  /\ ledger' = Recorded(pods[p].todo)
  /\ holder' = "none" /\ Goto(p, "ready") /\ UNCHANGED dbUp

\* Mutated, a failed attempt keeps its transaction open.
NoRollback(p) == holder' = holder
Rollback(p) == holder' = IF holder = p THEN "none" ELSE holder

MayRetryOnceMore(p) == pods[p].tries <= RETRY_ATTEMPTS
MayRetry(p) == pods[p].tries < RETRY_ATTEMPTS

\* An attempt that throws rolls back; the last one makes bootstrap throw.
AttemptFails(p) ==
  /\ \/ pods[p].at \in {"connecting", "pending", "migrating"} /\ ~dbUp
     \/ pods[p].at = "migrating" /\ RunAll(schema, pods[p].todo) = {}
  /\ Rollback(p)
  /\ IF MayRetry(p)
     THEN pods' = [pods EXCEPT ![p].at = "backoff", ![p].tries = @ + 1]
     ELSE pods' = [pods EXCEPT ![p] = Off]
  /\ UNCHANGED <<schema, ledger, dbUp>>

\* Mutated, the service goes on without the migrations that failed.
RetryUnmigrated == "ready"
RetryAt == "connecting"

Retry(p) ==
  /\ pods[p].at = "backoff" /\ Goto(p, RetryAt) /\ UNCHANGED <<schema, ledger, holder, dbUp>>

\* The process is gone: the server rolls its transaction back.
Die(p) == pods' = [pods EXCEPT ![p] = Off] /\ Rollback(p) /\ UNCHANGED <<schema, ledger, dbUp>>

ConnectionStep(p) ==
  LoadLedger(p) \/ BeginTransaction(p) \/ Commit(p) \/ AttemptFails(p) \/ Retry(p)

\* What the entities of this release rely on.
Whole(d) ==
  /\ d.jobs = "SET NULL" /\ d.messages = "timestamptz" /\ d.processing /\ d.retryCount

-----------------------------------------------------------------------------
Schemas == [jobs : {"none", "NO ACTION", "SET NULL"},
            messages : {"none", "timestamp", "timestamptz"},
            processing : BOOLEAN, retryCount : BOOLEAN, shifted : BOOLEAN]

\* The part of ServiceProcess's TypeOK that is about the database: what typeorm.ts and its
\* migrations make of it.
TypeOK ==
  /\ schema \in Schemas
  /\ ledger \in [Migration -> Nat] /\ holder \in Pod \cup {"none"} /\ dbUp \in BOOLEAN
  /\ pods \in [Pod -> [at : {"off", "connecting", "pending", "migrating", "backoff", "ready"},
                      todo : SUBSET Migration, tries : 1..RETRY_ATTEMPTS]]

\* What the rows of the executed migrations say of the schema, and the schema of them: the
\* tables are created once each, and the column is a timestamptz from the first execution on.
LedgerOfSchema ==
  /\ ledger["InitialSchema"] = IF schema.jobs = "none" THEN 0 ELSE 1
  /\ ledger["AddScheduledMessages"] = IF schema.messages = "none" THEN 0 ELSE 1
  /\ schema.messages = "timestamptz" <=> ledger["AlterTimestamptz"] > 0
  /\ ledger["JobsCategoryFkSetNull"] > 0 => schema.jobs = "SET NULL"
  /\ ledger["AddProcessingStatus"] > 0 => schema.processing
  /\ ledger["AddRetryCount"] > 0 => schema.retryCount
  /\ schema.shifted => ledger["AlterTimestamptz"] > 1

\* What a connection found pending before its transaction still has all that is missing, one
\* that is ready misses nothing, and the locks are with the transaction that is open.
ConnectionsInv ==
  \A p \in Pod :
    /\ pods[p].at \in {"pending", "migrating"} =>
         \A m \in Migration : ledger[m] = 0 => m \in pods[p].todo
    /\ pods[p].at = "ready" => \A m \in Migration : ledger[m] > 0
    /\ pods[p].at = "migrating" <=> holder = p
=============================================================================
