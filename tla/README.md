# A TLA+ model of the scheduling service

The scheduling service stores messages to be sent later and jobs to be run on a
schedule, and hands both to the messaging service over gRPC. It is a NestJS
process that runs as several pods around one PostgreSQL database and one Redis.
This directory models the parts of it whose correctness depends on the order of
steps of several actors, checks them with TLC on small instances, and proves the
main safety properties with TLAPS for every instance. Paths are relative to the
repository; `SM` is short for
`src/modules/scheduled-messages/services/scheduled-messages.service.ts`.

## 1. The system

| component | state | operations | talks to |
| --- | --- | --- | --- |
| Scheduled messages (`SM`, its controller and entity) | table `scheduled_messages`; Redis key `scheduled-messages:cron:lock` | `create`, `update`, `cancel`, two reads; the tick `processDueMessages` = lock, `claimDueMessages`, `sendMessage` per row, release | database (TypeORM), Redis, messaging client |
| Messaging client (`grpc/clients/messaging.client.ts`) | none | one call with a 5 s limit | messaging service |
| Scheduler (`scheduler/services/scheduler.service.ts`) | tables `jobs`, `schedules`, `executions` | `createJob`, `scheduleJob`, `cancelSchedule`, `executeJob`, reads | database, QueueService, messaging client |
| Queues (`queues/`) | BullMQ in Redis: entries, locks, attempts, repeatable registrations | `addJob`, `addRepeatableJob`, `removeJob`, pause, resume, clean, `retryFailedJobs`; workers call `executeJob` | Scheduler, monitoring controller |
| gRPC server (`grpc/services/grpc-scheduler.service.ts`) | none | the scheduler's operations without the decorators' validation, a health check, metrics | Scheduler, monitoring |
| Monitoring (`monitoring/`) | none | reports put together from several reads of the queues and the tables; a cron tick every five minutes | Queues, database |
| JWKS keys (`jwks/jwks.service.ts`) | `keyMap`, `primaryPem`, reload promise and timers | load at start-up with backoff, background loop, reload for an unknown kid, destroy | identity service |
| JWT guard (`auth/jwt-auth.guard.ts`) | none | `canActivate` | JWKS keys, the cache |
| Bootstrap, migrations, probes, shutdown (`main.ts`, `modules/app/`, `docker/`) | the database schema and TypeORM's table of executed migrations; the state of the process | connect, migrate, listen, answer the probe, dispose | database, Redis, the container |
| Utilities, filters, guards of headers | none | pure functions | — |

What is hard in each of them, and what makes it correct:

* **Scheduled messages.** Every write of a row is TypeORM's `save`: a SELECT to
  find the columns that differ, then an UPDATE by id that writes just those,
  whatever the row has become. Between a read and that UPDATE there are awaits,
  so API requests and ticks interleave. The Redis lock lives 55 s and a batch may
  take 100 × 5 s, so two ticks do run at once; its value names a process, not a
  tick. A pod may die anywhere, any call may fail before or after its effect, a
  request that the client gave up may still be accepted. Correct means: one row,
  one claim; no more sends than the retry cap allows; `sent` only for what was
  accepted; a cancelled row stays cancelled; due rows are taken and claimed rows
  reach an outcome.
* **Scheduler and queues.** The schedule's row and its queue entry are written
  one after the other; cancelling looks the entry up and then removes it; BullMQ
  gives an entry to a second worker when the first loses its lock; an operator's
  `retryFailedJobs` works on a snapshot. Correct means: an entry is executed
  again only because something failed; a completed entry left an outcome; a
  COMPLETED execution stands for an accepted call, unless the job asks for a notification
  or for a service nobody knows, which get a result that comes from no service; what was
  removed stays removed; what was accepted for scheduling is executed.
* **JWKS keys.** Two loads may be in flight at once (the loop's and a reload's),
  over an endpoint that rotates its keys and goes down. Correct means: the number
  of loads is bounded, an old key set does not keep coming back, and published
  keys end in the map.

* **Monitoring and gRPC.** A report awaits one count after another while executions
  start and end; the gRPC handlers read names that their loader does not produce.
  Correct means: a report claims no more than was done, and no false alarm.
* **Life of a process.** Pods start together over one database and all run the
  pending migrations; any of them may die in the middle, a store may be away, a
  SIGTERM may come at any time. Correct means: a pod serves only over the whole schema,
  nothing is created twice, every start ends in a ready pod, and a shutdown gets past its
  hooks. The process is then alive until it is killed (section 6).

`PROJECT.json` lists every component with its files, and every hazard at its
line; section 7 says what is not modelled and why.

## 2. Modules

```
MessageDelivery <~ ScheduledMessages <- MCScheduledMessages
                   ScheduledMessages <- ScheduledMessagesProofs <- DeliveryProofs
JobQueue <- Scheduler <- MCScheduler
JobExecution <~ Scheduler <- SchedulerProofs <- ExecutionProofs
            Scheduler <- Monitoring <- GrpcServer <- MCGrpcServer
            ExecutionProofs, GrpcServer <- GrpcServerProofs
MessageDelivery, JobExecution <~ PromisesProofs
JwksService <- MCJwksService, JwksServiceProofs
Migrations <~ ServiceProcess <- MCServiceProcess, ServiceProcessProofs
```

`A <- B`: B extends A. `MessageDelivery <~ ScheduledMessages`: the detailed module
instantiates the abstract one under a refinement mapping. `Migrations <~
ServiceProcess`: the process instantiates the database it shares.

### ScheduledMessages

State: `rows` is the table (columns `status`, `content`, `scheduledAt`,
`retryCount`; `absent` before the insert); `lock` is the Redis key; a tick is an
invocation of `processDueMessages`, one of `Slot` per `Pod`, with its position
`pc`, the ids it selected (`candidates`), the rows it claimed and has not
finished (`batch`), the entities it holds for them (`entity`), the row it is at
(`current`), the columns its save will write (`diff`) and its call. A request has
`rpc`, `target`, the entity it loaded and changed (`draft`) and `rdiff`. The
variables marked *history* are never read by an action.

Each await of the code is a boundary between two actions:

| code | actions |
| --- | --- |
| `acquireLock` / `releaseLock` (owner checked by a Lua script) | `AcquireLock`, `AcquireReplyLost`, `LockExpires`, `ReleaseLock`, `ReleaseFails` |
| `claimDueMessages`: SELECT of due rows, conditional UPDATE … RETURNING | `SelectDue`, `ClaimDueMessages`, `ClaimFails` |
| `sendMessage`: call, status, save; the catch block | `Send`, `ReplyOk`, `ReplyError`, `SaveSelect`, `SaveUpdate`, `SaveFails` |
| `create`, `update`, `cancel` | `Create`; `LoadForUpdate` / `LoadForCancel`, `RequestSaveSelect`, `RequestSaveUpdate`, `RequestFails` |
| the messaging service (external) | `Accept`, `AcceptLate` |
| a process dies | `Crash`: its ticks vanish; the key stays, owned by an id nobody has |

`Hydrated` is a parameter because the code and its unit tests disagree. The
claim's `RETURNING *` yields column names (`retry_count`), and
`repository.create` keeps only keys that are property names, so against a real
driver the entity has `status` and `content` and no `retryCount` (`RawColumns`).
The tests' mock rows carry property names (`AllColumns`). The proofs cover every
value between the two.

The Redis key may expire at any moment: the model has no seconds, and a tick can
outlive 55 s. Order of rows in a batch is any order, as `RETURNING` promises none.

### MessageDelivery

The abstract specification of one scheduled message, without pods, ticks, locks,
batches, requests or saves: it is pending, somebody sees it due (`picked`), it is
claimed, sent with one call per claim, and gets an outcome; or it is cancelled.
Every one of its sends is on the wire until it is delivered or lost. `sent` needs a
delivery, a return to `pending` a send left below `MaxSends`. A claim is stranded
only when something has failed. `void` is the state of a row an API request has
overwritten: nothing is promised of it (the runs `double_send` and
`cancel_honoured` show why).

`Delivery(m)` in ScheduledMessages maps the state to it: `Phase(m)` from the row's
status and the batch it is in, `InFlight(m)` from the calls under way. Property
`DeliveryPromised` is `\A m : Delivery(m)!Spec`, so every step of any tick or request
is a step or a stutter of each message's life. What the abstraction admits is as
telling as what it excludes: a message claimed though an edit has postponed it since it
was seen due, and an outcome whose save puts the claimed instant back.

### JobQueue and Scheduler

`JobQueue` has what BullMQ keeps of one queue: an entry is a schedule and the
number of an iteration (a repeatable schedule has several, the next one added
when a worker takes the current one), with its state, the worker that holds its
lock, its attempts and stalls; `repeats` are the registrations; `paused`. Its
operators are BullMQ's operations, known by how `QueueService` and `JobProcessor`
use them, so they are marked external or mapped to those callers.

`Scheduler` extends it with the three tables, the API's requests, the operator's
requests and the runs of `executeJob`, one per worker and one per direct caller:
`create` (insert RUNNING), `call`, `await`, `save` (the outcome), `settle` (the
entry completes or fails an attempt). What `executeJobByService` does depends on the
`Target` of the job, drawn when the job is created and fixed from then on:

| `Target` | `targetService`, `targetMethod` | action | result |
| --- | --- | --- | --- |
| `messaging` | `messaging`, one of the two methods | `CallMessaging` | COMPLETED once the call is accepted and answered, FAILED on an error or a timeout |
| `placeholder` | `notification`, or a service the switch does not know | `ReturnPlaceholder` | COMPLETED, and no service was called |
| `unknown` | `messaging`, a method the switch does not know | `RefuseMethod` | FAILED, and no service was called |

`routed` counts the executions that got that far, `effects` the accepted calls and
`placeholders` the results without one. `executions` counts the rows of each entry
by status. `IMMEDIATE`, `ONCE` and `REPEAT` (CRON and INTERVAL, which take the same
path) differ in what they put in the queue and in whether `getJob(scheduleId)`
finds it.

Faults: a runner's process dies; a busy worker's lock lapses while it runs on; an
insert or a save throws, committed or not; `queue.add` throws, with the entry
added or not; Redis fails during a removal, which `removeJob` swallows.

### JobExecution

The abstract specification of one entry of the queue, without workers, locks, attempts,
requests or tables: its job asks for one of the targets; it enters, a worker takes it, it completes or a failure gives it back,
an operator retries or cleans it, `removeJob` closes the door behind it. Beside that, its
executions: those `starting` have not reached their service yet; then, by the target, a
call goes on the `wire` and is accepted or lost (`Call`), a placeholder is returned
(`Skip`), or neither (`Refuse`); and rows are `opened`, `completed` and `failed`. `Take`
needs a failure for every execution that has reached its service or will, each of the three
a row that no other execution has, and `Record` an accepted call or a placeholder for each
COMPLETED. `Record` also turns a COMPLETED into a FAILED, since
`executeJob` does so when its save was committed and reported as failed.

`Life(e)` in Scheduler maps the state to it. An entry is *queued* when it is delayed,
waiting, or active under a worker that has lost it, and *taken* when it is active and its
worker has the lock; the door is closed once `removeJob` has found the schedule
(`stopped`); the executions are counted over workers and direct callers, with the calls
nobody awaits any more (`late`). Property `ExecutionPromised` is `\A e : Life(e)!Spec`.

### Monitoring and GrpcServer

A `Reader` is a request of the monitoring controller, a gRPC call, or a tick of the
metrics' cron: what it asked for, the reads it has still to make (`left`), what they
have counted (`report`) and its answer. Each count is one step, beside the steps of
Scheduler. `QueueReads` is in order (one connection); the counts of the table that are
sent together come back in any order. The queue indicator adds the flag `isPaused` to
the numbers of jobs, as the code does.

`GrpcServer` adds the seven methods of the proto. Its constant `Bound` is the set of
methods that have a handler. Nest looks for handlers among the controllers of a
module, and `grpc.module.ts`:38 lists `GrpcSchedulerService` as a provider only:
today `Bound = {}` and every call is answered `UNIMPLEMENTED`, against "Services
Exposés" (`README.md`:119) and `docs/grpc-communication.md`:21. The run binds every
method, so that it covers the code of the handlers as well. These run with
`keepCase: true` (`main.ts`:123): a name of several words is undefined under the
name the handlers read, TypeORM drops an undefined condition, and NOT NULL columns
refuse the rows. So creating, scheduling and executing end in an error before
anything is called, `GetJob` answers with any job and `CancelSchedule` deactivates
some schedule.

### Migrations and ServiceProcess

`Migrations` is the connection of every pod to the one database: `off`,
`connecting`, `pending` (the executed migrations have been read, under no lock),
`migrating` (its transaction has the locks of its DDL), `backoff`, `ready`.
`schema` keeps what the six migrations make that they can tell apart: tables that
exist or not, the foreign key of `jobs`, the type of the instants, the enum's fourth
value, `retry_count`, and whether the instants have been shifted. `Up` maps a schema
to the schemas a migration may leave, none when one of its statements throws;
`todo` is what a connection found pending; `RunAll` applies its members in the order of
their timestamps, each to the schema the one before has left. `ledger` counts the rows of
the migrations' table. The database starts empty, with
the first two migrations, or up to date; it has DB_MIGRATIONS_RUN=true, as in
production.

`ServiceProcess` is one pod, `This`, in full: the check of the environment, connection
and migrations beside its peers, modules and gRPC server, start-up hooks, HTTP server;
the container's probe; SIGTERM, the two `onModuleDestroy` hooks, disposal, SIGKILL. Its
peers have their connections only. `stop = "drained"` is as far as a shutdown
goes by itself: the signal that Nest sends again meets the listener that `main.ts`:155
has added, and the Redis connections of the lock (`SM`:64) and of the throttler
(`app.module.ts`:104) are closed by no hook, so the process lives until it is killed,
where `docs/graceful-shutdown.md`:18 says "Exit propre". `Listen` does not look at
`stop`: after a SIGTERM during the start-up hooks, bootstrap listens on what has been
disposed of.

### JwksService

The endpoint publishes `Documents` one after the other and goes down up to
`MaxOutages` times. A fetch has who awaits it and the document it was answered
with. `boot` is where `onModuleInit` and then the background loop are;
`UnknownKid` is a request whose kid the map lacks. `setbacks` is history.

## 3. Runs

| run | module, cfg | instance | shows | states |
| --- | --- | --- | --- | --- |
| `ticks` | MCScheduledMessages, `MCTicks` | 2 rows, 2 pods, batch of 1, two faults, clock 0..1, real hydration | `TypeOK`, `AttemptsBounded`, `HeldByOneTick`, `NoClaimForgotten`, `SentWasDelivered`, `DeliveryPromised`, the inductive invariant `DeliveryInv`, and under fairness `DueIsTaken`, `ClaimIsSettledWithoutFault` | 56 k |
| `requests` | MCScheduledMessages, `MCRequests` | 1 row, 2 pods, 2 requests, the tests' hydration so that retries happen | `CancelIsFinal`, `AttemptsBounded`, `HeldByOneTick`, `DeliveryPromised` and the inductive invariant `DeliveryInv`, of which `AttemptsInv` is a conjunct, against edits and cancellations | 2.2 M |
| `scheduled` | MCScheduler, `MCScheduled` | 1 schedule of any type, a job of any target, `ListsIds`, 2 iterations, 1 worker, 2 requests, an operator, 1 fault | `TypeOK`, `RemovedStaysOut`, the inductive invariant `SchedulerInv`, `ExecutionPromised`, and under fairness `ScheduledIsExecuted` | 181 k |
| `operated` | MCGrpcServer, `MCOperated` | 1 ONCE schedule of a job that calls the messaging service or gets a placeholder, 2 workers, a direct caller, a request, an operator, a reader (health, metrics, categories or any gRPC method), 1 fault, 2 attempts | `RepeatsAreExplained`, `CompletedIsRecorded`, `CompletedWasDone`, `RunningRowsAreRuns`, `CallsAreRecorded`, `QueuesDownOnlyByFaults`, `ReportedWasDone` and the inductive invariant `SystemInv` | 1.8 M |
| `jwks` | MCJwksService, `MCJwks` | 3 keys, 4 documents one of them unusable, 3 fetches, 2 outages, any unknown kid | `TypeOK`, `FetchesBounded`, `SetBackAtMostOnce`, and under fairness `ReadyInTheEnd`, `PublishedKeysAreKnown` | 20 k |
| `service` | MCServiceProcess, `MCServiceProcess` | 3 pods, 2 connection attempts, 2 faults (crash, outage), sessions not in UTC | `TypeOK`, `ReadyOnWholeSchema`, `CreatedOnce`, `ShiftIsRecorded`, the inductive invariant `ProcessInv`, and under fairness `ReadyInTheEnd`, `ShutdownDrains` | 292 k |

The other six runs show disagreements and are in section 6.

**Why the bounds are enough.** A double claim needs two ticks and one row; the
tick is the same program on every pod, and two pods with one slot each let the
lock expire under one of them (two slots of one pod differ only in that they share
the lock's owner id; the proofs cover any number of both). Two rows and a batch of
one make a tick leave a due row behind. `RETRY_LIMIT = 1` has both sides of the
comparison. Two faults let a crash follow a failed save. In the scheduler two
attempts let a run fail, be retried and fail for good; two iterations let a
repeatable entry be cancelled while its successor waits; two workers let an old run
of a stalled entry race the new one, with one fault to make it stall; a reader's
reads fall anywhere between their steps. In `ServiceProcess` three pods let one
wait for a transaction while another commits or dies; two attempts give the race
its retry; two faults let an outage follow a crash. In `JwksService` three fetches are one
more than can ever be in flight, so the bound never makes a load wait; the four
documents hold an addition, an unusable document and a withdrawal. Larger
instances were run once without an error: ticks with `AllColumns` (599 k
states), requests with the clock up to 2 (21.6 M), `operated` with two requests and
two faults but no reader (3.2 M), `scheduled` with two workers, without its liveness
property (500 k), and with `ListsIds` FALSE (140 k), and `ExecutionPromised` on `operated`
without its reader (42 k).

`MaxFaults`, `MaxTime`, `MaxIterations`, `MaxOutages` bound the counters;
`HEALTHY_PERCENT` is the code's 95;
each request, direct call and operator's request is made once. Symmetry is over
pods and requests, or workers, in runs of safety properties only. Deadlock is
checked in the runs of `ScheduledMessages`. It is off for `Scheduler`,
`JwksService` and `ServiceProcess`, which do stop: every request may be answered and
every entry finished, every document published and the process destroyed.

**Properties with an escape.** `AttemptsBounded`, `HeldByOneTick`,
`NoClaimForgotten` and `CancelIsFinal` exclude rows that an API request has
overwritten (a save that replaces a status no longer `pending`, or the counter):
for those rows they are false, which `double_send` and `cancel_honoured` show.
`DeliveryPromised` promises nothing of them either. `ScheduledIsExecuted` is about
schedules answered with 201; it is void when the schedule is cancelled,
the queue paused, or the entry failed for good or removed.

## 4. Fairness

* `ScheduledMessages`: `@Cron(EVERY_MINUTE)` starts a tick again and again on every
  pod, so `AcquireLock(t)` is weakly fair; a promise that is awaited is settled
  (every call has a limit or an error), so each tick's `Progress` is; the key has
  a TTL (`LockExpires`); the clock advances. Nothing is assumed of crashes, of
  other faults, of the messaging service's answers or of users.
* `Scheduler`: BullMQ promotes delayed entries and looks for stalled ones
  periodically; a run goes on; a request that was received is served. Workers
  take waiting entries in order, so an entry that waits again and again is taken:
  `Process` is strongly fair per entry. The lapse of a live worker's lock is a fault
  and not fair.
* `JwksService`: timers fire, a fetch ends by its deadline, and the endpoint comes
  back after an outage. `PublishedKeysAreKnown` has its own premise,
  `RequestsKeepComing`: a published key the map lacks is asked for again and again.
  `ReadyInTheEnd` does without it.
* `ServiceProcess`: the container restarts a process that exits and probes it;
  bootstrap, hooks and timers go on; PostgreSQL, Redis and the environment are put
  right in the end, and peers' connections go on. `Listen` is fair only while no
  shutdown has begun: the start-up hook of a `JwksService` destroyed in its sleep may
  never return. `CacheDisconnects` is not fair: Redis need not answer. Nobody has to send
  a SIGTERM, a SIGKILL or a crash. The transaction of a live peer ends, but that of a dead
  one only because the server rolls it back: mutating that breaks `ReadyInTheEnd`.

## 5. Proofs

Eight modules hold the proofs, for all values of the constants that satisfy the named
assumptions, which TLC evaluates on the instances too:

* `ConstantsAssumption`, `HydrationAssumption` (ScheduledMessages): the parameters are
  natural numbers, the batch is not empty, `Pod` and `Slot` are finite, sentinels are not
  ids; `status` and `content` survive hydration.
* `QueueAssumption`, `SchedulerAssumption`: natural numbers, at least one iteration and one
  attempt, sentinels are not ids, the callers are not workers. Workers, callers and
  requests may be any number.
* `MonitoringAssumption`, `GrpcAssumption`: the threshold is a percentage, the schedules
  and jobs that are counted are finitely many, `Bound` is any set of the methods.
* `JwksAssumption`: at least one document; `BACKOFF_MAX_ATTEMPTS` is positive.
* `ProcessAssumption`: `This` is a pod, no pod is called "none", at least one attempt.

| module | theorem | states |
| --- | --- | --- |
| ScheduledMessagesProofs | `TypeCorrect` | `Spec => []TypeOK` |
| | `AttemptsInvariant` | `Spec => []AttemptsInv` |
| | `SendsAreCapped` | `Spec => [](AttemptsBounded /\ HeldByOneTick)` |
| | `CancellationIsFinal` | `Spec => CancelIsFinal`, an action property |
| DeliveryProofs | `DeliveryInvariant` | `Spec => []DeliveryInv` |
| | `ClaimIsRemembered`, `SentMeansDelivered`, `OneTickHoldsARow` | `NoClaimForgotten`, `SentWasDelivered`, `HeldByOneTick` |
| | `MessagesAreDelivered` | `Spec => DeliveryPromised`, the implementation of MessageDelivery |
| SchedulerProofs | `SchedulerInvariant` | `Spec => []SchedulerInv` |
| | `SchedulerTypes`, `OneCallPerFault`, `CompletedHasRow`, `CompletedHasEffect`, `RunningHasRun`, `CallHasRow` | `TypeOK`, `RepeatsAreExplained`, `CompletedIsRecorded`, `CompletedWasDone`, `RunningRowsAreRuns`, `CallsAreRecorded` |
| | `RemovedForGood` | `Spec => RemovedStaysOut`, an action property |
| ExecutionProofs | `EntriesAreExecuted` | `Spec => ExecutionPromised`, the implementation of JobExecution |
| GrpcServerProofs | `SystemInvariant` | `SystemSpec => []SystemInv` |
| | `DownByFaults`, `ReportsClaimNoMore` | `QueuesDownOnlyByFaults`, `ReportedWasDone` |
| | `PromisesHoldBeside`, `RemovedForGoodBeside`, `EntriesAreExecutedBeside` | what SchedulerProofs and ExecutionProofs show holds in the composition |
| PromisesProofs | `MessageAccounts`, `MessageFinal` | what every implementation of MessageDelivery keeps |
| | `EntryAccounts`, `EntryStaysOut` | what every implementation of JobExecution keeps |
| JwksServiceProofs | `LoadsInvariant`, `LoadsTypes`, `LoadsAreBounded` | `LoadsInv`, `TypeOK`, `FetchesBounded` |
| | `SetBacksAreRare` | `Spec => []SetBackAtMostOnce` |
| ServiceProcessProofs | `ProcessInvariant` | `Spec => []ProcessInv` |
| | `ProcessTypes`, `ServesWholeSchema`, `TablesCreatedOnce`, `ShiftsRecorded` | `TypeOK`, `ReadyOnWholeSchema`, `CreatedOnce`, `ShiftIsRecorded` |

**The argument for the sends.** That a row was sent at most `MaxAttempts` times
cannot be inductive by itself: nothing in it says why a save of a tick does not set
the counter back. `AttemptsInv` adds what a tick knows of its rows. A row in a
tick's batch is in no other batch (the claim's UPDATE matches `pending` only, and it
makes the row `processing`). Until its turn comes the entity in memory has the
row's counter (`Waiting`); during its turn it has that counter, or one more together
with the status `pending`, and then the pending UPDATE writes both columns
(`Underway`). So whenever the row is pending again, `retryCount` has counted every
send (`RowCounted`), and the comparison with `RETRY_LIMIT` caps the sends. One
lemma per action shows that it is kept; `CancellationIsFinal` follows because a
cancelled row cannot be in a batch.

**The argument for claims and deliveries.** `DeliveryInv` adds two things to
`AttemptsInv`. `HoldInv`: a row in a tick's batch is `processing` until the save of its
outcome, unless that save was reported as failed though it had been committed, which takes
a fault; and without a fault a row that is `processing` is in a batch. `SentInv`: before the
messaging service has the message, neither the row, nor an entity held in memory, nor a
reply under way says `sent`. This one has no premise on overwritten rows: an API save
may bring back a status it had read, and none that it can have read is `sent`.

**The refinement.** `MessagesAreDelivered` follows the state function `Phase(m)` step by
step: the initial state maps to a pending message, and for every action there is a lemma that
names the step of `MessageDelivery` it is for the message `m` (`Send` is `Send` for the
row at its turn and a stutter for the others, a claim is `Claim` for the rows it
returned, an API save is `Overwrite` or an edit, and so on). `AttemptsInv` is what lets a
return to `pending` map to one below `MaxSends`, `SentInv` what lets a save of `sent` map to
a message that was delivered, and `HoldInv` what keeps a stranded claim to the runs with a
fault.

**The argument for the scheduler.** `SchedulerInv` has four parts. `RunShape` and
`Ledger` are bookkeeping of each source of executions: the rows of each status that runners
hold are among those of the table, a RUNNING row has a runner that may still end it or a fault
that took the runner, a COMPLETED row and a result still to be recorded are paid for by one
accepted call or one placeholder each, and each execution that reached its service has its
row. `TargetsInv` keeps the two apart: an execution has a placeholder only if the target of
its job is one, and that target does not change, since a schedule keeps its job and the
job was there first. `CompletedWasDone` takes both. `QueueShape` ties the queue to the
tables and to the requests under way: the lock of an entry is with the worker that runs it,
only one request adds an entry, and what `removeJob` looks for has been in the queue.
`EntryShape` is the potential behind `RepeatsAreExplained`: the executions of an entry
that have reached their service, the runs that have yet to, and one more if the queue may still give the entry out, are
together at most one more than the faults. Each action of a run trades one of these for
another, and only a fault adds one. An entry that is `failed` counts as one that may be given
out again, since an operator's `retryFailedJobs` does so.

**The refinement of the executions.** `EntriesAreExecuted` has one lemma per action, which
names the step of `JobExecution` it is for the entry it is about and shows that the others
stutter. Most of the work is in the counts: `Starting(e)` and `Sent(e)` are sets of
runners, and a step of one runner moves it in or out of one of them (`SentCounts`,
`StartingCounts`). `SchedulerInv` supplies the guards. `EntryShape` gives `Take` its
premise; the accounts of rows and results in `Ledger` give `Record` a result and `Call`,
`Skip` and `Refuse` a row of their own; that an active entry has a worker with its lock unless a fault took it
makes `GiveBack` a failure's step. One conjunct of `SchedulerInv` is there for this proof:
without a fault no call of a runner throws, and no save overwrites a row that is not
RUNNING; otherwise `Record` would need no premise to turn a COMPLETED into a FAILED.

**What the abstractions are worth.** An abstract specification that admits too much would
make the refinements easy and empty. `PromisesProofs` shows what each one implies by itself.
For a message: calls at most `MaxSends`, each accepted at most once, `sent` only after an
acceptance, and nothing sent after a final state. For an entry: executions within the faults plus
one, accepted calls and placeholders within the executions, COMPLETED rows within both, no
call for a job that asks for none and no placeholder for one that asks for a call, no
execution without a row, and no entry after the door is closed. `Accounts` is inductive in
both once the types of the counters are added; for a message all of it holds only while the
row has not been overwritten.

**The composition.** A step of GrpcServer is a step of the scheduler beside readers that
wait, a step of a reader, or a handler; `SystemInv` is the scheduler's invariant and that
of the reports. A failing read is a fault for both. A count over the tables is a sum over the
sources, taken while executions go on, so `ReportedWasDone` needs that a sum is monotone and
that adding to one source adds to it: the library's fold is shown to satisfy the recursion
of a sum over the subsets of a finite set, by the least cardinality for which it would not
(`LeastNat`, `SumsExist`, `TotalAdds`, `TotalsOrdered`). This is how an induction over data
can be done where the induction theorems, which take an operator, cannot be
instantiated.

**The argument for the keys.** `LoadsInv`: each loader has at most one call in flight,
and `onModuleInit` and the loop have theirs only while `boot` says so; the bound on
the cardinality follows. `RaceInv` adds the order of documents: while the loop has not
ended, no reload holds a document older than the loaded one, since the reload began
after the last load ended; the loop's only successful load is its last step. Its
load, or the one reload that was in flight beside it, may put an older document back;
afterwards loads follow one another. TLC checked `LoadsInv` and `RaceInv` (on the instance of run
`jwks`) before they were proved.

**The argument for the migrations.** A run of the pending migrations is six steps from
schema to schema (`RunAllIsSix`), and `RunAllMakes` says what it found and what it
made. `LedgerOfSchema` is the agreement of the recorded rows with the schema: a table exists
exactly when its migration has one row. A second pod that found the same migration
pending cannot commit, because CREATE finds the table; so its retry reads the rows again.
`ConnectionsInv` adds that what a connection found pending never lacks what is missing,
since rows are only added. A commit then leaves nothing missing, and a ready connection
means a whole schema; `ServersInv` carries this to the servers and the probe. That the
transaction's locks are with one pod (`holder`) is needed for none of the four safety
properties: they are what makes a transaction wait, and matter to `ReadyInTheEnd`.

The inductive invariants are checked by TLC as invariants of the runs (section 3) as well,
so what the proofs rest on is also seen to hold, and to be broken by mutations of the code,
on the instances.

**Only model-checked:** what needs fairness or ENABLED, which the prover does not have:
`DueIsTaken`, `ClaimIsSettledWithoutFault`, `ScheduledIsExecuted`, `ReadyInTheEnd` and
`PublishedKeysAreKnown` of JwksService, `ReadyInTheEnd` and `ShutdownDrains` of
ServiceProcess. `MessageDelivery` and `JobExecution` promise safety only, so both
refinements are proved in full. The six runs
that show disagreements are counterexamples.

## 6. Where the code and its documents disagree

Each of these is a run TLC finds violated; `PROJECT.json` "findings" quotes the lines.

* `double_send` — `update()` saves a row it read as pending; a claim or a send in between
  is undone and the message goes out twice, against "Plus de double-send" (`SM`:234).
* `cancel_honoured` — `cancel()` has the same window: 204, and the message is sent.
* `transient_retried` — against a real driver `retryCount` is undefined after the claim,
  so a transient error is final; a client timeout carries no code and is never transient.
  The comments at `SM`:23 and 325 promise three attempts and name timeouts first.
* `claim_settled` — rows a dead pod had claimed stay `processing`: nothing looks for them.
* `failed_retried` — `executeJob` records FAILED and returns, so BullMQ files the entry as
  completed and never retries it, against `README.md`:172.
* `schedule_cancelled` — an IMMEDIATE schedule's entry has an id of BullMQ's own, so
  `removeJob(scheduleId)` finds nothing: 204, and the job is executed. With
  `ScheduleType = {"ONCE"}` the same run ends in another race: a worker locks the entry
  after `getJob` has found it, `remove()` throws, the error is swallowed, and the answer is
  204 as well (`RemoveJobLocked`, `queue.service.ts`:94).

The model reaches these as well, and no run is made of them:

* No gRPC method has a handler (`Bound`, section 2).
* A process that was asked to stop gets past its hooks (`ShutdownDrains`) and stays there,
  `drained`, until it is killed, where `docs/graceful-shutdown.md`:18 says "Exit propre".
  `ShutdownDrains` counts that state as its end: it is about the hooks and the timer of
  the cache, and no clean exit follows from it. That none happens rests on what Nest
  and ioredis do, which the model takes as given.
* The instants of the messages move when two pods execute the timestamptz migration one
  after the other and sessions are not in UTC: reachable in run `service`, against "On
  préserve donc l'instant absolu"
  (`1746830000000-AlterScheduledMessagesTimestamptz.ts`:9–11). `ShiftIsRecorded` says only
  that this takes a second recorded execution.
* A job for the notification service, or for a service whose name is misspelt, is
  recorded COMPLETED though nothing was called (`scheduler.service.ts`:373–386,
  423–435). `scheduler.service.spec.ts`:86–93 asks for this, so it is no disagreement,
  but a report that counts COMPLETED rows counts these too.
* The rate of a category may exceed 100, since its successes are counted after its
  executions (`metrics.service.ts`:257–273), which `ReportedWasDone` does not exclude.

## 7. Limits of the model, and what is not modelled

* No seconds: a delay, a TTL or a timeout may end at any time. So `startsAt` and
  `endsAt` of a schedule, which no code reads at execution, are not variables.
* `ListsIds` says whether `getRepeatableJobs` reports the ids of the registrations, which
  is how `removeJob` looks for one (`queue.service.ts`:103–105). The pinned BullMQ 5.66.7
  does not seem to; then cancelling a CRON or INTERVAL schedule finds nothing, and 204 is
  answered while its iterations go on. The proofs cover both values. Run `scheduled` has
  it TRUE, so that the removal of a registration is exercised; the other runs of
  the scheduler have it FALSE.
* No operation writes a job's `isActive`, whose column defaults to true, so the 400 of
  `scheduler.service.ts`:110–112 is never answered and the model has no inactive jobs.
* The other two queues hold nothing of a schedule. Automatic trimming of finished entries is left out.
* Ownership (`where: { id, userId }`) makes another user's request a 404 without effect.
* `JwksService` and `ServiceProcess` are checked apart, as are the schedulers: their
  product is too large for TLC. What joins them is small: the start-up hook of the keys
  (`Listen` waits for it), its destruction at shutdown (`KeysDestroyed`). The readiness
  route does not look at the keys. Ticks and jobs that are under way at a SIGTERM are not
  awaited by any hook; to them a shutdown is the `Crash` of their module.
* The gRPC handlers' mapping of enums, dates and fields of the answers, the metrics of jobs,
  durations and memory, and the previews of the queues are data that no property tells apart.
  `GET /health` reads the same stores as the readiness route, answers 200 whatever it finds, and
  is not modelled; the monitoring's own readiness asks Redis with a ping.
* Migrations are taken to run in one transaction (TypeORM's default), and the session to
  be in another zone than UTC when `SESSION_IS_UTC` is FALSE. `synchronize` is off. `down()`
  is not called.
* Stateless guards (webhook signature, internal API key, revocation lookups), configuration
  (Redis, cache), filters, interceptors, pipes and tables no operation uses have no
  transitions to model. The retry utility is called by no module; cron and time zone helpers
  compute times, which the model does not have.

## 8. Plan

1. *(done)* `ScheduledMessages`, its runs and proofs: the most important behaviour.
2. *(done)* `JobQueue`, `Scheduler`; `JwksService` and its proofs.
3. *(done)* `MessageDelivery` and the refinement; `Monitoring` and `GrpcServer` composed with
   `Scheduler`; `Migrations` and `ServiceProcess`.
4. *(done)* Proofs of `DeliveryInv` and of the step simulation of `MessageDelivery`; of
   `SchedulerInv` and the scheduler's promises, alone and beside the readers and the gRPC
   handlers; of the migrations and the process.
5. *(done)* `JobExecution`, the abstract specification of one entry, and the proof that
   `Scheduler` implements it, alone and in the composition; what the two abstract
   specifications imply.
6. Safety lemmas under the liveness properties: that a claimed row of a live tick, or an entry
   in the queue, always has an action that serves it.
7. A clock and validity windows for schedules, once their meaning is written down somewhere.

Modules meant for proofs have no RECURSIVE operator, one action per step of the code and
invariants made of named conjuncts, so that each later proof has one case per action.

## 9. Running

```
cd tla
tlc -workers 2 -config MCTicks.cfg MCScheduledMessages     # any run of section 3
tlapm ScheduledMessagesProofs.tla                          # any module of section 5
```
