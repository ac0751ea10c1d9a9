----------------------------- MODULE Scheduler -----------------------------
(* SchedulerService over the jobs, schedules and executions tables and one   *)
(* job queue: scheduling, cancelling, the workers that run executeJob for an *)
(* entry, direct executions, and the operator's requests on the queue.       *)
EXTENDS JobQueue

CONSTANTS
  Job,        \* ids of the jobs table
  Caller,     \* direct requests to execute a job, each issued at most once
  Client,     \* requests to schedule or cancel, each issued at most once
  Admin,      \* requests of an operator on the queue, each issued at most once
  ScheduleType,
  Target,     \* what the targetService and targetMethod of a job ask for
  ListsIds,   \* getRepeatableJobs reports the ids of the registrations, by BullMQ's version
  MaxFaults   \* bound on crashes, lapsed locks and failures of the stores

Direct(j) == <<j, 0>>
DirectOf  == {Direct(j) : j \in Job}
Source    == Entry \cup DirectOf        \* what an execution row is for
Runner   == Worker \cup Caller
NoRun    == <<"no run", 0>>
NoTarget == "no schedule"
NoJob    == "no job"
Outcome  == {"completed", "failed"}

ASSUME SchedulerAssumption ==
  /\ ScheduleType \subseteq {"IMMEDIATE", "ONCE", "REPEAT"} /\ MaxFaults \in Nat
  /\ Target \subseteq {"messaging", "placeholder", "unknown"} /\ ListsIds \in BOOLEAN
  /\ Worker \cap Caller = {} /\ NoTarget \notin Schedule /\ NoRun \notin DirectOf

VARIABLES
  jobs,       \* the jobs table: the target of each
  schedules,  \* the schedules table
  executions, \* the executions table: rows per source and status
  \* one executeJob under way
  run, pc, outcome,
  row,        \* status of its row, as far as the database has committed it
  call,
  \* requests of the API
  rpc, target, apc, toRetry,
  \* the messaging service
  late,       \* calls nobody awaits that the service may still accept
  routed,     \* history: executions that reached executeJobByService
  effects,    \* history: calls accepted
  placeholders, \* history: results returned without a call
  acked,      \* history: schedules whose creation was answered
  cancelled,  \* history: those of them whose cancellation was answered
  stopped,    \* history: schedules that removeJob found in the queue and removed
  faults

tableVars  == <<jobs, schedules, executions>>
runVars    == <<run, pc, outcome, row, call>>
clientVars == <<rpc, target, acked, cancelled, stopped>>
adminVars  == <<apc, toRetry>>
netVars    == <<late, routed, effects, placeholders>>
vars       == <<queueVars, tableVars, runVars, clientVars, adminVars, netVars, faults>>

NoSchedule == [type |-> "absent", isActive |-> FALSE, job |-> NoJob]

Init ==
  /\ QueueInit
  /\ jobs = [j \in Job |-> "absent"] /\ schedules = [s \in Schedule |-> NoSchedule]
  /\ executions = [x \in Source |-> [k \in Outcome \cup {"running"} |-> 0]]
  /\ run = [r \in Runner |-> NoRun] /\ pc = [r \in Runner |-> "idle"]
  /\ outcome = [r \in Runner |-> "none"] /\ row = [r \in Runner |-> "none"]
  /\ call = [r \in Runner |-> "none"]
  /\ rpc = [c \in Client |-> "idle"] /\ target = [c \in Client |-> NoTarget]
  /\ apc = [a \in Admin |-> "idle"] /\ toRetry = [a \in Admin |-> {}]
  /\ late = [x \in Source |-> 0] /\ routed = [x \in Source |-> 0]
  /\ effects = [x \in Source |-> 0] /\ placeholders = [x \in Source |-> 0]
  /\ acked = {} /\ cancelled = {} /\ stopped = {} /\ faults = 0

Fault == faults < MaxFaults /\ faults' = faults + 1

-----------------------------------------------------------------------------
(* Jobs and schedules.                                                      *)

CreateJob(j) ==
  /\ jobs[j] = "absent" /\ \E t \in Target : jobs' = [jobs EXCEPT ![j] = t]
  /\ UNCHANGED <<queueVars, schedules, executions, runVars, clientVars, adminVars,
                 netVars, faults>>

\* scheduleJob up to its save. The DTO is valid: it has the field its type needs. Every job is
\* active: the column has this default and no operation writes it.
SaveSchedule(c, s) ==
  /\ rpc[c] = "idle" /\ schedules[s].type = "absent"
  /\ \E type \in ScheduleType, j \in Job :
       /\ jobs[j] # "absent"
       /\ schedules' = [schedules EXCEPT ![s] = [type |-> type, isActive |-> TRUE, job |-> j]]
  /\ rpc' = [rpc EXCEPT ![c] = "addToQueue"] /\ target' = [target EXCEPT ![c] = s]
  /\ UNCHANGED <<queueVars, jobs, executions, runVars, acked, cancelled, stopped,
                 adminVars, netVars, faults>>

\* The switch has no case for IMMEDIATE.
AddToQueueLater(s) ==
  LET type == schedules[s].type IN
  \/ type = "IMMEDIATE" /\ UNCHANGED queueVars
  \/ type = "ONCE" /\ \E how \in {"delayed", "waiting"} : AddJob(s, how)
  \/ type = "REPEAT" /\ AddRepeatableJob(s)

AddToQueue(s) ==
  LET type == schedules[s].type IN
  \/ type = "IMMEDIATE" /\ AddJob(s, "waiting")
  \/ type = "ONCE" /\ \E how \in {"delayed", "waiting"} : AddJob(s, how)
  \/ type = "REPEAT" /\ AddRepeatableJob(s)

ScheduleJob(c) ==
  /\ rpc[c] = "addToQueue" /\ AddToQueue(target[c])
  /\ rpc' = [rpc EXCEPT ![c] = "done"] /\ acked' = acked \cup {target[c]}
  /\ UNCHANGED <<tableVars, runVars, target, cancelled, stopped, adminVars, netVars, faults>>

\* queue.add throws, with the entry added or not: 500, and the row stays active.
ScheduleJobFails(c) ==
  /\ Fault
  /\ rpc[c] = "addToQueue" /\ (AddToQueue(target[c]) \/ UNCHANGED queueVars)
  /\ rpc' = [rpc EXCEPT ![c] = "done"]
  /\ UNCHANGED <<tableVars, runVars, target, acked, cancelled, stopped, adminVars, netVars>>

\* cancelSchedule up to its save, which nothing can come between to any effect.
CancelSchedule(c, s) ==
  /\ rpc[c] = "idle" /\ schedules[s].type # "absent"
  /\ schedules' = [schedules EXCEPT ![s].isActive = FALSE]
  /\ rpc' = [rpc EXCEPT ![c] = "lookup"] /\ target' = [target EXCEPT ![c] = s]
  /\ UNCHANGED <<queueVars, jobs, executions, runVars, acked, cancelled, stopped,
                 adminVars, netVars, faults>>

\* queue.getJob(scheduleId): only an entry of type ONCE has that id.
Named(s) == schedules[s].type = "ONCE" /\ state[First(s)] \notin {"none", "removed"}

\* getRepeatableJobs: a registration is found by its id alone, for its key is BullMQ's own.
Listed(s) == ListsIds /\ s \in repeats

\* getJob and getRepeatableJobs of the queue that matters: the other two hold nothing of s.
Lookup(c) ==
  LET s == target[c] IN
  /\ rpc[c] = "lookup"
  /\ rpc' = [rpc EXCEPT ![c] = IF Named(s) THEN "remove"
                               ELSE IF Listed(s) THEN "removeRepeat" ELSE "done"]
  /\ cancelled' = IF rpc'[c] = "done" THEN cancelled \cup ({s} \cap acked) ELSE cancelled
  /\ UNCHANGED <<queueVars, tableVars, runVars, target, acked, stopped, adminVars,
                 netVars, faults>>

CancelAnswered(c) ==
  /\ rpc' = [rpc EXCEPT ![c] = "done"] /\ cancelled' = cancelled \cup ({target[c]} \cap acked)
  /\ UNCHANGED <<tableVars, runVars, target, acked, adminVars, netVars>>

\* removeRepeatableByKey is not called.
RemoveOnlyNamed(c) ==
  \/ rpc[c] = "remove" /\ Remove(First(target[c]))
  \/ rpc[c] = "removeRepeat" /\ UNCHANGED queueVars
RemoveFound(c) ==
  \/ rpc[c] = "remove" /\ Remove(First(target[c]))
  \/ rpc[c] = "removeRepeat" /\ RemoveRepeatable(target[c])

RemoveJob(c) ==
  /\ RemoveFound(c) /\ stopped' = stopped \cup {target[c]}
  /\ CancelAnswered(c) /\ UNCHANGED faults

\* remove() throws on a locked entry; the error is swallowed and the answer is 204.
RemoveJobLocked(c) ==
  /\ rpc[c] = "remove" /\ state[First(target[c])] = "active"
  /\ CancelAnswered(c) /\ UNCHANGED <<queueVars, stopped, faults>>

\* So is an error of Redis.
RemoveJobFails(c) ==
  /\ Fault /\ rpc[c] \in {"lookup", "remove", "removeRepeat"}
  /\ CancelAnswered(c) /\ UNCHANGED <<queueVars, stopped>>

-----------------------------------------------------------------------------
(* executeJob, in a worker or for a direct request.                         *)

Begin(r, x) ==
  /\ pc[r] = "idle"
  /\ run' = [run EXCEPT ![r] = x] /\ pc' = [pc EXCEPT ![r] = "create"]
  /\ UNCHANGED <<tableVars, outcome, row, call, clientVars, adminVars, netVars, faults>>

Process(w, e) == Take(w, e) /\ Begin(w, e)
ExecuteDirectly(r) ==
  /\ \E j \in Job : jobs[j] # "absent" /\ Begin(r, Direct(j))
  /\ UNCHANGED queueVars

\* The row of r goes from one status to another.
Recorded(r, from, to) ==
  executions' = [executions EXCEPT ![run[r]] =
    [k \in DOMAIN @ |-> @[k] + (IF k = to THEN 1 ELSE 0) - (IF k = from THEN 1 ELSE 0)]]

\* The save is not awaited.
CreateUnawaited(r) ==
  /\ pc[r] = "create" /\ pc' = [pc EXCEPT ![r] = "call"]
  /\ UNCHANGED <<queueVars, tableVars, run, outcome, row, call, clientVars, adminVars,
                 netVars, faults>>
CreateExecution(r) ==
  /\ pc[r] = "create"
  /\ Recorded(r, "none", "running") /\ row' = [row EXCEPT ![r] = "running"]
  /\ pc' = [pc EXCEPT ![r] = "call"]
  /\ UNCHANGED <<queueVars, jobs, schedules, run, outcome, call, clientVars, adminVars,
                 netVars, faults>>

\* findOne or the save throws, with the row committed or not; executeJob throws.
CreateFails(r) ==
  /\ Fault /\ pc[r] = "create"
  /\ \/ UNCHANGED <<executions, row>>
     \/ Recorded(r, "none", "running") /\ row' = [row EXCEPT ![r] = "running"]
  /\ outcome' = [outcome EXCEPT ![r] = "thrown"]
  /\ pc' = [pc EXCEPT ![r] = "settle"]
  /\ UNCHANGED <<queueVars, jobs, schedules, run, call, clientVars, adminVars, netVars>>

\* The target of the job that x executes; no operation changes it.
TargetOf(x) ==
  IF x[2] = 0 THEN jobs[x[1]]
  ELSE IF schedules[x[1]].type = "absent" THEN "absent" ELSE jobs[schedules[x[1]].job]

\* The timer resolves; the timer has a status of its own, unknown to the settling code.
TimedOutQuietly == "completed"
TimedOutApart   == "timeout"
\* The catch block of executeJob.
OutcomeOfError  == "failed"

\* The messaging service is called.
CallMessaging(r) ==
  /\ TargetOf(run[r]) = "messaging"
  /\ call' = [call EXCEPT ![r] = "sent"] /\ pc' = [pc EXCEPT ![r] = "await"]
  /\ UNCHANGED <<outcome, placeholders>>

\* A notification, or a service nobody knows: a result at once, from no service.
ReturnPlaceholder(r) ==
  /\ TargetOf(run[r]) = "placeholder"
  /\ outcome' = [outcome EXCEPT ![r] = "completed"] /\ pc' = [pc EXCEPT ![r] = "save"]
  /\ placeholders' = [placeholders EXCEPT ![run[r]] = @ + 1]
  /\ UNCHANGED call

\* A messaging method nobody knows throws before any call.
RefuseMethod(r) ==
  /\ TargetOf(run[r]) = "unknown"
  /\ outcome' = [outcome EXCEPT ![r] = OutcomeOfError] /\ pc' = [pc EXCEPT ![r] = "save"]
  /\ UNCHANGED <<call, placeholders>>

Route(r) == CallMessaging(r) \/ ReturnPlaceholder(r) \/ RefuseMethod(r)

ExecuteJobByService(r) ==
  /\ pc[r] = "call" /\ Route(r) /\ routed' = [routed EXCEPT ![run[r]] = @ + 1]
  /\ UNCHANGED <<queueVars, tableVars, run, row, clientVars, adminVars, late, effects, faults>>

Accept(r) ==
  /\ call[r] = "sent" /\ call' = [call EXCEPT ![r] = "accepted"]
  /\ effects' = [effects EXCEPT ![run[r]] = @ + 1]
  /\ UNCHANGED <<queueVars, tableVars, run, pc, outcome, row, clientVars, adminVars,
                 late, routed, placeholders, faults>>

AcceptLate(x) ==
  /\ late[x] > 0 /\ late' = [late EXCEPT ![x] = @ - 1]
  /\ effects' = [effects EXCEPT ![x] = @ + 1]
  /\ UNCHANGED <<queueVars, tableVars, runVars, clientVars, adminVars, routed, placeholders,
                 faults>>

ReplyOk(r) ==
  /\ pc[r] = "await" /\ call[r] = "accepted"
  /\ outcome' = [outcome EXCEPT ![r] = "completed"] /\ call' = [call EXCEPT ![r] = "none"]
  /\ pc' = [pc EXCEPT ![r] = "save"]
  /\ UNCHANGED <<queueVars, tableVars, run, row, clientVars, adminVars, netVars, faults>>

\* The call throws, or the timer of executeWithTimeout wins; the call goes on without it.
ReplyError(r) ==
  /\ pc[r] = "await"
  /\ outcome' = [outcome EXCEPT ![r] = OutcomeOfError]
  /\ call' = [call EXCEPT ![r] = "none"]
  /\ \/ UNCHANGED late
     \/ call[r] = "sent" /\ late' = [late EXCEPT ![run[r]] = @ + 1]
  /\ pc' = [pc EXCEPT ![r] = "save"]
  /\ UNCHANGED <<queueVars, tableVars, run, row, clientVars, adminVars, routed,
                 effects, placeholders, faults>>

\* The catch block does not save.
RecordOnlySuccess(r) ==
  IF outcome[r] = "completed"
  THEN Recorded(r, row[r], outcome[r]) /\ row' = [row EXCEPT ![r] = outcome[r]]
  ELSE UNCHANGED <<executions, row>>
RecordOutcome(r) ==
  Recorded(r, row[r], outcome[r]) /\ row' = [row EXCEPT ![r] = outcome[r]]

SaveOutcome(r) ==
  /\ pc[r] = "save" /\ RecordOutcome(r)
  /\ pc' = [pc EXCEPT ![r] = "settle"]
  /\ UNCHANGED <<queueVars, jobs, schedules, run, outcome, call, clientVars, adminVars,
                 netVars, faults>>

\* save() throws, committed or not. The save of COMPLETED is inside the try, so the catch
\* block saves FAILED; an error of that one leaves executeJob.
SaveFails(r) ==
  /\ Fault /\ pc[r] = "save"
  /\ RecordOutcome(r) \/ UNCHANGED <<executions, row>>
  /\ IF outcome[r] = "completed"
     THEN outcome' = [outcome EXCEPT ![r] = OutcomeOfError] /\ UNCHANGED pc
     ELSE /\ outcome' = [outcome EXCEPT ![r] = "thrown"]
          /\ pc' = [pc EXCEPT ![r] = "settle"]
  /\ UNCHANGED <<queueVars, jobs, schedules, run, call, clientVars, adminVars, netVars>>

RunEnds(r, next) ==
  /\ run' = [run EXCEPT ![r] = NoRun] /\ row' = [row EXCEPT ![r] = "none"]
  /\ outcome' = [outcome EXCEPT ![r] = "none"] /\ call' = [call EXCEPT ![r] = "none"]
  /\ pc' = [pc EXCEPT ![r] = next]

\* process() rethrows a FAILED result; swallows what executeJob throws; or ignores the lock.
SettleFailed(w, e) ==
  IF outcome[w] = "completed" THEN Complete(w, e) ELSE FailAttempt(w, e)
SettleAnything(w, e) == Complete(w, e)
\* process() returns what executeJob returned, and throws what it threw.
SettleEntry(w, e) ==
  IF outcome[w] \in Outcome THEN Complete(w, e) ELSE FailAttempt(w, e)

Settle(w) ==
  /\ w \in Worker /\ pc[w] = "settle" /\ SettleEntry(w, run[w])
  /\ RunEnds(w, "idle")
  /\ UNCHANGED <<tableVars, clientVars, adminVars, netVars, faults>>

AnswerCaller(r) ==
  /\ pc[r] = "settle" /\ RunEnds(r, "done")
  /\ UNCHANGED <<queueVars, tableVars, clientVars, adminVars, netVars, faults>>

\* The process of a runner dies. Its row stays as it is.
Crash(r) ==
  /\ Fault /\ pc[r] \notin {"idle", "done"}
  /\ Orphaned(r) /\ RunEnds(r, IF r \in Worker THEN "idle" ELSE "done")
  /\ IF call[r] = "sent" THEN late' = [late EXCEPT ![run[r]] = @ + 1] ELSE UNCHANGED late
  /\ UNCHANGED <<tableVars, clientVars, adminVars, routed, effects, placeholders>>

\* The stalled check requeues an orphan, or the entry of a worker too busy to renew its lock.
StalledCheck(e) ==
  /\ Stall(e)
  /\ IF holder[e] = NoWorker THEN UNCHANGED faults ELSE Fault
  /\ UNCHANGED <<tableVars, runVars, clientVars, adminVars, netVars>>

DelayOver(e) ==
  /\ Promote(e)
  /\ UNCHANGED <<tableVars, runVars, clientVars, adminVars, netVars, faults>>

-----------------------------------------------------------------------------
(* The operator's requests (monitoring controller, QueueService).           *)

AdminOnly == UNCHANGED <<tableVars, runVars, clientVars, netVars, faults>>

PauseQueue(a) ==
  /\ apc[a] = "idle" /\ SetPaused(TRUE)
  /\ apc' = [apc EXCEPT ![a] = "done"] /\ UNCHANGED toRetry /\ AdminOnly
ResumeQueue(a) ==
  /\ apc[a] = "idle" /\ SetPaused(FALSE)
  /\ apc' = [apc EXCEPT ![a] = "done"] /\ UNCHANGED toRetry /\ AdminOnly

CleanCompleted(a) ==
  /\ apc[a] = "idle" /\ Clean("completed")
  /\ apc' = [apc EXCEPT ![a] = "cleanFailed"] /\ UNCHANGED toRetry /\ AdminOnly
CleanFailed(a) ==
  /\ apc[a] = "cleanFailed" /\ Clean("failed")
  /\ apc' = [apc EXCEPT ![a] = "done"] /\ UNCHANGED toRetry /\ AdminOnly

\* getFailed, then a retry of each, all at once: some of them may be gone or running again.
GetFailed(a) ==
  /\ apc[a] = "idle"
  /\ toRetry' = [toRetry EXCEPT ![a] = {e \in Entry : state[e] = "failed"}]
  /\ apc' = [apc EXCEPT ![a] = IF toRetry'[a] = {} THEN "done" ELSE "retry"]
  /\ UNCHANGED queueVars /\ AdminOnly
RetryFailed(a, e) ==
  /\ apc[a] = "retry" /\ e \in toRetry[a] /\ Retry(e)
  /\ toRetry' = [toRetry EXCEPT ![a] = @ \ {e}]
  /\ apc' = [apc EXCEPT ![a] = IF toRetry[a] = {e} THEN "done" ELSE @]
  /\ AdminOnly

-----------------------------------------------------------------------------
ClientStep(c) ==
  \/ ScheduleJob(c) \/ ScheduleJobFails(c) \/ Lookup(c)
  \/ RemoveJob(c) \/ RemoveJobLocked(c) \/ RemoveJobFails(c)
  \/ \E s \in Schedule : SaveSchedule(c, s) \/ CancelSchedule(c, s)

\* What an execution does when nothing fails around it.
Progress(r) ==
  \/ CreateExecution(r) \/ ExecuteJobByService(r) \/ ReplyOk(r) \/ ReplyError(r)
  \/ SaveOutcome(r) \/ Settle(r)

RunnerStep(r) == Progress(r) \/ CreateFails(r) \/ SaveFails(r) \/ Crash(r) \/ Accept(r)

AdminStep(a) ==
  \/ PauseQueue(a) \/ ResumeQueue(a) \/ CleanCompleted(a) \/ CleanFailed(a) \/ GetFailed(a)
  \/ \E e \in Entry : RetryFailed(a, e)

Next ==
  \/ \E j \in Job : CreateJob(j)
  \/ \E c \in Client : ClientStep(c)
  \/ \E r \in Runner : RunnerStep(r)
  \/ \E w \in Worker, e \in Entry : Process(w, e)
  \/ \E r \in Caller : ExecuteDirectly(r) \/ AnswerCaller(r)
  \/ \E e \in Entry : DelayOver(e) \/ StalledCheck(e)
  \/ \E x \in Source : AcceptLate(x)
  \/ \E a \in Admin : AdminStep(a)

Spec == Init /\ [][Next]_vars

\* BullMQ promotes delays, checks for stalled entries and serves every entry; executeJob
\* awaits nothing without a deadline, and so do the requests.
Fairness ==
  /\ \A e \in Entry :
       /\ WF_vars(DelayOver(e)) /\ WF_vars(StalledCheck(e) /\ holder[e] = NoWorker)
       /\ SF_vars(\E w \in Worker : Process(w, e))
  /\ \A r \in Runner : WF_vars(Progress(r))
  /\ \A r \in Caller : WF_vars(AnswerCaller(r))
  /\ \A c \in Client : WF_vars(ScheduleJob(c) \/ Lookup(c) \/ RemoveJob(c) \/ RemoveJobLocked(c))

FairSpec == Spec /\ Fairness

-----------------------------------------------------------------------------
(* Properties                                                               *)

\* Every variable keeps its type: the tables, the position of each executeJob, each request.
TypeOK ==
  /\ QueueTypeOK
  /\ jobs \in [Job -> Target \cup {"absent"}]
  /\ schedules \in [Schedule -> [type : ScheduleType \cup {"absent"}, isActive : BOOLEAN,
                                job : Job \cup {NoJob}]]
  /\ executions \in [Source -> [Outcome \cup {"running"} -> Nat]]
  /\ run \in [Runner -> Source \cup {NoRun}]
  /\ pc \in [Runner -> {"idle", "create", "call", "await", "save", "settle", "done"}]
  /\ outcome \in [Runner -> Outcome \cup {"none", "thrown"}]
  /\ row \in [Runner -> Outcome \cup {"none", "running"}]
  /\ call \in [Runner -> {"none", "sent", "accepted"}]
  /\ rpc \in [Client -> {"idle", "addToQueue", "lookup", "remove", "removeRepeat", "done"}]
  /\ target \in [Client -> Schedule \cup {NoTarget}]
  /\ apc \in [Admin -> {"idle", "cleanFailed", "retry", "done"}]
  /\ toRetry \in [Admin -> SUBSET Entry]
  /\ late \in [Source -> Nat] /\ routed \in [Source -> Nat]
  /\ effects \in [Source -> Nat] /\ placeholders \in [Source -> Nat]
  /\ acked \subseteq Schedule /\ cancelled \subseteq Schedule /\ stopped \subseteq Schedule
  /\ faults \in 0..MaxFaults

\* An entry is executed again, its service called or its placeholder returned, only because
\* something failed around the service: not because the job failed, timed out or was retried
\* by an operator.
RepeatsAreExplained == \A e \in Entry : routed[e] <= 1 + faults

\* An entry the queue has completed left an execution row with an outcome: executeJob does
\* not return on a row it could not write.
CompletedIsRecorded ==
  \A e \in Entry : state[e] = "completed"
                     => executions[e]["completed"] + executions[e]["failed"] > 0

\* Each COMPLETED row stands for one result, and for one accepted call of the service unless
\* the job asks for a notification or an unknown service: neither a timeout nor a late reply,
\* nor a second run of a stalled entry, reports work that was not done.
CompletedWasDone ==
  \A x \in Source :
    /\ executions[x]["completed"] <= effects[x] + placeholders[x]
    /\ TargetOf(x) # "placeholder" => executions[x]["completed"] <= effects[x]

\* A RUNNING row belongs to an execution under way; only faults leave others behind.
RunningRowsAreRuns ==
  \A x \in Source :
    executions[x]["running"]
      <= Cardinality({r \in Runner : run[r] = x /\ row[r] = "running"}) + faults

\* Every execution that reaches its service has a row of its own: executeJob calls nothing
\* before its RUNNING row is committed, a stalled entry that runs twice and failing saves included.
CallsAreRecorded ==
  \A x \in Source : routed[x] <= executions[x]["running"] + executions[x]["completed"]
                                + executions[x]["failed"]

\* Once removeJob has found a schedule in the queue and removed it, nothing enters the queue
\* for it again: no iteration after the one under way, no requeue by a lapsed lock, a stale
\* retry of the operator or a clean.
RemovedStaysOut ==
  [][\A s \in stopped : \A e \in EntriesOf(s) :
       state[e] \in {"none", "removed"} => state'[e] = state[e]]_vars

\* A schedule that was answered with 201 and is not cancelled is executed to an outcome, or is
\* given up by the queue after its attempts; unless an operator pauses the queue.
ScheduledIsExecuted ==
  \A s \in Schedule :
    s \in acked
      ~> \/ \E k \in Outcome : executions[First(s)][k] > 0
         \/ state[First(s)] \in {"failed", "removed"}
         \/ ~schedules[s].isActive \/ paused

\* "les jobs echoueront mais seront automatiquement retentes": the queue does not file an
\* entry as completed when its execution failed.
FailedIsRetried ==
  \A e \in Entry : state[e] = "completed" => executions[e]["completed"] > 0

\* "Schedule cancelled successfully": once the answer is given, no call is made for a
\* schedule whose creation had been answered before.
CancelHonoured ==
  [][\A s \in cancelled : \A e \in EntriesOf(s) : routed'[e] = routed[e]]_vars

-----------------------------------------------------------------------------
(* The inductive invariant behind the safety properties.                    *)

Busy == {r \in Runner : run[r] # NoRun}

\* Where executeJob is, the row it has committed and the outcome it holds go together.
RunShape(r) ==
  /\ pc[r] \in {"idle", "done"} => run[r] = NoRun
  /\ pc[r] \in {"idle", "done", "create"} => row[r] = "none" /\ outcome[r] = "none"
  /\ pc[r] \notin {"idle", "done"} => run[r] \in (IF r \in Worker THEN Entry ELSE DirectOf)
  /\ pc[r] \in {"call", "await"} => row[r] = "running" /\ outcome[r] = "none"
  /\ pc[r] = "save" => /\ outcome[r] \in Outcome
                       /\ row[r] \in {"running", "completed"} \ {outcome[r]}
  /\ pc[r] = "settle" => outcome[r] = "thrown" \/ (outcome[r] \in Outcome /\ row[r] = outcome[r])
  /\ call[r] # "none" => pc[r] = "await"

\* The runners whose row for x has status k, who may still end theirs, who have a result
\* to record, who are about to call, and who have not called yet.
RowsOf(x, k)   == {r \in Runner : run[r] = x /\ row[r] = k}
Live(x)        == {r \in RowsOf(x, "running") : pc[r] # "settle"}
Promised(x)    == {r \in Runner : run[r] = x /\ \/ call[r] = "accepted"
                                                \/ pc[r] = "save" /\ outcome[r] = "completed"}
AboutToCall(x) == {r \in Runner : run[r] = x /\ pc[r] = "call"}
Starting(x)    == {r \in Runner : run[r] = x /\ pc[r] \in {"create", "call"}}

\* The rows of x against the executions of x under way, its calls and their effects.
Ledger(x) ==
  /\ \A k \in Outcome \cup {"running"} : Cardinality(RowsOf(x, k)) <= executions[x][k]
  /\ executions[x]["running"] <= Cardinality(Live(x)) + faults
  /\ executions[x]["completed"] + Cardinality(Promised(x)) <= effects[x] + placeholders[x]
  /\ routed[x] + Cardinality(AboutToCall(x))
       <= executions[x]["running"] + executions[x]["completed"] + executions[x]["failed"]

RunsInv ==
  /\ TypeOK /\ IsFiniteSet(Busy) /\ \A r \in Runner : RunShape(r)
  /\ \A x \in Source : Ledger(x)

\* A schedule has its job, and no execution returns a placeholder in the place of a call.
TargetsInv ==
  /\ \A s \in Schedule : schedules[s].type # "absent"
                          => schedules[s].job \in Job /\ jobs[schedules[s].job] # "absent"
  /\ \A x \in Source : placeholders[x] > 0 => TargetOf(x) = "placeholder"

\* An entry is locked by the worker that runs it; a request that has saved its schedule adds
\* the first entry alone; what removeJob looks for has been in the queue.
QueueShape ==
  /\ \A e \in Entry : holder[e] # NoWorker => state[e] = "active" /\ run[holder[e]] = e
  /\ \A s \in Schedule :
       /\ schedules[s].type = "absent" => state[First(s)] = "none"
       /\ s \in repeats => schedules[s].type = "REPEAT" /\ state[First(s)] # "none"
       /\ s \in stopped => s \notin repeats /\ state[First(s)] # "none"
  /\ \A c \in Client : rpc[c] # "idle" =>
       /\ target[c] \in Schedule /\ schedules[target[c]].type # "absent"
       /\ rpc[c] = "addToQueue" => state[First(target[c])] = "none"
       /\ rpc[c] \in {"remove", "removeRepeat"} => state[First(target[c])] # "none"
       /\ rpc[c] = "remove" => schedules[target[c]].type = "ONCE"
  /\ \A c, d \in Client :
       rpc[c] = "addToQueue" /\ rpc[d] = "addToQueue" /\ target[c] = target[d] => c = d

\* The queue may give the entry to a worker once more without a further fault.
MayRunAgain(e) ==
  \/ state[e] \in {"none", "delayed", "waiting", "failed"}
  \/ state[e] = "active" /\ (holder[e] = NoWorker \/ outcome[holder[e]] = "thrown")

EntryShape(e) ==
  /\ routed[e] + Cardinality(Starting(e)) + (IF MayRunAgain(e) THEN 1 ELSE 0) <= 1 + faults
  /\ state[e] = "completed" => executions[e]["completed"] + executions[e]["failed"] > 0
  /\ faults = 0 => state[e] # "failed" /\ (state[e] = "active" => holder[e] # NoWorker)

\* Only a fault makes executeJob throw, or save FAILED over a COMPLETED of its own.
SchedulerInv ==
  /\ RunsInv /\ QueueShape /\ TargetsInv /\ \A e \in Entry : EntryShape(e)
  /\ faults = 0 => \A r \in Runner : /\ outcome[r] # "thrown"
                                     /\ pc[r] = "save" => row[r] = "running"

-----------------------------------------------------------------------------
(* Each entry of the queue is an implementation of JobExecution.            *)

\* What the queue and its workers make of the entry; an orphan waits for the stalled check.
Phase(e) ==
  IF state[e] \in {"delayed", "waiting"} \/ (state[e] = "active" /\ holder[e] = NoWorker)
  THEN "queued" ELSE IF state[e] = "active" THEN "taken" ELSE state[e]
Door(e) == IF e[1] \in stopped THEN "closed" ELSE "open"
\* Calls on their way, awaited or not.
Sent(e) == {r \in Runner : run[r] = e /\ call[r] = "sent"}
Wire(e) == late[e] + Cardinality(Sent(e))

Life(e) == INSTANCE JobExecution WITH
  phase <- Phase(e), door <- Door(e), target <- TargetOf(e),
  starting <- Cardinality(Starting(e)), routed <- routed[e], wire <- Wire(e),
  effects <- effects[e], placeholders <- placeholders[e],
  opened <- executions[e]["running"], completed <- executions[e]["completed"],
  failed <- executions[e]["failed"]

\* Each entry lives the life JobExecution promises: it enters the queue once and not after its
\* removal, is taken again only for a failure, reaches its service once for each time it is
\* taken and that on a row of its own, completes with an outcome on record and records a
\* success for an accepted call or, if that is what its job asks for, a placeholder; stalled
\* entries with two workers, calls given up, direct executions, operators and saves that fail
\* halfway included. (\A e \in Entry : Life(e)!Spec.)
ExecutionPromised ==
  /\ \A e \in Entry : Life(e)!Init
  /\ [][\A e \in Entry : Life(e)!Next \/ UNCHANGED Life(e)!vars]_vars
=============================================================================
