----------------------------- MODULE Monitoring -----------------------------
(* The readers of the monitoring controller: CustomHealthService and         *)
(* MetricsService put a report together from one read after another, while   *)
(* the scheduler, its workers and an operator go on.                         *)
EXTENDS Scheduler, Sequences, FiniteSetsExt

CONSTANTS
  Reader,          \* other requests and ticks of the metrics' cron, each issued at most once
  HEALTHY_PERCENT  \* share of the jobs in the queues that must not have failed

\* There are finitely many ids, so the entries of a queue and the rows can be counted.
ASSUME MonitoringAssumption ==
  HEALTHY_PERCENT \in 0..100 /\ IsFiniteSet(Schedule) /\ IsFiniteSet(Job)

VARIABLES
  asked,    \* the report asked for
  left,     \* its reads not made yet, in their order
  report,   \* what the reads have counted
  verdict   \* the answer

readVars == <<asked, left, report, verdict>>

Kind     == {"health", "metrics", "categories"}
Field    == {"jobs", "failedJobs", "executions", "completed", "failed"}
NoReport == [f \in Field |-> 0]

\* getQueueStats sends its commands on one connection.
QueueReads == <<"waiting", "active", "completed", "failed", "delayed", "isPaused">>

\* Counts of the table that are sent together are served by a pool, in any order; a category
\* awaits the count of its executions before that of its successes.
Reads(kind) ==
  CASE kind = "health"     -> {QueueReads}
    [] kind = "metrics"    -> {<<"completed", "failed">>, <<"failed", "completed">>}
    [] kind = "categories" -> {<<"executions", "completed">>}

MonitoringInit ==
  /\ asked = [m \in Reader |-> "none"] /\ left = [m \in Reader |-> <<>>]
  /\ report = [m \in Reader |-> NoReport] /\ verdict = [m \in Reader |-> "none"]

-----------------------------------------------------------------------------
Ask(m, kind) ==
  /\ asked[m] = "none" /\ asked' = [asked EXCEPT ![m] = kind]
  /\ \E order \in Reads(kind) : left' = [left EXCEPT ![m] = order]
  /\ UNCHANGED <<vars, report, verdict>>

CheckHealth(m)        == Ask(m, "health")
GetMetrics(m)         == Ask(m, "metrics")
GetCategoryMetrics(m) == Ask(m, "categories")

Read(m) == left[m] # <<>> /\ left' = [left EXCEPT ![m] = Tail(@)]

\* The flag isPaused is added up with the numbers of jobs.
CountInQueue(k) ==
  IF k = "isPaused" THEN (IF paused THEN 1 ELSE 0)
                    ELSE Cardinality({e \in Entry : state[e] = k})

ReadQueue(m) ==
  LET n == CountInQueue(Head(left[m])) IN
  /\ asked[m] = "health" /\ Read(m)
  /\ report' = [report EXCEPT ![m].jobs = @ + n,
                              ![m].failedJobs = IF Head(left[m]) = "failed" THEN n ELSE @]
  /\ UNCHANGED <<vars, asked, verdict>>

Total(g, S) == MapThenSumSet(LAMBDA x : g[x], S)

CountInTable(f) ==
  LET kinds == IF f = "executions" THEN Outcome \cup {"running"} ELSE {f} IN
  Total([x \in Source |-> Total(executions[x], kinds)], Source)

ReadTable(m) ==
  /\ asked[m] \in {"metrics", "categories"} /\ Read(m)
  /\ report' = [report EXCEPT ![m][Head(left[m])] = CountInTable(Head(left[m]))]
  /\ UNCHANGED <<vars, asked, verdict>>

\* Empty queues are healthy.
Healthy(all, failed) == all = 0 \/ 100 * (all - failed) >= HEALTHY_PERCENT * all

Answered(m, answer) ==
  /\ asked' = [asked EXCEPT ![m] = "answered"] /\ left' = [left EXCEPT ![m] = <<>>]
  /\ report' = [report EXCEPT ![m] = NoReport]
  /\ verdict' = [verdict EXCEPT ![m] = answer]

\* The disk is always up; the heap is not modelled and may be too large at any time.
OtherIndicators == {"ok", "error"}

\* One indicator that is down makes the check fail.
Answer(m) ==
  /\ asked[m] \in Kind /\ left[m] = <<>>
  /\ \/ asked[m] # "health" /\ Answered(m, "ok")
     \/ asked[m] = "health" /\ ~Healthy(report[m].jobs, report[m].failedJobs)
                            /\ Answered(m, "queues down")
     \/ asked[m] = "health" /\ Healthy(report[m].jobs, report[m].failedJobs)
                            /\ \E answer \in OtherIndicators : Answered(m, answer)
  /\ UNCHANGED vars

\* A store does not answer: its indicator is down, metrics are answered with an error.
ReadFails(m) ==
  /\ Fault /\ left[m] # <<>> /\ Answered(m, "error")
  /\ UNCHANGED <<queueVars, tableVars, runVars, clientVars, adminVars, netVars>>

ReaderStep(m) ==
  \/ CheckHealth(m) \/ GetMetrics(m) \/ GetCategoryMetrics(m)
  \/ ReadQueue(m) \/ ReadTable(m) \/ Answer(m) \/ ReadFails(m)

-----------------------------------------------------------------------------
(* Properties                                                               *)

\* The queues are reported down only after a fault around the service (a crash, a lapsed lock,
\* a store): jobs that fail or time out never show there, since their entries are completed.
QueuesDownOnlyByFaults == \A m \in Reader : verdict[m] = "queues down" => faults > 0

\* What the services have accepted, and what was returned in the place of a service.
Results == [x \in Source |-> effects[x] + placeholders[x]]

\* A report never counts more successes than there are results, though its counts are taken one
\* after another while executions start, time out and end: accepted calls, and the placeholders
\* of jobs that ask for a notification or an unknown service.
ReportedWasDone == \A m \in Reader : report[m].completed <= Total(Results, Source)

-----------------------------------------------------------------------------
(* The inductive invariant behind both.                                     *)

\* A health report counts each failed job among the jobs, and none before the first fault,
\* wherever it is in its reads.
HealthShape(m) ==
  asked[m] = "health" =>
    /\ report[m] \in [Field -> Nat] /\ report[m].failedJobs <= report[m].jobs
    /\ faults = 0 => report[m].failedJobs = 0

\* A reader that has not asked yet has counted nothing.
ReadersInv ==
  /\ asked \in [Reader -> Kind \cup {"none", "answered"}]
  /\ DOMAIN report = Reader /\ DOMAIN verdict = Reader
  /\ \A m \in Reader : /\ DOMAIN report[m] = Field /\ report[m].completed \in Nat
                       /\ asked[m] = "none" => report[m] = NoReport
                       /\ HealthShape(m)
  /\ QueuesDownOnlyByFaults /\ ReportedWasDone
=============================================================================
