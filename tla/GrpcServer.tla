----------------------------- MODULE GrpcServer -----------------------------
(* GrpcSchedulerService behind the gRPC server of main.ts, beside the REST   *)
(* requests of Scheduler and the readers of Monitoring: the whole of the     *)
(* scheduling part.                                                          *)
EXTENDS Monitoring

CONSTANT Bound   \* methods of the proto for which the server has a handler

Method == {"CreateJob", "GetJob", "ScheduleJob", "ExecuteJob", "CancelSchedule",
           "HealthCheck", "GetMetrics"}

ASSUME GrpcAssumption == Bound \subseteq Method

allVars == <<vars, readVars>>

-----------------------------------------------------------------------------
(* A call that is answered at once: verdict is the status of the answer.     *)

AnsweredAtOnce(g, status) ==
  /\ asked[g] = "none"
  /\ asked' = [asked EXCEPT ![g] = "answered"] /\ verdict' = [verdict EXCEPT ![g] = status]
  /\ UNCHANGED <<left, report>>
AnsweredBy(name, g, status) == name \in Bound /\ AnsweredAtOnce(g, status)

\* The library answers for the methods without a handler. Nest looks for handlers among the
\* controllers of a module: as long as the service is a provider only, Bound is {}.
Unimplemented(g) == AnsweredAtOnce(g, "UNIMPLEMENTED") /\ UNCHANGED vars

(* The handlers. The loader keeps the case of the proto: category_id, job_id *)
(* and schedule_id are undefined under the names the handlers read, TypeORM  *)
(* drops an undefined condition, and a NOT NULL column refuses the row.      *)

\* The first category is found, if any; the row has no target_service.
GrpcCreateJob(g) == AnsweredBy("CreateJob", g, "UNKNOWN") /\ UNCHANGED vars

\* Any job answers for the one that was asked for.
GrpcGetJob(g) ==
  AnsweredBy("GetJob", g, IF \A j \in Job : jobs[j] = "absent" THEN "UNKNOWN" ELSE "OK")
  /\ UNCHANGED vars

\* A job is found, if any; the row has no job_id.
GrpcScheduleJob(g) == AnsweredBy("ScheduleJob", g, "UNKNOWN") /\ UNCHANGED vars

\* A job is found, if any; the save of the RUNNING row throws before anything is called.
GrpcExecuteJob(g) == AnsweredBy("ExecuteJob", g, "UNKNOWN") /\ UNCHANGED vars

\* The row is deleted.
Deleted(s)     == schedules' = [schedules EXCEPT ![s] = NoSchedule]
Deactivated(s) == schedules' = [schedules EXCEPT ![s].isActive = FALSE]

\* Some schedule is found, if any, and deactivated; removeJob then looks for no id at all in
\* the queues and finds nothing.
GrpcCancelSchedule(g) ==
  LET found == {s \in Schedule : schedules[s].type # "absent"} IN
  /\ \/ found = {} /\ AnsweredBy("CancelSchedule", g, "UNKNOWN") /\ UNCHANGED schedules
     \/ \E s \in found : Deactivated(s) /\ AnsweredBy("CancelSchedule", g, "OK")
  /\ UNCHANGED <<queueVars, jobs, executions, runVars, clientVars, adminVars, netVars, faults>>

\* The verdict of the reader is the status in the answer, an error of the check included.
GrpcHealthCheck(g) == "HealthCheck" \in Bound /\ CheckHealth(g)
GrpcGetMetrics(g)  == "GetMetrics" \in Bound /\ GetMetrics(g)

GrpcStep(g) ==
  \/ Unimplemented(g) \/ GrpcCreateJob(g) \/ GrpcGetJob(g) \/ GrpcScheduleJob(g)
  \/ GrpcExecuteJob(g) \/ GrpcCancelSchedule(g) \/ GrpcHealthCheck(g) \/ GrpcGetMetrics(g)

SystemInit == Init /\ MonitoringInit
SystemNext ==
  \/ Next /\ UNCHANGED readVars
  \/ \E m \in Reader : ReaderStep(m) \/ GrpcStep(m)

SystemSpec == SystemInit /\ [][SystemNext]_allVars

-----------------------------------------------------------------------------
(* The inductive invariant of the whole.                                    *)

\* What the reports have counted agrees with a scheduler that keeps its own invariant while
\* a handler deactivates schedules under it and reads fail.
SystemInv == SchedulerInv /\ ReadersInv
=============================================================================
