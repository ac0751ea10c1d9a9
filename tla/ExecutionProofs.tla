-------------------------- MODULE ExecutionProofs --------------------------
(* Scheduler implements JobExecution, entry by entry: each step of its next- *)
(* state relation is a step of the entry's life, or leaves it alone.         *)
EXTENDS SchedulerProofs

-----------------------------------------------------------------------------
(* The mapping                                                              *)

EntryStays(e) ==
  Phase(e)' = Phase(e) /\ Door(e)' = Door(e) /\ TargetOf(e)' = TargetOf(e)
RunsStay(e) ==
  /\ Cardinality(Starting(e))' = Cardinality(Starting(e)) /\ Wire(e)' = Wire(e)
  /\ routed'[e] = routed[e] /\ effects'[e] = effects[e] /\ executions'[e] = executions[e]
  /\ placeholders'[e] = placeholders[e]

\* A step that concerns other entries.
LEMMA Stutters ==
  ASSUME NEW e \in Entry, EntryStays(e), RunsStay(e), faults' = faults \/ faults' = faults + 1
  PROVE  Life(e)!Next
BY DEF EntryStays, RunsStay, Life!Next, Life!Smooth, Life!Mishap, Life!entry, Life!net, Life!rows

\* A step of the queue, in which no execution takes part.
LEMMA QueueMoves ==
  ASSUME NEW e \in Entry, RunsStay(e), faults' = faults \/ faults' = faults + 1,
         TargetOf(e)' = TargetOf(e),
         \/ EntryStays(e)
         \/ /\ Phase(e) = "none" /\ Door(e) = "open" /\ TargetOf(e) # "absent"
            /\ Phase(e)' = "queued" /\ Door(e)' = Door(e)
         \/ /\ faults' > 0 /\ Phase(e) \in {"taken", "queued"}
            /\ Phase(e)' \in {"queued", "failed"} /\ Door(e)' = Door(e)
         \/ /\ faults' = faults /\ Phase(e) = "taken" /\ Phase(e)' = "completed"
            /\ executions[e]["completed"] + executions[e]["failed"] > 0 /\ Door(e)' = Door(e)
         \/ /\ faults' = faults /\ Phase(e) = "failed" /\ Phase(e)' = "queued"
            /\ Door(e)' = Door(e)
         \/ /\ faults' = faults /\ Phase(e) \in {"completed", "failed"}
            /\ Phase(e)' = "removed" /\ Door(e)' = Door(e)
         \/ /\ faults' = faults /\ Door(e)' = "closed"
            /\ \/ Phase(e)' = Phase(e)
               \/ Phase(e) \notin {"none", "taken"} /\ Phase(e)' = "removed"
  PROVE  Life(e)!Next
BY DEF EntryStays, RunsStay, Life!Next, Life!Smooth, Life!Mishap, Life!entry, Life!net, Life!rows,
       Life!Enter, Life!GiveBack, Life!Complete, Life!Retry, Life!Clean, Life!Close

\* What the proofs use of the invariant at an entry.
LEMMA AtEntry ==
  ASSUME SchedulerInv, NEW e \in Entry
  PROVE  /\ RunsPart /\ OtherTypes /\ QueueShape /\ ThrownByFault /\ QueueTypeOK
         /\ TargetsInv /\ placeholders[e] \in Nat
         /\ EntryShape(e) /\ Ledger(e) /\ e \in Source /\ IsFiniteSet(Busy)
         /\ routed[e] \in Nat /\ effects[e] \in Nat /\ late[e] \in Nat /\ faults \in Nat
         /\ executions[e] \in [RowStatus -> Nat] /\ Cardinality(Starting(e)) \in Nat
         /\ state[e] \in State /\ holder[e] \in Worker \cup {NoWorker}
<1>1. /\ RunsPart /\ OtherTypes /\ QueueShape /\ ThrownByFault /\ EntryShape(e)
      /\ TargetsInv /\ e \in Source
  BY InvParts, Sources
<1>2. Ledger(e) /\ IsFiniteSet(Busy)
  BY <1>1 DEF RunsPart
<1>3. /\ routed[e] \in Nat /\ effects[e] \in Nat /\ late[e] \in Nat /\ faults \in Nat
      /\ placeholders[e] \in Nat /\ executions[e] \in [RowStatus -> Nat]
  BY <1>1 DEF RunsPart, RunTypes
<1>4. QueueTypeOK /\ state[e] \in State /\ holder[e] \in Worker \cup {NoWorker}
  BY <1>1 DEF OtherTypes, QueueTypeOK
<1> QED
  BY <1>1, <1>2, <1>3, <1>4, Sizes

\* A row has a status before and after.
LEMMA RowsTyped == \A f \in [RowStatus -> Nat] :
  f["running"] \in Nat /\ f["completed"] \in Nat /\ f["failed"] \in Nat
BY DEF RowStatus, Outcome

\* The calls on their way, as one runner sends, hears or gives up its own.
LEMMA SentCounts ==
  ASSUME IsFiniteSet(Busy), NEW r \in Runner, Local(r), NEW x \in Source
  PROVE  /\ IsFiniteSet(Sent(x)) /\ Cardinality(Sent(x)) \in Nat
         /\ Cardinality(Sent(x)') = Cardinality(Sent(x))
              + Bit(run'[r] = x /\ call'[r] = "sent") - Bit(run[r] = x /\ call[r] = "sent")
         /\ run[r] = x /\ call[r] = "sent" => Cardinality(Sent(x)) > 0
<1>1. IsFiniteSet(Sent(x)) /\ Cardinality(Sent(x)) \in Nat
  <2>1. Sent(x) \subseteq Busy
    BY Sources DEF Sent, Busy
  <2> QED
    BY <2>1, FS_Subset, FS_CardinalityType
<1>2. Sent(x) \ {r} = Sent(x)' \ {r}
  BY DEF Sent, Local
<1>3. /\ r \in Sent(x) <=> run[r] = x /\ call[r] = "sent"
      /\ r \in Sent(x)' <=> run'[r] = x /\ call'[r] = "sent"
  BY DEF Sent
<1>4. r \in Sent(x) => Cardinality(Sent(x)) > 0
  BY <1>1, FS_EmptySet
<1> QED
  BY <1>1, <1>2, <1>3, <1>4, Counted

\* A runner that has not called yet is counted.
LEMMA StartingCounts ==
  ASSUME SchedulerInv, NEW e \in Entry, NEW r \in Runner, run[r] = e
  PROVE  /\ pc[r] \in {"create", "call"} => Cardinality(Starting(e)) > 0
         /\ pc[r] = "call" => Cardinality(AboutToCall(e)) > 0
<1>1. /\ IsFiniteSet(Starting(e)) /\ IsFiniteSet(AboutToCall(e))
      /\ Cardinality(Starting(e)) \in Nat /\ Cardinality(AboutToCall(e)) \in Nat
  BY AtEntry, Sizes
<1>2. /\ pc[r] \in {"create", "call"} => Starting(e) # {}
      /\ pc[r] = "call" => AboutToCall(e) # {}
  BY DEF Starting, AboutToCall
<1> QED
  BY <1>1, <1>2, FS_EmptySet

\* A step of runner r keeps the entries it does not run.
LEMMA OtherRuns ==
  ASSUME SchedulerInv, NEW r \in Runner, Local(r), NEW e \in Entry, run[r] # e, run'[r] # e,
         late'[e] = late[e], routed'[e] = routed[e], effects'[e] = effects[e],
         placeholders'[e] = placeholders[e],
         executions'[e] = executions[e]
  PROVE  RunsStay(e)
<1>1. IsFiniteSet(Busy) /\ e \in Source /\ Cardinality(Starting(e)) \in Nat
  BY AtEntry
<1>2. Cardinality(Starting(e)') = Cardinality(Starting(e))
  BY <1>1, LocalCounts DEF Bit
<1>3. Cardinality(Sent(e)') = Cardinality(Sent(e))
  BY <1>1, SentCounts DEF Bit
<1> QED
  BY <1>2, <1>3 DEF RunsStay, Wire

\* A step of runner r, for the entry it runs.
LEMMA OwnRun ==
  ASSUME SchedulerInv, NEW r \in Runner, Local(r), NEW e \in Entry, run[r] = e, run'[r] = e
  PROVE  /\ Cardinality(Starting(e)') = Cardinality(Starting(e))
              + Bit(pc'[r] \in {"create", "call"}) - Bit(pc[r] \in {"create", "call"})
         /\ Cardinality(Sent(e)') = Cardinality(Sent(e))
              + Bit(call'[r] = "sent") - Bit(call[r] = "sent")
         /\ Cardinality(Sent(e)) \in Nat
         /\ call[r] = "sent" => Cardinality(Sent(e)) > 0
         /\ pc[r] \in {"create", "call"} => Cardinality(Starting(e)) > 0
<1>1. IsFiniteSet(Busy) /\ e \in Source
  BY AtEntry
<1>2. Cardinality(Starting(e)') = Cardinality(Starting(e))
        + Bit(pc'[r] \in {"create", "call"}) - Bit(pc[r] \in {"create", "call"})
  BY <1>1, LocalCounts
<1> QED
  BY <1>1, <1>2, SentCounts, StartingCounts

\* The queue leaves the entry alone.
LEMMA EntryKeeps ==
  ASSUME NEW e \in Entry, state'[e] = state[e], holder'[e] = holder[e], stopped' = stopped,
         TargetOf(e)' = TargetOf(e)
  PROVE  EntryStays(e)
BY DEF EntryStays, Phase, Door

\* So do steps that write neither the jobs nor the schedules.
LEMMA TargetKeeps ==
  ASSUME NEW e, UNCHANGED <<jobs, schedules>>
  PROVE  TargetOf(e)' = TargetOf(e)
BY DEF TargetOf

\* What may enter the queue has its schedule, and that its job.
LEMMA HasTarget ==
  ASSUME SchedulerInv, NEW e \in Entry, schedules[e[1]].type # "absent"
  PROVE  TargetOf(e) # "absent"
BY InvParts, Sources DEF TargetOf, TargetsInv

\* The runners leave it alone.
LEMMA RunsKeep ==
  ASSUME NEW e \in Entry, UNCHANGED <<runVars, executions, netVars>>
  PROVE  RunsStay(e)
BY DEF runVars, netVars, RunsStay, Starting, Wire, Sent

\* A schedule that is saved gives its entries their target, and keeps it.
LEMMA TargetMoves ==
  ASSUME NEW e \in Entry, RunsStay(e), faults' = faults, Phase(e)' = Phase(e),
         Door(e)' = Door(e),
         TargetOf(e)' = TargetOf(e) \/ (TargetOf(e) = "absent" /\ TargetOf(e)' # "absent")
  PROVE  Life(e)!Next
BY DEF RunsStay, Life!Next, Life!Smooth, Life!Assign, Life!entry, Life!net, Life!rows

LEMMA SavesTarget ==
  ASSUME SchedulerInv, NEW e \in Entry, NEW c \in Client, NEW s \in Schedule,
         SaveSchedule(c, s) \/ CancelSchedule(c, s)
  PROVE  TargetOf(e)' = TargetOf(e) \/ (TargetOf(e) = "absent" /\ TargetOf(e)' # "absent")
<1>1. TargetsStay
  BY InvParts, TablesKept DEF TablesStep, SaveSchedule, CancelSchedule
<1> QED
  BY <1>1, Sources DEF TargetsStay

-----------------------------------------------------------------------------
(* The queue, its clients and its operators                                 *)

\* An entry is added where there was none, and not for a removed schedule.
LEMMA AddImplements ==
  ASSUME SchedulerInv, NEW e \in Entry, NEW c \in Client, rpc[c] = "addToQueue",
         AddToQueue(target[c]), stopped' = stopped, TargetOf(e)' = TargetOf(e)
  PROVE  \/ EntryStays(e)
         \/ /\ Phase(e) = "none" /\ Door(e) = "open" /\ TargetOf(e) # "absent"
            /\ Phase(e)' = "queued" /\ Door(e)' = Door(e)
<1> DEFINE s == target[c]
<1>1. /\ s \in Schedule /\ state[First(s)] = "none" /\ First(s) \in Entry /\ First(s)[1] = s
      /\ s \notin stopped /\ state \in [Entry -> State] /\ schedules[s].type # "absent"
  BY AtEntry, Sources DEF QueueShape, QueueTypeOK
<1>2. /\ holder' = holder
      /\ \E how \in {"waiting", "delayed"} : state' = [state EXCEPT ![First(s)] = how]
  BY DEF AddToQueue, AddJob, AddRepeatableJob
<1>3. CASE e = First(s)
  <2>1. TargetOf(e) # "absent"
    BY <1>1, <1>3, HasTarget
  <2> QED
    BY <1>1, <1>2, <1>3, <2>1 DEF Phase, Door
<1>4. CASE e # First(s)
  BY <1>1, <1>2, <1>4, EntryKeeps
<1> QED
  BY <1>3, <1>4

\* A removal closes the door, and takes out entries that nobody has locked.
LEMMA RemoveImplements ==
  ASSUME SchedulerInv, NEW e \in Entry, NEW c \in Client, RemoveFound(c),
         stopped' = stopped \cup {target[c]}, TargetOf(e)' = TargetOf(e)
  PROVE  \/ EntryStays(e)
         \/ /\ Door(e)' = "closed"
            /\ \/ Phase(e)' = Phase(e)
               \/ Phase(e) \notin {"none", "taken"} /\ Phase(e)' = "removed"
<1> DEFINE s == target[c]
<1>1. /\ s \in Schedule /\ state[First(s)] # "none" /\ First(s) \in Entry /\ First(s)[1] = s
      /\ QueueTypeOK /\ state[e] \in State
  BY AtEntry, Sources DEF QueueShape, RemoveFound
<1>2. CASE e[1] # s
  <2>1. state'[e] = state[e] /\ holder' = holder
    BY <1>1, <1>2 DEF RemoveFound, Remove, RemoveRepeatable, QueueTypeOK
  <2>2. Door(e)' = Door(e)
    BY <1>2 DEF Door
  <2> QED
    BY <2>1, <2>2 DEF EntryStays, Phase
<1>3. CASE e[1] = s
  <2>1. Door(e)' = "closed" /\ holder' = holder
    BY <1>3 DEF Door, RemoveFound, Remove, RemoveRepeatable
  <2>2. \/ state'[e] = state[e]
        \/ e = First(s) /\ holder[e] = NoWorker /\ state'[e] = "removed"
        \/ state[e] = "delayed" /\ state'[e] = "removed"
    BY <1>1, <1>3 DEF RemoveFound, Remove, Removable, RemoveRepeatable, QueueTypeOK
  <2>3. CASE state'[e] = state[e]
    BY <2>1, <2>3 DEF Phase
  <2>4. CASE e = First(s) /\ holder[e] = NoWorker /\ state'[e] = "removed"
    <3>1. Phase(e)' = "removed" /\ Phase(e) \notin {"none", "taken"}
      BY <1>1, <2>4 DEF Phase, State
    <3> QED
      BY <2>1, <3>1
  <2>5. CASE state[e] = "delayed" /\ state'[e] = "removed"
    <3>1. Phase(e)' = "removed" /\ Phase(e) = "queued"
      BY <2>5 DEF Phase
    <3> QED
      BY <2>1, <3>1
  <2> QED
    BY <2>2, <2>3, <2>4, <2>5
<1> QED
  BY <1>2, <1>3

LEMMA ClientImplements ==
  ASSUME SchedulerInv, NEW e \in Entry, NEW c \in Client, ClientStep(c)
  PROVE  Life(e)!Next
<1>1. /\ UNCHANGED <<runVars, executions, netVars>>
      /\ faults' = faults \/ faults' = faults + 1
  BY OutsideRuns DEF Fault
<1>2. RunsStay(e)
  BY <1>1, RunsKeep
<1>3. CASE UNCHANGED <<jobs, schedules>>
  <2>1. TargetOf(e)' = TargetOf(e)
    BY <1>3, TargetKeeps
  <2>2. CASE ScheduleJob(c)
    BY <1>1, <1>2, <2>1, <2>2, AddImplements, QueueMoves DEF ScheduleJob
  <2>3. CASE RemoveJob(c)
    BY <1>1, <1>2, <2>1, <2>3, RemoveImplements, QueueMoves DEF RemoveJob
  <2>4. CASE ScheduleJobFails(c) /\ AddToQueue(target[c])
    BY <1>1, <1>2, <2>1, <2>4, AddImplements, QueueMoves DEF ScheduleJobFails
  <2>5. CASE UNCHANGED <<queueVars, stopped>>
    BY <1>1, <1>2, <2>1, <2>5, EntryKeeps, Stutters DEF queueVars
  <2> QED
    BY <2>2, <2>3, <2>4, <2>5
       DEF ClientStep, ScheduleJobFails, Lookup, RemoveJobLocked, RemoveJobFails, SaveSchedule,
           CancelSchedule
<1>4. ASSUME NEW s \in Schedule, SaveSchedule(c, s) \/ CancelSchedule(c, s)
      PROVE  Life(e)!Next
  <2>1. UNCHANGED <<queueVars, stopped, jobs>> /\ faults' = faults
    BY <1>4 DEF SaveSchedule, CancelSchedule
  <2>2. Phase(e)' = Phase(e) /\ Door(e)' = Door(e)
    BY <2>1 DEF queueVars, Phase, Door
  <2>3. CASE SaveSchedule(c, s)
    BY <1>2, <2>1, <2>2, <2>3, SavesTarget, TargetMoves
  <2>4. CASE CancelSchedule(c, s)
    BY <1>2, <2>1, <2>2, <2>4, SavesTarget, TargetMoves
  <2> QED
    BY <1>4, <2>3, <2>4
<1> QED
  BY <1>3, <1>4
     DEF ClientStep, ScheduleJob, ScheduleJobFails, Lookup, RemoveJob, RemoveJobLocked,
         RemoveJobFails, CancelAnswered, tableVars

\* The operator brings back what has failed and forgets what is finished.
LEMMA AdminImplements ==
  ASSUME SchedulerInv, NEW e \in Entry, NEW a \in Admin, AdminStep(a)
  PROVE  Life(e)!Next
<1>1. /\ UNCHANGED <<runVars, executions, netVars>> /\ faults' = faults /\ stopped' = stopped
      /\ state \in [Entry -> State] /\ Door(e)' = Door(e) /\ UNCHANGED <<jobs, schedules>>
  BY AtEntry
     DEF AdminStep, PauseQueue, ResumeQueue, CleanCompleted, CleanFailed, GetFailed, RetryFailed,
         AdminOnly, clientVars, tableVars, QueueTypeOK, Door
<1>2. holder' = holder
  BY DEF AdminStep, PauseQueue, ResumeQueue, CleanCompleted, CleanFailed, GetFailed, RetryFailed,
         SetPaused, Clean, Retry, queueVars
<1>3. \/ state'[e] = state[e]
      \/ state[e] = "failed" /\ state'[e] = "waiting"
      \/ state[e] \in {"completed", "failed"} /\ state'[e] = "removed"
  <2>1. CASE PauseQueue(a) \/ ResumeQueue(a) \/ GetFailed(a)
    BY <2>1 DEF PauseQueue, ResumeQueue, GetFailed, SetPaused, queueVars
  <2>2. CASE CleanCompleted(a) \/ CleanFailed(a)
    BY <1>1, <2>2 DEF CleanCompleted, CleanFailed, Clean
  <2>3. ASSUME NEW f \in Entry, RetryFailed(a, f)
        PROVE  \/ state'[e] = state[e]
               \/ state[e] = "failed" /\ state'[e] = "waiting"
    BY <1>1, <2>3 DEF RetryFailed, Retry
  <2> QED
    BY <2>1, <2>2, <2>3 DEF AdminStep
<1>4. RunsStay(e) /\ TargetOf(e)' = TargetOf(e)
  BY <1>1, RunsKeep, TargetKeeps
<1> QED
  BY <1>1, <1>2, <1>3, <1>4, QueueMoves, EntryKeeps DEF Phase

\* A delay ends; a lapsed lock costs the entry its worker, and perhaps its last chance.
LEMMA StallImplements ==
  ASSUME SchedulerInv, NEW e \in Entry, NEW f \in Entry, DelayOver(f) \/ StalledCheck(f)
  PROVE  Life(e)!Next
<1>1. /\ UNCHANGED <<runVars, executions, netVars>> /\ stopped' = stopped
      /\ faults' = faults \/ faults' = faults + 1
      /\ faults \in Nat /\ QueueTypeOK /\ EntryShape(f) /\ holder[f] \in Worker \cup {NoWorker}
  BY AtEntry, OutsideRuns DEF Fault, DelayOver, StalledCheck, clientVars
<1>2. RunsStay(e) /\ Door(e)' = Door(e) /\ TargetOf(e)' = TargetOf(e)
  <2>1. UNCHANGED <<jobs, schedules>>
    BY DEF DelayOver, StalledCheck, tableVars
  <2> QED
    BY <1>1, <2>1, RunsKeep, TargetKeeps DEF Door
<1>3. CASE e # f
  <2>1. state'[e] = state[e] /\ holder'[e] = holder[e]
    BY <1>1, <1>3 DEF DelayOver, Promote, StalledCheck, Stall, QueueTypeOK
  <2> QED
    BY <1>1, <1>2, <2>1, EntryKeeps, Stutters
<1>4. CASE e = f /\ DelayOver(f)
  <2>1. Phase(e) = "queued" /\ Phase(e)' = "queued"
    BY <1>1, <1>4 DEF DelayOver, Promote, QueueTypeOK, Phase
  <2> QED
    BY <1>1, <1>2, <2>1, Stutters DEF EntryStays
<1>5. CASE e = f /\ StalledCheck(f)
  <2>1. /\ state[e] = "active" /\ holder'[e] = NoWorker /\ state'[e] \in {"waiting", "failed"}
    BY <1>1, <1>5 DEF StalledCheck, Stall, QueueTypeOK
  <2>2. Phase(e) \in {"taken", "queued"} /\ Phase(e)' \in {"queued", "failed"}
    BY <2>1 DEF Phase
  <2>3. faults' > 0
    <3>1. CASE holder[e] = NoWorker
      BY <1>1, <1>5, <2>1, <3>1 DEF EntryShape
    <3>2. CASE holder[e] # NoWorker
      BY <1>1, <1>5, <3>2 DEF StalledCheck, Fault
    <3> QED
      BY <3>1, <3>2
  <2> QED
    BY <1>1, <1>2, <2>2, <2>3, QueueMoves
<1> QED
  BY <1>3, <1>4, <1>5

-----------------------------------------------------------------------------
(* executeJob                                                               *)

\* What a step of executeJob leaves alone: the queue, and the entries of other runners.
LEMMA RunnerFrame ==
  ASSUME SchedulerInv, NEW e \in Entry, NEW r \in Runner,
         \/ CreateExecution(r) \/ CreateFails(r) \/ ExecuteJobByService(r) \/ Accept(r)
         \/ ReplyOk(r) \/ ReplyError(r) \/ SaveOutcome(r) \/ SaveFails(r)
  PROVE  /\ EntryStays(e) /\ Local(r)
         /\ run'[r] = run[r] /\ RunShape(r) /\ RunTypes
         /\ faults' = faults \/ faults' = faults + 1
         /\ run[r] # e => RunsStay(e)
<1>1. RunTypes /\ RunShape(r)
  BY AtEntry DEF RunsPart
<1>2. /\ UNCHANGED <<queueVars, stopped, run, jobs, schedules>>
      /\ faults' = faults \/ faults' = faults + 1
  BY DEF CreateExecution, CreateFails, ExecuteJobByService, Accept, ReplyOk, ReplyError,
         SaveOutcome, SaveFails, tableVars, clientVars, Fault
<1>3. Local(r)
  <2>1. CASE ExecuteJobByService(r)
    BY <1>1, <1>2, <2>1
       DEF ExecuteJobByService, Route, CallMessaging, ReturnPlaceholder, RefuseMethod, Local,
           RunTypes
  <2> QED
    BY <1>1, <1>2, <2>1
       DEF CreateExecution, CreateFails, Accept, ReplyOk, ReplyError, SaveOutcome, SaveFails,
           Local, RunTypes, RecordOutcome
<1>4. ASSUME run[r] # e
      PROVE  /\ late'[e] = late[e] /\ routed'[e] = routed[e] /\ effects'[e] = effects[e]
             /\ executions'[e] = executions[e] /\ placeholders'[e] = placeholders[e]
  <2>1. executions' = executions \/ \E g : executions' = [executions EXCEPT ![run[r]] = g]
    BY DEF CreateExecution, CreateFails, ExecuteJobByService, Accept, ReplyOk, ReplyError,
           SaveOutcome, SaveFails, RecordOutcome, Recorded, tableVars
  <2>2. executions'[e] = executions[e]
    BY <1>1, <1>4, <2>1, Sources DEF RunTypes
  <2>3. /\ late'[e] = late[e] /\ routed'[e] = routed[e] /\ effects'[e] = effects[e]
        /\ placeholders'[e] = placeholders[e]
    <3>1. CASE ExecuteJobByService(r)
      BY <1>1, <1>4, <3>1, Sources
         DEF ExecuteJobByService, Route, CallMessaging, ReturnPlaceholder, RefuseMethod, RunTypes
    <3> QED
      BY <1>1, <1>4, <3>1, Sources
         DEF CreateExecution, CreateFails, Accept, ReplyOk, ReplyError, SaveOutcome, SaveFails,
             RunTypes, netVars
  <2> QED
    BY <2>2, <2>3
<1>5. EntryStays(e)
  BY <1>2, EntryKeeps, TargetKeeps DEF queueVars
<1>6. run'[r] = run[r]
  BY <1>2
<1>7. run[r] # e => RunsStay(e)
  BY <1>3, <1>4, <1>6, OtherRuns
<1> QED
  BY <1>1, <1>2, <1>3, <1>5, <1>6, <1>7

\* What the ledger shows of a row that is opened.
LEMMA Opens ==
  ASSUME SchedulerInv, NEW r \in Runner, run[r] \in Entry, Recorded(r, "none", "running")
  PROVE  /\ executions'[run[r]]["running"] = executions[run[r]]["running"] + 1
         /\ executions'[run[r]]["completed"] = executions[run[r]]["completed"]
         /\ executions'[run[r]]["failed"] = executions[run[r]]["failed"]
<1>1. /\ run[r] \in Source /\ RunsPart /\ executions[run[r]] \in [RowStatus -> Nat]
      /\ {"running", "completed", "failed"} = RowStatus /\ "none" \notin RowStatus
  BY AtEntry DEF RowStatus, Outcome
<1>2. \A x \in Source, k \in RowStatus :
        executions'[x][k] = executions[x][k] + Bit(x = run[r] /\ k = "running")
                                             - Bit(x = run[r] /\ k = "none")
  BY <1>1, RecordedRow
<1>3. /\ executions[run[r]]["running"] \in Nat /\ executions[run[r]]["completed"] \in Nat
      /\ executions[run[r]]["failed"] \in Nat
  BY <1>1, RowsTyped
<1> QED
  BY <1>1, <1>2, <1>3 DEF Bit

\* The row is opened before the call.
LEMMA CreateImplements ==
  ASSUME SchedulerInv, NEW e \in Entry, NEW r \in Runner, CreateExecution(r)
  PROVE  Life(e)!Next
<1>1. /\ EntryStays(e) /\ Local(r) /\ run'[r] = run[r] /\ RunShape(r) /\ RunTypes
      /\ run[r] # e => RunsStay(e)
  BY RunnerFrame
<1>2. /\ pc[r] = "create" /\ pc'[r] = "call" /\ faults' = faults
      /\ UNCHANGED <<call, late, routed, effects, placeholders>>
  BY <1>1 DEF CreateExecution, RunTypes, netVars
<1>3. CASE run[r] # e
  BY <1>1, <1>2, <1>3, Stutters
<1>4. CASE run[r] = e
  <2>1. Cardinality(Starting(e)') = Cardinality(Starting(e)) /\ Cardinality(Starting(e)) > 0
    BY <1>1, <1>2, <1>4, AtEntry, OwnRun DEF Bit
  <2>2. Wire(e)' = Wire(e)
    <3>1. Cardinality(Sent(e)') = Cardinality(Sent(e))
      BY <1>1, <1>2, <1>4, OwnRun DEF Bit
    <3> QED
      BY <1>2, <3>1 DEF Wire
  <2>3. /\ executions'[e]["running"] = executions[e]["running"] + 1
        /\ executions'[e]["completed"] = executions[e]["completed"]
        /\ executions'[e]["failed"] = executions[e]["failed"]
    BY <1>1, <1>4, Opens DEF CreateExecution
  <2> QED
    BY <1>1, <1>2, <2>1, <2>2, <2>3
       DEF EntryStays, Life!Next, Life!Smooth, Life!Open, Life!entry, Life!net
<1> QED
  BY <1>3, <1>4

\* A start fails before its call, its row committed or not.
LEMMA CreateFailsImplements ==
  ASSUME SchedulerInv, NEW e \in Entry, NEW r \in Runner, CreateFails(r)
  PROVE  Life(e)!Next
<1>1. /\ EntryStays(e) /\ Local(r) /\ run'[r] = run[r] /\ RunShape(r) /\ RunTypes
      /\ run[r] # e => RunsStay(e)
  BY RunnerFrame
<1>2. /\ pc[r] = "create" /\ pc'[r] = "settle" /\ faults' = faults + 1
      /\ UNCHANGED <<call, late, routed, effects, placeholders>>
  BY <1>1 DEF CreateFails, Fault, RunTypes, netVars
<1>3. CASE run[r] # e
  BY <1>1, <1>2, <1>3, Stutters
<1>4. CASE run[r] = e
  <2>1. /\ Cardinality(Starting(e)') = Cardinality(Starting(e)) - 1
        /\ Cardinality(Starting(e)) > 0
    BY <1>1, <1>2, <1>4, AtEntry, OwnRun DEF Bit
  <2>2. Wire(e)' = Wire(e)
    <3>1. Cardinality(Sent(e)') = Cardinality(Sent(e))
      BY <1>1, <1>2, <1>4, OwnRun DEF Bit
    <3> QED
      BY <1>2, <3>1 DEF Wire
  <2>3. /\ executions'[e]["running"] \in {executions[e]["running"],
                                           executions[e]["running"] + 1}
        /\ executions'[e]["completed"] = executions[e]["completed"]
        /\ executions'[e]["failed"] = executions[e]["failed"]
    BY <1>4, Opens DEF CreateFails
  <2> QED
    BY <1>1, <1>2, <2>1, <2>2, <2>3
       DEF EntryStays, Life!Next, Life!Mishap, Life!Abandon, Life!entry, Life!net
<1> QED
  BY <1>3, <1>4

\* The service is reached, once for the start, with a row that no other has used.
LEMMA CallImplements ==
  ASSUME SchedulerInv, NEW e \in Entry, NEW r \in Runner, ExecuteJobByService(r)
  PROVE  Life(e)!Next
<1>1. /\ EntryStays(e) /\ Local(r) /\ run'[r] = run[r] /\ RunShape(r) /\ RunTypes
      /\ run[r] # e => RunsStay(e)
  BY RunnerFrame
<1>2. /\ pc[r] = "call" /\ Route(r) /\ faults' = faults
      /\ UNCHANGED <<executions, late, effects>>
      /\ routed' = [routed EXCEPT ![run[r]] = @ + 1]
  BY <1>1 DEF ExecuteJobByService, RunTypes, tableVars
<1>3. CASE run[r] # e
  BY <1>1, <1>2, <1>3, Stutters
<1>4. CASE run[r] = e
  <2>1. call[r] = "none" /\ e \in Source
    BY <1>1, <1>2, AtEntry DEF RunShape, RunTypes
  <2>2. /\ pc'[r] \in {"await", "save"}
        /\ \/ /\ TargetOf(e) = "messaging" /\ call'[r] = "sent"
              /\ placeholders'[e] = placeholders[e]
           \/ /\ TargetOf(e) = "placeholder" /\ call'[r] = "none"
              /\ placeholders'[e] = placeholders[e] + 1
           \/ /\ TargetOf(e) = "unknown" /\ call'[r] = "none"
              /\ placeholders'[e] = placeholders[e]
    BY <1>1, <1>2, <1>4, <2>1
       DEF Route, CallMessaging, ReturnPlaceholder, RefuseMethod, RunTypes
  <2>3. /\ Cardinality(Starting(e)') = Cardinality(Starting(e)) - 1
        /\ Cardinality(Starting(e)) > 0
    BY <1>1, <1>2, <1>4, <2>2, AtEntry, OwnRun DEF Bit
  <2>4. /\ call'[r] = "sent" => Wire(e)' = Wire(e) + 1
        /\ call'[r] = "none" => Wire(e)' = Wire(e)
    <3>1. /\ Cardinality(Sent(e)') = Cardinality(Sent(e)) + Bit(call'[r] = "sent")
          /\ Cardinality(Sent(e)) \in Nat /\ late[e] \in Nat
      BY <1>1, <1>2, <1>4, <2>1, AtEntry, OwnRun DEF Bit
    <3> QED
      BY <1>2, <3>1 DEF Wire, Bit
  <2>5. routed'[e] = routed[e] + 1
    BY <1>1, <1>2, <1>4, <2>1 DEF RunTypes
  <2>6. routed[e] < executions[e]["running"] + executions[e]["completed"]
                      + executions[e]["failed"]
    <3>1. /\ routed[e] \in Nat /\ executions[e]["running"] \in Nat
          /\ executions[e]["completed"] \in Nat /\ executions[e]["failed"] \in Nat
      BY AtEntry, RowsTyped
    <3>2. Cardinality(AboutToCall(e)) > 0 /\ Cardinality(AboutToCall(e)) \in Nat
      BY <1>2, <1>4, AtEntry, StartingCounts, Sizes
    <3>3. routed[e] + Cardinality(AboutToCall(e))
            <= executions[e]["running"] + executions[e]["completed"] + executions[e]["failed"]
      BY AtEntry DEF Ledger
    <3> QED
      BY <3>1, <3>2, <3>3
  <2>7. Life(e)!Reach
    BY <1>1, <1>2, <2>3, <2>5, <2>6
       DEF EntryStays, Life!Reach, Life!Smooth, Life!entry, Life!rows
  <2> QED
    BY <1>2, <2>2, <2>4, <2>7
       DEF Life!Next, Life!Smooth, Life!Call, Life!Skip, Life!Refuse
<1> QED
  BY <1>3, <1>4

\* The target accepts it, awaited or not.
LEMMA AcceptImplements ==
  ASSUME SchedulerInv, NEW e \in Entry,
         (\E r \in Runner : Accept(r)) \/ \E x \in Source : AcceptLate(x)
  PROVE  Life(e)!Next
<1>1. ASSUME NEW r \in Runner, Accept(r)
      PROVE  Life(e)!Next
  <2>1. /\ EntryStays(e) /\ Local(r) /\ run'[r] = run[r] /\ RunShape(r) /\ RunTypes
        /\ run[r] # e => RunsStay(e)
    BY <1>1, RunnerFrame
  <2>2. /\ call[r] = "sent" /\ call'[r] = "accepted" /\ faults' = faults /\ pc'[r] = pc[r]
        /\ UNCHANGED <<executions, late, routed, placeholders>>
        /\ effects' = [effects EXCEPT ![run[r]] = @ + 1]
    BY <1>1, <2>1 DEF Accept, RunTypes, tableVars
  <2>3. CASE run[r] # e
    BY <2>1, <2>2, <2>3, Stutters
  <2>4. CASE run[r] = e
    <3>1. Cardinality(Starting(e)') = Cardinality(Starting(e))
      BY <2>1, <2>2, <2>4, AtEntry, OwnRun DEF Bit
    <3>2. Wire(e)' = Wire(e) - 1 /\ Wire(e) > 0
      <4>1. /\ Cardinality(Sent(e)') = Cardinality(Sent(e)) - 1
            /\ Cardinality(Sent(e)) \in Nat /\ Cardinality(Sent(e)) > 0 /\ late[e] \in Nat
        BY <2>1, <2>2, <2>4, AtEntry, OwnRun DEF Bit
      <4> QED
        BY <2>2, <4>1 DEF Wire
    <3>3. effects'[e] = effects[e] + 1
      BY <2>1, <2>2, <2>4, AtEntry DEF RunTypes
    <3> QED
      BY <2>1, <2>2, <3>1, <3>2, <3>3
         DEF EntryStays, Life!Next, Life!Smooth, Life!Accept, Life!entry, Life!rows
  <2> QED
    BY <2>3, <2>4
<1>2. ASSUME NEW x \in Source, AcceptLate(x)
      PROVE  Life(e)!Next
  <2>1. /\ UNCHANGED <<queueVars, runVars, executions, stopped, routed, placeholders, faults>>
        /\ UNCHANGED <<jobs, schedules>>
        /\ late[x] > 0 /\ late' = [late EXCEPT ![x] = @ - 1]
        /\ effects' = [effects EXCEPT ![x] = @ + 1]
    BY <1>2 DEF AcceptLate, tableVars, clientVars
  <2>2. EntryStays(e)
    BY <2>1, EntryKeeps, TargetKeeps DEF queueVars
  <2>3. RunTypes /\ e \in Source /\ late[e] \in Nat /\ effects[e] \in Nat
    BY AtEntry DEF RunsPart
  <2>4. Starting(e)' = Starting(e) /\ Sent(e)' = Sent(e) /\ Cardinality(Sent(e)) \in Nat
    <3>1. Sent(e) \subseteq Busy
      BY <2>3, Sources DEF Sent, Busy
    <3>2. Cardinality(Sent(e)) \in Nat
      BY <3>1, AtEntry, FS_Subset, FS_CardinalityType
    <3> QED
      BY <2>1, <3>2 DEF runVars, Starting, Sent
  <2>5. CASE x # e
    <3>1. late'[e] = late[e] /\ effects'[e] = effects[e]
      BY <2>1, <2>3, <2>5 DEF RunTypes
    <3>2. RunsStay(e)
      BY <2>1, <2>4, <3>1 DEF RunsStay, Wire
    <3> QED
      BY <2>1, <2>2, <3>2, Stutters
  <2>6. CASE x = e
    <3>1. Wire(e)' = Wire(e) - 1 /\ Wire(e) > 0 /\ effects'[e] = effects[e] + 1
      BY <2>1, <2>3, <2>4, <2>6 DEF RunTypes, Wire
    <3> QED
      BY <2>1, <2>2, <2>4, <3>1
         DEF EntryStays, Life!Next, Life!Smooth, Life!Accept, Life!entry, Life!rows
  <2> QED
    BY <2>5, <2>6
<1> QED
  BY <1>1, <1>2

\* The answer changes nothing yet; an error or a deadline may leave the call on its way.
LEMMA ReplyImplements ==
  ASSUME SchedulerInv, NEW e \in Entry, NEW r \in Runner, ReplyOk(r) \/ ReplyError(r)
  PROVE  Life(e)!Next
<1>1. /\ EntryStays(e) /\ Local(r) /\ run'[r] = run[r] /\ RunShape(r) /\ RunTypes
      /\ run[r] # e => RunsStay(e)
  BY RunnerFrame
<1>2. /\ pc[r] = "await" /\ pc'[r] = "save" /\ call'[r] = "none" /\ faults' = faults
      /\ UNCHANGED <<executions, routed, effects, placeholders>>
  BY <1>1 DEF ReplyOk, ReplyError, RunTypes, netVars, tableVars
<1>3. \/ late' = late
      \/ call[r] = "sent" /\ late' = [late EXCEPT ![run[r]] = @ + 1]
  BY DEF ReplyOk, ReplyError, netVars
<1>4. CASE run[r] # e
  BY <1>1, <1>2, <1>4, Stutters
<1>5. CASE run[r] = e
  <2>1. Cardinality(Starting(e)') = Cardinality(Starting(e))
    BY <1>1, <1>2, <1>5, AtEntry, OwnRun DEF Bit
  <2>2. /\ Cardinality(Sent(e)) \in Nat /\ late[e] \in Nat
        /\ call[r] = "sent" => /\ Cardinality(Sent(e)) > 0
                               /\ Cardinality(Sent(e)') = Cardinality(Sent(e)) - 1
        /\ call[r] # "sent" => Cardinality(Sent(e)') = Cardinality(Sent(e))
    BY <1>1, <1>2, <1>5, AtEntry, OwnRun DEF Bit
  <2>3. late'[e] = late[e] \/ (call[r] = "sent" /\ late'[e] = late[e] + 1)
    BY <1>1, <1>3, <1>5, AtEntry DEF RunTypes
  <2>4. Wire(e)' = Wire(e) \/ (Wire(e) > 0 /\ Wire(e)' = Wire(e) - 1)
    BY <2>2, <2>3 DEF Wire
  <2>5. CASE Wire(e)' = Wire(e)
    BY <1>1, <1>2, <2>1, <2>5, Stutters DEF RunsStay
  <2>6. CASE Wire(e) > 0 /\ Wire(e)' = Wire(e) - 1
    BY <1>1, <1>2, <2>1, <2>6
       DEF EntryStays, Life!Next, Life!Smooth, Life!Lose, Life!entry, Life!rows
  <2> QED
    BY <2>4, <2>5, <2>6
<1> QED
  BY <1>4, <1>5

\* A status is written over another by the execution that has the row; COMPLETED only with a
\* result that no COMPLETED row has used; FAILED over COMPLETED after a failed save.
LEMMA Records ==
  ASSUME SchedulerInv, NEW r \in Runner, run[r] \in Entry, pc[r] = "save", RecordOutcome(r)
  PROVE  LET before == executions[run[r]]
             after  == executions'[run[r]] IN
         \/ /\ before["running"] > 0
            /\ before["completed"] < effects[run[r]] + placeholders[run[r]]
            /\ after["running"] = before["running"] - 1
            /\ after["completed"] = before["completed"] + 1
            /\ after["failed"] = before["failed"]
         \/ /\ before["running"] > 0
            /\ after["running"] = before["running"] - 1
            /\ after["completed"] = before["completed"]
            /\ after["failed"] = before["failed"] + 1
         \/ /\ before["completed"] > 0 /\ row[r] = "completed"
            /\ after["running"] = before["running"]
            /\ after["completed"] = before["completed"] - 1
            /\ after["failed"] = before["failed"] + 1
<1> DEFINE e == run[r]
<1>1. /\ RunsPart /\ e \in Source /\ Ledger(e) /\ executions[e] \in [RowStatus -> Nat]
      /\ effects[e] \in Nat /\ placeholders[e] \in Nat
  BY AtEntry
<1>2. RunShape(r) /\ RowStatus = {"running", "completed", "failed"}
  BY <1>1 DEF RunsPart, RowStatus, Outcome
<1>3. \/ outcome[r] = "completed" /\ row[r] = "running"
      \/ outcome[r] = "failed" /\ row[r] \in {"running", "completed"}
  BY <1>2 DEF RunShape, Outcome
<1>4. \A k \in RowStatus :
        executions'[e][k] = executions[e][k] + Bit(k = outcome[r]) - Bit(k = row[r])
  BY <1>1, RecordedOutcome
<1>5. \A k \in RowStatus : r \in RowsOf(e, k) => executions[e][k] > 0
  <2>1. ASSUME NEW k \in RowStatus, r \in RowsOf(e, k)
        PROVE  executions[e][k] > 0
    <3>1. IsFiniteSet(RowsOf(e, k)) /\ Cardinality(RowsOf(e, k)) \in Nat
      BY <1>1, Sizes DEF RunsPart
    <3>2. Cardinality(RowsOf(e, k)) > 0
      BY <2>1, <3>1, FS_EmptySet
    <3>3. Cardinality(RowsOf(e, k)) <= executions[e][k] /\ executions[e][k] \in Nat
      BY <1>1, <1>2, <2>1 DEF Ledger, Outcome, RowStatus
    <3> QED
      BY <3>1, <3>2, <3>3
  <2> QED
    BY <2>1
<1>6. row[r] \in RowStatus /\ executions[e][row[r]] > 0
  BY <1>2, <1>3, <1>5 DEF RowsOf
<1>7. outcome[r] = "completed" => executions[e]["completed"] < effects[e] + placeholders[e]
  <2>1. ASSUME outcome[r] = "completed"
        PROVE  executions[e]["completed"] < effects[e] + placeholders[e]
    <3>1. IsFiniteSet(Promised(e)) /\ Cardinality(Promised(e)) \in Nat
      BY <1>1, Sizes DEF RunsPart
    <3>2. Cardinality(Promised(e)) > 0
      <4>1. r \in Promised(e)
        BY <2>1 DEF Promised
      <4> QED
        BY <3>1, <4>1, FS_EmptySet
    <3>3. executions[e]["completed"] + Cardinality(Promised(e)) <= effects[e] + placeholders[e]
      BY <1>1 DEF Ledger
    <3>4. executions[e]["completed"] \in Nat
      BY <1>1, <1>2
    <3> QED
      BY <1>1, <3>1, <3>2, <3>3, <3>4
  <2> QED
    BY <2>1
<1>8. /\ executions[e]["running"] \in Nat /\ executions[e]["completed"] \in Nat
      /\ executions[e]["failed"] \in Nat
  BY <1>1, RowsTyped
<1>9. /\ executions'[e]["running"]
           = executions[e]["running"] + Bit("running" = outcome[r]) - Bit("running" = row[r])
      /\ executions'[e]["completed"]
           = executions[e]["completed"] + Bit("completed" = outcome[r]) - Bit("completed" = row[r])
      /\ executions'[e]["failed"]
           = executions[e]["failed"] + Bit("failed" = outcome[r]) - Bit("failed" = row[r])
  BY <1>2, <1>4
<1> HIDE DEF e
<1>10. CASE outcome[r] = "completed" /\ row[r] = "running"
  BY <1>6, <1>7, <1>8, <1>9, <1>10 DEF Bit, e
<1>11. CASE outcome[r] = "failed" /\ row[r] = "running"
  BY <1>6, <1>8, <1>9, <1>11 DEF Bit, e
<1>12. CASE outcome[r] = "failed" /\ row[r] = "completed"
  BY <1>6, <1>8, <1>9, <1>12 DEF Bit, e
<1> QED
  BY <1>3, <1>10, <1>11, <1>12

\* The outcome is saved, or the save fails before or after its commit.
LEMMA SaveImplements ==
  ASSUME SchedulerInv, NEW e \in Entry, NEW r \in Runner, SaveOutcome(r) \/ SaveFails(r)
  PROVE  Life(e)!Next
<1>1. /\ EntryStays(e) /\ Local(r) /\ run'[r] = run[r] /\ RunShape(r) /\ RunTypes
      /\ run[r] # e => RunsStay(e)
  BY RunnerFrame
<1>2. faults' = faults \/ faults' = faults + 1
  BY RunnerFrame
<1>3. /\ pc[r] = "save" /\ pc'[r] \in {"save", "settle"}
      /\ UNCHANGED <<call, late, routed, effects, placeholders>>
      /\ RecordOutcome(r) \/ executions' = executions
  BY <1>1 DEF SaveOutcome, SaveFails, RunTypes, netVars
<1>4. CASE run[r] # e
  BY <1>1, <1>2, <1>4, Stutters
<1>5. CASE run[r] = e
  <2>1. Cardinality(Starting(e)') = Cardinality(Starting(e))
    BY <1>1, <1>3, <1>5, AtEntry, OwnRun DEF Bit
  <2>2. Wire(e)' = Wire(e)
    <3>1. Cardinality(Sent(e)') = Cardinality(Sent(e))
      BY <1>1, <1>3, <1>5, OwnRun DEF Bit
    <3> QED
      BY <1>3, <3>1 DEF Wire
  <2>3. CASE executions' = executions
    BY <1>1, <1>2, <1>3, <2>1, <2>2, <2>3, Stutters DEF RunsStay
  <2>4. CASE RecordOutcome(r)
    <3>1. row[r] = "completed" => faults > 0
      BY <1>3, AtEntry DEF ThrownByFault
    <3>2. \/ /\ executions[e]["running"] > 0
             /\ executions[e]["completed"] < effects[e] + placeholders[e]
             /\ executions'[e]["running"] = executions[e]["running"] - 1
             /\ executions'[e]["completed"] = executions[e]["completed"] + 1
             /\ executions'[e]["failed"] = executions[e]["failed"]
          \/ /\ executions[e]["running"] > 0
             /\ executions'[e]["running"] = executions[e]["running"] - 1
             /\ executions'[e]["completed"] = executions[e]["completed"]
             /\ executions'[e]["failed"] = executions[e]["failed"] + 1
          \/ /\ executions[e]["completed"] > 0 /\ row[r] = "completed"
             /\ executions'[e]["running"] = executions[e]["running"]
             /\ executions'[e]["completed"] = executions[e]["completed"] - 1
             /\ executions'[e]["failed"] = executions[e]["failed"] + 1
      BY <1>3, <1>5, <2>4, Records
    <3> QED
      BY <1>1, <1>2, <1>3, <2>1, <2>2, <3>1, <3>2
         DEF EntryStays, Life!Next, Life!Smooth, Life!Mishap, Life!Record, Life!entry, Life!net
  <2> QED
    BY <1>3, <2>3, <2>4
<1> QED
  BY <1>4, <1>5

\* A worker takes an entry that may run again; its successor enters with it.
LEMMA ProcessImplements ==
  ASSUME SchedulerInv, NEW e \in Entry, NEW w \in Worker, NEW f \in Entry, Process(w, f)
  PROVE  Life(e)!Next
<1>1. /\ RunTypes /\ QueueTypeOK /\ QueueShape /\ w \in Runner /\ w # NoWorker
      /\ RunShape(w) /\ state[f] = "waiting" /\ Take(w, f) /\ pc[w] = "idle"
      /\ UNCHANGED <<executions, call, stopped, late, routed, effects, placeholders, faults>>
      /\ TargetOf(e)' = TargetOf(e)
  BY AtEntry, QueueAssumption, TargetKeeps
     DEF Process, Take, Begin, Runner, RunsPart, tableVars, clientVars, netVars
<1>2. /\ Local(w) /\ run'[w] = f /\ pc'[w] = "create" /\ run[w] = NoRun /\ call[w] = "none"
      /\ e # NoRun
  BY <1>1, Sources DEF Process, Begin, Local, RunTypes, RunShape
<1>3. /\ holder' = [holder EXCEPT ![f] = w] /\ Door(e)' = Door(e)
  BY <1>1 DEF Take, Door
<1>4. CASE e # f
  <2>1. RunsStay(e)
    BY <1>1, <1>2, <1>4, OtherRuns
  <2>2. holder'[e] = holder[e]
    BY <1>1, <1>3, <1>4 DEF QueueTypeOK
  <2>3. \/ state'[e] = state[e]
        \/ /\ state[e] = "none" /\ state'[e] = "delayed" /\ f[1] \in repeats
           /\ e = Next1(f)
    BY <1>1, <1>4 DEF Take
  <2>4. CASE state'[e] = state[e]
    BY <1>1, <1>3, <2>1, <2>2, <2>4, Stutters DEF EntryStays, Phase
  <2>5. CASE /\ state[e] = "none" /\ state'[e] = "delayed" /\ f[1] \in repeats
             /\ e = Next1(f)
    <3>1. e[1] = f[1] /\ f[1] \in Schedule
      BY <2>5, Sources
    <3>2. Door(e) = "open" /\ TargetOf(e) # "absent"
      <4>1. f[1] \notin stopped /\ schedules[e[1]].type # "absent"
        BY <1>1, <2>5, <3>1 DEF QueueShape
      <4> QED
        BY <3>1, <4>1, HasTarget DEF Door
    <3>3. Phase(e) = "none" /\ Phase(e)' = "queued"
      BY <2>5 DEF Phase
    <3> QED
      BY <1>1, <1>3, <2>1, <3>2, <3>3, QueueMoves
  <2> QED
    BY <2>3, <2>4, <2>5
<1>5. CASE e = f
  <2>1. state'[e] = "active" /\ holder'[e] = w
    BY <1>1, <1>3, <1>5 DEF Take, QueueTypeOK
  <2>2. Phase(e) = "queued" /\ Phase(e)' = "taken"
    BY <1>1, <1>5, <2>1 DEF Phase
  <2>3. IsFiniteSet(Busy) /\ e \in Source /\ Cardinality(Starting(e)) \in Nat
    BY AtEntry
  <2>4. Cardinality(Starting(e)') = Cardinality(Starting(e)) + 1
    BY <1>2, <1>1, <1>5, <2>3, LocalCounts DEF Bit
  <2>5. Cardinality(Sent(e)') = Cardinality(Sent(e))
    BY <1>1, <1>2, <2>3, SentCounts DEF Bit
  <2>6. Wire(e)' = Wire(e)
    BY <1>1, <2>5 DEF Wire
  <2>7. routed[e] + Cardinality(Starting(e)) <= faults
    <3>1. MayRunAgain(e)
      BY <1>1, <1>5 DEF MayRunAgain
    <3>2. routed[e] + Cardinality(Starting(e)) + 1 <= 1 + faults
      BY <3>1, AtEntry DEF EntryShape
    <3> QED
      BY <3>2, AtEntry
  <2> QED
    BY <1>1, <1>3, <2>2, <2>4, <2>6, <2>7
       DEF Life!Next, Life!Smooth, Life!Take, Life!net, Life!rows
<1> QED
  BY <1>4, <1>5

\* The end of an execution, or of its process: a start is given up if it had not called yet,
\* and a call on its way stays there.
LEMMA EndMoves ==
  ASSUME SchedulerInv, NEW e \in Entry, NEW r \in Runner, NEW next \in {"idle", "done"},
         RunEnds(r, next), UNCHANGED <<executions, routed, effects, placeholders>>,
         IF call[r] = "sent" THEN late' = [late EXCEPT ![run[r]] = @ + 1] ELSE UNCHANGED late
  PROVE  /\ run[r] # e \/ pc[r] \notin {"create", "call"} => RunsStay(e)
         /\ run[r] = e /\ pc[r] \in {"create", "call"} =>
              /\ Cardinality(Starting(e)') = Cardinality(Starting(e)) - 1
              /\ Cardinality(Starting(e)) > 0 /\ Wire(e)' = Wire(e)
<1>1. /\ RunTypes /\ RunShape(r) /\ IsFiniteSet(Busy) /\ e \in Source /\ e # NoRun
      /\ late[e] \in Nat /\ Cardinality(Starting(e)) \in Nat
  BY AtEntry, Sources DEF RunsPart
<1>2. /\ Local(r) /\ run'[r] = NoRun /\ call'[r] = "none"
  BY <1>1 DEF RunEnds, Local, RunTypes
<1>3. Cardinality(Starting(e)') = Cardinality(Starting(e))
        - Bit(run[r] = e /\ pc[r] \in {"create", "call"})
  BY <1>1, <1>2, LocalCounts DEF Bit
<1>4. Wire(e)' = Wire(e)
  <2>1. /\ Cardinality(Sent(e)) \in Nat
        /\ Cardinality(Sent(e)') = Cardinality(Sent(e)) - Bit(run[r] = e /\ call[r] = "sent")
    BY <1>1, <1>2, SentCounts DEF Bit
  <2>2. late'[e] = late[e] + Bit(run[r] = e /\ call[r] = "sent")
    BY <1>1 DEF Bit, RunTypes
  <2> QED
    BY <1>1, <2>1, <2>2 DEF Wire, Bit
<1>5. ASSUME run[r] # e \/ pc[r] \notin {"create", "call"}
      PROVE  RunsStay(e)
  BY <1>1, <1>3, <1>4, <1>5 DEF RunsStay, Bit
<1>6. ASSUME run[r] = e, pc[r] \in {"create", "call"}
      PROVE  /\ Cardinality(Starting(e)') = Cardinality(Starting(e)) - 1
             /\ Cardinality(Starting(e)) > 0
  BY <1>3, <1>6, StartingCounts DEF Bit
<1> QED
  BY <1>4, <1>5, <1>6

\* The worker that still holds the entry completes it, with an outcome on record, or fails it.
LEMMA SettleImplements ==
  ASSUME SchedulerInv, NEW e \in Entry, NEW w \in Runner, Settle(w)
  PROVE  Life(e)!Next
<1>1. /\ w \in Worker /\ w # NoWorker /\ pc[w] = "settle" /\ SettleEntry(w, run[w])
      /\ RunEnds(w, "idle") /\ RunShape(w) /\ QueueTypeOK /\ QueueShape
      /\ UNCHANGED <<executions, stopped, late, routed, effects, placeholders, faults>>
      /\ TargetOf(e)' = TargetOf(e)
  BY AtEntry, QueueAssumption, TargetKeeps DEF Settle, RunsPart, tableVars, clientVars, netVars
<1>2. run[w] \in Entry /\ call[w] = "none" /\ Door(e)' = Door(e)
  <2>1. call[w] = "none"
    BY <1>1, AtEntry DEF RunShape, RunsPart, RunTypes
  <2> QED
    BY <1>1, <2>1 DEF RunShape, Door
<1>3. RunsStay(e)
  BY <1>1, <1>2, EndMoves
<1>4. CASE e # run[w] \/ holder[e] # w
  <2>1. state'[e] = state[e] /\ holder'[e] = holder[e]
    BY <1>1, <1>2, <1>4 DEF SettleEntry, Complete, FailAttempt, QueueTypeOK
  <2> QED
    BY <1>1, <1>3, <2>1, EntryKeeps, Stutters
<1>5. CASE e = run[w] /\ holder[e] = w
  <2>1. Phase(e) = "taken" /\ holder'[e] = NoWorker
    BY <1>1, <1>2, <1>5 DEF QueueShape, SettleEntry, Complete, FailAttempt, QueueTypeOK, Phase
  <2>2. CASE outcome[w] \in Outcome
    <3>1. Phase(e)' = "completed"
      BY <1>1, <1>5, <2>1, <2>2 DEF SettleEntry, Complete, QueueTypeOK, Phase
    <3>2. executions[e]["completed"] + executions[e]["failed"] > 0
      <4>1. w \in RowsOf(e, outcome[w])
        BY <1>1, <1>5, <2>2 DEF RunShape, RowsOf, Outcome
      <4>2. /\ IsFiniteSet(RowsOf(e, outcome[w])) /\ Cardinality(RowsOf(e, outcome[w])) \in Nat
        BY AtEntry, Sizes
      <4>3. Cardinality(RowsOf(e, outcome[w])) > 0
        BY <4>1, <4>2, FS_EmptySet
      <4>4. Cardinality(RowsOf(e, outcome[w])) <= executions[e][outcome[w]]
        BY <2>2, AtEntry DEF Ledger
      <4>5. executions[e]["completed"] \in Nat /\ executions[e]["failed"] \in Nat
        BY AtEntry, RowsTyped
      <4> QED
        BY <2>2, <4>2, <4>3, <4>4, <4>5 DEF Outcome
    <3> QED
      BY <1>1, <1>2, <1>3, <2>1, <3>1, <3>2, QueueMoves
  <2>3. CASE outcome[w] \notin Outcome
    <3>1. Phase(e)' \in {"queued", "failed"}
      BY <1>1, <1>5, <2>1, <2>3 DEF SettleEntry, FailAttempt, QueueTypeOK, Phase
    <3>2. faults > 0
      <4>1. outcome[w] = "thrown"
        BY <1>1, <2>3 DEF RunShape
      <4> QED
        BY <4>1, AtEntry DEF ThrownByFault
    <3> QED
      BY <1>1, <1>2, <1>3, <2>1, <3>1, <3>2, QueueMoves
  <2> QED
    BY <2>2, <2>3
<1> QED
  BY <1>4, <1>5

\* A process dies: the entry it had waits for the stalled check.
LEMMA CrashImplements ==
  ASSUME SchedulerInv, NEW e \in Entry, NEW r \in Runner, Crash(r)
  PROVE  Life(e)!Next
<1>1. /\ QueueTypeOK /\ QueueShape /\ Orphaned(r) /\ faults' = faults + 1 /\ faults \in Nat
      /\ UNCHANGED <<executions, stopped, routed, effects, placeholders>>
      /\ Door(e)' = Door(e) /\ TargetOf(e)' = TargetOf(e)
  BY AtEntry, TargetKeeps DEF Crash, Fault, tableVars, clientVars, Door
<1>2. PICK next \in {"idle", "done"} : RunEnds(r, next)
  BY DEF Crash
<1>3. IF call[r] = "sent" THEN late' = [late EXCEPT ![run[r]] = @ + 1] ELSE UNCHANGED late
  BY DEF Crash
<1>4. /\ run[r] # e \/ pc[r] \notin {"create", "call"} => RunsStay(e)
      /\ run[r] = e /\ pc[r] \in {"create", "call"} =>
           /\ Cardinality(Starting(e)') = Cardinality(Starting(e)) - 1
           /\ Cardinality(Starting(e)) > 0 /\ Wire(e)' = Wire(e)
  BY <1>1, <1>2, <1>3, EndMoves
<1>5. \/ Phase(e)' = Phase(e)
      \/ run[r] = e /\ Phase(e) = "taken" /\ Phase(e)' = "queued"
  <2>1. state'[e] = state[e] /\ holder'[e] = (IF holder[e] = r THEN NoWorker ELSE holder[e])
    BY <1>1 DEF Orphaned
  <2>2. CASE holder[e] = r /\ r # NoWorker
    BY <1>1, <2>1, <2>2 DEF QueueShape, Phase
  <2>3. CASE holder[e] # r \/ r = NoWorker
    BY <2>1, <2>3 DEF Phase
  <2> QED
    BY <2>2, <2>3
<1>6. CASE run[r] # e \/ pc[r] \notin {"create", "call"}
  <2>1. RunsStay(e)
    BY <1>4, <1>6
  <2>2. CASE Phase(e)' = Phase(e)
    BY <1>1, <2>1, <2>2, Stutters DEF EntryStays
  <2>3. CASE Phase(e) = "taken" /\ Phase(e)' = "queued"
    <3>1. faults' > 0
      BY <1>1
    <3> QED
      BY <1>1, <2>1, <2>3, <3>1, QueueMoves
  <2> QED
    BY <1>5, <2>2, <2>3
<1>7. CASE run[r] = e /\ pc[r] \in {"create", "call"}
  <2>1. /\ Cardinality(Starting(e)') = Cardinality(Starting(e)) - 1
        /\ Cardinality(Starting(e)) > 0 /\ Wire(e)' = Wire(e)
    BY <1>4, <1>7
  <2>2. \/ Phase(e)' = Phase(e)
        \/ Phase(e) = "taken" /\ Phase(e)' = "queued"
    BY <1>5
  <2> QED
    BY <1>1, <2>1, <2>2
       DEF Life!Next, Life!Mishap, Life!Abandon, Life!entry, Life!net
<1> QED
  BY <1>6, <1>7

\* Direct executions are for no entry.
LEMMA CallerImplements ==
  ASSUME SchedulerInv, NEW e \in Entry, NEW r \in Caller,
         ExecuteDirectly(r) \/ AnswerCaller(r)
  PROVE  Life(e)!Next
<1>1. /\ r \in Runner /\ RunTypes /\ RunShape(r) /\ e \notin DirectOf /\ e # NoRun
      /\ UNCHANGED <<queueVars, executions, stopped, late, routed, effects, placeholders, faults>>
      /\ TargetOf(e)' = TargetOf(e)
  BY AtEntry, Sources, TargetKeeps
     DEF ExecuteDirectly, Begin, AnswerCaller, Runner, RunsPart, tableVars, clientVars, netVars
<1>2. EntryStays(e)
  BY <1>1, EntryKeeps DEF queueVars
<1>3. CASE ExecuteDirectly(r)
  <2>1. Local(r) /\ run'[r] \in DirectOf /\ run[r] = NoRun
    <3>1. PICK j \in Job : Begin(r, Direct(j))
      BY <1>3 DEF ExecuteDirectly
    <3> QED
      BY <1>1, <3>1 DEF Begin, DirectOf, Local, RunTypes, RunShape
  <2>2. RunsStay(e)
    BY <1>1, <2>1, OtherRuns
  <2> QED
    BY <1>1, <1>2, <2>2, Stutters
<1>4. CASE AnswerCaller(r)
  <2>1. RunEnds(r, "done") /\ pc[r] = "settle"
    BY <1>4 DEF AnswerCaller
  <2>2. call[r] # "sent"
    BY <1>1, <2>1 DEF RunShape
  <2>3. RunsStay(e)
    BY <1>1, <2>1, <2>2, EndMoves
  <2> QED
    BY <1>1, <1>2, <2>3, Stutters
<1> QED
  BY <1>3, <1>4

-----------------------------------------------------------------------------
(* The refinement                                                           *)

LEMMA LifeInitial ==
  ASSUME Init, NEW e \in Entry
  PROVE  Life(e)!Init
<1>1. e \in Source /\ e # NoRun
  BY Sources
<1>2. Phase(e) = "none" /\ Door(e) = "open"
  BY DEF Init, QueueInit, Phase, Door
<1>3. Starting(e) = {} /\ Sent(e) = {}
  BY <1>1 DEF Init, Starting, Sent
<1>4. Cardinality(Starting(e)) = 0 /\ Wire(e) = 0
  BY <1>1, <1>3, FS_EmptySet DEF Init, Wire
<1>5. /\ routed[e] = 0 /\ effects[e] = 0 /\ placeholders[e] = 0 /\ faults = 0
      /\ \A k \in RowStatus : executions[e][k] = 0
  BY <1>1 DEF Init, RowStatus
<1>6. /\ executions[e]["running"] = 0 /\ executions[e]["completed"] = 0
      /\ executions[e]["failed"] = 0
  BY <1>5 DEF RowStatus, Outcome
<1>7. TargetOf(e) = "absent"
  BY Sources DEF Init, TargetOf, NoSchedule
<1> QED
  BY <1>2, <1>4, <1>5, <1>6, <1>7 DEF Life!Init

\* Each step of the scheduler is a step of the entry's life, or leaves it alone.
LEMMA LifeImplements ==
  ASSUME SchedulerInv, [Next]_vars, NEW e \in Entry
  PROVE  Life(e)!Next
<1>1. ASSUME UNCHANGED <<queueVars, schedules, runVars, executions, netVars, stopped, faults>>
      PROVE  Life(e)!Next
  <2>1. RunsStay(e)
    BY <1>1, RunsKeep
  <2>2. TargetOf(e)' = TargetOf(e)
    <3>1. CASE schedules[e[1]].type = "absent"
      BY <1>1, <3>1, Sources DEF TargetOf
    <3>2. CASE schedules[e[1]].type # "absent"
      <4>1. TargetOf(e) # "absent" /\ TargetsStay
        BY <3>2, HasTarget, InvParts, NextTables, TablesKept
      <4> QED
        BY <4>1, Sources DEF TargetsStay
    <3> QED
      BY <3>1, <3>2
  <2>3. EntryStays(e)
    BY <1>1, <2>2, EntryKeeps DEF queueVars
  <2> QED
    BY <1>1, <2>1, <2>3, Stutters
<1>2. CASE (\E j \in Job : CreateJob(j)) \/ UNCHANGED vars
  BY <1>1, <1>2 DEF CreateJob, vars, tableVars, clientVars
<1>3. ASSUME NEW r \in Runner, RunnerStep(r)
      PROVE  Life(e)!Next
  BY <1>3, CreateImplements, CreateFailsImplements, CallImplements, AcceptImplements,
     ReplyImplements, SaveImplements, SettleImplements, CrashImplements
     DEF RunnerStep, Progress
<1> QED
  BY <1>2, <1>3, ClientImplements, ProcessImplements, CallerImplements, StallImplements,
     AcceptImplements, AdminImplements DEF Next

\* Every entry of every behaviour lives the life that JobExecution promises, for every number
\* of schedules, workers, requests, operators, iterations, attempts and faults.
THEOREM EntriesAreExecuted == Spec => ExecutionPromised
<1>1. Init => \A e \in Entry : Life(e)!Init
  BY LifeInitial
<1>2. SchedulerInv /\ [Next]_vars
        => [\A e \in Entry : Life(e)!Next \/ UNCHANGED Life(e)!vars]_vars
  BY LifeImplements
<1> QED
  BY <1>1, <1>2, SchedulerInvariant, PTL DEF Spec, ExecutionPromised
=============================================================================
