-------------------------- MODULE GrpcServerProofs --------------------------
(* Theorems about the whole scheduling part: what SchedulerProofs shows of   *)
(* the scheduler holds beside the monitoring and the gRPC handlers, whatever *)
(* methods are bound, and so does what the health reports say of the queues. *)
EXTENDS GrpcServer, ExecutionProofs, WellFoundedInduction

-----------------------------------------------------------------------------
(* The scheduler under steps of the readers and the handlers                *)

SchedulesType ==
  [Schedule -> [type : ScheduleType \cup {"absent"}, isActive : BOOLEAN, job : Job \cup {NoJob}]]

\* A step that deactivates schedules or is a fault, and leaves the rest of the scheduler alone.
Beside ==
  /\ UNCHANGED <<queueVars, jobs, executions, runVars, clientVars, adminVars, netVars>>
  /\ schedules' \in SchedulesType
  /\ \A s \in Schedule : /\ schedules'[s].type = schedules[s].type
                         /\ schedules'[s].job = schedules[s].job
  /\ faults' = faults \/ Fault

LEMMA BesideTargets ==
  ASSUME Beside, NEW x \in Source
  PROVE  TargetOf(x)' = TargetOf(x)
<1>1. CASE x[2] = 0
  BY <1>1 DEF Beside, TargetOf
<1>2. CASE x[2] # 0
  <2>1. x[1] \in Schedule
    BY <1>2, Sources DEF Source
  <2> QED
    BY <1>2, <2>1 DEF Beside, TargetOf
<1> QED
  BY <1>1, <1>2

LEMMA BesideInv ==
  ASSUME SchedulerInv, Beside
  PROVE  SchedulerInv'
<1> USE DEF queueVars, runVars, clientVars, adminVars, netVars
<1>1. /\ RunsPart /\ OtherTypes /\ QueueShape /\ ThrownByFault
      /\ TargetsInv /\ \A e \in Entry : EntryShape(e)
  BY InvParts
<1>2. faults \in Nat /\ faults' \in 0..MaxFaults /\ faults' \in {faults, faults + 1}
  BY <1>1, FaultType DEF Beside, RunsPart, RunTypes
<1>3. RunsPart'
  <2>1. /\ late' \in [Source -> Nat] /\ effects' \in [Source -> Nat]
        /\ \A x \in Source : effects'[x] >= effects[x]
    BY <1>1 DEF Beside, RunsPart, RunTypes
  <2> QED
    BY <1>1, <1>2, <2>1, QuietRuns DEF Beside
<1>4. OtherTypes'
  BY <1>1 DEF Beside, OtherTypes, QueueTypeOK, SchedulesType
<1>5. QueueShape'
  BY <1>1 DEF Beside, QueueShape
<1>6. ThrownByFault'
  BY <1>1, <1>2 DEF Beside, ThrownByFault
<1>7. ASSUME NEW e \in Entry
      PROVE  EntryShape(e)'
  <2>1. /\ Starting(e)' = Starting(e) /\ MayRunAgain(e)' = MayRunAgain(e)
        /\ ExecutedRows(e)' = ExecutedRows(e)
    BY DEF Beside, Starting, MayRunAgain, ExecutedRows
  <2>2. /\ routed[e] \in Nat /\ Cardinality(Starting(e)) \in Nat /\ EntryShape(e)
        /\ executions[e]["completed"] \in Nat /\ executions[e]["failed"] \in Nat
    BY <1>1, Sources, Sizes DEF RunsPart, RunTypes, RowStatus, Outcome
  <2>3. /\ routed'[e] = routed[e] /\ executions'[e] = executions[e]
        /\ state'[e] = state[e] /\ holder'[e] = holder[e]
    BY DEF Beside
  <2>4. faults' >= faults /\ (faults' = 0 => faults = 0)
    BY <1>2
  <2>5. routed'[e] + Cardinality(Starting(e)') + (IF MayRunAgain(e)' THEN 1 ELSE 0) <= 1 + faults'
    BY <1>2, <2>1, <2>2, <2>3, <2>4 DEF EntryShape
  <2> QED
    BY <2>2, <2>3, <2>4, <2>5 DEF EntryShape
<1>8. TargetsInv'
  <2>1. jobs' = jobs /\ placeholders' = placeholders
    BY DEF Beside
  <2>2. \A x \in Source : TargetOf(x)' = TargetOf(x)
    BY BesideTargets
  <2>3. \A s \in Schedule : /\ schedules'[s].type = schedules[s].type
                           /\ schedules'[s].job = schedules[s].job
    BY DEF Beside
  <2> QED
    BY <1>1, <2>1, <2>2, <2>3 DEF TargetsInv
<1>9. TypeOK'
  BY <1>3, <1>4 DEF TypeOK, RunsPart, RunTypes, OtherTypes, RowStatus
<1>10. \A e \in Entry : EntryShape(e)'
  BY <1>7
<1>11. RunsInv'
  BY <1>3, <1>9 DEF RunsInv, RunsPart
<1> QED
  BY <1>5, <1>6, <1>8, <1>10, <1>11 DEF SchedulerInv, ThrownByFault

\* What a reader or a handler does to the scheduler.
LEMMA OthersAreBeside ==
  ASSUME SchedulerInv, NEW m \in Reader, ReaderStep(m) \/ GrpcStep(m)
  PROVE  UNCHANGED vars \/ Beside
<1>1. schedules \in SchedulesType
  BY DEF SchedulerInv, RunsInv, TypeOK, SchedulesType
<1>2. CASE ReadFails(m)
  BY <1>1, <1>2 DEF ReadFails, Beside, tableVars
<1>3. CASE GrpcCancelSchedule(m)
  <2>1. CASE UNCHANGED schedules
    BY <1>1, <1>3, <2>1 DEF GrpcCancelSchedule, Beside
  <2>2. ASSUME NEW s \in Schedule, schedules' = [schedules EXCEPT ![s].isActive = FALSE]
        PROVE  Beside
    <3> DEFINE new == [schedules[s] EXCEPT !.isActive = FALSE]
    <3>1. /\ schedules' = [schedules EXCEPT ![s] = new]
          /\ new \in [type : ScheduleType \cup {"absent"}, isActive : BOOLEAN,
                      job : Job \cup {NoJob}]
          /\ new.type = schedules[s].type /\ new.job = schedules[s].job
      BY <1>1, <2>2 DEF SchedulesType
    <3> HIDE DEF new
    <3>2. schedules' \in SchedulesType
      BY <1>1, <3>1 DEF SchedulesType
    <3>3. \A t \in Schedule : /\ schedules'[t].type = schedules[t].type
                             /\ schedules'[t].job = schedules[t].job
      BY <1>1, <3>1 DEF SchedulesType
    <3> QED
      BY <1>3, <3>2, <3>3 DEF GrpcCancelSchedule, Beside
  <2> QED
    BY <1>3, <2>1, <2>2 DEF GrpcCancelSchedule, Deactivated
<1>4. CASE ReaderStep(m) /\ ~ReadFails(m)
  BY <1>4 DEF ReaderStep, CheckHealth, GetMetrics, GetCategoryMetrics, Ask, ReadQueue, ReadTable,
              Answer
<1>5. CASE GrpcStep(m) /\ ~GrpcCancelSchedule(m)
  BY <1>5 DEF GrpcStep, Unimplemented, GrpcCreateJob, GrpcGetJob, GrpcScheduleJob,
              GrpcExecuteJob, GrpcHealthCheck, GrpcGetMetrics, CheckHealth, GetMetrics, Ask
<1> QED
  BY <1>2, <1>3, <1>4, <1>5

LEMMA SystemSteps ==
  ASSUME SchedulerInv, [SystemNext]_allVars
  PROVE  [Next]_vars \/ Beside
BY OthersAreBeside DEF SystemNext, allVars

LEMMA SchedulerBeside ==
  ASSUME SchedulerInv, [SystemNext]_allVars
  PROVE  SchedulerInv'
BY SystemSteps, BesideInv, InvStep

-----------------------------------------------------------------------------
(* Totals over finite sets                                                  *)

\* Induction, as the least number of a set: the order of the naturals is well-founded.
LEMMA LeastNat ==
  ASSUME NEW T \in SUBSET Nat, T # {}
  PROVE  \E n \in T : \A k \in T : n <= k
<1> DEFINE Less == {p \in Nat \X Nat : p[1] < p[2]}
<1>1. IsWellFoundedOn(Less, Nat)
  BY NatLessThanWellFounded, Zenon DEF OpToRel
<1> HIDE DEF Less
<1>2. PICK n \in T : \A k \in T : ~(<<k, n>> \in Less)
  BY <1>1, WFMin
<1>3. ASSUME NEW k \in T
      PROVE  n <= k
  <2>1. n \in Nat /\ k \in Nat
    OBVIOUS
  <2>2. ~(k < n)
    BY <1>2, <2>1 DEF Less
  <2> QED
    BY <2>1, <2>2
<1> QED
  BY <1>3

\* The element that a total takes next.
Pick(s) == CHOOSE x \in s : TRUE

LEMMA PickIn ==
  ASSUME NEW s, s # {}
  PROVE  Pick(s) \in s
BY DEF Pick

\* F is the total of g over each set of D.
Adds(F, g, D) == F = [s \in D |-> IF s = {} THEN 0 ELSE g[Pick(s)] + F[s \ {Pick(s)}]]

LEMMA Fewer ==
  ASSUME NEW s, IsFiniteSet(s), s # {}
  PROVE  /\ Cardinality(s) \in Nat \ {0} /\ IsFiniteSet(s \ {Pick(s)})
         /\ Cardinality(s \ {Pick(s)}) = Cardinality(s) - 1
<1>1. Pick(s) \in s /\ Cardinality(s) \in Nat /\ Cardinality(s) # 0
  BY PickIn, FS_CardinalityType, FS_EmptySet
<1> QED
  BY <1>1, FS_RemoveElement

\* The recursion of a total is well-founded on finite sets, so a function satisfies it: the
\* least number of elements for which none does cannot be 0 and cannot have a predecessor.
LEMMA SumsExist ==
  ASSUME NEW S, IsFiniteSet(S), NEW g
  PROVE  \E F : Adds(F, g, SUBSET S)
<1> DEFINE D(n) == {s \in SUBSET S : Cardinality(s) <= n}
           T == {n \in Nat : ~ \E F : Adds(F, g, D(n))}
<1>0. \A s \in SUBSET S : IsFiniteSet(s) /\ Cardinality(s) \in Nat
  BY FS_Subset, FS_CardinalityType
<1>1. T = {}
  <2> SUFFICES ASSUME T # {}
               PROVE  FALSE
    OBVIOUS
  <2>1. PICK n \in T : \A k \in T : n <= k
    <3> T \in SUBSET Nat
      OBVIOUS
    <3> HIDE DEF T
    <3> QED
      BY LeastNat
  <2>2. n \in Nat /\ ~ \E F : Adds(F, g, D(n))
    OBVIOUS
  <2>3. CASE n = 0
    <3>1. D(0) = {{}}
      <4>1. \A s \in SUBSET S : Cardinality(s) <= 0 <=> s = {}
        BY <1>0, FS_EmptySet
      <4> QED
        BY <4>1
    <3>2. Adds([s \in D(0) |-> 0], g, D(0))
      BY <3>1 DEF Adds
    <3> QED
      BY <2>2, <2>3, <3>2
  <2>4. CASE n # 0
    <3>1. n - 1 \in Nat /\ n - 1 \notin T
      <4>1. n - 1 \in Nat /\ ~(n <= n - 1)
        BY <2>2, <2>4
      <4> HIDE DEF T
      <4> QED
        BY <2>1, <4>1
    <3>2. PICK F : Adds(F, g, D(n - 1))
      BY <3>1
    <3> DEFINE G == [s \in D(n) |-> IF s = {} THEN 0 ELSE g[Pick(s)] + F[s \ {Pick(s)}]]
    <3>3. ASSUME NEW s \in D(n), s # {}
          PROVE  s \ {Pick(s)} \in D(n - 1) /\ s \ {Pick(s)} \in D(n)
      <4>1. /\ Cardinality(s) \in Nat /\ Cardinality(s) <= n
            /\ Cardinality(s \ {Pick(s)}) = Cardinality(s) - 1
            /\ s \ {Pick(s)} \in SUBSET S
        BY <1>0, <3>3, Fewer
      <4> QED
        BY <2>2, <4>1
    <3>4. ASSUME NEW s \in D(n - 1)
          PROVE  s \in D(n) /\ G[s] = F[s]
      <4>1. s \in D(n)
        BY <1>0, <2>2
      <4>2. F[s] = IF s = {} THEN 0 ELSE g[Pick(s)] + F[s \ {Pick(s)}]
        BY <3>2 DEF Adds
      <4> QED
        BY <4>1, <4>2
    <3>5. Adds(G, g, D(n))
      <4>1. \A s \in D(n) : s # {} => G[s \ {Pick(s)}] = F[s \ {Pick(s)}]
        BY <3>3, <3>4
      <4> HIDE DEF D
      <4> QED
        BY <4>1 DEF Adds
    <3> QED
      BY <2>2, <3>5
  <2> QED
    BY <2>3, <2>4
<1>2. D(Cardinality(S)) = SUBSET S
  BY <1>0, FS_Subset
<1>3. Cardinality(S) \in Nat
  BY FS_CardinalityType
<1> QED
  BY <1>1, <1>2, <1>3

\* A total is what the fold of the library makes of it.
LEMMA TotalAdds ==
  ASSUME NEW S, IsFiniteSet(S), NEW g
  PROVE  \E G : Adds(G, g, SUBSET S) /\ Total(g, S) = G[S]
<1> DEFINE G == CHOOSE H : Adds(H, g, SUBSET S)
<1>1. PICK F : Adds(F, g, SUBSET S)
  BY SumsExist
<1>2. Adds(G, g, SUBSET S)
  BY <1>1 DEF Adds
<1>3. Total(g, S) = G[S]
  BY DEF Total, MapThenSumSet, MapThenFoldSet, Pick, Adds
<1> QED
  BY <1>2, <1>3

\* Totals of natural numbers are natural numbers, in the order of their terms.
LEMMA TotalsOrdered ==
  ASSUME NEW S, IsFiniteSet(S), NEW f, NEW g,
         \A x \in S : f[x] \in Nat /\ g[x] \in Nat /\ f[x] <= g[x]
  PROVE  /\ Total(f, S) \in Nat /\ Total(g, S) \in Nat
         /\ Total(f, S) <= Total(g, S)
<1>1. PICK F : Adds(F, f, SUBSET S) /\ Total(f, S) = F[S]
  BY TotalAdds
<1>2. PICK G : Adds(G, g, SUBSET S) /\ Total(g, S) = G[S]
  BY TotalAdds
<1> DEFINE Ordered(s) == F[s] \in Nat /\ G[s] \in Nat /\ F[s] <= G[s]
           T == {n \in Nat : \E s \in SUBSET S : Cardinality(s) = n /\ ~Ordered(s)}
<1>3. ASSUME NEW n \in T, \A k \in T : n <= k
      PROVE  FALSE
  <2>1. PICK s \in SUBSET S : Cardinality(s) = n /\ ~Ordered(s)
    OBVIOUS
  <2>2. CASE s = {}
    <3>1. F[s] = 0 /\ G[s] = 0
      BY <1>1, <1>2, <2>2 DEF Adds
    <3> QED
      BY <2>1, <3>1
  <2>3. CASE s # {}
    <3> DEFINE x == Pick(s)
               t == s \ {x}
    <3>1. /\ x \in S /\ t \in SUBSET S /\ n \in Nat /\ Cardinality(t) \in Nat
          /\ ~(n <= Cardinality(t))
      <4>1. IsFiniteSet(s)
        BY FS_Subset
      <4>2. /\ Cardinality(s) \in Nat \ {0} /\ IsFiniteSet(t)
            /\ Cardinality(t) = Cardinality(s) - 1
        BY <2>3, <4>1, Fewer
      <4>3. Pick(s) \in S
        BY <2>3, PickIn
      <4> QED
        BY <2>1, <4>2, <4>3
    <3>2. Ordered(t)
      <4>1. Cardinality(t) \notin T
        <5> HIDE DEF T, t
        <5> QED
          BY <1>3, <3>1
      <4> HIDE DEF Ordered, t
      <4> QED
        BY <3>1, <4>1
    <3>3. F[s] = f[x] + F[t] /\ G[s] = g[x] + G[t]
      BY <1>1, <1>2, <2>3 DEF Adds
    <3> HIDE DEF x, t
    <3>4. Ordered(s)
      BY <3>1, <3>2, <3>3
    <3> QED
      BY <2>1, <3>4
  <2> QED
    BY <2>2, <2>3
<1>4. T = {}
  <2> T \in SUBSET Nat
    OBVIOUS
  <2> HIDE DEF T
  <2> QED
    BY <1>3, LeastNat
<1>5. Ordered(S)
  <2>1. Cardinality(S) \in Nat
    BY FS_CardinalityType
  <2> HIDE DEF Ordered
  <2> QED
    BY <1>4, <2>1
<1> QED
  BY <1>1, <1>2, <1>5

LEMMA TotalOfOne ==
  ASSUME NEW h, NEW k, h[k] \in Nat
  PROVE  Total(h, {k}) = h[k]
<1>1. PICK F : Adds(F, h, SUBSET {k}) /\ Total(h, {k}) = F[{k}]
  BY FS_Singleton, TotalAdds
<1>2. Pick({k}) = k
  BY PickIn
<1>3. F[{}] = 0 /\ F[{k}] = h[k] + F[{k} \ {k}]
  BY <1>1, <1>2 DEF Adds
<1>4. {k} \ {k} = {} /\ h[k] + 0 = h[k]
  OBVIOUS
<1> QED
  BY <1>1, <1>3, <1>4

-----------------------------------------------------------------------------
(* The reports                                                              *)

LEMMA SourceFinite == IsFiniteSet(Entry) /\ IsFiniteSet(Source)
<1>1. IsFiniteSet(1..MaxIterations)
  BY QueueAssumption, FS_Interval
<1>2. IsFiniteSet(Entry)
  BY <1>1, MonitoringAssumption, FS_Product DEF Entry
<1>3. IsFiniteSet(DirectOf)
  <2>1. DirectOf = Job \X {0}
    BY DEF DirectOf, Direct
  <2>2. IsFiniteSet({0})
    BY FS_Singleton
  <2> QED
    BY <2>1, <2>2, MonitoringAssumption, FS_Product
<1> QED
  BY <1>2, <1>3, FS_Union DEF Source

\* What the queue holds can be counted.
LEMMA QueueCounted ==
  /\ \A k : CountInQueue(k) \in Nat
  /\ SchedulerInv /\ faults = 0 => CountInQueue("failed") = 0
<1>1. IsFiniteSet(Entry)
  BY SourceFinite
<1>2. ASSUME NEW k
      PROVE  Cardinality({e \in Entry : state[e] = k}) \in Nat
  <2>1. {e \in Entry : state[e] = k} \subseteq Entry
    OBVIOUS
  <2> QED
    BY <1>1, <2>1, FS_Subset, FS_CardinalityType
<1>3. ASSUME SchedulerInv, faults = 0
      PROVE  CountInQueue("failed") = 0
  <2>1. {e \in Entry : state[e] = "failed"} = {}
    BY <1>3 DEF SchedulerInv, EntryShape
  <2> QED
    BY <2>1, FS_EmptySet DEF CountInQueue
<1> QED
  BY <1>2, <1>3 DEF CountInQueue

\* The results so far, and the rows that say so.
LEMMA ResultsCounted ==
  ASSUME SchedulerInv
  PROVE  /\ Total(Results, Source) \in Nat
         /\ CountInTable("completed") \in Nat
         /\ CountInTable("completed") <= Total(Results, Source)
<1> DEFINE done == [x \in Source |-> Total(executions[x], {"completed"})]
<1>1. ASSUME NEW x \in Source
      PROVE  /\ done[x] \in Nat /\ Results[x] \in Nat /\ done[x] <= Results[x]
  <2>1. executions[x]["completed"] \in Nat /\ effects[x] \in Nat /\ placeholders[x] \in Nat
    BY InvParts DEF RunsPart, RunTypes, RowStatus, Outcome
  <2>2. executions[x]["completed"] <= effects[x] + placeholders[x]
    BY InvEffects DEF CompletedWasDone
  <2>3. done[x] = executions[x]["completed"]
    BY <2>1, TotalOfOne
  <2>4. Results[x] = effects[x] + placeholders[x]
    BY DEF Results
  <2> HIDE DEF done
  <2> QED
    BY <2>1, <2>2, <2>3, <2>4
<1>2. CountInTable("completed") = Total(done, Source)
  BY DEF CountInTable
<1> HIDE DEF done
<1> QED
  BY <1>1, <1>2, SourceFinite, TotalsOrdered

\* A queue without failed jobs is healthy, whatever the threshold.
LEMMA NoFailureIsHealthy ==
  ASSUME NEW all \in Nat
  PROVE  Healthy(all, 0)
<1>1. PICK p \in 0..100 : p = HEALTHY_PERCENT
  BY MonitoringAssumption
<1>2. 100 * all >= p * all
  <2>1. 100 * all = p * all + (100 - p) * all
    OBVIOUS
  <2>2. (100 - p) * all >= 0
    BY <1>1
  <2> QED
    BY <2>1, <2>2
<1> QED
  BY <1>1, <1>2 DEF Healthy

LEMMA FaultsStay ==
  ASSUME SchedulerInv, [SystemNext]_allVars
  PROVE  faults \in Nat /\ faults' \in Nat /\ faults' >= faults
<1>1. faults \in Nat /\ faults' \in Nat
  <2>1. faults \in 0..MaxFaults
    BY DEF SchedulerInv, RunsInv, TypeOK
  <2>2. faults' \in 0..MaxFaults
    BY SchedulerBeside DEF SchedulerInv, RunsInv, TypeOK
  <2> QED
    BY <2>1, <2>2, SchedulerAssumption
<1>2. CASE Beside
  BY <1>1, <1>2 DEF Beside, Fault
<1>3. CASE Next
  <2>1. ASSUME NEW r \in Runner, RunnerStep(r)
        PROVE  faults' = faults \/ Fault
    BY <2>1 DEF RunnerStep, Progress, CreateExecution, ExecuteJobByService, ReplyOk, ReplyError,
                SaveOutcome, Settle, CreateFails, SaveFails, Crash, Accept
  <2>2. CASE \/ \E w \in Worker, e \in Entry : Process(w, e)
             \/ \E r \in Caller : ExecuteDirectly(r) \/ AnswerCaller(r)
             \/ \E x \in Source : AcceptLate(x)
    BY <1>1, <2>2 DEF Process, ExecuteDirectly, Begin, AnswerCaller, AcceptLate
  <2>3. faults' = faults \/ Fault => faults' >= faults
    BY <1>1 DEF Fault
  <2> QED
    BY <1>1, <1>3, <2>1, <2>2, <2>3, OutsideRuns DEF Next
<1>4. CASE UNCHANGED vars
  BY <1>1, <1>4 DEF vars
<1> QED
  BY <1>2, <1>3, <1>4, SystemSteps

\* No accepted call is taken back, and no placeholder.
LEMMA EffectsGrow ==
  ASSUME SchedulerInv, [SystemNext]_allVars
  PROVE  \A x \in Source : effects[x] <= effects'[x]
<1>1. effects \in [Source -> Nat] /\ effects' \in [Source -> Nat]
  BY SchedulerBeside DEF SchedulerInv, RunsInv, TypeOK
<1>2. \A x \in Source : effects[x] <= effects'[x]
  <2>1. CASE effects' = effects
    BY <1>1, <2>1
  <2>2. ASSUME NEW x, effects' = [effects EXCEPT ![x] = @ + 1]
        PROVE  \A y \in Source : effects[y] <= effects'[y]
    BY <1>1, <2>2
  <2>3. CASE Next
    <3>1. ASSUME NEW r \in Runner, RunnerStep(r)
          PROVE  effects' = effects \/ \E x : effects' = [effects EXCEPT ![x] = @ + 1]
      BY <3>1 DEF RunnerStep, Progress, CreateExecution, ExecuteJobByService, ReplyOk, ReplyError,
                  SaveOutcome, Settle, CreateFails, SaveFails, Crash, Accept, netVars
    <3>2. CASE \/ \E w \in Worker, e \in Entry : Process(w, e)
               \/ \E r \in Caller : ExecuteDirectly(r) \/ AnswerCaller(r)
      BY <2>1, <3>2 DEF Process, ExecuteDirectly, Begin, AnswerCaller, netVars
    <3>3. CASE \E x \in Source : AcceptLate(x)
      BY <2>2, <3>3 DEF AcceptLate
    <3>4. UNCHANGED netVars => effects' = effects
      BY DEF netVars
    <3> QED
      BY <2>1, <2>2, <2>3, <3>1, <3>2, <3>3, <3>4, OutsideRuns DEF Next
  <2>4. CASE Beside \/ UNCHANGED vars
    BY <2>1, <2>4 DEF Beside, netVars, vars
  <2> QED
    BY <2>3, <2>4, SystemSteps
<1> QED
  BY <1>2

LEMMA PlaceholdersGrow ==
  ASSUME SchedulerInv, [SystemNext]_allVars
  PROVE  \A x \in Source : placeholders[x] <= placeholders'[x]
<1>1. RunsPart /\ placeholders \in [Source -> Nat]
  BY InvParts DEF RunsPart, RunTypes
<1>2. CASE [Next]_vars
  BY <1>1, <1>2, PlaceholdersStep
<1>3. CASE Beside
  BY <1>1, <1>3 DEF Beside, netVars
<1> QED
  BY <1>2, <1>3, SystemSteps

LEMMA ResultsGrow ==
  ASSUME SchedulerInv, [SystemNext]_allVars
  PROVE  /\ Total(Results, Source) \in Nat /\ Total(Results', Source) \in Nat
         /\ Total(Results, Source) <= Total(Results', Source)
<1>1. /\ effects \in [Source -> Nat] /\ placeholders \in [Source -> Nat]
      /\ effects' \in [Source -> Nat] /\ placeholders' \in [Source -> Nat]
  BY SchedulerBeside DEF SchedulerInv, RunsInv, TypeOK
<1>2. ASSUME NEW x \in Source
      PROVE  Results[x] \in Nat /\ Results'[x] \in Nat /\ Results[x] <= Results'[x]
  <2>1. Results[x] = effects[x] + placeholders[x] /\ Results'[x] = effects'[x] + placeholders'[x]
    BY DEF Results
  <2>2. effects[x] <= effects'[x] /\ placeholders[x] <= placeholders'[x]
    BY EffectsGrow, PlaceholdersGrow
  <2> QED
    BY <1>1, <2>1, <2>2
<1> QED
  BY <1>2, SourceFinite, TotalsOrdered

\* What the invariant says of one reader.
ReaderShape(m) ==
  /\ DOMAIN report[m] = Field /\ report[m].completed \in Nat
  /\ asked[m] = "none" => report[m] = NoReport
  /\ HealthShape(m)
  /\ verdict[m] = "queues down" => faults > 0
  /\ report[m].completed <= Total(Results, Source)

LEMMA ReaderParts ==
  ReadersInv <=> /\ asked \in [Reader -> Kind \cup {"none", "answered"}]
                 /\ DOMAIN report = Reader /\ DOMAIN verdict = Reader
                 /\ \A m \in Reader : ReaderShape(m)
BY DEF ReadersInv, ReaderShape, QueuesDownOnlyByFaults, ReportedWasDone

\* A reader that does not move keeps what it has: neither faults nor results are taken
\* back.
LEMMA ReaderKept ==
  ASSUME SchedulerInv, ReadersInv, [SystemNext]_allVars, NEW m \in Reader,
         asked'[m] = asked[m], report'[m] = report[m], verdict'[m] = verdict[m]
  PROVE  ReaderShape(m)'
<1>1. faults \in Nat /\ faults' \in Nat /\ (faults' = 0 => faults = 0)
  BY FaultsStay
<1>2. /\ Total(Results, Source) \in Nat /\ Total(Results', Source) \in Nat
      /\ Total(Results, Source) <= Total(Results', Source)
  BY ResultsGrow
<1>3. ReaderShape(m)
  BY ReaderParts
<1>4. HealthShape(m)'
  BY <1>1, <1>3 DEF ReaderShape, HealthShape
<1>5. ASSUME verdict'[m] = "queues down"
      PROVE  faults' > 0
  <2>1. faults > 0
    BY <1>3, <1>5 DEF ReaderShape
  <2> QED
    BY <1>1, <2>1
<1>6. /\ DOMAIN report'[m] = Field /\ report'[m].completed \in Nat
      /\ asked'[m] = "none" => report'[m] = NoReport
      /\ report'[m].completed <= Total(Results, Source)
  BY <1>3 DEF ReaderShape
<1>7. report'[m].completed <= Total(Results', Source)
  BY <1>2, <1>6
<1> QED
  BY <1>4, <1>5, <1>6, <1>7 DEF ReaderShape

\* What is left to show of a step of reader m.
LEMMA ReaderPart ==
  ASSUME SchedulerInv, ReadersInv, [SystemNext]_allVars, NEW m \in Reader,
         asked' \in [Reader -> Kind \cup {"none", "answered"}],
         DOMAIN report' = Reader, DOMAIN verdict' = Reader,
         \A n \in Reader \ {m} : /\ asked'[n] = asked[n] /\ report'[n] = report[n]
                                 /\ verdict'[n] = verdict[n],
         ReaderShape(m)'
  PROVE  ReadersInv'
<1>1. ASSUME NEW n \in Reader
      PROVE  ReaderShape(n)'
  <2>1. CASE n = m
    BY <2>1
  <2>2. CASE n # m
    BY <2>2, ReaderKept
  <2> QED
    BY <2>1, <2>2
<1> QED
  BY <1>1 DEF ReaderShape, ReadersInv, QueuesDownOnlyByFaults, ReportedWasDone

LEMMA NothingCounted ==
  /\ NoReport \in [Field -> Nat] /\ DOMAIN NoReport = Field
  /\ NoReport.failedJobs = 0 /\ NoReport.jobs = 0 /\ NoReport.completed = 0
BY DEF NoReport, Field

LEMMA AskReaders ==
  ASSUME SchedulerInv, ReadersInv, [SystemNext]_allVars, NEW m \in Reader, NEW kind \in Kind,
         Ask(m, kind)
  PROVE  ReadersInv'
<1>1. /\ asked[m] = "none" /\ asked' = [asked EXCEPT ![m] = kind]
      /\ report' = report /\ verdict' = verdict /\ UNCHANGED vars
  BY DEF Ask
<1>2. /\ asked \in [Reader -> Kind \cup {"none", "answered"}] /\ ReaderShape(m)
      /\ DOMAIN report = Reader /\ DOMAIN verdict = Reader
  BY ReaderParts
<1>3. report[m] = NoReport /\ Results' = Results /\ faults' = faults
  BY <1>1, <1>2 DEF ReaderShape, vars, netVars, Results
<1>4. HealthShape(m)'
  BY <1>1, <1>3, NothingCounted DEF HealthShape
<1>5. asked'[m] # "none"
  BY <1>1, <1>2 DEF Kind
<1>6. ReaderShape(m)'
  BY <1>1, <1>2, <1>3, <1>4, <1>5 DEF ReaderShape
<1> QED
  BY <1>1, <1>2, <1>6, ReaderPart

LEMMA ReadQueueReaders ==
  ASSUME SchedulerInv, ReadersInv, [SystemNext]_allVars, NEW m \in Reader, ReadQueue(m)
  PROVE  ReadersInv'
<1> DEFINE k == Head(left[m])
           n == CountInQueue(k)
           new == [report[m] EXCEPT !.jobs = @ + n,
                                    !.failedJobs = IF k = "failed" THEN n ELSE @]
<1>1. /\ asked[m] = "health" /\ report' = [report EXCEPT ![m] = new]
      /\ asked' = asked /\ verdict' = verdict
      /\ Results' = Results /\ faults' = faults
  BY DEF ReadQueue, vars, netVars, Results
<1>2. /\ asked \in [Reader -> Kind \cup {"none", "answered"}] /\ ReaderShape(m)
      /\ DOMAIN report = Reader /\ DOMAIN verdict = Reader
  BY ReaderParts
<1>3. /\ n \in Nat /\ report[m] \in [Field -> Nat]
      /\ report[m].failedJobs <= report[m].jobs
      /\ faults = 0 => report[m].failedJobs = 0 /\ (k = "failed" => n = 0)
  BY <1>1, <1>2, QueueCounted DEF ReaderShape, HealthShape
<1> HIDE DEF n, k
<1>4. /\ new \in [Field -> Nat] /\ new.jobs = report[m].jobs + n
      /\ new.failedJobs = IF k = "failed" THEN n ELSE report[m].failedJobs
      /\ new.completed = report[m].completed
  <2>1. "jobs" \in Field /\ "failedJobs" \in Field /\ "completed" \in Field
    BY DEF Field
  <2>2. /\ \A f \in Field \ {"jobs", "failedJobs"} : new[f] = report[m][f]
        /\ new.jobs = report[m].jobs + n
        /\ new.failedJobs = IF k = "failed" THEN n ELSE report[m].failedJobs
        /\ new = [f \in Field |-> new[f]]
    BY <1>3, <2>1
  <2> HIDE DEF new
  <2>3. \A f \in Field : new[f] \in Nat
    BY <1>3, <2>1, <2>2
  <2> QED
    BY <2>1, <2>2, <2>3
<1>5. report[m].jobs \in Nat /\ report[m].failedJobs \in Nat
  BY <1>3 DEF Field
<1>6. report'[m] = new
  BY <1>1, <1>2
<1> HIDE DEF new
<1>7. HealthShape(m)'
  BY <1>1, <1>3, <1>4, <1>5, <1>6 DEF HealthShape
<1>8. ReaderShape(m)'
  BY <1>1, <1>2, <1>4, <1>6, <1>7 DEF ReaderShape
<1> QED
  BY <1>1, <1>2, <1>8, ReaderPart

LEMMA ReadTableReaders ==
  ASSUME SchedulerInv, ReadersInv, [SystemNext]_allVars, NEW m \in Reader, ReadTable(m)
  PROVE  ReadersInv'
<1> DEFINE f == Head(left[m])
           new == [report[m] EXCEPT ![f] = CountInTable(f)]
<1>1. /\ asked[m] \in {"metrics", "categories"} /\ asked' = asked /\ verdict' = verdict
      /\ report' = [report EXCEPT ![m] = new] /\ Results' = Results /\ faults' = faults
  BY DEF ReadTable, vars, netVars, Results
<1>2. /\ asked \in [Reader -> Kind \cup {"none", "answered"}] /\ ReaderShape(m)
      /\ DOMAIN report = Reader /\ DOMAIN verdict = Reader
  BY ReaderParts
<1>3. /\ DOMAIN new = Field
      /\ new.completed = IF f = "completed" THEN CountInTable("completed")
                                            ELSE report[m].completed
  BY <1>2 DEF ReaderShape, Field
<1>4. report'[m] = new
  BY <1>1, <1>2
<1> HIDE DEF new
<1>5. new.completed \in Nat /\ new.completed <= Total(Results, Source)
  BY <1>2, <1>3, ResultsCounted DEF ReaderShape
<1>6. ReaderShape(m)'
  BY <1>1, <1>2, <1>3, <1>4, <1>5 DEF ReaderShape, HealthShape
<1> QED
  BY <1>1, <1>2, <1>6, ReaderPart

\* A report that is kept or reset claims no more than before.
LEMMA StillClaimed ==
  ASSUME SchedulerInv, [SystemNext]_allVars, NEW m \in Reader, ReaderShape(m),
         report'[m] \in {report[m], NoReport}
  PROVE  /\ DOMAIN report'[m] = Field /\ report'[m].completed \in Nat
         /\ report'[m].completed <= Total(Results', Source)
<1>1. /\ Total(Results, Source) \in Nat /\ Total(Results', Source) \in Nat
      /\ Total(Results, Source) <= Total(Results', Source)
  BY ResultsGrow
<1>2. CASE report'[m] = report[m]
  <2>1. /\ DOMAIN report[m] = Field /\ report[m].completed \in Nat
        /\ report[m].completed <= Total(Results, Source)
    BY DEF ReaderShape
  <2> QED
    BY <1>1, <1>2, <2>1
<1>3. CASE report'[m] = NoReport
  BY <1>1, <1>3, NothingCounted
<1> QED
  BY <1>2, <1>3

LEMMA AnsweredReaders ==
  ASSUME SchedulerInv, ReadersInv, [SystemNext]_allVars, NEW m \in Reader, NEW answer,
         Answered(m, answer) \/ AnsweredAtOnce(m, answer),
         answer = "queues down" => faults' > 0
  PROVE  ReadersInv'
<1>1. /\ asked' = [asked EXCEPT ![m] = "answered"]
      /\ verdict' = [verdict EXCEPT ![m] = answer]
      /\ report' = report \/ report' = [report EXCEPT ![m] = NoReport]
  BY DEF Answered, AnsweredAtOnce
<1>2. /\ asked \in [Reader -> Kind \cup {"none", "answered"}] /\ ReaderShape(m)
      /\ DOMAIN report = Reader /\ DOMAIN verdict = Reader
  BY ReaderParts
<1>3. asked'[m] = "answered" /\ verdict'[m] = answer
  BY <1>1, <1>2
<1>4. report'[m] \in {report[m], NoReport}
  BY <1>1, <1>2
<1>5. /\ DOMAIN report'[m] = Field /\ report'[m].completed \in Nat
      /\ report'[m].completed <= Total(Results', Source)
  BY <1>2, <1>4, StillClaimed
<1>6. ReaderShape(m)'
  BY <1>3, <1>5 DEF ReaderShape, HealthShape
<1> QED
  BY <1>1, <1>2, <1>6, ReaderPart

\* The verdict of a health check that finds too many failed jobs comes after a fault.
LEMMA AnswerReaders ==
  ASSUME SchedulerInv, ReadersInv, [SystemNext]_allVars, NEW m \in Reader, Answer(m)
  PROVE  ReadersInv'
<1>1. CASE Answered(m, "queues down") /\ asked[m] = "health"
           /\ ~Healthy(report[m].jobs, report[m].failedJobs)
  <2>1. /\ report[m] \in [Field -> Nat] /\ (faults = 0 => report[m].failedJobs = 0)
    BY <1>1 DEF ReadersInv, HealthShape
  <2>2. report[m].jobs \in Nat
    BY <2>1 DEF Field
  <2>3. faults # 0
    BY <1>1, <2>1, <2>2, NoFailureIsHealthy
  <2>4. faults \in Nat /\ faults' >= faults /\ faults' \in Nat
    BY FaultsStay
  <2>5. faults' > 0
    BY <2>3, <2>4
  <2> QED
    BY <1>1, <2>5, AnsweredReaders
<1>2. CASE \E answer \in OtherIndicators : Answered(m, answer)
  BY <1>2, AnsweredReaders DEF OtherIndicators
<1> QED
  BY <1>1, <1>2 DEF Answer, OtherIndicators

LEMMA ReadersStep ==
  ASSUME SchedulerInv, ReadersInv, [SystemNext]_allVars
  PROVE  ReadersInv'
<1>1. CASE UNCHANGED readVars
  <2>1. \A m \in Reader : ReaderShape(m)'
    BY <1>1, ReaderKept DEF readVars
  <2> QED
    BY <1>1, <2>1, ReaderParts
       DEF readVars, ReaderShape, ReadersInv, QueuesDownOnlyByFaults, ReportedWasDone
<1>2. ASSUME NEW m \in Reader, ReaderStep(m)
      PROVE  ReadersInv'
  <2>1. CASE CheckHealth(m) \/ GetMetrics(m) \/ GetCategoryMetrics(m)
    BY <2>1, AskReaders DEF CheckHealth, GetMetrics, GetCategoryMetrics, Kind
  <2>2. CASE ReadFails(m)
    BY <2>2, AnsweredReaders DEF ReadFails
  <2> QED
    BY <1>2, <2>1, <2>2, ReadQueueReaders, ReadTableReaders, AnswerReaders DEF ReaderStep
<1>3. ASSUME NEW m \in Reader, GrpcStep(m)
      PROVE  ReadersInv'
  <2>1. CASE GrpcHealthCheck(m) \/ GrpcGetMetrics(m)
    BY <2>1, AskReaders DEF GrpcHealthCheck, GrpcGetMetrics, CheckHealth, GetMetrics, Kind
  <2>2. ASSUME ~GrpcHealthCheck(m), ~GrpcGetMetrics(m)
        PROVE  \E status \in {"OK", "UNKNOWN", "UNIMPLEMENTED"} : AnsweredAtOnce(m, status)
    BY <1>3, <2>2 DEF GrpcStep, AnsweredBy, Unimplemented, GrpcCreateJob, GrpcGetJob,
                      GrpcScheduleJob, GrpcExecuteJob, GrpcCancelSchedule
  <2> QED
    BY <2>1, <2>2, AnsweredReaders
<1> QED
  BY <1>1, <1>2, <1>3 DEF SystemNext, allVars

LEMMA InitReaders == SystemInit => ReadersInv
<1> SUFFICES ASSUME SystemInit
             PROVE  ReadersInv
  OBVIOUS
<1>1. Total(Results, Source) \in Nat
  BY InitInv, ResultsCounted DEF SystemInit
<1>2. /\ asked = [m \in Reader |-> "none"] /\ report = [m \in Reader |-> NoReport]
      /\ verdict = [m \in Reader |-> "none"]
  BY DEF SystemInit, MonitoringInit
<1>3. \A m \in Reader : ReaderShape(m)
  BY <1>1, <1>2, NothingCounted DEF ReaderShape, HealthShape
<1> QED
  BY <1>2, <1>3, ReaderParts

-----------------------------------------------------------------------------
(* The theorems                                                             *)

\* The scheduler keeps its invariant and the reports theirs, whatever the methods bound.
THEOREM SystemInvariant == SystemSpec => []SystemInv
<1>1. SystemInit => SystemInv
  BY InitInv, InitReaders DEF SystemInit, SystemInv
<1>2. SystemInv /\ [SystemNext]_allVars => SystemInv'
  BY SchedulerBeside, ReadersStep DEF SystemInv
<1> QED
  BY <1>1, <1>2, PTL DEF SystemSpec

\* A failed or timed-out job never turns the verdict: a queue is reported down only after a
\* crash, a lapsed lock or a failing store, wherever the report was in its reads.
THEOREM DownByFaults == SystemSpec => []QueuesDownOnlyByFaults
<1>1. SystemInv => QueuesDownOnlyByFaults
  BY DEF SystemInv, ReadersInv
<1> QED
  BY <1>1, SystemInvariant, PTL

\* A report never claims more successes than there are results, accepted calls and the
\* placeholders of jobs that ask for no call, though its counts are taken one after another while
\* executions start, time out and end.
THEOREM ReportsClaimNoMore == SystemSpec => []ReportedWasDone
<1>1. SystemInv => ReportedWasDone
  BY DEF SystemInv, ReadersInv
<1> QED
  BY <1>1, SystemInvariant, PTL

\* The handlers and the readers take nothing from what executeJob and the queue promise of
\* calls, rows and effects: CancelSchedule deactivates a schedule that it did not look for.
THEOREM PromisesHoldBeside ==
  SystemSpec => [](/\ TypeOK /\ RepeatsAreExplained /\ CompletedIsRecorded /\ CompletedWasDone
                   /\ RunningRowsAreRuns /\ CallsAreRecorded)
<1>1. SystemInv => TypeOK
  BY DEF SystemInv, SchedulerInv, RunsInv
<1>2. SystemInv => /\ RepeatsAreExplained /\ CompletedIsRecorded /\ CompletedWasDone
                   /\ RunningRowsAreRuns /\ CallsAreRecorded
  BY InvRepeats, InvCompleted, InvEffects, InvRunning, InvCalls DEF SystemInv
<1> QED
  BY <1>1, <1>2, SystemInvariant, PTL

\* Nor does any of them bring a removed schedule back into the queue.
THEOREM RemovedForGoodBeside == SystemSpec => RemovedStaysOut
<1>1. SystemInv /\ [SystemNext]_allVars
        => [\A s \in stopped : \A e \in EntriesOf(s) :
              state[e] \in {"none", "removed"} => state'[e] = state[e]]_vars
  <2> SUFFICES ASSUME SystemInv, [SystemNext]_allVars
               PROVE  [\A s \in stopped : \A e \in EntriesOf(s) :
                         state[e] \in {"none", "removed"} => state'[e] = state[e]]_vars
    OBVIOUS
  <2>1. CASE [Next]_vars
    BY <2>1, RemovedStep DEF SystemInv
  <2>2. CASE Beside
    BY <2>2 DEF Beside, queueVars
  <2> QED
    BY <2>1, <2>2, SystemSteps DEF SystemInv
<1> QED
  BY <1>1, SystemInvariant, PTL DEF SystemSpec, RemovedStaysOut

\* Nor does any of them disturb the life of an entry: JobExecution is implemented by the whole.
THEOREM EntriesAreExecutedBeside == SystemSpec => ExecutionPromised
<1>1. SystemInit => \A e \in Entry : Life(e)!Init
  BY LifeInitial DEF SystemInit
<1>2. SystemInv /\ [SystemNext]_allVars
        => [\A e \in Entry : Life(e)!Next \/ UNCHANGED Life(e)!vars]_vars
  <2> SUFFICES ASSUME SystemInv, [SystemNext]_allVars, NEW e \in Entry
               PROVE  Life(e)!Next
    OBVIOUS
  <2>1. CASE [Next]_vars
    BY <2>1, LifeImplements DEF SystemInv
  <2>2. CASE Beside
    <3>1. /\ UNCHANGED <<queueVars, runVars, executions, netVars, stopped>>
          /\ faults' = faults \/ faults' = faults + 1
      BY <2>2 DEF Beside, clientVars, Fault
    <3>2. RunsStay(e)
      BY <3>1, RunsKeep
    <3>3. EntryStays(e)
      BY <2>2, <3>1, BesideTargets, EntryKeeps, Sources DEF queueVars
    <3> QED
      BY <3>1, <3>2, <3>3, Stutters
  <2> QED
    BY <2>1, <2>2, SystemSteps DEF SystemInv
<1> QED
  BY <1>1, <1>2, SystemInvariant, PTL DEF SystemSpec, ExecutionPromised
=============================================================================
