-------------------------- MODULE SchedulerProofs --------------------------
(* Theorems about Scheduler, for every set of schedules, workers, requests  *)
(* and operators and every value of the bounds.                             *)
EXTENDS Scheduler, FiniteSetTheorems, TLAPS

-----------------------------------------------------------------------------
(* Entries, runners and how many of them there are                          *)

\* An execution is for an entry or for a direct request, and never for both or none.
LEMMA Sources ==
  /\ \A j \in Job : Direct(j) \in DirectOf /\ Direct(j)[1] = j /\ Direct(j)[2] = 0
  /\ \A x \in DirectOf : x \in Source /\ x \notin Entry /\ x[1] \in Job /\ x[2] = 0
  /\ Entry \subseteq Source /\ NoRun \notin Source
  /\ \A s \in Schedule : First(s) \in Entry /\ First(s)[1] = s /\ First(s)[2] = 1
  /\ \A s, t \in Schedule : First(s) = First(t) => s = t
  /\ \A e \in Entry : e[1] \in Schedule /\ e[2] # 0 /\ Next1(e)[1] = e[1] /\ Next1(e)[2] # 1
<1>1. \A e \in Entry : e = <<e[1], e[2]>> /\ e[1] \in Schedule /\ e[2] \in 1..MaxIterations
  BY DEF Entry
<1>2. \A j \in Job : Direct(j) \in DirectOf /\ Direct(j)[1] = j /\ Direct(j)[2] = 0
  BY DEF Direct, DirectOf
<1>3. \A x \in DirectOf : x[1] \in Job /\ x[2] = 0
  BY <1>2 DEF DirectOf
<1>4. \A e \in Entry : e[2] # 0
  <2>1. 0 \notin 1..MaxIterations
    BY QueueAssumption
  <2> QED
    BY <1>1, <2>1
<1>5. NoRun \notin Entry /\ NoRun \notin DirectOf
  <2>1. NoRun[2] = 0
    BY DEF NoRun
  <2> QED
    BY <1>4, <2>1, SchedulerAssumption
<1>6. \A e \in Entry : Next1(e)[1] = e[1] /\ Next1(e)[2] = e[2] + 1 /\ e[2] + 1 # 1
  BY <1>1 DEF Next1
<1>7. \A s \in Schedule : First(s) \in Entry /\ First(s)[1] = s /\ First(s)[2] = 1
  BY QueueAssumption DEF First, Entry
<1>8. \A s, t \in Schedule : First(s) = First(t) => s = t
  BY <1>7
<1>9. \A e \in Entry : e[1] \in Schedule /\ Next1(e)[1] = e[1] /\ Next1(e)[2] # 1
  BY <1>1, <1>6
<1> QED
  BY <1>2, <1>3, <1>4, <1>5, <1>7, <1>8, <1>9 DEF Source

Bit(b) == IF b THEN 1 ELSE 0

\* Two sets that differ in one element at most.
LEMMA Counted ==
  ASSUME NEW S, NEW T, NEW r, IsFiniteSet(S), S \ {r} = T \ {r}
  PROVE  /\ IsFiniteSet(T) /\ Cardinality(S) \in Nat /\ Cardinality(T) \in Nat
         /\ Cardinality(T) = Cardinality(S) + Bit(r \in T) - Bit(r \in S)
<1> DEFINE U == S \ {r}
<1>1. /\ IsFiniteSet(U) /\ Cardinality(U) \in Nat /\ r \notin U
      /\ IsFiniteSet(U \cup {r}) /\ Cardinality(U \cup {r}) = Cardinality(U) + 1
  <2>1. IsFiniteSet(U) /\ r \notin U
    BY FS_Subset
  <2> HIDE DEF U
  <2> QED
    BY <2>1, FS_AddElement, FS_CardinalityType
<1>2. S = (IF r \in S THEN U \cup {r} ELSE U) /\ T = (IF r \in T THEN U \cup {r} ELSE U)
  OBVIOUS
<1> HIDE DEF U
<1>3. /\ IsFiniteSet(S) /\ IsFiniteSet(T)
      /\ Cardinality(S) = Cardinality(U) + Bit(r \in S)
      /\ Cardinality(T) = Cardinality(U) + Bit(r \in T)
  BY <1>1, <1>2 DEF Bit
<1> QED
  BY <1>1, <1>3 DEF Bit

\* The step is one of executeJob for runner r.
Local(r) ==
  \A u \in Runner \ {r} : /\ run'[u] = run[u] /\ pc'[u] = pc[u] /\ outcome'[u] = outcome[u]
                          /\ row'[u] = row[u] /\ call'[u] = call[u]

\* Finitely many executions are under way, so each of the sets has a size.
LEMMA Sizes ==
  ASSUME IsFiniteSet(Busy), NEW x \in Source
  PROVE  /\ \A k : IsFiniteSet(RowsOf(x, k)) /\ Cardinality(RowsOf(x, k)) \in Nat
         /\ IsFiniteSet(Live(x)) /\ Cardinality(Live(x)) \in Nat
         /\ IsFiniteSet(Promised(x)) /\ Cardinality(Promised(x)) \in Nat
         /\ IsFiniteSet(AboutToCall(x)) /\ Cardinality(AboutToCall(x)) \in Nat
         /\ IsFiniteSet(Starting(x)) /\ Cardinality(Starting(x)) \in Nat
<1>1. /\ \A k : RowsOf(x, k) \subseteq Busy
      /\ Live(x) \subseteq Busy /\ Promised(x) \subseteq Busy
      /\ AboutToCall(x) \subseteq Busy /\ Starting(x) \subseteq Busy
  BY Sources DEF RowsOf, Live, Promised, AboutToCall, Starting, Busy
<1> QED
  BY <1>1, FS_Subset, FS_CardinalityType

LEMMA LocalBusy ==
  ASSUME IsFiniteSet(Busy), NEW r \in Runner, Local(r)
  PROVE  IsFiniteSet(Busy')
<1>1. Busy \ {r} = Busy' \ {r}
  BY DEF Busy, Local
<1> QED
  BY <1>1, Counted

\* A step of one runner adds it to each of the sets or takes it out.
LEMMA LocalCounts ==
  ASSUME IsFiniteSet(Busy), NEW r \in Runner, Local(r), NEW x \in Source
  PROVE  /\ IsFiniteSet(Busy')
         /\ \A k : Cardinality(RowsOf(x, k)') = Cardinality(RowsOf(x, k))
                     + Bit(run'[r] = x /\ row'[r] = k) - Bit(run[r] = x /\ row[r] = k)
         /\ Cardinality(Live(x)') = Cardinality(Live(x))
              + Bit(run'[r] = x /\ row'[r] = "running" /\ pc'[r] # "settle")
              - Bit(run[r] = x /\ row[r] = "running" /\ pc[r] # "settle")
         /\ Cardinality(Promised(x)') = Cardinality(Promised(x))
              + Bit(run'[r] = x /\ (call'[r] = "accepted" \/
                                    (pc'[r] = "save" /\ outcome'[r] = "completed")))
              - Bit(run[r] = x /\ (call[r] = "accepted" \/
                                   (pc[r] = "save" /\ outcome[r] = "completed")))
         /\ Cardinality(AboutToCall(x)') = Cardinality(AboutToCall(x))
              + Bit(run'[r] = x /\ pc'[r] = "call") - Bit(run[r] = x /\ pc[r] = "call")
         /\ Cardinality(Starting(x)') = Cardinality(Starting(x))
              + Bit(run'[r] = x /\ pc'[r] \in {"create", "call"})
              - Bit(run[r] = x /\ pc[r] \in {"create", "call"})
<1>1. IsFiniteSet(Busy')
  BY LocalBusy
<1>2. ASSUME NEW k
      PROVE  Cardinality(RowsOf(x, k)') = Cardinality(RowsOf(x, k))
               + Bit(run'[r] = x /\ row'[r] = k) - Bit(run[r] = x /\ row[r] = k)
  <2>1. RowsOf(x, k) \ {r} = RowsOf(x, k)' \ {r}
    BY DEF RowsOf, Local
  <2>2. /\ r \in RowsOf(x, k) <=> run[r] = x /\ row[r] = k
        /\ r \in RowsOf(x, k)' <=> run'[r] = x /\ row'[r] = k
    BY DEF RowsOf
  <2> QED
    BY <2>1, <2>2, Sizes, Counted
<1>3. Cardinality(Live(x)') = Cardinality(Live(x))
        + Bit(run'[r] = x /\ row'[r] = "running" /\ pc'[r] # "settle")
        - Bit(run[r] = x /\ row[r] = "running" /\ pc[r] # "settle")
  <2>1. Live(x) \ {r} = Live(x)' \ {r}
    BY DEF Live, RowsOf, Local
  <2>2. /\ r \in Live(x) <=> run[r] = x /\ row[r] = "running" /\ pc[r] # "settle"
        /\ r \in Live(x)' <=> run'[r] = x /\ row'[r] = "running" /\ pc'[r] # "settle"
    BY DEF Live, RowsOf
  <2> QED
    BY <2>1, <2>2, Sizes, Counted
<1>4. Cardinality(Promised(x)') = Cardinality(Promised(x))
        + Bit(run'[r] = x /\ (call'[r] = "accepted" \/
                              (pc'[r] = "save" /\ outcome'[r] = "completed")))
        - Bit(run[r] = x /\ (call[r] = "accepted" \/
                             (pc[r] = "save" /\ outcome[r] = "completed")))
  <2>1. Promised(x) \ {r} = Promised(x)' \ {r}
    BY DEF Promised, Local
  <2>2. /\ r \in Promised(x) <=> run[r] = x /\ (call[r] = "accepted" \/
                                     (pc[r] = "save" /\ outcome[r] = "completed"))
        /\ r \in Promised(x)' <=> run'[r] = x /\ (call'[r] = "accepted" \/
                                     (pc'[r] = "save" /\ outcome'[r] = "completed"))
    BY DEF Promised
  <2> QED
    BY <2>1, <2>2, Sizes, Counted
<1>5. Cardinality(AboutToCall(x)') = Cardinality(AboutToCall(x))
        + Bit(run'[r] = x /\ pc'[r] = "call") - Bit(run[r] = x /\ pc[r] = "call")
  <2>1. AboutToCall(x) \ {r} = AboutToCall(x)' \ {r}
    BY DEF AboutToCall, Local
  <2>2. /\ r \in AboutToCall(x) <=> run[r] = x /\ pc[r] = "call"
        /\ r \in AboutToCall(x)' <=> run'[r] = x /\ pc'[r] = "call"
    BY DEF AboutToCall
  <2> QED
    BY <2>1, <2>2, Sizes, Counted
<1>6. Cardinality(Starting(x)') = Cardinality(Starting(x))
        + Bit(run'[r] = x /\ pc'[r] \in {"create", "call"})
        - Bit(run[r] = x /\ pc[r] \in {"create", "call"})
  <2>1. Starting(x) \ {r} = Starting(x)' \ {r}
    BY DEF Starting, Local
  <2>2. /\ r \in Starting(x) <=> run[r] = x /\ pc[r] \in {"create", "call"}
        /\ r \in Starting(x)' <=> run'[r] = x /\ pc'[r] \in {"create", "call"}
    BY DEF Starting
  <2> QED
    BY <2>1, <2>2, Sizes, Counted
<1> QED
  BY <1>1, <1>2, <1>3, <1>4, <1>5, <1>6

-----------------------------------------------------------------------------
(* executeJob: its position, its row and its outcome, and the ledger        *)

RowStatus == Outcome \cup {"running"}

RunTypes ==
  /\ executions \in [Source -> [RowStatus -> Nat]]
  /\ run \in [Runner -> Source \cup {NoRun}]
  /\ pc \in [Runner -> {"idle", "create", "call", "await", "save", "settle", "done"}]
  /\ outcome \in [Runner -> Outcome \cup {"none", "thrown"}]
  /\ row \in [Runner -> Outcome \cup {"none", "running"}]
  /\ call \in [Runner -> {"none", "sent", "accepted"}]
  /\ late \in [Source -> Nat] /\ routed \in [Source -> Nat]
  /\ effects \in [Source -> Nat] /\ placeholders \in [Source -> Nat]
  /\ faults \in 0..MaxFaults

\* What RunsInv says of the runners.
RunsPart ==
  /\ RunTypes /\ IsFiniteSet(Busy) /\ \A r \in Runner : RunShape(r)
  /\ \A x \in Source : Ledger(x)

LEMMA FaultType ==
  ASSUME faults \in 0..MaxFaults, Fault
  PROVE  faults' \in 0..MaxFaults /\ faults' = faults + 1
BY SchedulerAssumption DEF Fault

LEMMA RunsInvPart == RunsInv => RunsPart
BY DEF RunsInv, RunsPart, TypeOK, RunTypes, RowStatus

\* A status is taken from a row only by the runner that has it, so no count becomes negative.
LEMMA RecordedRow ==
  ASSUME RunsPart, NEW r \in Runner, run[r] \in Source, NEW from, NEW to \in RowStatus,
         from = "none" \/ (from = row[r] /\ from \in RowStatus), Recorded(r, from, to)
  PROVE  /\ executions' \in [Source -> [RowStatus -> Nat]]
         /\ \A x \in Source, k \in RowStatus :
              executions'[x][k] = executions[x][k] + Bit(x = run[r] /\ k = to)
                                                   - Bit(x = run[r] /\ k = from)
<1> DEFINE x == run[r]
           new == [k \in RowStatus |-> executions[x][k] + (IF k = to THEN 1 ELSE 0)
                                                        - (IF k = from THEN 1 ELSE 0)]
<1>1. executions \in [Source -> [RowStatus -> Nat]]
  BY DEF RunsPart, RunTypes
<1>2. executions' = [executions EXCEPT ![x] = new]
  BY <1>1 DEF Recorded
<1>3. ASSUME from \in RowStatus
      PROVE  executions[x][from] >= 1
  <2>1. r \in RowsOf(x, from)
    BY <1>3 DEF RowsOf, RowStatus, Outcome
  <2>2. IsFiniteSet(RowsOf(x, from)) /\ Cardinality(RowsOf(x, from)) \in Nat
    BY Sizes DEF RunsPart
  <2>3. Cardinality(RowsOf(x, from)) >= 1
    BY <2>1, <2>2, FS_EmptySet
  <2>4. Cardinality(RowsOf(x, from)) <= executions[x][from]
    BY <1>3 DEF RunsPart, Ledger, RowStatus
  <2> QED
    BY <1>1, <1>3, <2>2, <2>3, <2>4
<1>4. "none" \notin RowStatus
  BY DEF RowStatus, Outcome
<1>5. \A k \in RowStatus : executions[x][k] \in Nat
  BY <1>1
<1>6. \A k \in RowStatus : new[k] \in Nat
  BY <1>3, <1>4, <1>5
<1>7. new \in [RowStatus -> Nat]
  BY <1>6
<1>8. executions' \in [Source -> [RowStatus -> Nat]]
  BY <1>1, <1>2, <1>7
<1>9. \A k \in RowStatus : new[k] = executions[x][k] + Bit(k = to) - Bit(k = from)
  BY DEF Bit
<1>10. ASSUME NEW y \in Source, NEW k \in RowStatus
       PROVE  executions'[y][k] = executions[y][k] + Bit(y = run[r] /\ k = to)
                                                   - Bit(y = run[r] /\ k = from)
  <2>1. executions[y][k] \in Nat
    BY <1>1
  <2>2. CASE y = x
    BY <1>1, <1>2, <1>9, <2>2
  <2>3. CASE y # x
    BY <1>1, <1>2, <2>1, <2>3 DEF Bit
  <2> QED
    BY <2>2, <2>3
<1> QED
  BY <1>8, <1>10

\* What is left to show of a step of runner r.
LEMMA RunnerPart ==
  ASSUME RunsPart, NEW r \in Runner, Local(r), RunTypes', RunShape(r)',
         \A x \in Source : Ledger(x)'
  PROVE  RunsPart'
<1>1. ASSUME NEW u \in Runner \ {r}
      PROVE  RunShape(u)'
  <2>1. RunShape(u)
    BY DEF RunsPart
  <2> QED
    BY <2>1 DEF RunShape, Local
<1>2. IsFiniteSet(Busy')
  BY LocalBusy DEF RunsPart
<1> QED
  BY <1>1, <1>2 DEF RunsPart

\* The row of the execution is committed, before anything is called.
LEMMA CreateRuns ==
  ASSUME RunsPart, NEW r \in Runner, CreateExecution(r)
  PROVE  RunsPart'
<1>1. /\ pc[r] = "create" /\ RunShape(r) /\ RunTypes
      /\ UNCHANGED <<run, outcome, call, late, routed, effects, placeholders, faults>>
      /\ row' = [row EXCEPT ![r] = "running"] /\ pc' = [pc EXCEPT ![r] = "call"]
  BY DEF CreateExecution, RunsPart, netVars
<1>2. run[r] \in Source /\ row[r] = "none" /\ outcome[r] = "none" /\ call[r] = "none"
  BY <1>1, Sources DEF RunShape, Source
<1>3. Local(r) /\ row'[r] = "running" /\ pc'[r] = "call"
  BY <1>1 DEF Local, RunTypes
<1>4. /\ executions' \in [Source -> [RowStatus -> Nat]]
      /\ \A x \in Source, k \in RowStatus :
           executions'[x][k] = executions[x][k] + Bit(x = run[r] /\ k = "running")
                                                - Bit(x = run[r] /\ k = "none")
  <2>1. Recorded(r, "none", "running") /\ "running" \in RowStatus
    BY DEF CreateExecution, RowStatus
  <2> QED
    BY <1>2, <2>1, RecordedRow
<1>5. RunTypes'
  BY <1>1, <1>4 DEF RunTypes
<1>6. RunShape(r)'
  BY <1>1, <1>2, <1>3 DEF RunShape
<1>7. ASSUME NEW x \in Source
      PROVE  Ledger(x)'
  <2>1. Ledger(x)
    BY DEF RunsPart
  <2>2. run'[r] = run[r] /\ call'[r] = "none" /\ outcome'[r] = "none"
    BY <1>1, <1>2
  <2>3. /\ Cardinality(RowsOf(x, "running")')
             = Cardinality(RowsOf(x, "running")) + Bit(x = run[r])
        /\ \A k \in Outcome : Cardinality(RowsOf(x, k)') = Cardinality(RowsOf(x, k))
    BY <1>2, <1>3, <2>2, LocalCounts, Sizes DEF RunsPart, Bit, Outcome
  <2>4. /\ Cardinality(Live(x)') = Cardinality(Live(x)) + Bit(x = run[r])
        /\ Cardinality(Promised(x)') = Cardinality(Promised(x))
        /\ Cardinality(AboutToCall(x)') = Cardinality(AboutToCall(x)) + Bit(x = run[r])
    BY <1>1, <1>2, <1>3, <2>2, LocalCounts, Sizes DEF RunsPart, Bit
  <2>5. /\ executions'[x]["running"] = executions[x]["running"] + Bit(x = run[r])
        /\ \A k \in Outcome : executions'[x][k] = executions[x][k]
    BY <1>1, <1>4 DEF Bit, RowStatus, Outcome, RunTypes
  <2>6. /\ \A k \in Outcome \cup {"running"} : executions[x][k] \in Nat
        /\ faults \in Nat /\ Bit(x = run[r]) \in {0, 1}
    BY <1>1, SchedulerAssumption DEF RunTypes, RowStatus, Outcome, Bit
  <2> HIDE DEF Bit
  <2>7. \A k \in Outcome \cup {"running"} : Cardinality(RowsOf(x, k)') <= executions'[x][k]
    BY <2>1, <2>3, <2>5, <2>6, Sizes DEF Ledger, RunsPart
  <2>8. executions'[x]["running"] <= Cardinality(Live(x)') + faults'
    BY <1>1, <2>1, <2>4, <2>5, <2>6, Sizes DEF Ledger, RunsPart
  <2>9. /\ executions'[x]["completed"] + Cardinality(Promised(x)')
             <= effects'[x] + placeholders'[x]
        /\ routed'[x] + Cardinality(AboutToCall(x)')
             <= executions'[x]["running"] + executions'[x]["completed"]
                  + executions'[x]["failed"]
    BY <1>1, <2>1, <2>4, <2>5, <2>6, Sizes DEF Ledger, RunsPart, RunTypes, Outcome
  <2> QED
    BY <2>7, <2>8, <2>9 DEF Ledger
<1> QED
  BY <1>3, <1>5, <1>6, <1>7, RunnerPart

LEMMA CreateFailsRuns ==
  ASSUME RunsPart, NEW r \in Runner, CreateFails(r)
  PROVE  RunsPart'
<1>1. /\ pc[r] = "create" /\ RunShape(r) /\ RunTypes
      /\ UNCHANGED <<run, call, late, routed, effects, placeholders>>
      /\ outcome' = [outcome EXCEPT ![r] = "thrown"] /\ pc' = [pc EXCEPT ![r] = "settle"]
      /\ faults' \in 0..MaxFaults /\ faults' = faults + 1
  BY FaultType DEF CreateFails, RunsPart, RunTypes, netVars
<1>2. run[r] \in Source /\ row[r] = "none" /\ outcome[r] = "none" /\ call[r] = "none"
  BY <1>1, Sources DEF RunShape, Source
<1>3. \/ /\ executions' \in [Source -> [RowStatus -> Nat]]
         /\ row' = [row EXCEPT ![r] = "running"]
         /\ \A x \in Source, k \in RowStatus :
              executions'[x][k] = executions[x][k] + Bit(x = run[r] /\ k = "running")
                                                   - Bit(x = run[r] /\ k = "none")
      \/ UNCHANGED <<executions, row>>
  <2>1. CASE UNCHANGED <<executions, row>>
    BY <2>1
  <2>2. CASE Recorded(r, "none", "running") /\ row' = [row EXCEPT ![r] = "running"]
    <3>1. "running" \in RowStatus
      BY DEF RowStatus
    <3> QED
      BY <1>2, <2>2, <3>1, RecordedRow
  <2> QED
    BY <2>1, <2>2 DEF CreateFails
<1>4. /\ Local(r) /\ pc'[r] = "settle" /\ outcome'[r] = "thrown"
      /\ row'[r] \in {"none", "running"}
  BY <1>1, <1>2, <1>3 DEF Local, RunTypes
<1>5. RunTypes'
  BY <1>1, <1>3 DEF RunTypes
<1>6. RunShape(r)'
  BY <1>1, <1>2, <1>4 DEF RunShape
<1>7. ASSUME NEW x \in Source
      PROVE  Ledger(x)'
  <2>1. Ledger(x)
    BY DEF RunsPart
  <2>2. CASE UNCHANGED <<executions, row>>
    BY <1>1, <1>2, <1>4, <2>1, <2>2, LocalCounts, Sizes
       DEF Ledger, RunsPart, Bit, RowStatus, Outcome, RunTypes
  <2>3. CASE /\ row' = [row EXCEPT ![r] = "running"]
             /\ \A k \in RowStatus :
                  executions'[x][k] = executions[x][k] + Bit(x = run[r] /\ k = "running")
                                                       - Bit(x = run[r] /\ k = "none")
    <3>1. row'[r] = "running" /\ run'[r] = run[r] /\ call'[r] = call[r]
      BY <1>1, <2>3 DEF RunTypes
    <3>2. /\ Cardinality(RowsOf(x, "running")')
               = Cardinality(RowsOf(x, "running")) + Bit(x = run[r])
          /\ \A k \in Outcome : Cardinality(RowsOf(x, k)') = Cardinality(RowsOf(x, k))
      BY <1>2, <1>4, <3>1, LocalCounts, Sizes DEF RunsPart, Bit, Outcome
    <3>3. /\ Cardinality(Live(x)') = Cardinality(Live(x))
          /\ Cardinality(Promised(x)') = Cardinality(Promised(x))
          /\ Cardinality(AboutToCall(x)') = Cardinality(AboutToCall(x))
      BY <1>1, <1>2, <1>4, <3>1, LocalCounts, Sizes DEF RunsPart, Bit
    <3>4. /\ executions'[x]["running"] = executions[x]["running"] + Bit(x = run[r])
          /\ \A k \in Outcome : executions'[x][k] = executions[x][k]
      BY <1>1, <2>3 DEF Bit, RowStatus, Outcome, RunTypes
    <3>5. /\ \A k \in Outcome \cup {"running"} : executions[x][k] \in Nat
          /\ faults \in Nat /\ Bit(x = run[r]) \in {0, 1}
      BY <1>1 DEF RunsPart, RunTypes, RowStatus, Outcome, Bit
    <3> HIDE DEF Bit
    <3>6. \A k \in Outcome \cup {"running"} : Cardinality(RowsOf(x, k)') <= executions'[x][k]
      BY <2>1, <3>2, <3>4, <3>5, Sizes DEF Ledger, RunsPart
    <3>7. executions'[x]["running"] <= Cardinality(Live(x)') + faults'
      BY <1>1, <2>1, <3>3, <3>4, <3>5, Sizes DEF Ledger, RunsPart
    <3>8. /\ executions'[x]["completed"] + Cardinality(Promised(x)')
               <= effects'[x] + placeholders'[x]
          /\ routed'[x] + Cardinality(AboutToCall(x)')
               <= executions'[x]["running"] + executions'[x]["completed"]
                    + executions'[x]["failed"]
      BY <1>1, <2>1, <3>3, <3>4, <3>5, Sizes DEF Ledger, RunsPart, RunTypes, Outcome
    <3> QED
      BY <3>6, <3>7, <3>8 DEF Ledger
  <2> QED
    BY <1>3, <2>2, <2>3
<1> QED
  BY <1>4, <1>5, <1>6, <1>7, RunnerPart

\* The call goes out; or there is a result or an error at once, without one.
LEMMA CallRuns ==
  ASSUME RunsPart, NEW r \in Runner, ExecuteJobByService(r)
  PROVE  RunsPart'
<1>1. /\ pc[r] = "call" /\ RunShape(r) /\ RunTypes
      /\ UNCHANGED <<executions, run, row, late, effects, faults>>
      /\ routed' = [routed EXCEPT ![run[r]] = @ + 1]
  BY DEF ExecuteJobByService, RunsPart, tableVars
<1>2. run[r] \in Source /\ row[r] = "running" /\ outcome[r] = "none" /\ call[r] = "none"
  BY <1>1, Sources DEF RunShape, Source
<1>3. routed' \in [Source -> Nat] /\ \A x \in Source : routed'[x] = routed[x] + Bit(x = run[r])
  BY <1>1, <1>2 DEF RunTypes, Bit
<1>4. CASE CallMessaging(r) \/ RefuseMethod(r)
  <2>1. /\ placeholders' = placeholders
        /\ \/ /\ call' = [call EXCEPT ![r] = "sent"] /\ pc' = [pc EXCEPT ![r] = "await"]
              /\ outcome' = outcome
           \/ /\ call' = call /\ pc' = [pc EXCEPT ![r] = "save"]
              /\ outcome' = [outcome EXCEPT ![r] = "failed"]
    BY <1>4 DEF CallMessaging, RefuseMethod, OutcomeOfError
  <2>2. /\ Local(r)
        /\ \/ pc'[r] = "await" /\ call'[r] = "sent" /\ outcome'[r] = "none"
           \/ pc'[r] = "save" /\ call'[r] = "none" /\ outcome'[r] = "failed"
    BY <1>1, <1>2, <2>1 DEF Local, RunTypes
  <2>3. RunTypes'
    BY <1>1, <1>3, <2>1 DEF RunTypes, Outcome
  <2>4. RunShape(r)'
    BY <1>1, <1>2, <2>2 DEF RunShape, Outcome
  <2>5. ASSUME NEW x \in Source
        PROVE  Ledger(x)'
    <3>1. Ledger(x) /\ IsFiniteSet(Busy)
      BY DEF RunsPart
    <3>2. /\ \A k : Cardinality(RowsOf(x, k)') = Cardinality(RowsOf(x, k))
          /\ Cardinality(Live(x)') = Cardinality(Live(x))
      BY <1>1, <1>2, <2>1, <2>2, <3>1, LocalCounts, Sizes DEF Bit
    <3>3. Cardinality(Promised(x)') = Cardinality(Promised(x))
      BY <1>1, <1>2, <2>2, <3>1, LocalCounts, Sizes DEF Bit
    <3>4. routed'[x] + Cardinality(AboutToCall(x)') = routed[x] + Cardinality(AboutToCall(x))
      BY <1>1, <1>2, <1>3, <2>2, <3>1, LocalCounts, Sizes DEF Bit, RunTypes
    <3> QED
      BY <1>1, <2>1, <3>1, <3>2, <3>3, <3>4 DEF Ledger
  <2> QED
    BY <2>2, <2>3, <2>4, <2>5, RunnerPart
<1>5. CASE ReturnPlaceholder(r)
  <2>1. /\ call' = call /\ pc' = [pc EXCEPT ![r] = "save"]
        /\ outcome' = [outcome EXCEPT ![r] = "completed"]
        /\ placeholders' = [placeholders EXCEPT ![run[r]] = @ + 1]
    BY <1>5 DEF ReturnPlaceholder
  <2>2. Local(r) /\ pc'[r] = "save" /\ call'[r] = "none" /\ outcome'[r] = "completed"
    BY <1>1, <1>2, <2>1 DEF Local, RunTypes
  <2>3. /\ placeholders' \in [Source -> Nat]
        /\ \A x \in Source : placeholders'[x] = placeholders[x] + Bit(x = run[r])
    BY <1>1, <1>2, <2>1 DEF RunTypes, Bit
  <2>4. RunTypes'
    BY <1>1, <1>3, <2>1, <2>3 DEF RunTypes, Outcome
  <2>5. RunShape(r)'
    BY <1>1, <1>2, <2>2 DEF RunShape, Outcome
  <2>6. ASSUME NEW x \in Source
        PROVE  Ledger(x)'
    <3>1. Ledger(x)
      BY DEF RunsPart
    <3> QED
      BY <1>1, <1>2, <1>3, <2>2, <2>3, <3>1, LocalCounts, Sizes
         DEF Ledger, RunsPart, Bit, RowStatus, Outcome, RunTypes
  <2> QED
    BY <2>2, <2>4, <2>5, <2>6, RunnerPart
<1> QED
  BY <1>4, <1>5 DEF ExecuteJobByService, Route

\* The call is accepted, and is answered or given up.
LEMMA AcceptRuns ==
  ASSUME RunsPart, NEW r \in Runner, Accept(r)
  PROVE  RunsPart'
<1>1. /\ call[r] = "sent" /\ RunShape(r) /\ RunTypes
      /\ UNCHANGED <<executions, run, pc, outcome, row, late, routed, placeholders, faults>>
      /\ call' = [call EXCEPT ![r] = "accepted"]
      /\ effects' = [effects EXCEPT ![run[r]] = @ + 1]
  BY DEF Accept, RunsPart, tableVars
<1>2. run[r] \in Source /\ pc[r] = "await" /\ row[r] = "running" /\ outcome[r] = "none"
  BY <1>1, Sources DEF RunShape, Source
<1>3. Local(r) /\ call'[r] = "accepted"
  BY <1>1 DEF Local, RunTypes
<1>4. RunTypes'
  BY <1>1, <1>2 DEF RunTypes
<1>5. RunShape(r)'
  BY <1>1, <1>2, <1>3 DEF RunShape
<1>6. ASSUME NEW x \in Source
      PROVE  Ledger(x)'
  <2>1. Ledger(x)
    BY DEF RunsPart
  <2>2. effects'[x] = effects[x] + Bit(x = run[r])
    BY <1>1, <1>2 DEF RunTypes, Bit
  <2> QED
    BY <1>1, <1>2, <1>3, <2>1, <2>2, LocalCounts, Sizes
       DEF Ledger, RunsPart, Bit, RowStatus, Outcome, RunTypes
<1> QED
  BY <1>3, <1>4, <1>5, <1>6, RunnerPart

LEMMA ReplyRuns ==
  ASSUME RunsPart, NEW r \in Runner, ReplyOk(r) \/ ReplyError(r)
  PROVE  RunsPart'
<1>1. /\ pc[r] = "await" /\ RunShape(r) /\ RunTypes
      /\ UNCHANGED <<executions, run, row, routed, effects, placeholders, faults>>
      /\ call' = [call EXCEPT ![r] = "none"] /\ pc' = [pc EXCEPT ![r] = "save"]
      /\ \/ outcome' = [outcome EXCEPT ![r] = "completed"] /\ call[r] = "accepted"
         \/ outcome' = [outcome EXCEPT ![r] = "failed"]
  BY DEF ReplyOk, ReplyError, OutcomeOfError, RunsPart, tableVars, netVars
<1>2. run[r] \in Source /\ row[r] = "running"
  BY <1>1, Sources DEF RunShape, Source
<1>3. /\ Local(r) /\ pc'[r] = "save" /\ call'[r] = "none" /\ outcome'[r] \in Outcome
      /\ outcome'[r] = "completed" => call[r] = "accepted"
  BY <1>1 DEF Local, RunTypes, Outcome
<1>4. late' \in [Source -> Nat]
  <2>1. late' = late \/ late' = [late EXCEPT ![run[r]] = @ + 1]
    BY DEF ReplyOk, ReplyError, netVars
  <2> QED
    BY <1>1, <1>2, <2>1 DEF RunTypes
<1>5. RunTypes'
  BY <1>1, <1>2, <1>4 DEF RunTypes, Outcome
<1>6. RunShape(r)'
  BY <1>1, <1>2, <1>3 DEF RunShape, Outcome
<1>7. ASSUME NEW x \in Source
      PROVE  Ledger(x)'
  <2>1. Ledger(x)
    BY DEF RunsPart
  <2> QED
    BY <1>1, <1>2, <1>3, <2>1, LocalCounts, Sizes
       DEF Ledger, RunsPart, Bit, RowStatus, Outcome, RunTypes
<1> QED
  BY <1>3, <1>5, <1>6, <1>7, RunnerPart

\* The outcome replaces the status of the row, whatever an earlier save left in it.
LEMMA RecordedOutcome ==
  ASSUME RunsPart, NEW r \in Runner, pc[r] = "save", RecordOutcome(r)
  PROVE  /\ executions' \in [Source -> [RowStatus -> Nat]]
         /\ row' = [row EXCEPT ![r] = outcome[r]]
         /\ \A x \in Source, k \in RowStatus :
              executions'[x][k] = executions[x][k] + Bit(x = run[r] /\ k = outcome[r])
                                                   - Bit(x = run[r] /\ k = row[r])
<1>1. RunShape(r)
  BY DEF RunsPart
<1>2. /\ run[r] \in Source /\ outcome[r] \in RowStatus /\ row[r] \in RowStatus
      /\ Recorded(r, row[r], outcome[r]) /\ row' = [row EXCEPT ![r] = outcome[r]]
  BY <1>1, Sources DEF RunShape, Source, RowStatus, Outcome, RecordOutcome
<1> QED
  BY <1>2, RecordedRow

LEMMA SaveRuns ==
  ASSUME RunsPart, NEW r \in Runner, SaveOutcome(r)
  PROVE  RunsPart'
<1>1. /\ pc[r] = "save" /\ RunShape(r) /\ RunTypes
      /\ UNCHANGED <<run, outcome, call, late, routed, effects, placeholders, faults>>
      /\ pc' = [pc EXCEPT ![r] = "settle"]
  BY DEF SaveOutcome, RunsPart, netVars
<1>2. /\ run[r] \in Source /\ outcome[r] \in Outcome /\ call[r] = "none"
      /\ row[r] = "running" \/ (row[r] = "completed" /\ outcome[r] = "failed")
  BY <1>1, Sources DEF RunShape, Source, Outcome
<1>3. /\ executions' \in [Source -> [RowStatus -> Nat]]
      /\ row' = [row EXCEPT ![r] = outcome[r]]
      /\ \A x \in Source, k \in RowStatus :
           executions'[x][k] = executions[x][k] + Bit(x = run[r] /\ k = outcome[r])
                                                - Bit(x = run[r] /\ k = row[r])
  BY <1>1, RecordedOutcome DEF SaveOutcome
<1>4. Local(r) /\ pc'[r] = "settle" /\ row'[r] = outcome[r]
  BY <1>1, <1>3 DEF Local, RunTypes
<1>5. RunTypes'
  BY <1>1, <1>2, <1>3 DEF RunTypes
<1>6. RunShape(r)'
  BY <1>1, <1>2, <1>4 DEF RunShape
<1>7. ASSUME NEW x \in Source
      PROVE  Ledger(x)'
  <2>1. Ledger(x)
    BY DEF RunsPart
  <2>2. run'[r] = run[r] /\ call'[r] = "none" /\ outcome'[r] = outcome[r]
    BY <1>1, <1>2
  <2>3. /\ \A k \in Outcome \cup {"running"} :
             Cardinality(RowsOf(x, k)') = Cardinality(RowsOf(x, k))
               + Bit(x = run[r] /\ k = outcome[r]) - Bit(x = run[r] /\ k = row[r])
        /\ Cardinality(AboutToCall(x)') = Cardinality(AboutToCall(x))
    BY <1>1, <1>4, <2>2, LocalCounts, Sizes DEF RunsPart, Bit
  <2>4. /\ Cardinality(Live(x)') = Cardinality(Live(x)) - Bit(x = run[r] /\ row[r] = "running")
        /\ Cardinality(Promised(x)') = Cardinality(Promised(x))
             - Bit(x = run[r] /\ outcome[r] = "completed")
    BY <1>1, <1>2, <1>4, <2>2, LocalCounts, Sizes DEF RunsPart, Bit
  <2>5. \A k \in Outcome \cup {"running"} :
          /\ executions[x][k] \in Nat
          /\ executions'[x][k] = executions[x][k] + Bit(x = run[r] /\ k = outcome[r])
                                                  - Bit(x = run[r] /\ k = row[r])
    BY <1>1, <1>3 DEF RunTypes, RowStatus, Outcome
  <2>6. \A k \in Outcome \cup {"running"} : Cardinality(RowsOf(x, k)') <= executions'[x][k]
    BY <2>1, <2>3, <2>5, Sizes DEF Ledger, RunsPart, Bit
  <2>7. executions'[x]["running"] <= Cardinality(Live(x)') + faults'
    BY <1>1, <1>2, <2>1, <2>4, <2>5, Sizes DEF Ledger, RunsPart, RunTypes, Bit, Outcome
  <2>8. executions'[x]["completed"] + Cardinality(Promised(x)') <= effects'[x] + placeholders'[x]
    BY <1>1, <1>2, <2>1, <2>4, <2>5, Sizes DEF Ledger, RunsPart, RunTypes, Bit, Outcome
  <2>9. routed'[x] + Cardinality(AboutToCall(x)')
          <= executions'[x]["running"] + executions'[x]["completed"] + executions'[x]["failed"]
    BY <1>1, <1>2, <2>1, <2>3, <2>5, Sizes DEF Ledger, RunsPart, RunTypes, Bit, Outcome
  <2> QED
    BY <2>6, <2>7, <2>8, <2>9 DEF Ledger
<1> QED
  BY <1>4, <1>5, <1>6, <1>7, RunnerPart

LEMMA SaveFailsRuns ==
  ASSUME RunsPart, NEW r \in Runner, SaveFails(r)
  PROVE  RunsPart'
<1>1. /\ pc[r] = "save" /\ RunShape(r) /\ RunTypes
      /\ UNCHANGED <<run, call, late, routed, effects, placeholders>>
      /\ faults' \in 0..MaxFaults /\ faults' = faults + 1
      /\ \/ /\ outcome[r] = "completed" /\ pc' = pc
            /\ outcome' = [outcome EXCEPT ![r] = "failed"]
         \/ /\ outcome[r] # "completed" /\ pc' = [pc EXCEPT ![r] = "settle"]
            /\ outcome' = [outcome EXCEPT ![r] = "thrown"]
  BY FaultType DEF SaveFails, RunsPart, RunTypes, OutcomeOfError, netVars
<1>2. /\ run[r] \in Source /\ outcome[r] \in Outcome /\ call[r] = "none"
      /\ row[r] = "running" \/ (row[r] = "completed" /\ outcome[r] = "failed")
  BY <1>1, Sources DEF RunShape, Source, Outcome
<1>3. \/ /\ executions' \in [Source -> [RowStatus -> Nat]]
         /\ row' = [row EXCEPT ![r] = outcome[r]]
         /\ \A x \in Source, k \in RowStatus :
              executions'[x][k] = executions[x][k] + Bit(x = run[r] /\ k = outcome[r])
                                                   - Bit(x = run[r] /\ k = row[r])
      \/ UNCHANGED <<executions, row>>
  BY <1>1, RecordedOutcome DEF SaveFails
<1>4. /\ Local(r)
      /\ \/ outcome[r] = "completed" /\ pc'[r] = "save" /\ outcome'[r] = "failed"
         \/ outcome[r] = "failed" /\ pc'[r] = "settle" /\ outcome'[r] = "thrown"
      /\ row'[r] \in {row[r], outcome[r]}
  BY <1>1, <1>2, <1>3 DEF Local, RunTypes, Outcome
<1>5. RunTypes'
  BY <1>1, <1>2, <1>3 DEF RunTypes, Outcome
<1>6. RunShape(r)'
  BY <1>1, <1>2, <1>4 DEF RunShape, Outcome
<1>7. ASSUME NEW x \in Source
      PROVE  Ledger(x)'
  <2>1. Ledger(x)
    BY DEF RunsPart
  <2>2. CASE UNCHANGED <<executions, row>>
    BY <1>1, <1>2, <1>4, <2>1, <2>2, LocalCounts, Sizes
       DEF Ledger, RunsPart, Bit, RowStatus, Outcome, RunTypes
  <2>3. CASE row' = [row EXCEPT ![r] = outcome[r]] /\ ~UNCHANGED <<executions, row>>
    <3>1. row'[r] = outcome[r] /\ run'[r] = run[r] /\ call'[r] = "none"
      BY <1>1, <1>2, <2>3 DEF RunTypes
    <3>2. \A k \in Outcome \cup {"running"} :
             Cardinality(RowsOf(x, k)') = Cardinality(RowsOf(x, k))
               + Bit(x = run[r] /\ k = outcome[r]) - Bit(x = run[r] /\ k = row[r])
      BY <1>4, <3>1, LocalCounts, Sizes DEF RunsPart, Bit
    <3>3. Cardinality(AboutToCall(x)') = Cardinality(AboutToCall(x))
      BY <1>1, <1>4, <3>1, LocalCounts, Sizes DEF RunsPart, Bit
    <3>4. Cardinality(Live(x)') = Cardinality(Live(x)) - Bit(x = run[r] /\ row[r] = "running")
      BY <1>1, <1>2, <1>4, <3>1, LocalCounts, Sizes DEF RunsPart, Bit
    <3>5. Cardinality(Promised(x)') = Cardinality(Promised(x))
             - Bit(x = run[r] /\ outcome[r] = "completed")
      BY <1>1, <1>2, <1>4, <3>1, LocalCounts, Sizes DEF RunsPart, Bit
    <3>6. \A k \in Outcome \cup {"running"} :
            /\ executions[x][k] \in Nat
            /\ executions'[x][k] = executions[x][k] + Bit(x = run[r] /\ k = outcome[r])
                                                    - Bit(x = run[r] /\ k = row[r])
      BY <1>1, <1>3, <2>3 DEF RunTypes, RowStatus, Outcome
    <3>7. \A k \in Outcome \cup {"running"} : Cardinality(RowsOf(x, k)') <= executions'[x][k]
      BY <2>1, <3>2, <3>6, Sizes DEF Ledger, RunsPart, Bit
    <3>8. executions'[x]["running"] <= Cardinality(Live(x)') + faults'
      BY <1>1, <1>2, <2>1, <3>4, <3>6, Sizes DEF Ledger, RunsPart, RunTypes, Bit, Outcome
    <3>9. executions'[x]["completed"] + Cardinality(Promised(x)') <= effects'[x] + placeholders'[x]
      BY <1>1, <1>2, <2>1, <3>5, <3>6, Sizes DEF Ledger, RunsPart, RunTypes, Bit, Outcome
    <3>10. routed'[x] + Cardinality(AboutToCall(x)') <=
             executions'[x]["running"] + executions'[x]["completed"] + executions'[x]["failed"]
      BY <1>1, <1>2, <2>1, <3>3, <3>6, Sizes DEF Ledger, RunsPart, RunTypes, Bit, Outcome
    <3> QED
      BY <3>7, <3>8, <3>9, <3>10 DEF Ledger
  <2> QED
    BY <1>3, <2>2, <2>3
<1> QED
  BY <1>4, <1>5, <1>6, <1>7, RunnerPart

\* An executeJob begins.
LEMMA BeginRuns ==
  ASSUME RunsPart, NEW r \in Runner, NEW x \in (IF r \in Worker THEN Entry ELSE DirectOf),
         Begin(r, x)
  PROVE  RunsPart'
<1>1. /\ pc[r] = "idle" /\ RunShape(r) /\ RunTypes /\ x \in Source
      /\ UNCHANGED <<executions, outcome, row, call, late, routed, effects, placeholders>>
      /\ faults' = faults
      /\ run' = [run EXCEPT ![r] = x] /\ pc' = [pc EXCEPT ![r] = "create"]
  BY Sources DEF Begin, RunsPart, tableVars, netVars
<1>2. run[r] = NoRun /\ row[r] = "none" /\ outcome[r] = "none" /\ call[r] = "none"
  BY <1>1 DEF RunShape
<1>3. Local(r) /\ pc'[r] = "create" /\ run'[r] = x
  BY <1>1 DEF Local, RunTypes
<1>4. RunTypes'
  BY <1>1 DEF RunTypes
<1>5. RunShape(r)'
  BY <1>1, <1>2, <1>3 DEF RunShape
<1>6. ASSUME NEW y \in Source
      PROVE  Ledger(y)'
  <2>1. Ledger(y)
    BY DEF RunsPart
  <2>2. \A k \in RowStatus : Cardinality(RowsOf(y, k)') = Cardinality(RowsOf(y, k))
    <3>1. "none" \notin RowStatus /\ row'[r] = "none"
      BY <1>1, <1>2 DEF RowStatus, Outcome
    <3> QED
      BY <1>2, <1>3, <3>1, LocalCounts, Sizes DEF RunsPart, Bit
  <2>3. Cardinality(Live(y)') = Cardinality(Live(y))
    BY <1>1, <1>2, <1>3, LocalCounts, Sizes DEF RunsPart, Bit
  <2>4. /\ Cardinality(Promised(y)') = Cardinality(Promised(y))
        /\ Cardinality(AboutToCall(y)') = Cardinality(AboutToCall(y))
    BY <1>1, <1>2, <1>3, LocalCounts, Sizes DEF RunsPart, Bit
  <2> QED
    BY <1>1, <2>1, <2>2, <2>3, <2>4 DEF Ledger, RowStatus
<1> QED
  BY <1>3, <1>4, <1>5, <1>6, RunnerPart

\* It ends: settled, or with its process. In that case its row may be left behind.
LEMMA EndRuns ==
  ASSUME RunsPart, NEW r \in Runner, NEW next \in {"idle", "done"}, RunEnds(r, next),
         UNCHANGED <<executions, routed, effects, placeholders>>, late' \in [Source -> Nat],
         faults' \in 0..MaxFaults,
         faults' = faults + 1 \/ (pc[r] = "settle" /\ faults' = faults)
  PROVE  RunsPart'
<1>1. /\ RunShape(r) /\ RunTypes
      /\ run' = [run EXCEPT ![r] = NoRun] /\ row' = [row EXCEPT ![r] = "none"]
      /\ outcome' = [outcome EXCEPT ![r] = "none"] /\ call' = [call EXCEPT ![r] = "none"]
      /\ pc' = [pc EXCEPT ![r] = next]
  BY DEF RunEnds, RunsPart
<1>2. /\ Local(r) /\ pc'[r] = next /\ run'[r] = NoRun /\ row'[r] = "none"
      /\ outcome'[r] = "none" /\ call'[r] = "none"
  BY <1>1 DEF Local, RunTypes
<1>3. RunTypes'
  BY <1>1 DEF RunTypes
<1>4. RunShape(r)'
  BY <1>1, <1>2 DEF RunShape
<1>5. ASSUME NEW x \in Source
      PROVE  Ledger(x)'
  <2>1. Ledger(x) /\ x # NoRun
    BY Sources DEF RunsPart
  <2>2. \A k \in RowStatus : /\ Cardinality(RowsOf(x, k)) \in Nat
                             /\ Cardinality(RowsOf(x, k)') \in Int
                             /\ Cardinality(RowsOf(x, k)') <= Cardinality(RowsOf(x, k))
    BY <1>2, <2>1, LocalCounts, Sizes DEF RunsPart, Bit
  <2>3. /\ Cardinality(Live(x)) \in Nat
        /\ \/ Cardinality(Live(x)') = Cardinality(Live(x))
           \/ Cardinality(Live(x)') = Cardinality(Live(x)) - 1 /\ pc[r] # "settle"
    BY <1>2, <2>1, LocalCounts, Sizes DEF RunsPart, Bit
  <2>4. /\ Cardinality(Promised(x)) \in Nat /\ Cardinality(AboutToCall(x)) \in Nat
        /\ Cardinality(Promised(x)') \in {Cardinality(Promised(x)), Cardinality(Promised(x)) - 1}
        /\ Cardinality(AboutToCall(x)')
             \in {Cardinality(AboutToCall(x)), Cardinality(AboutToCall(x)) - 1}
    BY <1>2, <2>1, LocalCounts, Sizes DEF RunsPart, Bit
  <2>5. /\ \A k \in RowStatus : executions'[x][k] = executions[x][k] /\ executions[x][k] \in Nat
        /\ routed'[x] = routed[x] /\ effects'[x] = effects[x] /\ faults \in Nat
        /\ placeholders'[x] = placeholders[x]
        /\ routed[x] \in Nat /\ effects[x] \in Nat /\ placeholders[x] \in Nat
    BY <1>1 DEF RunTypes
  <2>6. \A k \in RowStatus : Cardinality(RowsOf(x, k)') <= executions'[x][k]
    <3> SUFFICES ASSUME NEW k \in RowStatus
                 PROVE  Cardinality(RowsOf(x, k)') <= executions'[x][k]
      OBVIOUS
    <3>1. Cardinality(RowsOf(x, k)) <= executions[x][k]
      BY <2>1 DEF Ledger, RowStatus
    <3> QED
      BY <2>2, <2>5, <3>1
  <2>7. executions'[x]["running"] <= Cardinality(Live(x)') + faults'
    BY <2>1, <2>3, <2>5 DEF Ledger, RowStatus
  <2>8. /\ executions'[x]["completed"] + Cardinality(Promised(x)') <= effects'[x] + placeholders'[x]
        /\ routed'[x] + Cardinality(AboutToCall(x)')
             <= executions'[x]["running"] + executions'[x]["completed"] + executions'[x]["failed"]
    BY <2>1, <2>4, <2>5 DEF Ledger, RowStatus, Outcome
  <2> QED
    BY <2>6, <2>7, <2>8 DEF Ledger, RowStatus
<1> QED
  BY <1>2, <1>3, <1>4, <1>5, RunnerPart

\* Steps of the queue, of the requests and of the messaging service by itself.
LEMMA QuietRuns ==
  ASSUME RunsPart, UNCHANGED <<runVars, executions, routed, placeholders>>,
         late' \in [Source -> Nat], effects' \in [Source -> Nat], faults' \in 0..MaxFaults,
         faults' >= faults, \A x \in Source : effects'[x] >= effects[x]
  PROVE  RunsPart'
<1> USE DEF runVars
<1>1. RunTypes'
  BY DEF RunsPart, RunTypes
<1>2. \A r \in Runner : RunShape(r)'
  BY DEF RunsPart, RunShape
<1>3. IsFiniteSet(Busy')
  BY DEF RunsPart, Busy
<1>4. ASSUME NEW x \in Source
      PROVE  Ledger(x)'
  <2>1. /\ \A k : RowsOf(x, k)' = RowsOf(x, k)
        /\ Live(x)' = Live(x) /\ Promised(x)' = Promised(x) /\ AboutToCall(x)' = AboutToCall(x)
    BY DEF RowsOf, Live, Promised, AboutToCall
  <2>2. Ledger(x)
    BY DEF RunsPart
  <2> QED
    BY <1>1, <2>1, <2>2, Sizes DEF RunsPart, RunTypes, Ledger, RowStatus, Outcome
<1> QED
  BY <1>1, <1>2, <1>3, <1>4 DEF RunsPart

\* Steps outside executeJob leave the runners and the ledger alone.
LEMMA OutsideRuns ==
  ASSUME NEW c, NEW a, NEW e, NEW j,
         \/ CreateJob(j) \/ ClientStep(c) \/ AdminStep(a) \/ DelayOver(e) \/ StalledCheck(e)
  PROVE  /\ UNCHANGED <<runVars, executions, netVars>>
         /\ faults' = faults \/ Fault
<1> USE DEF tableVars
<1>1. CASE CreateJob(j) \/ DelayOver(e) \/ StalledCheck(e)
  BY <1>1 DEF CreateJob, DelayOver, StalledCheck
<1>2. CASE ClientStep(c)
  BY <1>2 DEF ClientStep, ScheduleJob, ScheduleJobFails, Lookup, RemoveJob, RemoveJobLocked,
              RemoveJobFails, SaveSchedule, CancelSchedule, CancelAnswered
<1>3. CASE AdminStep(a)
  BY <1>3 DEF AdminStep, PauseQueue, ResumeQueue, CleanCompleted, CleanFailed, GetFailed,
              RetryFailed, AdminOnly
<1> QED
  BY <1>1, <1>2, <1>3

LEMMA RunsStep == RunsPart /\ [Next]_vars => RunsPart'
<1> SUFFICES ASSUME RunsPart, [Next]_vars
             PROVE  RunsPart'
  OBVIOUS
<1>1. RunTypes
  BY DEF RunsPart
<1>2. ASSUME UNCHANGED <<runVars, executions, netVars>>, faults' = faults \/ Fault
      PROVE  RunsPart'
  <2>1. faults' \in 0..MaxFaults /\ faults' >= faults
    BY <1>1, <1>2, FaultType DEF RunTypes
  <2>2. late' = late /\ routed' = routed /\ effects' = effects /\ placeholders' = placeholders
    BY <1>2 DEF netVars
  <2>3. \A x \in Source : effects'[x] >= effects[x]
    BY <1>1, <2>2 DEF RunTypes
  <2> QED
    BY <1>1, <1>2, <2>1, <2>2, <2>3, QuietRuns DEF RunTypes
<1>3. CASE UNCHANGED vars
  BY <1>2, <1>3 DEF vars, tableVars
<1>4. ASSUME NEW r \in Runner, RunnerStep(r)
      PROVE  RunsPart'
  <2>1. CASE Settle(r)
    <3>1. /\ UNCHANGED <<executions, late, routed, effects, placeholders, faults>>
          /\ pc[r] = "settle"
      BY <2>1 DEF Settle, tableVars, netVars
    <3> QED
      BY <1>1, <2>1, <3>1, EndRuns DEF Settle, RunTypes
  <2>2. CASE Crash(r)
    <3>1. RunEnds(r, "idle") \/ RunEnds(r, "done")
      BY <2>2 DEF Crash
    <3>2. /\ UNCHANGED <<executions, routed, effects, placeholders>>
          /\ faults' \in 0..MaxFaults /\ faults' = faults + 1
      BY <1>1, <2>2, FaultType DEF Crash, tableVars, RunTypes
    <3>3. late' = late \/ late' = [late EXCEPT ![run[r]] = @ + 1]
      BY <2>2 DEF Crash
    <3>4. late' \in [Source -> Nat]
      BY <1>1, <3>3 DEF RunTypes
    <3> QED
      BY <3>1, <3>2, <3>4, EndRuns
  <2> QED
    BY <1>4, <2>1, <2>2, CreateRuns, CreateFailsRuns, CallRuns, AcceptRuns, ReplyRuns, SaveRuns,
       SaveFailsRuns DEF RunnerStep, Progress
<1>5. ASSUME NEW w \in Worker, NEW e \in Entry, Process(w, e)
      PROVE  RunsPart'
  BY <1>5, BeginRuns DEF Process, Runner
<1>6. ASSUME NEW r \in Caller, ExecuteDirectly(r) \/ AnswerCaller(r)
      PROVE  RunsPart'
  <2>1. r \in Runner /\ r \notin Worker
    BY SchedulerAssumption DEF Runner
  <2>2. CASE ExecuteDirectly(r)
    BY <2>1, <2>2, BeginRuns, Sources DEF ExecuteDirectly
  <2>3. CASE AnswerCaller(r)
    <3>1. /\ UNCHANGED <<executions, late, routed, effects, placeholders, faults>>
          /\ pc[r] = "settle"
      BY <2>3 DEF AnswerCaller, tableVars, netVars
    <3> QED
      BY <1>1, <2>1, <2>3, <3>1, EndRuns DEF AnswerCaller, RunTypes
  <2> QED
    BY <1>6, <2>2, <2>3
<1>7. ASSUME NEW x \in Source, AcceptLate(x)
      PROVE  RunsPart'
  <2>1. /\ UNCHANGED <<runVars, executions, routed, placeholders, faults>> /\ late[x] > 0
        /\ late' = [late EXCEPT ![x] = @ - 1] /\ effects' = [effects EXCEPT ![x] = @ + 1]
    BY <1>7 DEF AcceptLate, tableVars
  <2>2. /\ late' \in [Source -> Nat] /\ effects' \in [Source -> Nat]
        /\ \A y \in Source : effects'[y] >= effects[y]
    BY <1>1, <2>1 DEF RunTypes
  <2> QED
    BY <1>1, <2>1, <2>2, QuietRuns, SchedulerAssumption DEF RunTypes
<1>8. CASE \/ \E j \in Job : CreateJob(j)
           \/ \E c \in Client : ClientStep(c)
           \/ \E e \in Entry : DelayOver(e) \/ StalledCheck(e)
           \/ \E a \in Admin : AdminStep(a)
  BY <1>2, <1>8, OutsideRuns
<1> QED
  BY <1>3, <1>4, <1>5, <1>6, <1>7, <1>8 DEF Next

-----------------------------------------------------------------------------
(* The queue and the requests                                               *)

OtherTypes ==
  /\ QueueTypeOK /\ jobs \in [Job -> Target \cup {"absent"}]
  /\ schedules \in [Schedule -> [type : ScheduleType \cup {"absent"}, isActive : BOOLEAN,
                                job : Job \cup {NoJob}]]
  /\ rpc \in [Client -> {"idle", "addToQueue", "lookup", "remove", "removeRepeat", "done"}]
  /\ target \in [Client -> Schedule \cup {NoTarget}]
  /\ apc \in [Admin -> {"idle", "cleanFailed", "retry", "done"}]
  /\ toRetry \in [Admin -> SUBSET Entry]
  /\ acked \subseteq Schedule /\ cancelled \subseteq Schedule /\ stopped \subseteq Schedule

LEMMA TypeParts == TypeOK <=> RunTypes /\ OtherTypes
BY DEF TypeOK, RunTypes, OtherTypes, RowStatus

\* Every operation of the queue keeps the types of its state.
LEMMA AddType ==
  ASSUME QueueTypeOK, NEW s \in Schedule,
         \/ \E how \in {"delayed", "waiting"} : AddJob(s, how)
         \/ AddRepeatableJob(s) \/ RemoveRepeatable(s)
  PROVE  QueueTypeOK'
BY DEF QueueTypeOK, AddJob, AddRepeatableJob, RemoveRepeatable, State

LEMMA EntryType ==
  ASSUME QueueTypeOK, NEW e \in Entry, Promote(e) \/ Stall(e) \/ Remove(e) \/ Retry(e)
  PROVE  QueueTypeOK'
BY DEF QueueTypeOK, Promote, Stall, Remove, Retry, State

LEMMA WorkerType ==
  ASSUME QueueTypeOK, NEW w \in Worker, NEW e \in Entry,
         Take(w, e) \/ Complete(w, e) \/ FailAttempt(w, e)
  PROVE  QueueTypeOK'
BY DEF QueueTypeOK, Take, Complete, FailAttempt, State

LEMMA WholeQueueType ==
  ASSUME QueueTypeOK,
         \/ \E r : Orphaned(r)
         \/ \E kind : Clean(kind)
         \/ \E b \in BOOLEAN : SetPaused(b)
         \/ UNCHANGED queueVars
  PROVE  QueueTypeOK'
<1>1. CASE \E r : Orphaned(r)
  BY <1>1 DEF QueueTypeOK, Orphaned
<1>2. CASE \E kind : Clean(kind)
  BY <1>2 DEF QueueTypeOK, Clean, State
<1>3. CASE (\E b \in BOOLEAN : SetPaused(b)) \/ UNCHANGED queueVars
  BY <1>3 DEF QueueTypeOK, SetPaused, queueVars
<1> QED
  BY <1>1, <1>2, <1>3

\* Steps of executeJob touch the queue at its beginning and end only, the tables of the
\* requests never.
LEMMA RunnerLocal ==
  ASSUME NEW r, RunnerStep(r)
  PROVE  /\ UNCHANGED <<jobs, schedules, clientVars, adminVars>>
         /\ Settle(r) \/ Crash(r) \/ UNCHANGED queueVars
BY DEF RunnerStep, Progress, CreateExecution, ExecuteJobByService, ReplyOk, ReplyError,
       SaveOutcome, Settle, CreateFails, SaveFails, Crash, Accept, tableVars

LEMMA OtherTypesStep ==
  ASSUME RunsPart, OtherTypes, QueueShape, [Next]_vars
  PROVE  OtherTypes'
<1>1. QueueTypeOK'
  <2> QueueTypeOK
    BY DEF OtherTypes
  <2>1. CASE UNCHANGED vars
    BY <2>1, WholeQueueType DEF vars
  <2>2. ASSUME NEW j \in Job, CreateJob(j)
        PROVE  QueueTypeOK'
    BY <2>2, WholeQueueType DEF CreateJob
  <2>3. ASSUME NEW c \in Client, ClientStep(c)
        PROVE  QueueTypeOK'
    <3>1. \/ rpc[c] # "idle" /\ (AddToQueue(target[c]) \/ RemoveFound(c))
          \/ UNCHANGED queueVars
      BY <2>3 DEF ClientStep, ScheduleJob, ScheduleJobFails, Lookup, RemoveJob, RemoveJobLocked,
                  RemoveJobFails, SaveSchedule, CancelSchedule, RemoveFound
    <3>2. rpc[c] # "idle" => target[c] \in Schedule /\ First(target[c]) \in Entry
      BY Sources DEF QueueShape
    <3> QED
      BY <3>1, <3>2, AddType, EntryType, WholeQueueType DEF AddToQueue, RemoveFound
  <2>4. ASSUME NEW r \in Runner, RunnerStep(r)
        PROVE  QueueTypeOK'
    <3>1. CASE Settle(r)
      <4>1. r \in Worker /\ run[r] \in Entry
        BY <3>1 DEF Settle, RunsPart, RunShape
      <4> QED
        BY <3>1, <4>1, WorkerType DEF Settle, SettleEntry
    <3> QED
      BY <2>4, <3>1, RunnerLocal, WholeQueueType DEF Crash
  <2>5. ASSUME NEW w \in Worker, NEW e \in Entry, Process(w, e)
        PROVE  QueueTypeOK'
    BY <2>5, WorkerType DEF Process
  <2>6. ASSUME NEW r \in Caller, ExecuteDirectly(r) \/ AnswerCaller(r)
        PROVE  QueueTypeOK'
    BY <2>6, WholeQueueType DEF ExecuteDirectly, AnswerCaller
  <2>7. ASSUME NEW e \in Entry, DelayOver(e) \/ StalledCheck(e)
        PROVE  QueueTypeOK'
    BY <2>7, EntryType DEF DelayOver, StalledCheck
  <2>8. ASSUME NEW x \in Source, AcceptLate(x)
        PROVE  QueueTypeOK'
    BY <2>8, WholeQueueType DEF AcceptLate
  <2>9. ASSUME NEW a \in Admin, AdminStep(a)
        PROVE  QueueTypeOK'
    BY <2>9, WholeQueueType, EntryType
       DEF AdminStep, PauseQueue, ResumeQueue, CleanCompleted, CleanFailed, GetFailed, RetryFailed
  <2> QED
    BY <2>1, <2>2, <2>3, <2>4, <2>5, <2>6, <2>7, <2>8, <2>9 DEF Next
<1> USE <1>1 DEF OtherTypes
<1>2. CASE UNCHANGED <<jobs, schedules, clientVars, adminVars>>
  BY <1>2 DEF clientVars, adminVars
<1>3. ASSUME NEW j \in Job, CreateJob(j)
      PROVE  OtherTypes'
  BY <1>3 DEF CreateJob, clientVars, adminVars
<1>4. ASSUME NEW c \in Client, ClientStep(c)
      PROVE  OtherTypes'
  <2>1. rpc[c] # "idle" => target[c] \in Schedule
    BY DEF QueueShape
  <2>2. ASSUME NEW s \in Schedule, SaveSchedule(c, s)
        PROVE  OtherTypes'
    BY <2>2 DEF SaveSchedule, adminVars
  <2>3. ASSUME NEW s \in Schedule, CancelSchedule(c, s)
        PROVE  OtherTypes'
    BY <2>3 DEF CancelSchedule, adminVars
  <2>4. CASE ScheduleJob(c) \/ ScheduleJobFails(c)
    BY <2>1, <2>4 DEF ScheduleJob, ScheduleJobFails, tableVars, adminVars
  <2>5. CASE Lookup(c)
    BY <2>1, <2>5 DEF Lookup, tableVars, adminVars
  <2>6. CASE RemoveJob(c) \/ RemoveJobLocked(c) \/ RemoveJobFails(c)
    BY <2>1, <2>6 DEF RemoveJob, RemoveJobLocked, RemoveJobFails, RemoveFound, CancelAnswered,
                      tableVars, adminVars
  <2> QED
    BY <1>4, <2>2, <2>3, <2>4, <2>5, <2>6 DEF ClientStep
<1>5. ASSUME NEW a \in Admin, AdminStep(a)
      PROVE  OtherTypes'
  <2>1. UNCHANGED <<jobs, schedules, clientVars>>
    BY <1>5 DEF AdminStep, PauseQueue, ResumeQueue, CleanCompleted, CleanFailed, GetFailed,
                RetryFailed, AdminOnly, tableVars
  <2>2. /\ apc' \in [Admin -> {"idle", "cleanFailed", "retry", "done"}]
        /\ toRetry' \in [Admin -> SUBSET Entry]
    <3>1. CASE PauseQueue(a) \/ ResumeQueue(a) \/ CleanCompleted(a) \/ CleanFailed(a)
      BY <3>1 DEF PauseQueue, ResumeQueue, CleanCompleted, CleanFailed
    <3>2. CASE GetFailed(a)
      BY <3>2 DEF GetFailed
    <3>3. ASSUME NEW e \in Entry, RetryFailed(a, e)
          PROVE  /\ apc' \in [Admin -> {"idle", "cleanFailed", "retry", "done"}]
                 /\ toRetry' \in [Admin -> SUBSET Entry]
      BY <3>3 DEF RetryFailed
    <3> QED
      BY <1>5, <3>1, <3>2, <3>3 DEF AdminStep
  <2> QED
    BY <2>1, <2>2 DEF clientVars
<1>6. ASSUME NEW r \in Runner, RunnerStep(r)
      PROVE  OtherTypes'
  BY <1>2, <1>6, RunnerLocal
<1>7. CASE \/ \E w \in Worker, e \in Entry : Process(w, e)
           \/ \E r \in Caller : ExecuteDirectly(r) \/ AnswerCaller(r)
           \/ \E e \in Entry : DelayOver(e) \/ StalledCheck(e)
           \/ \E x \in Source : AcceptLate(x)
           \/ UNCHANGED vars
  BY <1>2, <1>7 DEF Process, ExecuteDirectly, AnswerCaller, DelayOver, StalledCheck, AcceptLate,
                    Begin, tableVars, vars
<1> QED
  BY <1>3, <1>4, <1>5, <1>6, <1>7 DEF Next

\* Locks and runs.
Locks == \A e \in Entry : holder[e] # NoWorker => state[e] = "active" /\ run[holder[e]] = e

\* Steps that are not a request's leave what the requests rely on alone when no first entry
\* enters the queue or its memory.
LEMMA ShapeKept ==
  ASSUME QueueShape, Locks', UNCHANGED <<schedules, repeats, clientVars>>,
         \A s \in Schedule : state[First(s)] = "none" <=> state'[First(s)] = "none"
  PROVE  QueueShape'
BY DEF QueueShape, Locks, clientVars

\* A worker takes, settles or loses the entry it runs.
LEMMA WorkerShape ==
  ASSUME RunsPart, OtherTypes, QueueShape, NEW w \in Worker, NEW e \in Entry, Process(w, e)
  PROVE  QueueShape'
<1>1. /\ pc[w] = "idle" /\ state[e] = "waiting"
      /\ UNCHANGED <<schedules, repeats, clientVars>>
      /\ run' = [run EXCEPT ![w] = e] /\ holder' = [holder EXCEPT ![e] = w]
  BY DEF Process, Take, Begin, tableVars
<1>2. w \in Runner /\ run[w] = NoRun
  BY <1>1 DEF Runner, RunsPart, RunShape
<1>3. \A f \in Entry : \/ state'[f] = state[f] /\ f # e
                       \/ f = e /\ state'[f] = "active"
                       \/ f = Next1(e) /\ f # e /\ state[f] = "none" /\ state'[f] = "delayed"
  BY DEF Process, Take, OtherTypes, QueueTypeOK
<1>4. Locks'
  <2>1. ASSUME NEW f \in Entry, holder'[f] # NoWorker
        PROVE  state'[f] = "active" /\ run'[holder'[f]] = f
    <3>1. CASE f = e
      BY <1>1, <1>2, <1>3, <3>1 DEF OtherTypes, QueueTypeOK, RunsPart, RunTypes
    <3>2. CASE f # e
      <4>1. holder'[f] = holder[f] /\ holder[f] \in Runner
        BY <1>1, <2>1, <3>2 DEF OtherTypes, QueueTypeOK, Runner
      <4>2. state[f] = "active" /\ run[holder[f]] = f
        BY <2>1, <4>1 DEF QueueShape
      <4>3. holder[f] # w
        BY <1>2, <4>2, Sources DEF Source
      <4> QED
        BY <1>1, <1>3, <3>2, <4>1, <4>2, <4>3 DEF RunsPart, RunTypes
    <3> QED
      BY <3>1, <3>2
  <2> QED
    BY <2>1 DEF Locks
<1>5. \A s \in Schedule : state[First(s)] = "none" <=> state'[First(s)] = "none"
  BY <1>1, <1>3, Sources
<1> QED
  BY <1>1, <1>4, <1>5, ShapeKept

LEMMA EndShape ==
  ASSUME RunsPart, OtherTypes, QueueShape, NEW r \in Runner, Settle(r) \/ Crash(r)
  PROVE  QueueShape'
<1>1. /\ UNCHANGED <<schedules, repeats, clientVars>> /\ run' = [run EXCEPT ![r] = NoRun]
      /\ RunShape(r)
  BY DEF Settle, SettleEntry, Complete, FailAttempt, Crash, Orphaned, RunEnds, tableVars,
         RunsPart
<1>2. \A e \in Entry : \/ holder'[e] = holder[e] /\ state'[e] = state[e]
                       \/ /\ holder[e] = r /\ holder'[e] = NoWorker
                          /\ state'[e] = state[e] \/ (state[e] = "active" /\ state'[e] # "none")
  <2>1. CASE Settle(r)
    <3>1. r \in Worker /\ r # NoWorker /\ SettleEntry(r, run[r]) /\ run[r] \in Entry
      BY <1>1, <2>1, QueueAssumption DEF Settle, RunShape
    <3>2. holder[run[r]] = r => state[run[r]] = "active"
      BY <3>1 DEF QueueShape
    <3> QED
      BY <3>1, <3>2 DEF SettleEntry, Complete, FailAttempt, OtherTypes, QueueTypeOK
  <2>2. CASE Crash(r)
    BY <2>2 DEF Crash, Orphaned
  <2> QED
    BY <2>1, <2>2
<1>3. Locks'
  <2>1. ASSUME NEW e \in Entry, holder'[e] # NoWorker
        PROVE  state'[e] = "active" /\ run'[holder'[e]] = e
    <3>1. /\ holder'[e] = holder[e] /\ state'[e] = state[e]
          /\ state[e] = "active" /\ run[holder[e]] = e /\ holder[e] \in Runner
      BY <1>2, <2>1 DEF QueueShape, OtherTypes, QueueTypeOK, Runner
    <3>2. holder[e] # r
      <4>1. CASE Settle(r)
        <5>1. holder[e] = r => SettleEntry(r, e) /\ r \in Worker
          BY <3>1, <4>1 DEF Settle
        <5>2. SettleEntry(r, e) /\ holder[e] = r => holder'[e] = NoWorker
          BY DEF SettleEntry, Complete, FailAttempt, OtherTypes, QueueTypeOK
        <5> QED
          BY <2>1, <5>1, <5>2
      <4>2. CASE Crash(r)
        BY <2>1, <4>2 DEF Crash, Orphaned
      <4> QED
        BY <4>1, <4>2
    <3> QED
      BY <1>1, <3>1, <3>2 DEF RunsPart, RunTypes
  <2> QED
    BY <2>1 DEF Locks
<1>4. \A s \in Schedule : state[First(s)] = "none" <=> state'[First(s)] = "none"
  BY <1>2, Sources, QueueAssumption DEF QueueShape
<1> QED
  BY <1>1, <1>3, <1>4, ShapeKept

\* The stalled check, the end of a delay and the operator.
LEMMA QueueOnlyShape ==
  ASSUME OtherTypes, QueueShape, run' = run,
         \/ \E e \in Entry : DelayOver(e) \/ StalledCheck(e)
         \/ \E a \in Admin : AdminStep(a)
  PROVE  QueueShape'
<1>1. UNCHANGED <<schedules, repeats, clientVars>>
  BY DEF DelayOver, Promote, StalledCheck, Stall, AdminStep, PauseQueue, ResumeQueue,
         CleanCompleted, CleanFailed, GetFailed, RetryFailed, AdminOnly, SetPaused, Clean, Retry,
         tableVars, queueVars
<1>2. ASSUME NEW e \in Entry
      PROVE  /\ state[e] = "none" <=> state'[e] = "none"
             /\ \/ holder'[e] = holder[e] /\ (state[e] = "active" => state'[e] = "active")
                \/ holder'[e] = NoWorker
  <2>1. ASSUME NEW f \in Entry, DelayOver(f) \/ StalledCheck(f)
        PROVE  /\ state[e] = "none" <=> state'[e] = "none"
               /\ \/ holder'[e] = holder[e] /\ (state[e] = "active" => state'[e] = "active")
                  \/ holder'[e] = NoWorker
    BY <2>1 DEF DelayOver, Promote, StalledCheck, Stall, OtherTypes, QueueTypeOK
  <2>2. ASSUME NEW a \in Admin, AdminStep(a)
        PROVE  /\ state[e] = "none" <=> state'[e] = "none"
               /\ holder'[e] = holder[e] /\ (state[e] = "active" => state'[e] = "active")
    <3>1. CASE PauseQueue(a) \/ ResumeQueue(a) \/ GetFailed(a)
      BY <3>1 DEF PauseQueue, ResumeQueue, GetFailed, SetPaused, queueVars
    <3>2. CASE CleanCompleted(a) \/ CleanFailed(a)
      BY <3>2 DEF CleanCompleted, CleanFailed, Clean
    <3>3. ASSUME NEW f \in Entry, RetryFailed(a, f)
          PROVE  /\ state[e] = "none" <=> state'[e] = "none"
                 /\ holder'[e] = holder[e] /\ (state[e] = "active" => state'[e] = "active")
      BY <3>3 DEF RetryFailed, Retry, OtherTypes, QueueTypeOK
    <3> QED
      BY <2>2, <3>1, <3>2, <3>3 DEF AdminStep
  <2> QED
    BY <2>1, <2>2
<1>3. Locks'
  BY <1>2 DEF Locks, QueueShape
<1> QED
  BY <1>1, <1>2, <1>3, Sources, ShapeKept

\* The requests.
LEMMA ClientShape ==
  ASSUME OtherTypes, QueueShape, NEW c \in Client, ClientStep(c), run' = run
  PROVE  QueueShape'
<1> USE DEF OtherTypes, QueueTypeOK
<1>1. ASSUME NEW s \in Schedule, SaveSchedule(c, s)
      PROVE  QueueShape'
  <2>1. /\ schedules[s].type = "absent" /\ rpc[c] = "idle" /\ state[First(s)] = "none"
        /\ UNCHANGED <<queueVars, stopped>>
        /\ rpc' = [rpc EXCEPT ![c] = "addToQueue"] /\ target' = [target EXCEPT ![c] = s]
    BY <1>1 DEF SaveSchedule, QueueShape
  <2>2. PICK type \in ScheduleType, j \in Job :
          schedules' = [schedules EXCEPT ![s] = [type |-> type, isActive |-> TRUE, job |-> j]]
    BY <1>1 DEF SaveSchedule
  <2>3. type # "absent"
    BY SchedulerAssumption
  <2>4. \A d \in Client : rpc[d] # "idle" => target[d] # s
    BY <2>1 DEF QueueShape
  <2>5. /\ schedules'[s].type = type
        /\ \A t \in Schedule \ {s} : schedules'[t] = schedules[t]
    BY <2>2
  <2>6. rpc'[c] = "addToQueue" /\ target'[c] = s
    BY <2>1
  <2>7. \A d \in Client \ {c} : rpc'[d] = rpc[d] /\ target'[d] = target[d]
    BY <2>1
  <2>8. s \notin repeats /\ s \notin stopped
    BY <2>1 DEF QueueShape
  <2> QED
    BY <2>1, <2>3, <2>4, <2>5, <2>6, <2>7, <2>8, <1>1 DEF QueueShape, queueVars
<1>2. ASSUME NEW s \in Schedule, CancelSchedule(c, s)
      PROVE  QueueShape'
  <2>1. /\ schedules[s].type # "absent" /\ UNCHANGED <<queueVars, stopped>>
        /\ rpc' = [rpc EXCEPT ![c] = "lookup"] /\ target' = [target EXCEPT ![c] = s]
        /\ schedules' = [schedules EXCEPT ![s].isActive = FALSE]
    BY <1>2 DEF CancelSchedule
  <2>2. \A t \in Schedule : schedules'[t].type = schedules[t].type
    BY <2>1
  <2> QED
    BY <2>1, <2>2, <1>2 DEF QueueShape, queueVars
<1>3. CASE ScheduleJob(c) \/ ScheduleJobFails(c)
  <2> DEFINE s == target[c]
  <2>1. /\ rpc[c] = "addToQueue" /\ rpc' = [rpc EXCEPT ![c] = "done"]
        /\ UNCHANGED <<schedules, target, stopped>>
    BY <1>3 DEF ScheduleJob, ScheduleJobFails, tableVars
  <2>2. s \in Schedule /\ state[First(s)] = "none" /\ s \notin stopped
    BY <2>1 DEF QueueShape
  <2>3. \A d \in Client : rpc'[d] = (IF d = c THEN "done" ELSE rpc[d])
    BY <2>1
  <2>4. CASE UNCHANGED queueVars
    BY <1>3, <2>1, <2>2, <2>3, <2>4 DEF QueueShape, queueVars
  <2>5. CASE AddToQueue(s)
    <3>1. /\ holder' = holder
          /\ state'[First(s)] \in {"waiting", "delayed"}
          /\ \A e \in Entry : e # First(s) => state'[e] = state[e]
          /\ \/ repeats' = repeats
             \/ repeats' = repeats \cup {s} /\ schedules[s].type = "REPEAT"
      BY <2>2, <2>5, Sources DEF AddToQueue, AddJob, AddRepeatableJob
    <3>2. schedules[s].type # "absent"
      BY <2>1 DEF QueueShape
    <3>3. \A d \in Client : rpc'[d] = "addToQueue" => rpc[d] = "addToQueue" /\ target[d] # s
      BY <2>1, <2>3 DEF QueueShape
    <3>4. \A e \in Entry : holder[e] # NoWorker => e # First(s)
      BY <2>2 DEF QueueShape
    <3>5. \A t \in Schedule : t # s => First(t) # First(s) /\ First(t) \in Entry
      BY <2>2, Sources
    <3>6. \A t \in Schedule : t # s => state'[First(t)] = state[First(t)]
      BY <3>1, <3>5
    <3>7. \A e \in Entry : holder'[e] # NoWorker => state'[e] = "active" /\ run'[holder'[e]] = e
      BY <3>1, <3>4 DEF QueueShape
    <3> HIDE DEF s
    <3>8. \A t \in Schedule : /\ schedules'[t].type = "absent" => state'[First(t)] = "none"
                              /\ t \in repeats' => /\ schedules'[t].type = "REPEAT"
                                                   /\ state'[First(t)] # "none"
                              /\ t \in stopped' => t \notin repeats' /\ state'[First(t)] # "none"
      BY <2>1, <2>2, <3>1, <3>2, <3>6 DEF QueueShape
    <3>9. \A d \in Client : rpc'[d] # "idle" =>
             /\ target'[d] \in Schedule /\ schedules'[target'[d]].type # "absent"
             /\ rpc'[d] = "addToQueue" => state'[First(target'[d])] = "none"
             /\ rpc'[d] \in {"remove", "removeRepeat"} => state'[First(target'[d])] # "none"
             /\ rpc'[d] = "remove" => schedules'[target'[d]].type = "ONCE"
      <4>1. ASSUME NEW d \in Client, rpc'[d] # "idle"
            PROVE  /\ target'[d] \in Schedule /\ schedules'[target'[d]].type # "absent"
                   /\ rpc'[d] = "addToQueue" => state'[First(target'[d])] = "none"
                   /\ rpc'[d] \in {"remove", "removeRepeat"} => state'[First(target'[d])] # "none"
                   /\ rpc'[d] = "remove" => schedules'[target'[d]].type = "ONCE"
        <5>1. rpc[d] # "idle" /\ (rpc'[d] = rpc[d] \/ rpc'[d] = "done")
          BY <2>1, <2>3, <4>1
        <5>2. target'[d] = target[d] /\ target[d] \in Schedule /\ schedules' = schedules
          BY <2>1, <5>1 DEF QueueShape
        <5>3. target[d] # s => state'[First(target[d])] = state[First(target[d])]
          BY <3>6, <5>2
        <5> QED
          BY <3>1, <3>3, <5>1, <5>2, <5>3 DEF QueueShape
      <4> QED
        BY <4>1
    <3>10. \A d, f \in Client : rpc'[d] = "addToQueue" /\ rpc'[f] = "addToQueue"
                                /\ target'[d] = target'[f] => d = f
      BY <2>1, <2>3 DEF QueueShape
    <3> QED
      BY <3>7, <3>8, <3>9, <3>10 DEF QueueShape
  <2> QED
    BY <1>3, <2>4, <2>5 DEF ScheduleJob, ScheduleJobFails
<1>4. CASE Lookup(c)
  <2>1. /\ rpc[c] = "lookup" /\ UNCHANGED <<queueVars, schedules, target, stopped>>
        /\ rpc' = [rpc EXCEPT ![c] = IF Named(target[c]) THEN "remove"
                                     ELSE IF Listed(target[c]) THEN "removeRepeat" ELSE "done"]
    BY <1>4 DEF Lookup, tableVars
  <2>2. /\ rpc'[c] = "remove"
             => schedules[target[c]].type = "ONCE" /\ state[First(target[c])] # "none"
        /\ rpc'[c] = "removeRepeat" => state[First(target[c])] # "none"
        /\ rpc'[c] # "addToQueue" /\ rpc'[c] # "idle"
        /\ \A d \in Client \ {c} : rpc'[d] = rpc[d]
    BY <2>1 DEF Named, Listed, QueueShape
  <2> QED
    BY <2>1, <2>2, <1>4 DEF QueueShape, queueVars
<1>5. CASE RemoveJob(c) \/ RemoveJobLocked(c) \/ RemoveJobFails(c)
  <2> DEFINE s == target[c]
  <2>1. /\ rpc[c] \in {"lookup", "remove", "removeRepeat"} /\ rpc' = [rpc EXCEPT ![c] = "done"]
        /\ UNCHANGED <<schedules, target>>
    BY <1>5 DEF RemoveJob, RemoveFound, RemoveJobLocked, RemoveJobFails, CancelAnswered, tableVars
  <2>2. /\ s \in Schedule /\ First(s) \in Entry
        /\ \A d \in Client : rpc'[d] = (IF d = c THEN "done" ELSE rpc[d])
    BY <2>1, Sources DEF QueueShape
  <2>3. CASE UNCHANGED <<queueVars, stopped>>
    BY <1>5, <2>1, <2>2, <2>3 DEF QueueShape, queueVars
  <2>4. CASE RemoveJob(c)
    <3>1. /\ stopped' = stopped \cup {s} /\ state[First(s)] # "none"
          /\ holder' = holder /\ repeats' \subseteq repeats /\ s \notin repeats'
          /\ \A e \in Entry : \/ state'[e] = state[e]
                              \/ /\ state[e] # "none" /\ state'[e] # "none"
                                 /\ holder[e] = NoWorker
      <4>1. rpc[c] \in {"remove", "removeRepeat"} /\ stopped' = stopped \cup {s}
        BY <2>4 DEF RemoveJob, RemoveFound
      <4>2. state[First(s)] # "none"
        BY <4>1 DEF QueueShape
      <4>3. CASE rpc[c] = "remove" /\ Remove(First(s))
        <5>1. schedules[s].type = "ONCE"
          BY <4>3 DEF QueueShape
        <5>2. s \notin repeats
          BY <2>2, <5>1 DEF QueueShape
        <5> QED
          BY <2>2, <4>1, <4>2, <4>3, <5>2 DEF Remove, Removable
      <4>4. CASE rpc[c] = "removeRepeat" /\ RemoveRepeatable(s)
        <5>1. \A e \in Entry : state[e] = "delayed" => holder[e] = NoWorker
          BY DEF QueueShape
        <5> QED
          BY <4>1, <4>2, <4>4, <5>1 DEF RemoveRepeatable
      <4> QED
        BY <2>4, <4>3, <4>4 DEF RemoveJob, RemoveFound
    <3>2. \A t \in Schedule : state[First(t)] = "none" <=> state'[First(t)] = "none"
      BY <3>1, Sources
    <3> HIDE DEF s
    <3>3. \A e \in Entry : holder'[e] # NoWorker => state'[e] = "active" /\ run'[holder'[e]] = e
      BY <3>1 DEF QueueShape
    <3>4. \A t \in Schedule : /\ schedules'[t].type = "absent" => state'[First(t)] = "none"
                              /\ t \in repeats' => /\ schedules'[t].type = "REPEAT"
                                                   /\ state'[First(t)] # "none"
                              /\ t \in stopped' => t \notin repeats' /\ state'[First(t)] # "none"
      BY <2>1, <2>2, <3>1, <3>2 DEF QueueShape
    <3>5. \A d \in Client :
            rpc'[d] # "idle" => rpc[d] # "idle" /\ (rpc'[d] = rpc[d] \/ rpc'[d] = "done")
      BY <2>1, <2>2
    <3> QED
      BY <2>1, <2>2, <3>2, <3>3, <3>4, <3>5 DEF QueueShape
  <2> QED
    BY <1>5, <2>3, <2>4 DEF RemoveJobLocked, RemoveJobFails
<1> QED
  BY <1>1, <1>2, <1>3, <1>4, <1>5 DEF ClientStep

LEMMA QueueShapeStep ==
  ASSUME RunsPart, OtherTypes, QueueShape, [Next]_vars
  PROVE  QueueShape'
<1>1. CASE UNCHANGED <<queueVars, run, schedules, clientVars>>
  BY <1>1 DEF QueueShape, queueVars, clientVars
<1>2. ASSUME NEW r \in Runner, RunnerStep(r)
      PROVE  QueueShape'
  <2>1. CASE Settle(r) \/ Crash(r)
    BY <2>1, EndShape
  <2>2. CASE ~Settle(r) /\ ~Crash(r)
    <3>1. run' = run
      BY <1>2, <2>2 DEF RunnerStep, Progress, CreateExecution, ExecuteJobByService, ReplyOk,
                        ReplyError, SaveOutcome, CreateFails, SaveFails, Accept
    <3> QED
      BY <1>1, <1>2, <2>2, <3>1, RunnerLocal
  <2> QED
    BY <2>1, <2>2
<1>3. ASSUME NEW r \in Caller, ExecuteDirectly(r) \/ AnswerCaller(r)
      PROVE  QueueShape'
  <2>1. /\ UNCHANGED <<queueVars, schedules, clientVars>> /\ r \notin Worker
        /\ \E x : run' = [run EXCEPT ![r] = x]
    BY <1>3, SchedulerAssumption DEF ExecuteDirectly, Begin, AnswerCaller, RunEnds, tableVars
  <2>2. \A e \in Entry : holder[e] # NoWorker => run'[holder[e]] = run[holder[e]]
    BY <2>1 DEF OtherTypes, QueueTypeOK, RunsPart, RunTypes
  <2> QED
    BY <2>1, <2>2 DEF QueueShape, queueVars, clientVars
<1>4. ASSUME NEW c \in Client, ClientStep(c)
      PROVE  QueueShape'
  BY <1>4, OutsideRuns, ClientShape DEF runVars
<1>5. CASE \/ \E e \in Entry : DelayOver(e) \/ StalledCheck(e)
           \/ \E a \in Admin : AdminStep(a)
  BY <1>5, OutsideRuns, QueueOnlyShape DEF runVars
<1>6. CASE \/ \E j \in Job : CreateJob(j)
           \/ \E x \in Source : AcceptLate(x)
           \/ UNCHANGED vars
  BY <1>1, <1>6 DEF CreateJob, AcceptLate, tableVars, runVars, vars
<1> QED
  BY <1>2, <1>3, <1>4, <1>5, <1>6, WorkerShape DEF Next

-----------------------------------------------------------------------------
(* What an entry may still cost                                             *)

ExecutedRows(e) == executions[e]["completed"] + executions[e]["failed"]

\* A step that leaves the executions of an entry and its chances of another run as they are, or
\* is a fault.
LEMMA EntryKept ==
  ASSUME RunsPart, RunsPart', NEW e \in Entry, EntryShape(e),
         faults' \in {faults, faults + 1},
         routed'[e] + Cardinality(Starting(e)') <= routed[e] + Cardinality(Starting(e)),
         faults' = faults => (MayRunAgain(e)' => MayRunAgain(e)),
         ExecutedRows(e)' >= ExecutedRows(e),
         state'[e] = "completed" => state[e] = "completed" \/ ExecutedRows(e)' > 0,
         faults' = 0 => state'[e] # "failed" /\ (state'[e] = "active" => holder'[e] # NoWorker)
  PROVE  EntryShape(e)'
<1>1. /\ routed[e] \in Nat /\ routed'[e] \in Nat /\ faults \in Nat
      /\ executions[e] \in [RowStatus -> Nat] /\ executions'[e] \in [RowStatus -> Nat]
  BY Sources, SchedulerAssumption DEF RunsPart, RunTypes
<1>2. Cardinality(Starting(e)) \in Nat
  BY Sources, Sizes DEF RunsPart
<1>3. Cardinality(Starting(e)') \in Nat
  <2>1. Starting(e)' \subseteq Busy'
    BY Sources DEF Starting, Busy
  <2> QED
    BY <2>1, FS_Subset, FS_CardinalityType DEF RunsPart
<1>4. ExecutedRows(e) \in Nat /\ ExecutedRows(e)' \in Nat
  BY <1>1 DEF ExecutedRows, RowStatus, Outcome
<1>5. routed'[e] + Cardinality(Starting(e)') + (IF MayRunAgain(e)' THEN 1 ELSE 0) <= 1 + faults'
  BY <1>1, <1>2, <1>3 DEF EntryShape
<1>6. state'[e] = "completed" => ExecutedRows(e)' > 0
  BY <1>4 DEF EntryShape, ExecutedRows
<1> QED
  BY <1>5, <1>6 DEF EntryShape, ExecutedRows

\* No step takes an outcome out of the table.
LEMMA RowsStay ==
  ASSUME RunsPart, NEW e \in Entry, [Next]_vars
  PROVE  ExecutedRows(e)' >= ExecutedRows(e)
<1>1. e \in Source /\ executions[e] \in [RowStatus -> Nat]
  BY Sources DEF RunsPart, RunTypes
<1>2. /\ "completed" \in RowStatus /\ "failed" \in RowStatus /\ "running" \in RowStatus
      /\ executions[e]["completed"] \in Nat /\ executions[e]["failed"] \in Nat
  BY <1>1 DEF RowStatus, Outcome
<1>3. CASE executions' = executions
  BY <1>2, <1>3 DEF ExecutedRows
<1>4. ASSUME NEW r \in Runner, pc[r] = "create", Recorded(r, "none", "running")
      PROVE  ExecutedRows(e)' >= ExecutedRows(e)
  <2>1. RunShape(r)
    BY DEF RunsPart
  <2>2. run[r] \in Source
    BY <1>4, <2>1, Sources DEF RunShape, Source
  <2>3. \A k \in RowStatus : executions'[e][k] = executions[e][k]
          + Bit(e = run[r] /\ k = "running") - Bit(e = run[r] /\ k = "none")
    BY <1>1, <1>2, <1>4, <2>2, RecordedRow
  <2> QED
    BY <1>2, <2>3 DEF ExecutedRows, Bit
<1>5. ASSUME NEW r \in Runner, pc[r] = "save", RecordOutcome(r)
      PROVE  ExecutedRows(e)' >= ExecutedRows(e)
  <2>1. RunShape(r)
    BY DEF RunsPart
  <2>2. /\ outcome[r] \in Outcome
        /\ row[r] = "running" \/ (row[r] = "completed" /\ outcome[r] = "failed")
    BY <1>5, <2>1 DEF RunShape, Outcome
  <2>3. \A k \in RowStatus : executions'[e][k] = executions[e][k]
          + Bit(e = run[r] /\ k = outcome[r]) - Bit(e = run[r] /\ k = row[r])
    BY <1>1, <1>5, RecordedOutcome
  <2> QED
    BY <1>2, <2>2, <2>3 DEF ExecutedRows, Bit, Outcome
<1>6. ASSUME NEW r \in Runner, RunnerStep(r)
      PROVE  ExecutedRows(e)' >= ExecutedRows(e)
  <2>1. \/ executions' = executions
        \/ pc[r] = "create" /\ Recorded(r, "none", "running")
        \/ pc[r] = "save" /\ RecordOutcome(r)
    BY <1>6 DEF RunnerStep, Progress, CreateExecution, ExecuteJobByService, ReplyOk, ReplyError,
                SaveOutcome, Settle, CreateFails, SaveFails, Crash, Accept, tableVars
  <2> QED
    BY <1>3, <1>4, <1>5, <2>1
<1>7. CASE \/ \E j \in Job : CreateJob(j)
           \/ \E c \in Client : ClientStep(c)
           \/ \E f \in Entry : DelayOver(f) \/ StalledCheck(f)
           \/ \E a \in Admin : AdminStep(a)
  BY <1>3, <1>7, OutsideRuns
<1>8. CASE \/ \E w \in Worker, f \in Entry : Process(w, f)
           \/ \E r \in Caller : ExecuteDirectly(r) \/ AnswerCaller(r)
           \/ \E x \in Source : AcceptLate(x)
           \/ UNCHANGED vars
  BY <1>3, <1>8 DEF Process, Begin, ExecuteDirectly, AnswerCaller, AcceptLate, tableVars, vars
<1> QED
  BY <1>6, <1>7, <1>8 DEF Next

\* Only a fault makes executeJob throw.
ThrownByFault ==
  faults = 0 => \A r \in Runner : /\ outcome[r] # "thrown"
                                  /\ pc[r] = "save" => row[r] = "running"

\* Steps that leave the runners alone.
LEMMA EntryQuiet ==
  ASSUME RunsPart, RunsPart', NEW e \in Entry, EntryShape(e), [Next]_vars,
         UNCHANGED <<run, pc, outcome, routed>>, faults' \in {faults, faults + 1},
         faults' = faults => (MayRunAgain(e)' => MayRunAgain(e)),
         state'[e] = "completed" => state[e] = "completed",
         faults' = 0 => state'[e] # "failed" /\ (state'[e] = "active" => holder'[e] # NoWorker)
  PROVE  EntryShape(e)'
<1>1. Starting(e)' = Starting(e)
  BY DEF Starting
<1>2. ExecutedRows(e)' >= ExecutedRows(e)
  BY RowsStay
<1>3. routed[e] \in Nat /\ Cardinality(Starting(e)) \in Nat
  BY Sources, Sizes DEF RunsPart, RunTypes
<1> QED
  BY <1>1, <1>2, <1>3, EntryKept

\* The queue by itself and the operator.
LEMMA EntryQueueStep ==
  ASSUME RunsPart, RunsPart', OtherTypes, NEW e \in Entry, EntryShape(e), [Next]_vars,
         \/ \E f \in Entry : DelayOver(f) \/ StalledCheck(f)
         \/ \E a \in Admin : AdminStep(a)
  PROVE  EntryShape(e)'
<1>1. /\ UNCHANGED <<run, pc, outcome, routed>> /\ faults \in Nat
      /\ faults' = faults \/ faults' = faults + 1
  <2>1. UNCHANGED <<runVars, executions, netVars>> /\ (faults' = faults \/ Fault)
    BY OutsideRuns
  <2> QED
    BY <2>1, SchedulerAssumption DEF runVars, netVars, Fault, RunsPart, RunTypes
<1>2. ASSUME NEW f \in Entry, DelayOver(f) \/ StalledCheck(f)
      PROVE  /\ faults' = faults => (MayRunAgain(e)' => MayRunAgain(e))
             /\ state'[e] = "completed" => state[e] = "completed"
             /\ faults' = 0 => /\ state'[e] # "failed"
                               /\ state'[e] = "active" => holder'[e] # NoWorker
  <2>1. CASE DelayOver(f)
    BY <1>1, <2>1 DEF DelayOver, Promote, MayRunAgain, EntryShape, OtherTypes, QueueTypeOK
  <2>2. CASE StalledCheck(f)
    <3>1. /\ state[f] = "active" /\ holder' = [holder EXCEPT ![f] = NoWorker]
          /\ \A g \in Entry : \/ g # f /\ state'[g] = state[g]
                              \/ g = f /\ state'[g] \in {"failed", "waiting"}
          /\ holder[f] # NoWorker => faults' = faults + 1
          /\ holder[f] = NoWorker => faults' = faults
      BY <2>2 DEF StalledCheck, Stall, Fault, OtherTypes, QueueTypeOK
    <3> QED
      BY <1>1, <3>1 DEF MayRunAgain, EntryShape, OtherTypes, QueueTypeOK
  <2> QED
    BY <1>2, <2>1, <2>2
<1>3. ASSUME NEW a \in Admin, AdminStep(a)
      PROVE  /\ faults' = faults => (MayRunAgain(e)' => MayRunAgain(e))
             /\ state'[e] = "completed" => state[e] = "completed"
             /\ faults' = 0 => /\ state'[e] # "failed"
                               /\ state'[e] = "active" => holder'[e] # NoWorker
  <2>1. /\ holder' = holder /\ faults' = faults
        /\ \/ state'[e] = state[e] \/ state'[e] = "removed"
           \/ state[e] = "failed" /\ state'[e] = "waiting"
    <3>1. CASE PauseQueue(a) \/ ResumeQueue(a) \/ GetFailed(a)
      BY <3>1 DEF PauseQueue, ResumeQueue, GetFailed, SetPaused, queueVars, AdminOnly
    <3>2. CASE CleanCompleted(a) \/ CleanFailed(a)
      BY <3>2 DEF CleanCompleted, CleanFailed, Clean, AdminOnly
    <3>3. ASSUME NEW f \in Entry, RetryFailed(a, f)
          PROVE  /\ holder' = holder /\ faults' = faults
                 /\ \/ state'[e] = state[e] \/ state'[e] = "removed"
                    \/ state[e] = "failed" /\ state'[e] = "waiting"
      BY <3>3 DEF RetryFailed, Retry, OtherTypes, QueueTypeOK, AdminOnly
    <3> QED
      BY <1>3, <3>1, <3>2, <3>3 DEF AdminStep
  <2> QED
    BY <1>1, <2>1 DEF MayRunAgain, EntryShape
<1> QED
  BY <1>1, <1>2, <1>3, EntryQuiet

\* A request adds an entry that was not in the queue, or removes one.
LEMMA EntryClientStep ==
  ASSUME RunsPart, RunsPart', OtherTypes, QueueShape, NEW e \in Entry, EntryShape(e),
         [Next]_vars, NEW c \in Client, ClientStep(c)
  PROVE  EntryShape(e)'
<1>1. /\ UNCHANGED <<run, pc, outcome, routed>> /\ faults \in Nat
      /\ faults' = faults \/ faults' = faults + 1
  <2>1. UNCHANGED <<runVars, executions, netVars>> /\ (faults' = faults \/ Fault)
    BY OutsideRuns
  <2> QED
    BY <2>1, SchedulerAssumption DEF runVars, netVars, Fault, RunsPart, RunTypes
<1>2. /\ holder' = holder
      /\ \/ state'[e] = state[e] \/ state'[e] = "removed"
         \/ state[e] = "none" /\ state'[e] \in {"delayed", "waiting"}
  <2>1. CASE UNCHANGED queueVars
    BY <2>1 DEF queueVars
  <2>2. CASE rpc[c] = "addToQueue" /\ AddToQueue(target[c])
    <3>1. target[c] \in Schedule /\ state[First(target[c])] = "none"
      BY <2>2 DEF QueueShape
    <3> QED
      BY <2>2, <3>1, Sources
         DEF AddToQueue, AddJob, AddRepeatableJob, OtherTypes, QueueTypeOK
  <2>3. CASE RemoveFound(c)
    <3>1. target[c] \in Schedule
      BY <2>3 DEF RemoveFound, QueueShape
    <3> QED
      BY <2>3, <3>1, Sources DEF RemoveFound, Remove, RemoveRepeatable, OtherTypes, QueueTypeOK
  <2> QED
    BY <2>1, <2>2, <2>3
       DEF ClientStep, ScheduleJob, ScheduleJobFails, Lookup, RemoveJob, RemoveJobLocked,
           RemoveJobFails, SaveSchedule, CancelSchedule
<1> QED
  BY <1>1, <1>2, EntryQuiet DEF MayRunAgain, EntryShape

\* A worker takes an entry: the run that was to come has started.
LEMMA EntryProcessStep ==
  ASSUME RunsPart, RunsPart', OtherTypes, NEW e \in Entry, EntryShape(e),
         [Next]_vars, NEW w \in Worker, NEW f \in Entry, Process(w, f)
  PROVE  EntryShape(e)'
<1>1. /\ pc[w] = "idle" /\ state[f] = "waiting" /\ RunTypes /\ RunShape(w) /\ w \in Runner
      /\ UNCHANGED <<executions, outcome, row, call, routed, faults>>
      /\ run' = [run EXCEPT ![w] = f] /\ pc' = [pc EXCEPT ![w] = "create"]
      /\ holder' = [holder EXCEPT ![f] = w]
  BY DEF Process, Take, Begin, RunsPart, Runner, tableVars, netVars
<1>2. run[w] = NoRun /\ outcome[w] = "none" /\ Local(w) /\ run'[w] = f /\ pc'[w] = "create"
  BY <1>1 DEF RunShape, Local, RunTypes
<1>3. \A g \in Entry : \/ state'[g] = state[g] /\ g # f
                       \/ g = f /\ state'[g] = "active"
                       \/ g = Next1(f) /\ g # f /\ state[g] = "none" /\ state'[g] = "delayed"
  BY DEF Process, Take, OtherTypes, QueueTypeOK
<1>4. Cardinality(Starting(e)') = Cardinality(Starting(e)) + Bit(e = f)
  <2>1. e \in Source /\ e # NoRun
    BY Sources
  <2>2. Cardinality(Starting(e)') = Cardinality(Starting(e))
          + Bit(run'[w] = e /\ pc'[w] \in {"create", "call"})
          - Bit(run[w] = e /\ pc[w] \in {"create", "call"})
    BY <1>1, <1>2, <2>1, LocalCounts DEF RunsPart
  <2>3. Cardinality(Starting(e)) \in Nat
    BY <2>1, Sizes DEF RunsPart
  <2> QED
    BY <1>2, <2>1, <2>2, <2>3 DEF Bit
<1>5. routed[e] \in Nat /\ faults \in Nat /\ Cardinality(Starting(e)) \in Nat
  BY Sources, Sizes, SchedulerAssumption DEF RunsPart, RunTypes
<1>6. CASE e = f
  <2>1. MayRunAgain(e) /\ ~MayRunAgain(e)' /\ state'[e] = "active" /\ holder'[e] = w
    BY <1>1, <1>2, <1>3, <1>6, QueueAssumption DEF MayRunAgain, OtherTypes, QueueTypeOK
  <2> QED
    BY <1>1, <1>4, <1>5, <1>6, <2>1, QueueAssumption DEF EntryShape, Bit
<1>7. CASE e # f
  <2>1. ExecutedRows(e)' >= ExecutedRows(e)
    BY RowsStay
  <2>2. holder'[e] = holder[e] /\ (MayRunAgain(e)' => MayRunAgain(e))
    BY <1>1, <1>3, <1>7 DEF MayRunAgain, OtherTypes, QueueTypeOK
  <2>3. routed'[e] + Cardinality(Starting(e)') <= routed[e] + Cardinality(Starting(e))
    BY <1>1, <1>4, <1>5, <1>7 DEF Bit
  <2> QED
    BY <1>1, <1>3, <1>7, <2>1, <2>2, <2>3, EntryKept DEF EntryShape
<1> QED
  BY <1>6, <1>7

\* Inside executeJob: a run that was starting becomes a call.
LEMMA EntryInnerStep ==
  ASSUME RunsPart, RunsPart', OtherTypes, QueueShape, NEW e \in Entry, EntryShape(e), [Next]_vars,
         NEW r \in Runner, RunnerStep(r), ~Settle(r), ~Crash(r)
  PROVE  EntryShape(e)'
<1>1. /\ UNCHANGED queueVars /\ run' = run /\ RunTypes /\ RunShape(r)
      /\ outcome'[r] = "thrown" => outcome[r] = "thrown" \/ faults' # faults
      /\ faults' = faults \/ faults' = faults + 1
      /\ \/ pc'[r] = pc[r] /\ routed' = routed
         \/ pc[r] = "create" /\ routed' = routed
         \/ /\ pc[r] = "call" /\ pc'[r] \in {"await", "save"}
            /\ routed' = [routed EXCEPT ![run[r]] = @ + 1]
         \/ pc[r] \in {"await", "save"} /\ pc'[r] \in {"save", "settle"} /\ routed' = routed
      /\ Local(r)
  <2>1. RunTypes /\ RunShape(r) /\ faults \in Nat /\ faults + 1 # faults
    BY SchedulerAssumption DEF RunsPart, RunTypes
  <2>2. CASE CreateExecution(r) \/ Accept(r) \/ ReplyOk(r) \/ ReplyError(r) \/ SaveOutcome(r)
    BY <2>1, <2>2 DEF CreateExecution, Accept, ReplyOk, ReplyError,
       SaveOutcome, RecordOutcome, OutcomeOfError, RunTypes, Local, tableVars, netVars
  <2>3. CASE CreateFails(r) \/ SaveFails(r)
    BY <2>1, <2>3 DEF CreateFails, SaveFails, RecordOutcome, Fault, RunTypes, Local, netVars
  <2>4. CASE ExecuteJobByService(r)
    BY <2>1, <2>4 DEF ExecuteJobByService, Route, CallMessaging, ReturnPlaceholder, RefuseMethod,
       OutcomeOfError, RunTypes, Local, tableVars
  <2> QED
    BY <2>2, <2>3, <2>4 DEF RunnerStep, Progress
<1>2. /\ routed[e] \in Nat /\ faults \in Nat /\ Cardinality(Starting(e)) \in Nat
      /\ e \in Source /\ routed \in [Source -> Nat]
  BY Sources, Sizes, SchedulerAssumption DEF RunsPart, RunTypes
<1>3. Cardinality(Starting(e)') = Cardinality(Starting(e))
        + Bit(run'[r] = e /\ pc'[r] \in {"create", "call"})
        - Bit(run[r] = e /\ pc[r] \in {"create", "call"})
  BY <1>1, <1>2, LocalCounts DEF RunsPart
<1>4. routed'[e] + Cardinality(Starting(e)') <= routed[e] + Cardinality(Starting(e))
  BY <1>1, <1>2, <1>3 DEF Bit
<1>5. faults' = faults => (MayRunAgain(e)' => MayRunAgain(e))
  <2>1. holder[e] # NoWorker => holder[e] \in Runner
    BY DEF OtherTypes, QueueTypeOK, Runner
  <2>2. holder[e] # NoWorker /\ faults' = faults /\ outcome'[holder[e]] = "thrown"
          => outcome[holder[e]] = "thrown"
    BY <1>1, <2>1 DEF Local
  <2> QED
    BY <1>1, <2>2 DEF MayRunAgain, queueVars
<1>6. ExecutedRows(e)' >= ExecutedRows(e)
  BY RowsStay
<1> QED
  BY <1>1, <1>2, <1>4, <1>5, <1>6, EntryKept DEF EntryShape, queueVars

\* The end of a run starts nothing.
LEMMA EndStarts ==
  ASSUME RunsPart, NEW r \in Runner, NEW next \in {"idle", "done"}, RunEnds(r, next),
         NEW e \in Entry
  PROVE  /\ Local(r) /\ run'[r] = NoRun /\ outcome'[r] = "none"
         /\ Cardinality(Starting(e)) \in Nat /\ Cardinality(Starting(e)') \in Nat
         /\ Cardinality(Starting(e)') <= Cardinality(Starting(e))
<1>1. Local(r) /\ run'[r] = NoRun /\ outcome'[r] = "none"
  BY DEF RunEnds, Local, RunsPart, RunTypes
<1>2. e \in Source /\ e # NoRun /\ IsFiniteSet(Busy)
  BY Sources DEF RunsPart
<1>3. Cardinality(Starting(e)') = Cardinality(Starting(e))
        + Bit(run'[r] = e /\ pc'[r] \in {"create", "call"})
        - Bit(run[r] = e /\ pc[r] \in {"create", "call"})
  BY <1>1, <1>2, LocalCounts
<1>4. Cardinality(Starting(e)) \in Nat
  BY <1>2, Sizes
<1>5. Starting(e)' \subseteq Starting(e)
  BY <1>1, <1>2 DEF Starting, Local
<1>6. IsFiniteSet(Starting(e)) /\ Cardinality(Starting(e)') \in Nat
  BY <1>2, <1>5, Sizes, FS_Subset, FS_CardinalityType
<1> QED
  BY <1>1, <1>2, <1>3, <1>4, <1>6 DEF Bit

\* The worker reports to the queue: completed with an outcome on record, or thrown.
LEMMA EntrySettleStep ==
  ASSUME RunsPart, RunsPart', OtherTypes, QueueShape, NEW e \in Entry, EntryShape(e),
         ThrownByFault, [Next]_vars, NEW w \in Worker, Settle(w)
  PROVE  EntryShape(e)'
<1>1. /\ w \in Runner /\ pc[w] = "settle" /\ SettleEntry(w, run[w]) /\ RunEnds(w, "idle")
      /\ UNCHANGED <<executions, routed, faults>> /\ RunTypes /\ RunShape(w) /\ w # NoWorker
  BY QueueAssumption DEF Settle, Runner, RunsPart, tableVars, netVars
<1>2. /\ Local(w) /\ outcome'[w] = "none" /\ run[w] \in Entry
      /\ outcome[w] = "thrown" \/ (outcome[w] \in Outcome /\ row[w] = outcome[w])
  BY <1>1, EndStarts DEF RunShape
<1>3. /\ routed[e] \in Nat /\ faults \in Nat /\ e \in Source
      /\ executions[e] \in [RowStatus -> Nat]
  BY Sources, SchedulerAssumption DEF RunsPart, RunTypes
<1>4. routed'[e] + Cardinality(Starting(e)') <= routed[e] + Cardinality(Starting(e))
  BY <1>1, <1>3, EndStarts
<1>5. CASE holder[e] = w
  <2>1. run[w] = e /\ state[e] = "active"
    BY <1>1, <1>5 DEF QueueShape
  <2>2. CASE outcome[w] = "thrown"
    <3>1. state'[e] \in {"delayed", "failed"} /\ MayRunAgain(e) /\ faults # 0
      BY <1>1, <1>5, <2>1, <2>2
         DEF SettleEntry, Outcome, FailAttempt, MayRunAgain, ThrownByFault, OtherTypes, QueueTypeOK
    <3> QED
      BY <1>1, <1>3, <1>4, <3>1, RowsStay, EntryKept
  <2>3. CASE outcome[w] \in Outcome
    <3>1. state'[e] = "completed"
      BY <1>1, <1>5, <2>1, <2>3 DEF SettleEntry, Complete, OtherTypes, QueueTypeOK
    <3>2. executions[e][outcome[w]] > 0
      <4> DEFINE k == outcome[w]
      <4>1. w \in RowsOf(e, k) /\ k \in RowStatus
        BY <1>1, <1>2, <2>1, <2>3 DEF RowsOf, RowStatus, Outcome
      <4>2. IsFiniteSet(RowsOf(e, k)) /\ Cardinality(RowsOf(e, k)) \in Nat
        BY <1>3, Sizes DEF RunsPart
      <4>3. Cardinality(RowsOf(e, k)) # 0
        BY <4>1, <4>2, FS_EmptySet
      <4>4. Cardinality(RowsOf(e, k)) <= executions[e][k]
        BY <1>3, <4>1 DEF RunsPart, Ledger, RowStatus
      <4> QED
        BY <1>3, <4>1, <4>2, <4>3, <4>4
    <3>3. ExecutedRows(e)' > 0
      BY <1>1, <1>3, <2>3, <3>2 DEF ExecutedRows, RowStatus, Outcome
    <3>4. ~MayRunAgain(e)'
      BY <3>1 DEF MayRunAgain
    <3> QED
      BY <1>1, <1>3, <1>4, <3>1, <3>3, <3>4, RowsStay, EntryKept
  <2> QED
    BY <1>2, <2>2, <2>3
<1>6. CASE holder[e] # w
  <2>1. state'[e] = state[e] /\ holder'[e] = holder[e]
    BY <1>1, <1>2, <1>6 DEF SettleEntry, Complete, FailAttempt, OtherTypes, QueueTypeOK
  <2>2. holder[e] # NoWorker => outcome'[holder[e]] = outcome[holder[e]]
    BY <1>2, <1>6 DEF Local, OtherTypes, QueueTypeOK, Runner
  <2>3. MayRunAgain(e)' => MayRunAgain(e)
    BY <2>1, <2>2 DEF MayRunAgain
  <2> QED
    BY <1>1, <1>4, <2>1, <2>3, RowsStay, EntryKept DEF EntryShape
<1> QED
  BY <1>5, <1>6

\* A crash is a fault; it leaves the entry in its set of the queue.
LEMMA EntryCrashStep ==
  ASSUME RunsPart, RunsPart', NEW e \in Entry, EntryShape(e), [Next]_vars,
         NEW r \in Runner, Crash(r)
  PROVE  EntryShape(e)'
<1>1. /\ RunEnds(r, "idle") \/ RunEnds(r, "done")
      /\ faults' = faults + 1 /\ state' = state /\ UNCHANGED <<executions, routed>>
  BY DEF Crash, Fault, Orphaned, tableVars
<1>2. /\ routed[e] \in Nat /\ faults \in Nat
  BY Sources, SchedulerAssumption DEF RunsPart, RunTypes
<1>3. routed'[e] + Cardinality(Starting(e)') <= routed[e] + Cardinality(Starting(e))
  BY <1>1, <1>2, EndStarts
<1>4. faults' # 0 /\ faults' # faults
  BY <1>1, <1>2
<1> QED
  BY <1>1, <1>3, <1>4, RowsStay, EntryKept

\* Direct requests have nothing to do with the queue.
LEMMA EntryCallerStep ==
  ASSUME RunsPart, RunsPart', OtherTypes, NEW e \in Entry, EntryShape(e), [Next]_vars,
         NEW r \in Caller, ExecuteDirectly(r) \/ AnswerCaller(r)
  PROVE  EntryShape(e)'
<1>1. /\ r \in Runner /\ r \notin Worker /\ RunShape(r)
      /\ UNCHANGED <<queueVars, executions, routed, faults>>
  BY SchedulerAssumption DEF ExecuteDirectly, Begin, AnswerCaller, Runner, RunsPart, tableVars,
                             netVars
<1>2. /\ routed[e] \in Nat /\ Cardinality(Starting(e)) \in Nat
      /\ e \notin DirectOf /\ e # NoRun
  BY Sources, Sizes DEF RunsPart, RunTypes
<1>3. run[r] # e /\ run'[r] # e /\ Local(r)
  BY <1>1, <1>2 DEF RunShape, ExecuteDirectly, Begin, AnswerCaller, RunEnds, RunsPart, RunTypes,
                    Local
<1>4. Starting(e)' = Starting(e)
  BY <1>3 DEF Starting, Local
<1>5. holder[e] # NoWorker => outcome'[holder[e]] = outcome[holder[e]]
  BY <1>1, <1>3 DEF Local, OtherTypes, QueueTypeOK, Runner
<1>6. MayRunAgain(e)' => MayRunAgain(e)
  BY <1>1, <1>5 DEF MayRunAgain, queueVars
<1> QED
  BY <1>1, <1>2, <1>4, <1>6, RowsStay, EntryKept DEF EntryShape, queueVars

LEMMA EntryStep ==
  ASSUME RunsPart, RunsPart', OtherTypes, QueueShape, ThrownByFault, [Next]_vars,
         NEW e \in Entry, EntryShape(e)
  PROVE  EntryShape(e)'
<1>1. ASSUME NEW r \in Runner, RunnerStep(r)
      PROVE  EntryShape(e)'
  <2>1. Settle(r) => r \in Worker
    BY DEF Settle
  <2> QED
    BY <1>1, <2>1, EntrySettleStep, EntryCrashStep, EntryInnerStep
<1>2. CASE \/ \E j \in Job : CreateJob(j)
           \/ \E x \in Source : AcceptLate(x)
           \/ UNCHANGED vars
  <2>1. UNCHANGED <<queueVars, run, pc, outcome, routed, faults>>
    BY <1>2 DEF CreateJob, AcceptLate, vars, runVars, netVars
  <2>2. MayRunAgain(e)' <=> MayRunAgain(e)
    BY <2>1 DEF MayRunAgain, queueVars
  <2> QED
    BY <2>1, <2>2, EntryQuiet DEF EntryShape, queueVars
<1>3. ASSUME NEW w \in Worker, NEW f \in Entry, Process(w, f)
      PROVE  EntryShape(e)'
  BY <1>3, EntryProcessStep
<1>4. ASSUME NEW r \in Caller, ExecuteDirectly(r) \/ AnswerCaller(r)
      PROVE  EntryShape(e)'
  BY <1>4, EntryCallerStep
<1>5. ASSUME NEW c \in Client, ClientStep(c)
      PROVE  EntryShape(e)'
  BY <1>5, EntryClientStep
<1>6. CASE \/ \E f \in Entry : DelayOver(f) \/ StalledCheck(f)
           \/ \E a \in Admin : AdminStep(a)
  BY <1>6, EntryQueueStep
<1> QED
  BY <1>1, <1>2, <1>3, <1>4, <1>5, <1>6 DEF Next

LEMMA ThrownStep == RunsPart /\ ThrownByFault /\ [Next]_vars => ThrownByFault'
<1> SUFFICES ASSUME RunsPart, ThrownByFault, [Next]_vars, faults' = 0,
                    NEW u \in Runner
             PROVE  outcome'[u] # "thrown" /\ (pc'[u] = "save" => row'[u] = "running")
  BY DEF ThrownByFault
<1> DEFINE Untroubled == outcome[u] # "thrown" /\ (pc[u] = "save" => row[u] = "running")
<1>1. faults \in Nat /\ RunTypes /\ (Untroubled \/ faults # 0)
  BY SchedulerAssumption DEF RunsPart, RunTypes, ThrownByFault
<1>2. CASE UNCHANGED <<outcome, pc, row, faults>>
  BY <1>1, <1>2
<1>3. Fault => FALSE
  BY SchedulerAssumption DEF Fault, RunsPart, RunTypes
<1>4. ASSUME NEW r \in Runner, RunnerStep(r)
      PROVE  Untroubled'
  <2>1. ~CreateFails(r) /\ ~SaveFails(r) /\ ~Crash(r)
    BY <1>3 DEF CreateFails, SaveFails, Crash
  <2>2. CASE Settle(r)
    BY <1>1, <2>2 DEF Settle, RunEnds, RunsPart, RunTypes
  <2>3. CASE ReplyOk(r) \/ ReplyError(r)
    <3>1. pc[r] = "await" => row[r] = "running"
      BY DEF RunsPart, RunShape
    <3> QED
      BY <1>1, <2>3, <3>1 DEF ReplyOk, ReplyError, OutcomeOfError, RunTypes
  <2>4. CASE CreateExecution(r) \/ Accept(r) \/ SaveOutcome(r)
    BY <1>1, <2>4 DEF CreateExecution, Accept, SaveOutcome, RecordOutcome, RunTypes
  <2>5. CASE ExecuteJobByService(r)
    <3>1. pc[r] = "call" => row[r] = "running"
      BY DEF RunsPart, RunShape
    <3> QED
      BY <1>1, <2>5, <3>1 DEF ExecuteJobByService, Route, CallMessaging, ReturnPlaceholder,
         RefuseMethod, OutcomeOfError, RunTypes
  <2> QED
    BY <1>4, <2>1, <2>2, <2>3, <2>4, <2>5 DEF RunnerStep, Progress
<1>5. ASSUME NEW r \in Caller, ExecuteDirectly(r) \/ AnswerCaller(r)
      PROVE  Untroubled'
  BY <1>1, <1>5 DEF ExecuteDirectly, Begin, AnswerCaller, RunEnds, RunsPart, RunTypes
<1>6. CASE \/ \E j \in Job : CreateJob(j)
           \/ \E c \in Client : ClientStep(c)
           \/ \E e \in Entry : DelayOver(e) \/ StalledCheck(e)
           \/ \E a \in Admin : AdminStep(a)
  <2>1. UNCHANGED <<runVars, executions, netVars>> /\ (faults' = faults \/ Fault)
    BY <1>6, OutsideRuns
  <2> QED
    BY <1>2, <1>3, <2>1 DEF runVars
<1>7. ASSUME NEW w \in Worker, NEW e \in Entry, Process(w, e)
      PROVE  Untroubled'
  BY <1>1, <1>7 DEF Process, Begin, Runner, RunsPart, RunTypes
<1>8. CASE (\E x \in Source : AcceptLate(x)) \/ UNCHANGED vars
  BY <1>2, <1>8 DEF AcceptLate, runVars, vars
<1> QED
  BY <1>4, <1>5, <1>6, <1>7, <1>8 DEF Next

-----------------------------------------------------------------------------
(* What the jobs ask for                                                    *)

\* The jobs table gains a job, the schedules table gains one of a job that is there, or a
\* schedule is made inactive.
TablesStep ==
  \/ UNCHANGED <<jobs, schedules>>
  \/ /\ \E j \in Job, t \in Target : jobs[j] = "absent" /\ jobs' = [jobs EXCEPT ![j] = t]
     /\ schedules' = schedules
  \/ /\ \E s \in Schedule, type \in ScheduleType, j \in Job :
          /\ schedules[s].type = "absent" /\ jobs[j] # "absent"
          /\ schedules' = [schedules EXCEPT ![s] = [type |-> type, isActive |-> TRUE, job |-> j]]
     /\ jobs' = jobs
  \/ /\ \E s \in Schedule : schedules' = [schedules EXCEPT ![s].isActive = FALSE]
     /\ jobs' = jobs

\* The target of an execution does not change, and a schedule keeps its job.
TargetsStay ==
  /\ \A x \in Source : TargetOf(x) # "absent" => TargetOf(x)' = TargetOf(x)
  /\ \A s \in Schedule : schedules'[s].type # "absent"
                           => schedules'[s].job \in Job /\ jobs'[schedules'[s].job] # "absent"

LEMMA TablesKept ==
  ASSUME OtherTypes, TargetsInv, TablesStep
  PROVE  TargetsStay
<1>1. /\ jobs \in [Job -> Target \cup {"absent"}] /\ "absent" \notin Target
      /\ schedules \in [Schedule -> [type : ScheduleType \cup {"absent"}, isActive : BOOLEAN,
                                     job : Job \cup {NoJob}]]
  BY SchedulerAssumption DEF OtherTypes
<1>2. \A j \in Job : jobs[j] # "absent" => jobs'[j] = jobs[j]
  BY <1>1 DEF TablesStep
<1>3. ASSUME NEW s \in Schedule, schedules[s].type # "absent"
      PROVE  schedules'[s].type = schedules[s].type /\ schedules'[s].job = schedules[s].job
  BY <1>1, <1>3 DEF TablesStep
<1>4. ASSUME NEW s \in Schedule, schedules[s].type # "absent"
      PROVE  schedules[s].job \in Job /\ jobs[schedules[s].job] # "absent"
  BY <1>4 DEF TargetsInv
<1>5. ASSUME NEW x \in Source, TargetOf(x) # "absent"
      PROVE  TargetOf(x)' = TargetOf(x)
  <2>1. CASE x[2] = 0
    <3>1. x[1] \in Job
      BY <2>1, Sources DEF Source
    <3> QED
      BY <1>2, <1>5, <2>1, <3>1 DEF TargetOf
  <2>2. CASE x[2] # 0
    <3>1. x[1] \in Schedule /\ schedules[x[1]].type # "absent"
      BY <1>5, <2>2, Sources DEF Source, TargetOf
    <3> QED
      BY <1>2, <1>3, <1>4, <2>2, <3>1 DEF TargetOf
  <2> QED
    BY <2>1, <2>2
<1>6. ASSUME NEW s \in Schedule, schedules'[s].type # "absent"
      PROVE  schedules'[s].job \in Job /\ jobs'[schedules'[s].job] # "absent"
  <2>1. CASE schedules[s].type # "absent"
    BY <1>2, <1>3, <1>4, <2>1
  <2>2. CASE schedules[s].type = "absent"
    <3>1. schedules'[s] # schedules[s]
      BY <1>6, <2>2
    <3>2. ~ \E t \in Schedule : schedules' = [schedules EXCEPT ![t].isActive = FALSE]
      BY <1>1, <1>6, <2>2
    <3>3. PICK t \in Schedule, type \in ScheduleType, j \in Job :
            /\ jobs[j] # "absent" /\ jobs' = jobs
            /\ schedules' = [schedules EXCEPT ![t] = [type |-> type, isActive |-> TRUE, job |-> j]]
      BY <3>1, <3>2 DEF TablesStep
    <3>4. t = s
      BY <1>1, <3>1, <3>3
    <3> QED
      BY <1>1, <3>3, <3>4
  <2> QED
    BY <2>1, <2>2
<1> QED
  BY <1>5, <1>6 DEF TargetsStay

LEMMA NextTables ==
  ASSUME [Next]_vars
  PROVE  TablesStep
<1>1. ASSUME NEW j \in Job, CreateJob(j)
      PROVE  TablesStep
  BY <1>1 DEF CreateJob, TablesStep
<1>2. ASSUME NEW c \in Client, ClientStep(c)
      PROVE  TablesStep
  <2>1. ASSUME NEW s \in Schedule, SaveSchedule(c, s)
        PROVE  TablesStep
    BY <2>1 DEF SaveSchedule, TablesStep
  <2>2. ASSUME NEW s \in Schedule, CancelSchedule(c, s)
        PROVE  TablesStep
    BY <2>2 DEF CancelSchedule, TablesStep
  <2>3. CASE UNCHANGED <<jobs, schedules>>
    BY <2>3 DEF TablesStep
  <2> QED
    BY <1>2, <2>1, <2>2, <2>3
       DEF ClientStep, ScheduleJob, ScheduleJobFails, Lookup, RemoveJob, RemoveJobLocked,
           RemoveJobFails, CancelAnswered, tableVars
<1>3. ASSUME NEW a \in Admin, AdminStep(a)
      PROVE  UNCHANGED <<jobs, schedules>>
  BY <1>3 DEF AdminStep, PauseQueue, ResumeQueue, CleanCompleted, CleanFailed, GetFailed,
              RetryFailed, AdminOnly, tableVars
<1>4. CASE \/ \E w \in Worker, e \in Entry : Process(w, e)
           \/ \E r \in Caller : ExecuteDirectly(r) \/ AnswerCaller(r)
           \/ \E e \in Entry : DelayOver(e) \/ StalledCheck(e)
           \/ \E x \in Source : AcceptLate(x)
           \/ UNCHANGED vars
  BY <1>4 DEF Process, Begin, ExecuteDirectly, AnswerCaller, DelayOver, StalledCheck, AcceptLate,
              TablesStep, tableVars, vars
<1>5. ASSUME NEW r \in Runner, RunnerStep(r)
      PROVE  UNCHANGED <<jobs, schedules>>
  BY <1>5, RunnerLocal
<1> QED
  BY <1>1, <1>2, <1>3, <1>4, <1>5 DEF Next, TablesStep

\* Only an execution of a job that asks for no call returns a placeholder.
LEMMA PlaceholdersStep ==
  ASSUME RunsPart, [Next]_vars
  PROVE  \/ placeholders' = placeholders
         \/ \E x \in Source : /\ TargetOf(x) = "placeholder"
                              /\ placeholders' = [placeholders EXCEPT ![x] = @ + 1]
<1>1. ASSUME NEW r \in Runner, RunnerStep(r)
      PROVE  \/ placeholders' = placeholders
             \/ \E x \in Source : /\ TargetOf(x) = "placeholder"
                                  /\ placeholders' = [placeholders EXCEPT ![x] = @ + 1]
  <2>1. CASE ExecuteJobByService(r)
    <3>1. run[r] \in Source
      BY <2>1, Sources DEF ExecuteJobByService, RunsPart, RunShape, Source
    <3> QED
      BY <2>1, <3>1
         DEF ExecuteJobByService, Route, CallMessaging, ReturnPlaceholder, RefuseMethod
  <2> QED
    BY <1>1, <2>1 DEF RunnerStep, Progress, CreateExecution, ReplyOk, ReplyError, SaveOutcome,
       Settle, CreateFails, SaveFails, Crash, Accept, netVars
<1>2. CASE \/ \E j \in Job : CreateJob(j)
           \/ \E c \in Client : ClientStep(c)
           \/ \E e \in Entry : DelayOver(e) \/ StalledCheck(e)
           \/ \E a \in Admin : AdminStep(a)
  BY <1>2, OutsideRuns DEF netVars
<1>3. CASE \/ \E w \in Worker, e \in Entry : Process(w, e)
           \/ \E r \in Caller : ExecuteDirectly(r) \/ AnswerCaller(r)
           \/ \E x \in Source : AcceptLate(x)
           \/ UNCHANGED vars
  BY <1>3 DEF Process, Begin, ExecuteDirectly, AnswerCaller, AcceptLate, netVars, vars
<1> QED
  BY <1>1, <1>2, <1>3 DEF Next

LEMMA TargetsStep ==
  ASSUME RunsPart, OtherTypes, TargetsInv, [Next]_vars
  PROVE  TargetsInv'
<1>1. TargetsStay
  BY NextTables, TablesKept
<1>2. ASSUME NEW x \in Source, placeholders'[x] > 0
      PROVE  TargetOf(x)' = "placeholder"
  <2>1. placeholders[x] > 0 \/ TargetOf(x) = "placeholder"
    BY <1>2, PlaceholdersStep DEF RunsPart, RunTypes
  <2>2. TargetOf(x) = "placeholder"
    BY <2>1 DEF TargetsInv
  <2> QED
    BY <1>1, <2>2 DEF TargetsStay
<1> QED
  BY <1>1, <1>2 DEF TargetsInv, TargetsStay

-----------------------------------------------------------------------------
(* The theorems                                                             *)

LEMMA InvParts ==
  SchedulerInv <=> /\ RunsPart /\ OtherTypes /\ QueueShape /\ ThrownByFault
                   /\ TargetsInv /\ \A e \in Entry : EntryShape(e)
BY TypeParts DEF SchedulerInv, RunsInv, RunsPart, ThrownByFault

LEMMA InitInv == Init => SchedulerInv
<1> SUFFICES ASSUME Init
             PROVE  SchedulerInv
  OBVIOUS
<1> USE DEF Init, QueueInit
<1>1. RunTypes /\ OtherTypes
  <2>1. /\ executions \in [Source -> [RowStatus -> Nat]]
        /\ late \in [Source -> Nat] /\ routed \in [Source -> Nat]
        /\ effects \in [Source -> Nat] /\ placeholders \in [Source -> Nat]
    BY DEF RowStatus
  <2>2. RunTypes
    BY <2>1, SchedulerAssumption DEF RunTypes
  <2>3. QueueTypeOK
    BY DEF QueueTypeOK, State
  <2>4. schedules \in [Schedule -> [type : ScheduleType \cup {"absent"}, isActive : BOOLEAN,
                                    job : Job \cup {NoJob}]]
    BY DEF NoSchedule
  <2> QED
    BY <2>2, <2>3, <2>4 DEF OtherTypes
<1>2. Busy = {} /\ IsFiniteSet(Busy)
  BY FS_EmptySet DEF Busy
<1>3. \A r \in Runner : RunShape(r)
  BY DEF RunShape
<1>4. ASSUME NEW x \in Source
      PROVE  Ledger(x) /\ Cardinality(Starting(x)) = 0
  <2>1. /\ \A k : RowsOf(x, k) = {}
        /\ Live(x) = {} /\ Promised(x) = {} /\ AboutToCall(x) = {} /\ Starting(x) = {}
    BY Sources DEF RowsOf, Live, Promised, AboutToCall, Starting
  <2>2. Cardinality({}) = 0
    BY FS_EmptySet
  <2>3. \A k \in Outcome \cup {"running"} : executions[x][k] = 0
    OBVIOUS
  <2>4. effects[x] = 0 /\ placeholders[x] = 0 /\ routed[x] = 0 /\ faults = 0
    OBVIOUS
  <2> HIDE DEF Init, QueueInit
  <2>5. Ledger(x)
    <3>1. \A k \in Outcome \cup {"running"} : Cardinality(RowsOf(x, k)) <= executions[x][k]
      BY <2>1, <2>2, <2>3
    <3>2. /\ executions[x]["running"] = 0 /\ executions[x]["completed"] = 0
          /\ executions[x]["failed"] = 0
      BY <2>3 DEF Outcome
    <3>3. /\ Cardinality(Live(x)) = 0 /\ Cardinality(Promised(x)) = 0
          /\ Cardinality(AboutToCall(x)) = 0
      BY <2>1, <2>2
    <3> QED
      BY <2>4, <3>1, <3>2, <3>3 DEF Ledger
  <2> QED
    BY <2>1, <2>2, <2>5
<1>5. QueueShape
  BY Sources DEF QueueShape, NoSchedule
<1>6. \A e \in Entry : EntryShape(e)
  BY <1>4, Sources DEF EntryShape
<1>7. ThrownByFault
  BY DEF ThrownByFault
<1>8. TargetsInv
  BY DEF TargetsInv, NoSchedule
<1> QED
  BY <1>1, <1>2, <1>3, <1>4, <1>5, <1>6, <1>7, <1>8, InvParts DEF RunsPart

LEMMA InvStep == SchedulerInv /\ [Next]_vars => SchedulerInv'
<1> SUFFICES ASSUME SchedulerInv, [Next]_vars
             PROVE  SchedulerInv'
  OBVIOUS
<1>1. /\ RunsPart /\ OtherTypes /\ QueueShape /\ ThrownByFault /\ TargetsInv
      /\ \A e \in Entry : EntryShape(e)
  BY InvParts
<1>2. RunsPart' /\ OtherTypes' /\ QueueShape' /\ ThrownByFault' /\ TargetsInv'
  BY <1>1, RunsStep, OtherTypesStep, QueueShapeStep, ThrownStep, TargetsStep
<1>3. \A e \in Entry : EntryShape(e)'
  BY <1>1, <1>2, EntryStep
<1>4. TypeOK'
  BY <1>2 DEF TypeOK, RunsPart, RunTypes, OtherTypes, RowStatus
<1> QED
  BY <1>2, <1>3, <1>4 DEF SchedulerInv, RunsInv, RunsPart, ThrownByFault

\* What the invariant says of executions, rows and effects.
LEMMA InvRepeats == SchedulerInv => RepeatsAreExplained
<1> SUFFICES ASSUME SchedulerInv, NEW e \in Entry
             PROVE  routed[e] <= 1 + faults
  BY DEF RepeatsAreExplained
<1>1. /\ routed[e] \in Nat /\ Cardinality(Starting(e)) \in Nat /\ faults \in Nat
      /\ EntryShape(e)
  BY InvParts, Sources, Sizes, SchedulerAssumption DEF RunsPart, RunTypes
<1> QED
  BY <1>1 DEF EntryShape

LEMMA InvCompleted == SchedulerInv => CompletedIsRecorded
BY DEF SchedulerInv, EntryShape, CompletedIsRecorded

LEMMA InvEffects == SchedulerInv => CompletedWasDone
<1> SUFFICES ASSUME SchedulerInv, NEW x \in Source
             PROVE  /\ executions[x]["completed"] <= effects[x] + placeholders[x]
                    /\ TargetOf(x) # "placeholder" => executions[x]["completed"] <= effects[x]
  BY DEF CompletedWasDone
<1>1. /\ Ledger(x) /\ Cardinality(Promised(x)) \in Nat /\ effects[x] \in Nat
      /\ placeholders[x] \in Nat /\ executions[x]["completed"] \in Nat
  BY InvParts, Sizes DEF RunsPart, RunTypes, RowStatus, Outcome
<1>2. executions[x]["completed"] <= effects[x] + placeholders[x]
  BY <1>1 DEF Ledger
<1>3. TargetOf(x) # "placeholder" => placeholders[x] = 0
  BY <1>1, InvParts DEF TargetsInv
<1> QED
  BY <1>1, <1>2, <1>3

LEMMA InvRunning == SchedulerInv => RunningRowsAreRuns
<1> SUFFICES ASSUME SchedulerInv, NEW x \in Source
             PROVE  executions[x]["running"] <= Cardinality(RowsOf(x, "running")) + faults
  BY DEF RunningRowsAreRuns, RowsOf
<1>1. /\ Ledger(x) /\ IsFiniteSet(RowsOf(x, "running")) /\ Cardinality(Live(x)) \in Nat
      /\ Cardinality(RowsOf(x, "running")) \in Nat /\ faults \in Nat
      /\ executions[x]["running"] \in Nat
  BY InvParts, Sizes, SchedulerAssumption DEF RunsPart, RunTypes, RowStatus
<1>2. Cardinality(Live(x)) <= Cardinality(RowsOf(x, "running"))
  BY <1>1, FS_Subset DEF Live
<1> QED
  BY <1>1, <1>2 DEF Ledger

LEMMA InvCalls == SchedulerInv => CallsAreRecorded
<1> SUFFICES ASSUME SchedulerInv, NEW x \in Source
             PROVE  routed[x] <= executions[x]["running"] + executions[x]["completed"]
                                  + executions[x]["failed"]
  BY DEF CallsAreRecorded
<1>1. /\ Ledger(x) /\ Cardinality(AboutToCall(x)) \in Nat /\ routed[x] \in Nat
      /\ executions[x]["running"] \in Nat /\ executions[x]["completed"] \in Nat
      /\ executions[x]["failed"] \in Nat
  BY InvParts, Sizes DEF RunsPart, RunTypes, RowStatus, Outcome
<1> QED
  BY <1>1 DEF Ledger

\* The tables, the queue, the executions under way and the requests stay consistent.
THEOREM SchedulerInvariant == Spec => []SchedulerInv
<1>1. Init => SchedulerInv
  BY InitInv
<1>2. SchedulerInv /\ [Next]_vars => SchedulerInv'
  BY InvStep
<1> QED
  BY <1>1, <1>2, PTL DEF Spec

\* The tables and the requests keep their types.
THEOREM SchedulerTypes == Spec => []TypeOK
<1>1. SchedulerInv => TypeOK
  BY DEF SchedulerInv, RunsInv
<1> QED
  BY <1>1, SchedulerInvariant, PTL

\* The service is reached again for an entry only after a fault: the queue gives an entry to a
\* worker once, and once more for each fault.
THEOREM OneCallPerFault == Spec => []RepeatsAreExplained
BY InvRepeats, SchedulerInvariant, PTL

\* process() returns on an outcome that is in the executions table.
THEOREM CompletedHasRow == Spec => []CompletedIsRecorded
BY InvCompleted, SchedulerInvariant, PTL

\* A COMPLETED row is paid for by a result of its own: an accepted call, or the placeholder of a
\* job that asks for no call.
THEOREM CompletedHasEffect == Spec => []CompletedWasDone
BY InvEffects, SchedulerInvariant, PTL

\* A RUNNING row that no execution under way owns was left by a fault.
THEOREM RunningHasRun == Spec => []RunningRowsAreRuns
BY InvRunning, SchedulerInvariant, PTL

\* The row of an execution is committed before its call goes out, and never taken back.
THEOREM CallHasRow == Spec => []CallsAreRecorded
BY InvCalls, SchedulerInvariant, PTL

\* What leads to an entry of a removed schedule is gone with it: no registration that would
\* add an iteration, no request that has yet to add the first one.
LEMMA RemovedStep ==
  ASSUME SchedulerInv, [Next]_vars, NEW s \in stopped, NEW e \in EntriesOf(s),
         state[e] \in {"none", "removed"}
  PROVE  state'[e] = state[e]
<1>1. /\ RunsPart /\ OtherTypes /\ QueueShape /\ e \in Entry /\ e[1] = s /\ s \in Schedule
      /\ s \notin repeats /\ state[First(s)] # "none" /\ holder[e] = NoWorker
      /\ QueueTypeOK
  BY InvParts DEF EntriesOf, QueueShape, OtherTypes
<1>2. CASE UNCHANGED state
  BY <1>2
<1>3. ASSUME NEW w \in Worker, NEW f \in Entry, Process(w, f)
      PROVE  state'[e] = state[e]
  <2>1. state[f] = "waiting" /\ e # f
    BY <1>1, <1>3 DEF Process, Take
  <2>2. e = Next1(f) => f[1] = s
    BY <1>1, Sources
  <2> QED
    BY <1>1, <1>3, <2>1, <2>2 DEF Process, Take
<1>4. ASSUME NEW c \in Client, ClientStep(c)
      PROVE  state'[e] = state[e]
  <2>1. CASE rpc[c] = "addToQueue" /\ AddToQueue(target[c])
    <3>1. /\ target[c] \in Schedule /\ First(target[c]) # e
          /\ First(target[c]) \in Entry
      BY <1>1, <2>1, Sources DEF QueueShape
    <3> QED
      BY <1>1, <2>1, <3>1 DEF AddToQueue, AddJob, AddRepeatableJob, QueueTypeOK
  <2>2. CASE RemoveFound(c)
    <3>1. /\ target[c] \in Schedule /\ state[First(target[c])] # "none"
          /\ First(target[c]) \in Entry
      BY <1>1, <2>2, Sources DEF RemoveFound, QueueShape
    <3> QED
      BY <1>1, <2>2, <3>1 DEF RemoveFound, Remove, RemoveRepeatable, QueueTypeOK
  <2> QED
    BY <1>2, <1>4, <2>1, <2>2
       DEF ClientStep, ScheduleJob, ScheduleJobFails, Lookup, RemoveJob, RemoveJobLocked,
           RemoveJobFails, SaveSchedule, CancelSchedule, queueVars
<1>5. ASSUME NEW r \in Runner, RunnerStep(r)
      PROVE  state'[e] = state[e]
  <2>1. CASE Settle(r)
    <3>1. r \in Worker /\ r # NoWorker /\ SettleEntry(r, run[r])
      BY <2>1, QueueAssumption DEF Settle
    <3> QED
      BY <1>1, <3>1 DEF SettleEntry, Complete, FailAttempt, QueueTypeOK
  <2> QED
    BY <1>2, <1>5, <2>1, RunnerLocal DEF Crash, Orphaned, queueVars
<1>6. ASSUME NEW f \in Entry, DelayOver(f) \/ StalledCheck(f)
      PROVE  state'[e] = state[e]
  BY <1>1, <1>6 DEF DelayOver, Promote, StalledCheck, Stall, QueueTypeOK
<1>7. ASSUME NEW a \in Admin, AdminStep(a)
      PROVE  state'[e] = state[e]
  <2>1. CASE PauseQueue(a) \/ ResumeQueue(a) \/ GetFailed(a)
    BY <2>1 DEF PauseQueue, ResumeQueue, GetFailed, SetPaused, queueVars
  <2>2. CASE CleanCompleted(a) \/ CleanFailed(a)
    BY <1>1, <2>2 DEF CleanCompleted, CleanFailed, Clean
  <2>3. ASSUME NEW f \in Entry, RetryFailed(a, f)
        PROVE  state'[e] = state[e]
    BY <1>1, <2>3 DEF RetryFailed, Retry, QueueTypeOK
  <2> QED
    BY <1>7, <2>1, <2>2, <2>3 DEF AdminStep
<1>8. CASE \/ \E j \in Job : CreateJob(j)
           \/ \E r \in Caller : ExecuteDirectly(r) \/ AnswerCaller(r)
           \/ \E x \in Source : AcceptLate(x)
           \/ UNCHANGED vars
  BY <1>2, <1>8 DEF CreateJob, ExecuteDirectly, AnswerCaller, AcceptLate, queueVars, vars
<1> QED
  BY <1>3, <1>4, <1>5, <1>6, <1>7, <1>8 DEF Next

\* Once removed, a schedule does not come back into the queue.
THEOREM RemovedForGood == Spec => RemovedStaysOut
<1>1. SchedulerInv /\ [Next]_vars
        => [\A s \in stopped : \A e \in EntriesOf(s) :
              state[e] \in {"none", "removed"} => state'[e] = state[e]]_vars
  BY RemovedStep
<1> QED
  BY <1>1, SchedulerInvariant, PTL DEF Spec, RemovedStaysOut
=============================================================================
