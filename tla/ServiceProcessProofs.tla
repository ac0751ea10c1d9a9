------------------------ MODULE ServiceProcessProofs ------------------------
(* For every number of pods, attempts and faults: the pods that start over   *)
(* one database create it once, and none serves over a part of its schema.   *)
EXTENDS ServiceProcess, TLAPS

-----------------------------------------------------------------------------
(* The migrations                                                           *)

\* One migration of a run makes e of d.
RunOne(m, todo, d, e) == IF m \in todo THEN e \in Db!Up(m, d) ELSE e = d

LEMMA RunIsRunOne ==
  ASSUME NEW m, NEW todo, NEW ds, NEW e \in Db!Run(m, todo, ds)
  PROVE  \E d \in ds : RunOne(m, todo, d, e)
BY DEF Db!Run, RunOne

\* A run of the pending migrations is six steps from schema to schema.
LEMMA RunAllIsSix ==
  ASSUME NEW d, NEW todo, NEW e \in Db!RunAll(d, todo)
  PROVE  \E s1, s2, s3, s4, s5 :
           /\ RunOne("InitialSchema", todo, d, s1)
           /\ RunOne("AddScheduledMessages", todo, s1, s2)
           /\ RunOne("AddProcessingStatus", todo, s2, s3)
           /\ RunOne("AlterTimestamptz", todo, s3, s4)
           /\ RunOne("JobsCategoryFkSetNull", todo, s4, s5)
           /\ RunOne("AddRetryCount", todo, s5, e)
<1> DEFINE r1 == Db!Run("InitialSchema", todo, {d})
           r2 == Db!Run("AddScheduledMessages", todo, r1)
           r3 == Db!Run("AddProcessingStatus", todo, r2)
           r4 == Db!Run("AlterTimestamptz", todo, r3)
           r5 == Db!Run("JobsCategoryFkSetNull", todo, r4)
<1>1. e \in Db!Run("AddRetryCount", todo, r5)
  BY DEF Db!RunAll
<1>2. PICK s5 \in r5 : RunOne("AddRetryCount", todo, s5, e)
  BY <1>1, RunIsRunOne
<1>3. PICK s4 \in r4 : RunOne("JobsCategoryFkSetNull", todo, s4, s5)
  BY RunIsRunOne
<1>4. PICK s3 \in r3 : RunOne("AlterTimestamptz", todo, s3, s4)
  BY RunIsRunOne
<1>5. PICK s2 \in r2 : RunOne("AddProcessingStatus", todo, s2, s3)
  BY RunIsRunOne
<1>6. PICK s1 \in r1 : RunOne("AddScheduledMessages", todo, s1, s2)
  BY RunIsRunOne
<1>7. RunOne("InitialSchema", todo, d, s1)
  <2>1. PICK s0 \in {d} : RunOne("InitialSchema", todo, s0, s1)
    BY RunIsRunOne
  <2> QED
    BY <2>1
<1> QED
  BY <1>2, <1>3, <1>4, <1>5, <1>6, <1>7

\* The migrations that create the tables refuse what exists.
LEMMA TablesMade ==
  ASSUME NEW todo, NEW d \in Db!Schemas, NEW a, NEW b,
         RunOne("InitialSchema", todo, d, a), RunOne("AddScheduledMessages", todo, a, b)
  PROVE  /\ "InitialSchema" \in todo => d.jobs = "none"
         /\ "AddScheduledMessages" \in todo => d.messages = "none"
         /\ b = [d EXCEPT !.jobs = IF "InitialSchema" \in todo THEN "NO ACTION" ELSE @,
                          !.messages = IF "AddScheduledMessages" \in todo
                                       THEN "timestamp" ELSE @]
<1>1. /\ "InitialSchema" \in todo => d.jobs = "none"
      /\ a = [d EXCEPT !.jobs = IF "InitialSchema" \in todo THEN "NO ACTION" ELSE @]
  BY DEF RunOne, Db!Up, Db!InitialSchema, Db!Create, Db!Schemas
<1>2. /\ "AddScheduledMessages" \in todo => a.messages = "none"
      /\ b = [a EXCEPT !.messages = IF "AddScheduledMessages" \in todo
                                    THEN "timestamp" ELSE @]
  <2>1. a \in Db!Schemas
    BY <1>1 DEF Db!Schemas
  <2> QED
    BY <2>1 DEF RunOne, Db!Up, Db!AddScheduledMessages, Db!Create, Db!Schemas
<1> QED
  BY <1>1, <1>2 DEF Db!Schemas

\* The later migrations need the tables and leave each other's columns alone.
LEMMA ColumnsMade ==
  ASSUME NEW todo, NEW d \in Db!Schemas, NEW a, NEW b, NEW c, NEW e,
         RunOne("AddProcessingStatus", todo, d, a), RunOne("AlterTimestamptz", todo, a, b),
         RunOne("JobsCategoryFkSetNull", todo, b, c), RunOne("AddRetryCount", todo, c, e)
  PROVE  /\ e \in Db!Schemas
         /\ "JobsCategoryFkSetNull" \in todo => d.jobs # "none"
         /\ "AlterTimestamptz" \in todo => d.messages # "none"
         /\ e.jobs = IF "JobsCategoryFkSetNull" \in todo THEN "SET NULL" ELSE d.jobs
         /\ e.messages = IF "AlterTimestamptz" \in todo THEN "timestamptz" ELSE d.messages
         /\ e.processing <=> d.processing \/ "AddProcessingStatus" \in todo
         /\ e.retryCount <=> d.retryCount \/ "AddRetryCount" \in todo
         /\ e.shifted =>
              d.shifted \/ ("AlterTimestamptz" \in todo /\ d.messages = "timestamptz")
<1>1. /\ a \in Db!Schemas /\ a.jobs = d.jobs /\ a.messages = d.messages
      /\ a.processing <=> d.processing \/ "AddProcessingStatus" \in todo
      /\ a.retryCount = d.retryCount /\ a.shifted = d.shifted
  BY DEF RunOne, Db!Up, Db!AddProcessingStatus, Db!Schemas
<1>2. /\ b \in Db!Schemas /\ b.jobs = a.jobs
      /\ b.messages = IF "AlterTimestamptz" \in todo THEN "timestamptz" ELSE a.messages
      /\ "AlterTimestamptz" \in todo => a.messages # "none"
      /\ b.processing = a.processing /\ b.retryCount = a.retryCount
      /\ b.shifted =>
           a.shifted \/ ("AlterTimestamptz" \in todo /\ a.messages = "timestamptz")
  <2>1. CASE "AlterTimestamptz" \notin todo
    BY <1>1, <2>1 DEF RunOne
  <2>2. CASE "AlterTimestamptz" \in todo
    <3>1. b \in Db!AlterTimestamptz(a)
      BY <2>2 DEF RunOne, Db!Up
    <3>2. /\ a.messages # "none"
          /\ b = [a EXCEPT !.messages = "timestamptz",
                     !.shifted = a.shifted \/ (a.messages = "timestamptz" /\ ~SESSION_IS_UTC)]
      BY <3>1 DEF Db!AlterTimestamptz
    <3>3. /\ b.jobs = a.jobs /\ b.messages = "timestamptz" /\ b.processing = a.processing
          /\ b.retryCount = a.retryCount
          /\ b.shifted = (a.shifted \/ (a.messages = "timestamptz" /\ ~SESSION_IS_UTC))
      BY <1>1, <3>2 DEF Db!Schemas
    <3>4. b \in Db!Schemas
      BY <1>1, <3>2, ProcessAssumption DEF Db!Schemas
    <3> QED
      BY <2>2, <3>2, <3>3, <3>4
  <2> QED
    BY <2>1, <2>2
<1>3. /\ c \in Db!Schemas /\ c.messages = b.messages /\ c.processing = b.processing
      /\ c.retryCount = b.retryCount /\ c.shifted = b.shifted
      /\ "JobsCategoryFkSetNull" \in todo => b.jobs # "none"
      /\ c.jobs = IF "JobsCategoryFkSetNull" \in todo THEN "SET NULL" ELSE b.jobs
  BY <1>2 DEF RunOne, Db!Up, Db!JobsCategoryFkSetNull, Db!Schemas
<1>4. /\ e \in Db!Schemas /\ e.jobs = c.jobs /\ e.messages = c.messages
      /\ e.processing = c.processing /\ e.shifted = c.shifted
      /\ e.retryCount <=> c.retryCount \/ "AddRetryCount" \in todo
  BY <1>3 DEF RunOne, Db!Up, Db!AddRetryCount, Db!Schemas
<1> QED
  BY <1>1, <1>2, <1>3, <1>4

\* What a run of the pending migrations found, and what it made of it.
LEMMA RunAllMakes ==
  ASSUME NEW d \in Db!Schemas, NEW todo, NEW e \in Db!RunAll(d, todo)
  PROVE  /\ e \in Db!Schemas
         /\ "InitialSchema" \in todo => d.jobs = "none"
         /\ "AddScheduledMessages" \in todo => d.messages = "none"
         /\ e.jobs = "none" <=> d.jobs = "none" /\ "InitialSchema" \notin todo
         /\ e.messages = "none" <=> d.messages = "none" /\ "AddScheduledMessages" \notin todo
         /\ d.jobs = "SET NULL" \/ "JobsCategoryFkSetNull" \in todo => e.jobs = "SET NULL"
         /\ e.messages = "timestamptz" <=>
              d.messages = "timestamptz" \/ "AlterTimestamptz" \in todo
         /\ e.processing <=> d.processing \/ "AddProcessingStatus" \in todo
         /\ e.retryCount <=> d.retryCount \/ "AddRetryCount" \in todo
         /\ e.shifted =>
              d.shifted \/ ("AlterTimestamptz" \in todo /\ d.messages = "timestamptz")
<1>1. PICK s1, s2, s3, s4, s5 :
           /\ RunOne("InitialSchema", todo, d, s1)
           /\ RunOne("AddScheduledMessages", todo, s1, s2)
           /\ RunOne("AddProcessingStatus", todo, s2, s3)
           /\ RunOne("AlterTimestamptz", todo, s3, s4)
           /\ RunOne("JobsCategoryFkSetNull", todo, s4, s5)
           /\ RunOne("AddRetryCount", todo, s5, e)
  BY RunAllIsSix
<1>2. /\ "InitialSchema" \in todo => d.jobs = "none"
      /\ "AddScheduledMessages" \in todo => d.messages = "none"
      /\ s2 = [d EXCEPT !.jobs = IF "InitialSchema" \in todo THEN "NO ACTION" ELSE @,
                        !.messages = IF "AddScheduledMessages" \in todo
                                     THEN "timestamp" ELSE @]
  BY <1>1, TablesMade
<1>3. s2 \in Db!Schemas
  BY <1>2 DEF Db!Schemas
<1>4. /\ e \in Db!Schemas
      /\ "JobsCategoryFkSetNull" \in todo => s2.jobs # "none"
      /\ "AlterTimestamptz" \in todo => s2.messages # "none"
      /\ e.jobs = IF "JobsCategoryFkSetNull" \in todo THEN "SET NULL" ELSE s2.jobs
      /\ e.messages = IF "AlterTimestamptz" \in todo THEN "timestamptz" ELSE s2.messages
      /\ e.processing <=> s2.processing \/ "AddProcessingStatus" \in todo
      /\ e.retryCount <=> s2.retryCount \/ "AddRetryCount" \in todo
      /\ e.shifted =>
           s2.shifted \/ ("AlterTimestamptz" \in todo /\ s2.messages = "timestamptz")
  BY <1>1, <1>3, ColumnsMade
<1>5. /\ s2.jobs = IF "InitialSchema" \in todo THEN "NO ACTION" ELSE d.jobs
      /\ s2.messages = IF "AddScheduledMessages" \in todo THEN "timestamp" ELSE d.messages
      /\ s2.processing = d.processing /\ s2.retryCount = d.retryCount
      /\ s2.shifted = d.shifted
  BY <1>2 DEF Db!Schemas
<1>6. /\ e.jobs = "none" <=> d.jobs = "none" /\ "InitialSchema" \notin todo
      /\ d.jobs = "SET NULL" \/ "JobsCategoryFkSetNull" \in todo => e.jobs = "SET NULL"
  <2>1. /\ "InitialSchema" \in todo => d.jobs = "none"
        /\ "JobsCategoryFkSetNull" \in todo => s2.jobs # "none"
        /\ e.jobs = IF "JobsCategoryFkSetNull" \in todo THEN "SET NULL" ELSE s2.jobs
        /\ s2.jobs = IF "InitialSchema" \in todo THEN "NO ACTION" ELSE d.jobs
    BY <1>2, <1>4, <1>5, Zenon
  <2> QED
    BY <2>1
<1>7. /\ e.messages = "none" <=> d.messages = "none" /\ "AddScheduledMessages" \notin todo
      /\ e.messages = "timestamptz" <=>
           d.messages = "timestamptz" \/ "AlterTimestamptz" \in todo
  <2>1. /\ "AddScheduledMessages" \in todo => d.messages = "none"
        /\ "AlterTimestamptz" \in todo => s2.messages # "none"
        /\ e.messages = IF "AlterTimestamptz" \in todo THEN "timestamptz" ELSE s2.messages
        /\ s2.messages = IF "AddScheduledMessages" \in todo THEN "timestamp" ELSE d.messages
    BY <1>2, <1>4, <1>5, Zenon
  <2> QED
    BY <2>1
<1>8. /\ e.processing <=> d.processing \/ "AddProcessingStatus" \in todo
      /\ e.retryCount <=> d.retryCount \/ "AddRetryCount" \in todo
  BY <1>4, <1>5, Zenon
<1>9. e.shifted => d.shifted \/ ("AlterTimestamptz" \in todo /\ d.messages = "timestamptz")
  <2>1. s2.messages = "timestamptz" => d.messages = "timestamptz"
    BY <1>5
  <2> QED
    BY <1>4, <1>5, <2>1, Zenon
<1> QED
  BY <1>2, <1>4, <1>6, <1>7, <1>8, <1>9

-----------------------------------------------------------------------------
(* The database, under the connections of all the pods                      *)

DatabaseInv == Db!TypeOK /\ Db!LedgerOfSchema /\ Db!ConnectionsInv

LEMMA NobodyIsNoPod == \A p \in Pod : p # "none"
BY ProcessAssumption

LEMMA InitDatabase == Db!Init => DatabaseInv
<1> SUFFICES ASSUME Db!Init
             PROVE  DatabaseInv
  OBVIOUS
<1>1. PICK done \in Db!Release :
        /\ ledger = [m \in Db!Migration |-> IF m \in done THEN 1 ELSE 0]
        /\ schema \in Db!RunAll(Db!NoSchema, done)
  BY DEF Db!Init
<1>2. Db!NoSchema \in Db!Schemas
  BY DEF Db!NoSchema, Db!Schemas
<1>3. /\ schema \in Db!Schemas
      /\ schema.jobs = "none" <=> "InitialSchema" \notin done
      /\ schema.messages = "none" <=> "AddScheduledMessages" \notin done
      /\ "JobsCategoryFkSetNull" \in done => schema.jobs = "SET NULL"
      /\ schema.messages = "timestamptz" <=> "AlterTimestamptz" \in done
      /\ "AddProcessingStatus" \in done => schema.processing
      /\ "AddRetryCount" \in done => schema.retryCount
      /\ ~schema.shifted
  <2>1. /\ schema \in Db!Schemas
        /\ schema.jobs = "none" <=>
             Db!NoSchema.jobs = "none" /\ "InitialSchema" \notin done
        /\ schema.messages = "none" <=>
             Db!NoSchema.messages = "none" /\ "AddScheduledMessages" \notin done
        /\ "JobsCategoryFkSetNull" \in done => schema.jobs = "SET NULL"
        /\ schema.messages = "timestamptz" <=>
             Db!NoSchema.messages = "timestamptz" \/ "AlterTimestamptz" \in done
        /\ "AddProcessingStatus" \in done => schema.processing
        /\ "AddRetryCount" \in done => schema.retryCount
        /\ schema.shifted => Db!NoSchema.shifted \/ Db!NoSchema.messages = "timestamptz"
    BY <1>1, <1>2, RunAllMakes, ZenonT(30)
  <2>2. /\ Db!NoSchema.jobs = "none" /\ Db!NoSchema.messages = "none"
        /\ ~Db!NoSchema.shifted
    BY DEF Db!NoSchema
  <2>3. Db!NoSchema.messages # "timestamptz"
    BY <2>2
  <2> QED
    BY <2>1, <2>2, <2>3, Zenon
<1>4. Db!TypeOK
  <2>1. pods \in [Pod -> [at : {"off", "connecting", "pending", "migrating", "backoff", "ready"},
                          todo : SUBSET Db!Migration, tries : 1..RETRY_ATTEMPTS]]
    BY ProcessAssumption DEF Db!Init, Db!Off
  <2> QED
    BY <1>1, <1>3, <2>1 DEF Db!Init, Db!TypeOK
<1>5. Db!LedgerOfSchema
  <2>1. \A m \in Db!Migration : ledger[m] = IF m \in done THEN 1 ELSE 0
    BY <1>1
  <2>2. /\ ledger["InitialSchema"] = IF schema.jobs = "none" THEN 0 ELSE 1
        /\ ledger["AddScheduledMessages"] = IF schema.messages = "none" THEN 0 ELSE 1
        /\ schema.messages = "timestamptz" <=> ledger["AlterTimestamptz"] > 0
        /\ ledger["JobsCategoryFkSetNull"] > 0 => schema.jobs = "SET NULL"
    <3>1. /\ schema.jobs = "none" <=> "InitialSchema" \notin done
          /\ schema.messages = "none" <=> "AddScheduledMessages" \notin done
          /\ "JobsCategoryFkSetNull" \in done => schema.jobs = "SET NULL"
          /\ schema.messages = "timestamptz" <=> "AlterTimestamptz" \in done
      BY <1>3, Zenon
    <3>2. /\ ledger["InitialSchema"] = IF "InitialSchema" \in done THEN 1 ELSE 0
          /\ ledger["AddScheduledMessages"] = IF "AddScheduledMessages" \in done THEN 1 ELSE 0
      BY <2>1 DEF Db!Migration
    <3>3. /\ ledger["AlterTimestamptz"] = IF "AlterTimestamptz" \in done THEN 1 ELSE 0
          /\ ledger["JobsCategoryFkSetNull"] =
               IF "JobsCategoryFkSetNull" \in done THEN 1 ELSE 0
      BY <2>1 DEF Db!Migration
    <3>4. 1 > 0 /\ ~(0 > 0)
      OBVIOUS
    <3> QED
      BY <3>1, <3>2, <3>3, <3>4
  <2>3. /\ ledger["AddProcessingStatus"] > 0 => "AddProcessingStatus" \in done
        /\ ledger["AddRetryCount"] > 0 => "AddRetryCount" \in done
    BY <2>1 DEF Db!Migration
  <2> QED
    BY <1>3, <2>2, <2>3, Zenon DEF Db!LedgerOfSchema
<1>6. Db!ConnectionsInv
  BY NobodyIsNoPod DEF Db!Init, Db!Off, Db!ConnectionsInv
<1> QED
  BY <1>4, <1>5, <1>6 DEF DatabaseInv

\* A step that leaves the tables and the locks alone keeps the invariant when the connection
\* it moves is neither in a transaction nor before one.
LEMMA ConnectionMoves ==
  ASSUME DatabaseInv, NEW p \in Pod, NEW c, pods' = [pods EXCEPT ![p] = c],
         c \in [at : {"off", "connecting", "backoff"}, todo : SUBSET Db!Migration,
                tries : 1..RETRY_ATTEMPTS],
         UNCHANGED <<schema, ledger>>, Db!Rollback(p), dbUp' \in BOOLEAN
  PROVE  DatabaseInv'
<1>1. Db!TypeOK'
  BY DEF DatabaseInv, Db!TypeOK, Db!Rollback
<1>2. Db!LedgerOfSchema'
  BY DEF DatabaseInv, Db!LedgerOfSchema
<1>3. Db!ConnectionsInv'
  <2> SUFFICES ASSUME NEW q \in Pod
               PROVE  /\ pods'[q].at \in {"pending", "migrating"} =>
                           \A m \in Db!Migration : ledger[m] = 0 => m \in pods'[q].todo
                      /\ pods'[q].at = "ready" => \A m \in Db!Migration : ledger[m] > 0
                      /\ pods'[q].at = "migrating" <=> holder' = q
    BY DEF Db!ConnectionsInv
  <2>1. CASE q = p
    BY <2>1, NobodyIsNoPod DEF DatabaseInv, Db!TypeOK, Db!Rollback
  <2>2. CASE q # p
    BY <2>2, NobodyIsNoPod DEF DatabaseInv, Db!TypeOK, Db!ConnectionsInv, Db!Rollback
  <2> QED
    BY <2>1, <2>2
<1> QED
  BY <1>1, <1>2, <1>3 DEF DatabaseInv

LEMMA DieDatabase ==
  ASSUME DatabaseInv, NEW p \in Pod, Db!Die(p)
  PROVE  DatabaseInv'
<1>1. /\ Db!Off \in [at : {"off", "connecting", "backoff"}, todo : SUBSET Db!Migration,
                     tries : 1..RETRY_ATTEMPTS]
      /\ dbUp' \in BOOLEAN
  BY ProcessAssumption DEF Db!Off, Db!Die, DatabaseInv, Db!TypeOK
<1> QED
  BY <1>1, ConnectionMoves DEF Db!Die

LEMMA LoadLedgerDatabase ==
  ASSUME DatabaseInv, NEW p \in Pod, Db!LoadLedger(p)
  PROVE  DatabaseInv'
<1> DEFINE todo == {m \in Db!Migration : ledger[m] = 0}
           at   == IF todo = {} THEN "ready" ELSE "pending"
<1>1. /\ pods' = [pods EXCEPT ![p] = [@ EXCEPT !.at = at, !.todo = todo]]
      /\ pods[p].at = "connecting" /\ UNCHANGED <<schema, ledger, holder, dbUp>>
  BY DEF Db!LoadLedger
<1>2. todo \in SUBSET Db!Migration /\ at \in {"ready", "pending"}
  OBVIOUS
<1>3. Db!TypeOK'
  <2> HIDE DEF todo, at
  <2> QED
    BY <1>1, <1>2 DEF DatabaseInv, Db!TypeOK
<1>4. Db!LedgerOfSchema'
  BY <1>1 DEF DatabaseInv, Db!LedgerOfSchema
<1>5. Db!ConnectionsInv'
  <2>1. /\ pods'[p].at = at /\ pods'[p].todo = todo
        /\ \A q \in Pod \ {p} : pods'[q] = pods[q]
    <3> HIDE DEF todo, at
    <3> QED
      BY <1>1 DEF DatabaseInv, Db!TypeOK
  <2>2. at = "ready" => \A m \in Db!Migration : ledger[m] > 0
    BY DEF DatabaseInv, Db!TypeOK
  <2>3. holder # p
    BY <1>1 DEF DatabaseInv, Db!ConnectionsInv
  <2>4. \A m \in Db!Migration : ledger[m] = 0 => m \in todo
    OBVIOUS
  <2> HIDE DEF todo, at
  <2> QED
    BY <1>1, <1>2, <2>1, <2>2, <2>3, <2>4 DEF DatabaseInv, Db!ConnectionsInv
<1> QED
  BY <1>3, <1>4, <1>5 DEF DatabaseInv

LEMMA BeginDatabase ==
  ASSUME DatabaseInv, NEW p \in Pod, Db!BeginTransaction(p)
  PROVE  DatabaseInv'
<1>1. /\ pods' = [pods EXCEPT ![p].at = "migrating"] /\ pods[p].at = "pending"
      /\ holder = "none" /\ holder' = p /\ UNCHANGED <<schema, ledger, dbUp>>
  BY DEF Db!BeginTransaction, Db!Goto
<1>2. Db!TypeOK'
  BY <1>1 DEF DatabaseInv, Db!TypeOK
<1>3. Db!LedgerOfSchema'
  BY <1>1 DEF DatabaseInv, Db!LedgerOfSchema
<1>4. Db!ConnectionsInv'
  <2>1. /\ pods'[p].at = "migrating" /\ pods'[p].todo = pods[p].todo
        /\ \A q \in Pod \ {p} : pods'[q] = pods[q]
    BY <1>1 DEF DatabaseInv, Db!TypeOK
  <2> QED
    BY <1>1, <2>1, NobodyIsNoPod DEF DatabaseInv, Db!ConnectionsInv
<1> QED
  BY <1>2, <1>3, <1>4 DEF DatabaseInv

\* The rows that a transaction adds are those of what it executed.
LEMMA RecordedIs ==
  ASSUME ledger \in [Db!Migration -> Nat], NEW todo, ledger' = Db!Recorded(todo)
  PROVE  /\ ledger' \in [Db!Migration -> Nat]
         /\ \A m \in Db!Migration :
              ledger'[m] = IF m \in todo THEN ledger[m] + 1 ELSE ledger[m]
BY DEF Db!Recorded

\* A transaction that commits has refused to create what another one created, and executes all
\* that is missing.
LEMMA CommitDatabase ==
  ASSUME DatabaseInv, NEW p \in Pod, Db!Commit(p)
  PROVE  DatabaseInv'
<1> DEFINE todo == pods[p].todo
<1>1. /\ pods' = [pods EXCEPT ![p].at = "ready"] /\ pods[p].at = "migrating"
      /\ schema' \in Db!RunAll(schema, todo) /\ ledger' = Db!Recorded(todo)
      /\ holder' = "none" /\ UNCHANGED dbUp
  BY DEF Db!Commit, Db!Goto
<1>2. /\ schema \in Db!Schemas /\ ledger \in [Db!Migration -> Nat]
      /\ todo \in SUBSET Db!Migration
  BY DEF DatabaseInv, Db!TypeOK
<1> HIDE DEF todo
<1>3. /\ schema' \in Db!Schemas
      /\ "InitialSchema" \in todo => schema.jobs = "none"
      /\ "AddScheduledMessages" \in todo => schema.messages = "none"
      /\ schema'.jobs = "none" <=> schema.jobs = "none" /\ "InitialSchema" \notin todo
      /\ schema'.messages = "none" <=>
           schema.messages = "none" /\ "AddScheduledMessages" \notin todo
      /\ schema.jobs = "SET NULL" \/ "JobsCategoryFkSetNull" \in todo
           => schema'.jobs = "SET NULL"
      /\ schema'.messages = "timestamptz" <=>
           schema.messages = "timestamptz" \/ "AlterTimestamptz" \in todo
      /\ schema'.processing <=> schema.processing \/ "AddProcessingStatus" \in todo
      /\ schema'.retryCount <=> schema.retryCount \/ "AddRetryCount" \in todo
      /\ schema'.shifted =>
           schema.shifted \/ ("AlterTimestamptz" \in todo /\ schema.messages = "timestamptz")
  BY <1>1, <1>2, RunAllMakes
<1>4. /\ ledger' \in [Db!Migration -> Nat]
      /\ \A m \in Db!Migration :
           ledger'[m] = IF m \in todo THEN ledger[m] + 1 ELSE ledger[m]
  BY <1>1, <1>2, RecordedIs
<1>5. Db!TypeOK'
  <2>1. schema' \in Db!Schemas
    BY <1>3
  <2> QED
    BY <1>1, <1>4, <2>1 DEF DatabaseInv, Db!TypeOK
<1>6. Db!LedgerOfSchema'
  <2>1. /\ ledger'["InitialSchema"] = IF schema'.jobs = "none" THEN 0 ELSE 1
        /\ ledger'["JobsCategoryFkSetNull"] > 0 => schema'.jobs = "SET NULL"
    <3>1. /\ "InitialSchema" \in todo => schema.jobs = "none"
          /\ schema'.jobs = "none" <=> schema.jobs = "none" /\ "InitialSchema" \notin todo
          /\ schema.jobs = "SET NULL" \/ "JobsCategoryFkSetNull" \in todo
               => schema'.jobs = "SET NULL"
      BY <1>3, Zenon
    <3>2. /\ ledger["InitialSchema"] = IF schema.jobs = "none" THEN 0 ELSE 1
          /\ ledger["JobsCategoryFkSetNull"] > 0 => schema.jobs = "SET NULL"
      BY DEF DatabaseInv, Db!LedgerOfSchema
    <3>3. /\ ledger'["InitialSchema"] =
               IF "InitialSchema" \in todo THEN ledger["InitialSchema"] + 1
               ELSE ledger["InitialSchema"]
          /\ ledger'["JobsCategoryFkSetNull"] > 0 =>
               ledger["JobsCategoryFkSetNull"] > 0 \/ "JobsCategoryFkSetNull" \in todo
      BY <1>2, <1>4 DEF Db!Migration
    <3>4. ledger'["InitialSchema"] = IF schema'.jobs = "none" THEN 0 ELSE 1
      <4>1. /\ "InitialSchema" \in todo => schema.jobs = "none"
            /\ schema'.jobs = "none" <=> schema.jobs = "none" /\ "InitialSchema" \notin todo
        BY <3>1
      <4>2. ledger["InitialSchema"] = IF schema.jobs = "none" THEN 0 ELSE 1
        BY <3>2, Zenon
      <4>3. ledger'["InitialSchema"] =
              IF "InitialSchema" \in todo THEN ledger["InitialSchema"] + 1
              ELSE ledger["InitialSchema"]
        BY <3>3, Zenon
      <4> QED
        BY <4>1, <4>2, <4>3
    <3> QED
      BY <3>1, <3>2, <3>3, <3>4, Zenon
  <2>2. /\ ledger'["AddScheduledMessages"] = IF schema'.messages = "none" THEN 0 ELSE 1
        /\ schema'.messages = "timestamptz" <=> ledger'["AlterTimestamptz"] > 0
    <3>1. /\ "AddScheduledMessages" \in todo => schema.messages = "none"
          /\ schema'.messages = "none" <=>
               schema.messages = "none" /\ "AddScheduledMessages" \notin todo
          /\ schema'.messages = "timestamptz" <=>
               schema.messages = "timestamptz" \/ "AlterTimestamptz" \in todo
      BY <1>3, Zenon
    <3>2. /\ ledger["AddScheduledMessages"] = IF schema.messages = "none" THEN 0 ELSE 1
          /\ schema.messages = "timestamptz" <=> ledger["AlterTimestamptz"] > 0
      BY DEF DatabaseInv, Db!LedgerOfSchema
    <3>3. /\ ledger'["AddScheduledMessages"] =
               IF "AddScheduledMessages" \in todo THEN ledger["AddScheduledMessages"] + 1
               ELSE ledger["AddScheduledMessages"]
          /\ ledger'["AlterTimestamptz"] > 0 <=>
               ledger["AlterTimestamptz"] > 0 \/ "AlterTimestamptz" \in todo
      BY <1>2, <1>4 DEF Db!Migration
    <3>4. ledger'["AddScheduledMessages"] = IF schema'.messages = "none" THEN 0 ELSE 1
      BY <3>1, <3>2, <3>3
    <3> QED
      BY <3>1, <3>2, <3>3, <3>4, Zenon
  <2>3. /\ ledger'["AddProcessingStatus"] > 0 => schema'.processing
        /\ ledger'["AddRetryCount"] > 0 => schema'.retryCount
    <3>1. /\ ledger'["AddProcessingStatus"] > 0 =>
               ledger["AddProcessingStatus"] > 0 \/ "AddProcessingStatus" \in todo
          /\ ledger'["AddRetryCount"] > 0 =>
               ledger["AddRetryCount"] > 0 \/ "AddRetryCount" \in todo
      BY <1>4 DEF Db!Migration
    <3> QED
      BY <1>3, <3>1, Zenon DEF DatabaseInv, Db!LedgerOfSchema
  <2>4. schema'.shifted => ledger'["AlterTimestamptz"] > 1
    <3>1. ledger["AlterTimestamptz"] > 1 => ledger'["AlterTimestamptz"] > 1
      BY <1>2, <1>4 DEF Db!Migration
    <3>2. "AlterTimestamptz" \in todo /\ ledger["AlterTimestamptz"] > 0
            => ledger'["AlterTimestamptz"] > 1
      BY <1>2, <1>4 DEF Db!Migration
    <3> QED
      BY <1>3, <3>1, <3>2, Zenon DEF DatabaseInv, Db!LedgerOfSchema
  <2> QED
    BY <2>1, <2>2, <2>3, <2>4, Zenon DEF Db!LedgerOfSchema
<1>7. Db!ConnectionsInv'
  <2>1. /\ pods'[p].at = "ready" /\ \A q \in Pod \ {p} : pods'[q] = pods[q]
    BY <1>1 DEF DatabaseInv, Db!TypeOK
  <2>2. /\ \A m \in Db!Migration : ledger[m] = 0 => m \in todo
        /\ holder = p /\ \A q \in Pod \ {p} : pods[q].at # "migrating"
    BY <1>1 DEF DatabaseInv, Db!ConnectionsInv, todo
  <2>3. \A m \in Db!Migration : ledger'[m] > 0
    BY <1>2, <1>4, <2>2
  <2>4. \A m \in Db!Migration : ledger'[m] # 0
    BY <1>2, <1>4, <2>2
  <2> QED
    BY <1>1, <2>1, <2>2, <2>3, <2>4, NobodyIsNoPod DEF Db!ConnectionsInv
<1> QED
  BY <1>5, <1>6, <1>7 DEF DatabaseInv

LEMMA AttemptFailsDatabase ==
  ASSUME DatabaseInv, NEW p \in Pod, Db!AttemptFails(p)
  PROVE  DatabaseInv'
<1>1. dbUp' \in BOOLEAN /\ UNCHANGED <<schema, ledger>> /\ Db!Rollback(p)
  BY DEF Db!AttemptFails, DatabaseInv, Db!TypeOK
<1>2. CASE Db!MayRetry(p)
  <2> DEFINE c == [pods[p] EXCEPT !.at = "backoff", !.tries = @ + 1]
  <2>1. pods' = [pods EXCEPT ![p] = c]
    BY <1>2 DEF Db!AttemptFails, DatabaseInv, Db!TypeOK
  <2>2. c \in [at : {"off", "connecting", "backoff"}, todo : SUBSET Db!Migration,
               tries : 1..RETRY_ATTEMPTS]
    <3>1. /\ pods[p] \in [at : {"off", "connecting", "pending", "migrating", "backoff", "ready"},
                          todo : SUBSET Db!Migration, tries : 1..RETRY_ATTEMPTS]
          /\ pods[p].tries < RETRY_ATTEMPTS
      BY <1>2 DEF Db!MayRetry, DatabaseInv, Db!TypeOK
    <3>2. pods[p].tries + 1 \in 1..RETRY_ATTEMPTS
      BY <3>1, ProcessAssumption
    <3> QED
      BY <3>1, <3>2
  <2> QED
    BY <1>1, <2>1, <2>2, ConnectionMoves
<1>3. CASE ~Db!MayRetry(p)
  <2>1. pods' = [pods EXCEPT ![p] = Db!Off]
    BY <1>3 DEF Db!AttemptFails
  <2>2. Db!Off \in [at : {"off", "connecting", "backoff"}, todo : SUBSET Db!Migration,
                    tries : 1..RETRY_ATTEMPTS]
    BY ProcessAssumption DEF Db!Off
  <2> QED
    BY <1>1, <2>1, <2>2, ConnectionMoves
<1> QED
  BY <1>2, <1>3

\* Connecting, for the first time or again.
LEMMA ConnectDatabase ==
  ASSUME DatabaseInv, NEW p \in Pod, Db!Connect(p) \/ Db!Retry(p)
  PROVE  DatabaseInv'
<1> DEFINE c == [pods[p] EXCEPT !.at = "connecting"]
<1>1. /\ pods' = [pods EXCEPT ![p] = c] /\ pods[p].at \in {"off", "backoff"}
      /\ UNCHANGED <<schema, ledger, holder, dbUp>>
  BY DEF Db!Connect, Db!Retry, Db!Goto, Db!RetryAt, DatabaseInv, Db!TypeOK
<1>2. c \in [at : {"off", "connecting", "backoff"}, todo : SUBSET Db!Migration,
             tries : 1..RETRY_ATTEMPTS]
  BY DEF DatabaseInv, Db!TypeOK
<1>3. Db!Rollback(p) /\ dbUp' \in BOOLEAN
  BY <1>1 DEF Db!Rollback, DatabaseInv, Db!TypeOK, Db!ConnectionsInv
<1> HIDE DEF c
<1> QED
  BY <1>1, <1>2, <1>3, ConnectionMoves

LEMMA ConnectionDatabase ==
  ASSUME DatabaseInv, NEW p \in Pod, Db!Connect(p) \/ Db!ConnectionStep(p)
  PROVE  DatabaseInv'
BY LoadLedgerDatabase, BeginDatabase, CommitDatabase, AttemptFailsDatabase, ConnectDatabase
   DEF Db!ConnectionStep

\* A step of one pod leaves the connection of the others alone.
LEMMA OthersConnections ==
  ASSUME DatabaseInv, NEW p \in Pod, Db!Connect(p) \/ Db!ConnectionStep(p) \/ Db!Die(p)
  PROVE  \A q \in Pod \ {p} : pods'[q] = pods[q]
BY DEF DatabaseInv, Db!TypeOK, Db!ConnectionStep, Db!Connect, Db!LoadLedger,
       Db!BeginTransaction, Db!Commit, Db!AttemptFails, Db!Retry, Db!Die, Db!Goto

-----------------------------------------------------------------------------
(* The process                                                              *)

\* The part of ProcessInv that is not about the database.
PodTypes ==
  /\ redisUp \in BOOLEAN /\ configured \in BOOLEAN /\ http \in BOOLEAN /\ ready \in BOOLEAN
  /\ start \in {"down", "connecting", "init", "listening"}
  /\ stop \in {"running", "hooks", "drained", "gone"}
  /\ hooks \subseteq {"keys", "cache"} /\ faults \in 0..MaxFaults

LEMMA ProcessInvParts == ProcessInv <=> DatabaseInv /\ PodTypes /\ ServersInv
BY DEF ProcessInv, TypeOK, DatabaseInv, PodTypes

LEMMA InitProcess == Init => ProcessInv
<1> SUFFICES ASSUME Init
             PROVE  ProcessInv
  OBVIOUS
<1>1. DatabaseInv
  BY InitDatabase DEF Init
<1>2. PodTypes
  <2>1. faults \in 0..MaxFaults
    BY ProcessAssumption DEF Init
  <2> QED
    BY <2>1, Zenon DEF Init, PodTypes
<1>3. ServersInv
  BY DEF Init, ServersInv
<1> QED
  BY <1>1, <1>2, <1>3, ProcessInvParts

\* The database is moved by the connections, by the deaths of the pods and by its outages.
LEMMA DatabaseMoves ==
  ASSUME ProcessInv, Next
  PROVE  \/ UNCHANGED dbVars
         \/ UNCHANGED <<schema, ledger, holder, pods>> /\ dbUp' \in BOOLEAN
         \/ \E p \in Pod : Db!Connect(p) \/ Db!ConnectionStep(p) \/ Db!Die(p)
<1>1. CASE StartProcess \/ ConnectionStep \/ TerminateEarly \/ Kill \/ Crash
  BY <1>1, ProcessAssumption DEF StartProcess, ConnectionStep, TerminateEarly, Kill, Crash, Gone
<1>2. CASE BootstrapFails \/ ModulesCreated \/ Listen \/ Probe \/ Terminate \/ KeysDestroyed
            \/ CacheDisconnects \/ CacheTimesOut \/ Dispose
  BY <1>2 DEF BootstrapFails, ModulesCreated, Listen, Probe, Terminate, KeysDestroyed,
              CacheDisconnects, CacheTimesOut, Dispose
<1>3. CASE StoreDown \/ DbComesUp \/ RedisComesUp \/ FixEnvironment
  BY <1>3 DEF StoreDown, DbComesUp, RedisComesUp, FixEnvironment, dbVars,
              ProcessInv, TypeOK, Db!TypeOK
<1>4. CASE \E p \in Pod \ {This} : PeerStep(p) \/ PeerDies(p)
  BY <1>4 DEF PeerStep, PeerDies
<1> QED
  BY <1>1, <1>2, <1>3, <1>4 DEF Next

LEMMA NextDatabase ==
  ASSUME ProcessInv, Next
  PROVE  DatabaseInv'
<1> DatabaseInv
  BY ProcessInvParts
<1>1. CASE UNCHANGED dbVars
  BY <1>1 DEF dbVars, DatabaseInv, Db!TypeOK, Db!LedgerOfSchema, Db!ConnectionsInv
<1>2. CASE UNCHANGED <<schema, ledger, holder, pods>> /\ dbUp' \in BOOLEAN
  BY <1>2 DEF DatabaseInv, Db!TypeOK, Db!LedgerOfSchema, Db!ConnectionsInv
<1>3. CASE \E p \in Pod : Db!Connect(p) \/ Db!ConnectionStep(p) \/ Db!Die(p)
  BY <1>3, ConnectionDatabase, DieDatabase
<1> QED
  BY <1>1, <1>2, <1>3, DatabaseMoves

\* An end of the process leaves nothing of it.
LEMMA GoneProcess ==
  ASSUME PodTypes, Gone, stop' \in {"running", "gone"}, faults' \in 0..MaxFaults
  PROVE  PodTypes' /\ ServersInv'
BY DEF PodTypes, Gone, ServersInv

LEMMA StartUpProcess ==
  ASSUME ProcessInv,
         StartProcess \/ ConnectionStep \/ BootstrapFails \/ ModulesCreated \/ Listen \/ Probe
  PROVE  PodTypes' /\ ServersInv'
<1> PodTypes /\ ServersInv
  BY ProcessInvParts
<1>1. CASE StartProcess
  BY <1>1 DEF StartProcess, PodTypes, ServersInv
<1>2. CASE ConnectionStep
  BY <1>2 DEF ConnectionStep, processVars, PodTypes, ServersInv
<1>3. CASE BootstrapFails
  BY <1>3 DEF BootstrapFails, PodTypes, ServersInv
<1>4. CASE ModulesCreated
  BY <1>4 DEF ModulesCreated, dbVars, PodTypes, ServersInv
<1>5. CASE Listen
  BY <1>5 DEF Listen, dbVars, PodTypes, ServersInv
<1>6. CASE Probe
  <2>1. ready' \in BOOLEAN /\ (ready' => http)
    BY <1>6 DEF Probe, Readiness
  <2> QED
    BY <1>6, <2>1 DEF Probe, dbVars, PodTypes, ServersInv
<1> QED
  BY <1>1, <1>2, <1>3, <1>4, <1>5, <1>6

LEMMA ShutdownProcess ==
  ASSUME ProcessInv,
         \/ TerminateEarly \/ Terminate \/ KeysDestroyed \/ CacheDisconnects \/ CacheTimesOut
         \/ Dispose \/ Kill
  PROVE  PodTypes' /\ ServersInv'
<1> PodTypes /\ ServersInv
  BY ProcessInvParts
<1>1. CASE TerminateEarly \/ Kill
  BY <1>1, GoneProcess DEF TerminateEarly, Kill, PodTypes
<1>2. CASE Terminate \/ KeysDestroyed \/ CacheDisconnects \/ CacheTimesOut
  <2>1. UNCHANGED <<pods, redisUp, configured, start, http, ready, faults>>
    BY <1>2, Zenon DEF Terminate, KeysDestroyed, CacheDisconnects, CacheTimesOut, dbVars
  <2>2. /\ hooks' \subseteq {"keys", "cache"}
        /\ stop' \in {"running", "hooks", "drained", "gone"}
    BY <1>2 DEF Terminate, KeysDestroyed, CacheDisconnects, CacheTimesOut, PodTypes
  <2> QED
    BY <2>1, <2>2 DEF PodTypes, ServersInv
<1>3. CASE Dispose
  BY <1>3 DEF Dispose, dbVars, PodTypes, ServersInv
<1> QED
  BY <1>1, <1>2, <1>3

LEMMA FaultTypes == faults \in 0..MaxFaults /\ Fault => faults' \in 0..MaxFaults
BY ProcessAssumption DEF Fault

LEMMA SurroundingsProcess ==
  ASSUME ProcessInv, Crash \/ StoreDown \/ DbComesUp \/ RedisComesUp \/ FixEnvironment
  PROVE  PodTypes' /\ ServersInv'
<1> PodTypes /\ ServersInv
  BY ProcessInvParts
<1>1. CASE Crash
  BY <1>1, GoneProcess, FaultTypes DEF Crash, PodTypes
<1>2. CASE StoreDown
  <2>1. faults' \in 0..MaxFaults /\ redisUp' \in BOOLEAN
    BY <1>2, FaultTypes DEF StoreDown, PodTypes
  <2> QED
    BY <1>2, <2>1 DEF StoreDown, processVars, PodTypes, ServersInv
<1>3. CASE DbComesUp \/ RedisComesUp \/ FixEnvironment
  <2>1. UNCHANGED <<pods, processVars, faults>>
    BY <1>3, Zenon DEF DbComesUp, RedisComesUp, FixEnvironment, dbVars
  <2>2. redisUp' \in BOOLEAN /\ configured' \in BOOLEAN
    BY <1>3 DEF DbComesUp, RedisComesUp, FixEnvironment, PodTypes
  <2> QED
    BY <2>1, <2>2 DEF processVars, PodTypes, ServersInv
<1> QED
  BY <1>1, <1>2, <1>3

LEMMA PeersProcess ==
  ASSUME ProcessInv, NEW p \in Pod \ {This}, PeerStep(p) \/ PeerDies(p)
  PROVE  PodTypes' /\ ServersInv'
<1> DatabaseInv /\ PodTypes /\ ServersInv
  BY ProcessInvParts
<1>1. pods'[This] = pods[This]
  <2>1. Db!Connect(p) \/ Db!ConnectionStep(p) \/ Db!Die(p)
    BY DEF PeerStep, PeerDies
  <2> QED
    BY <2>1, OthersConnections, ProcessAssumption
<1>2. UNCHANGED <<redisUp, configured, processVars>> /\ faults' \in 0..MaxFaults
  BY FaultTypes DEF PeerStep, PeerDies, PodTypes
<1> QED
  BY <1>1, <1>2 DEF processVars, PodTypes, ServersInv

LEMMA NextProcess == ProcessInv /\ [Next]_allVars => ProcessInv'
<1> SUFFICES ASSUME ProcessInv, [Next]_allVars
             PROVE  ProcessInv'
  OBVIOUS
<1>1. CASE Next
  <2>1. DatabaseInv'
    BY <1>1, NextDatabase
  <2>2. PodTypes' /\ ServersInv'
    BY <1>1, StartUpProcess, ShutdownProcess, SurroundingsProcess, PeersProcess DEF Next
  <2> QED
    BY <2>1, <2>2 DEF ProcessInv, TypeOK, DatabaseInv, PodTypes
<1>2. CASE UNCHANGED allVars
  <2> UNCHANGED <<dbVars, redisUp, configured, processVars, faults>>
    BY <1>2 DEF allVars
  <2> DatabaseInv /\ PodTypes /\ ServersInv
    BY ProcessInvParts
  <2>1. DatabaseInv'
    BY DEF dbVars, DatabaseInv, Db!TypeOK, Db!LedgerOfSchema, Db!ConnectionsInv
  <2>2. PodTypes' /\ ServersInv'
    BY DEF dbVars, processVars, PodTypes, ServersInv
  <2> QED
    BY <2>1, <2>2 DEF ProcessInv, TypeOK, DatabaseInv, PodTypes
<1> QED
  BY <1>1, <1>2

-----------------------------------------------------------------------------
(* The theorems                                                             *)

\* The table of migrations and the schema agree and the servers stand on a connection that is
\* ready, whoever commits, crashes or retries: main.ts and typeorm.ts for any number of pods.
THEOREM ProcessInvariant == Spec => []ProcessInv
<1> QED
  BY InitProcess, NextProcess, PTL DEF Spec

\* The variables keep their types.
THEOREM ProcessTypes == Spec => []TypeOK
<1>1. ProcessInv => TypeOK
  BY DEF ProcessInv
<1> QED
  BY <1>1, ProcessInvariant, PTL

\* A database whose migrations are all recorded is whole.
LEMMA RecordedIsWhole ==
  ASSUME Db!LedgerOfSchema, \A m \in Db!Migration : ledger[m] > 0
  PROVE  Db!Whole(schema)
<1>1. /\ ledger["AlterTimestamptz"] > 0 /\ ledger["JobsCategoryFkSetNull"] > 0
      /\ ledger["AddProcessingStatus"] > 0 /\ ledger["AddRetryCount"] > 0
  BY DEF Db!Migration
<1> QED
  BY <1>1, Zenon DEF Db!LedgerOfSchema, Db!Whole

\* No pod serves over a part of the schema, nor is it found ready: the migrations of
\* typeorm.ts run before bootstrap goes on.
THEOREM ServesWholeSchema == Spec => []ReadyOnWholeSchema
<1>1. ASSUME ProcessInv
      PROVE  ReadyOnWholeSchema
  <2>1. ASSUME NEW p \in Pod, pods[p].at = "ready"
        PROVE  Db!Whole(schema)
    BY <1>1, <2>1, RecordedIsWhole DEF ProcessInv, Db!ConnectionsInv
  <2>2. start \in {"init", "listening"} \/ ready => pods[This].at = "ready"
    BY <1>1 DEF ProcessInv, ServersInv
  <2> QED
    BY <2>1, <2>2, ProcessAssumption DEF ReadyOnWholeSchema
<1> QED
  BY <1>1, ProcessInvariant, PTL

\* The two migrations that create tables are executed at most once, however many pods found
\* them pending.
THEOREM TablesCreatedOnce == Spec => []CreatedOnce
<1>1. ASSUME ProcessInv
      PROVE  CreatedOnce
  <2>1. /\ ledger["InitialSchema"] \in {0, 1}
        /\ ledger["AddScheduledMessages"] \in {0, 1}
    BY <1>1, Zenon DEF ProcessInv, Db!LedgerOfSchema
  <2> QED
    BY <2>1 DEF CreatedOnce
<1> QED
  BY <1>1, ProcessInvariant, PTL

\* Only a second execution of the timestamptz migration moves the instants, and the table of
\* migrations tells.
THEOREM ShiftsRecorded == Spec => []ShiftIsRecorded
<1>1. ProcessInv => ShiftIsRecorded
  BY DEF ProcessInv, Db!LedgerOfSchema, ShiftIsRecorded
<1> QED
  BY <1>1, ProcessInvariant, PTL
=============================================================================
