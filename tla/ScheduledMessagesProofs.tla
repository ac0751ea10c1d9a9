---------------------- MODULE ScheduledMessagesProofs ----------------------
(* Theorems about ScheduledMessages, for every set of messages, pods and    *)
(* requests and every value of the bounds.                                  *)
EXTENDS ScheduledMessages, FiniteSetTheorems, TLAPS

-----------------------------------------------------------------------------
(* Type correctness                                                         *)

\* The placeholder of an absent row is a row.
LEMMA NoRowType == NoRow \in Row
BY ConstantsAssumption DEF NoRow, Row, Status

\* Repository.save leaves a well-formed row.
LEMMA WrittenType ==
  ASSUME NEW e \in Row, NEW r \in Row, NEW cols
  PROVE  Written(e, r, cols) \in Row
BY DEF Written, Row

\* A row stays a row when its status changes, and when a retry is counted.
LEMMA StatusType ==
  ASSUME NEW e \in Row, NEW s \in Status
  PROVE  WithStatus(e, s) \in Row
BY DEF Row, WithStatus

LEMMA RetryType ==
  ASSUME NEW e \in Row
  PROVE  [WithStatus(e, "pending") EXCEPT !.retryCount = @ + 1] \in Row
<1>1. WithStatus(e, "pending") \in Row
  BY StatusType DEF Status
<1> QED
  BY <1>1 DEF Row

\* The entities of the ticks stay rows when one of them is replaced.
LEMMA EntityType ==
  ASSUME NEW f \in [Tick -> [Msg -> Row]], NEW t \in Tick, NEW m \in Msg, NEW e \in Row
  PROVE  [f EXCEPT ![t] = [@ EXCEPT ![m] = e]] \in [Tick -> [Msg -> Row]]
OBVIOUS

LEMMA FaultType ==
  ASSUME faults \in 0..MaxFaults, Fault
  PROVE  faults' \in 0..MaxFaults
BY ConstantsAssumption DEF Fault

\* What the catch block of sendMessage makes of the entity is a row.
LEMMA AfterErrorType ==
  ASSUME TypeOK, NEW t \in Tick, current[t] \in Msg, NEW kind
  PROVE  AfterError(t, kind) \in Row
<1>1. entity[t][current[t]] \in Row
  BY DEF TypeOK
<1>2. "failed" \in Status
  BY DEF Status
<1>3. CASE CanRetry(t, kind)
  BY <1>1, <1>3, RetryType DEF AfterError
<1>4. CASE ~CanRetry(t, kind)
  BY <1>1, <1>2, <1>4, StatusType DEF AfterError
<1> QED
  BY <1>3, <1>4

LEMMA CatchType ==
  ASSUME TypeOK, NEW t \in Tick, current[t] \in Msg, NEW kind \in ErrorKind,
         CatchSendError(t, kind)
  PROVE  /\ entity' \in [Tick -> [Msg -> Row]]
         /\ failure' \in [Tick -> ErrorKind \cup {"none"}]
         /\ diff' \in [Tick -> SUBSET Column]
<1>1. entity \in [Tick -> [Msg -> Row]]
  BY DEF TypeOK
<1>2. entity' \in [Tick -> [Msg -> Row]]
  BY <1>1, AfterErrorType, EntityType DEF CatchSendError
<1> QED
  BY <1>2 DEF TypeOK, CatchSendError

\* The loop drops the message it has finished.
LEMMA NextMessageType ==
  ASSUME TypeOK, NEW t \in Tick, current[t] \in Msg, NextMessage(t)
  PROVE  /\ entity' \in [Tick -> [Msg -> Row]]
         /\ pc' \in [Tick -> {"idle", "select", "claim", "send", "await",
                              "saveSelect", "saveUpdate", "release"}]
         /\ pc'[t] \in {"send", "release"}
         /\ \A u \in Tick \ {t} : pc'[u] = pc[u] /\ current'[u] = current[u]
         /\ batch' \in [Tick -> SUBSET Msg]
         /\ current' \in [Tick -> Msg \cup {NoMsg}]
         /\ diff' \in [Tick -> SUBSET Column]
         /\ failure' \in [Tick -> ErrorKind \cup {"none"}]
<1>1. entity' \in [Tick -> [Msg -> Row]]
  <2>1. entity \in [Tick -> [Msg -> Row]]
    BY DEF TypeOK
  <2> QED
    BY <2>1, NoRowType, EntityType DEF NextMessage
<1> QED
  BY <1>1 DEF TypeOK, NextMessage

LEMMA TypeInit == Init => TypeOK
BY NoRowType, ConstantsAssumption DEF Init, TypeOK, Owner

\* A claim marks rows and copies them into the entities of the tick.
LEMMA AfterClaimType ==
  ASSUME TypeOK, NEW t \in Tick
  PROVE  AfterClaim(t) \in [Msg -> Row]
<1>1. SUFFICES ASSUME NEW m \in Msg
               PROVE  WithStatus(rows[m], "processing") \in Row /\ rows[m] \in Row
  BY DEF AfterClaim
<1>2. rows[m] \in Row /\ "processing" \in Status
  BY DEF TypeOK, Status
<1> QED
  BY <1>2, StatusType

LEMMA AfterSaveType ==
  ASSUME TypeOK, NEW t \in Tick, current[t] \in Msg
  PROVE  AfterSave(t) \in [Msg -> Row]
<1>1. entity[t][current[t]] \in Row /\ rows[current[t]] \in Row
  BY DEF TypeOK
<1>2. Written(entity[t][current[t]], rows[current[t]], diff[t]) \in Row
  BY <1>1, WrittenType
<1> QED
  BY <1>2 DEF AfterSave, TypeOK

LEMMA TypeTick ==
  ASSUME TypeOK, NEW t \in Tick, TickStep(t)
  PROVE  TypeOK'
<1> USE DEF TypeOK, dbVars, apiVars, netVars
<1>1. CASE AcquireLock(t)
  BY <1>1 DEF AcquireLock, Owner, Tick
<1>2. CASE AcquireReplyLost(t)
  BY <1>2, FaultType DEF AcquireReplyLost, Owner, Tick, tickVars
<1>3. CASE SelectDue(t)
  BY <1>3 DEF SelectDue, Due
<1>4. CASE ClaimDueMessages(t)
  BY <1>4, AfterClaimType, NoRowType DEF ClaimDueMessages, Claimable
<1>5. CASE Send(t)
  BY <1>5 DEF Send
<1>6. CASE ReplyOk(t)
  <2>1. current[t] \in Msg /\ entity \in [Tick -> [Msg -> Row]]
    BY <1>6 DEF ReplyOk
  <2>2. WithStatus(entity[t][current[t]], "sent") \in Row
    BY <2>1, StatusType DEF Status
  <2>3. entity' \in [Tick -> [Msg -> Row]]
    BY <1>6, <2>1, <2>2, EntityType DEF ReplyOk
  <2> QED
    BY <1>6, <2>3 DEF ReplyOk
<1>7. CASE ReplyError(t)
  <2>1. current[t] \in Msg
    BY <1>7 DEF ReplyError
  <2>2. PICK kind \in ErrorKind :
          /\ CatchSendError(t, kind)
          /\ late' = late \/ late' = [late EXCEPT ![current[t]] = @ + 1]
    BY <1>7 DEF ReplyError
  <2>3. late' \in [Msg -> Nat]
    BY <2>1, <2>2
  <2>4. pc' = [pc EXCEPT ![t] = "saveSelect"]
    BY <2>2 DEF CatchSendError
  <2> QED
    BY <1>7, <2>1, <2>2, <2>3, <2>4, CatchType DEF ReplyError
<1>8. CASE SaveSelect(t)
  <2>1. current[t] \in Msg
    BY <1>8 DEF SaveSelect
  <2>2. CASE SaveDiff(t) # {}
    <3>1. SaveDiff(t) \in SUBSET Column
      BY DEF SaveDiff, Differing
    <3>2. /\ diff' = [diff EXCEPT ![t] = SaveDiff(t)]
          /\ pc' = [pc EXCEPT ![t] = "saveUpdate"]
          /\ UNCHANGED <<batch, entity, current, failure, rows, now, lock, candidates, call,
                         rpc, target, draft, rdiff, overwritten, cancelled, late, sends,
                         delivered, faults>>
      BY <1>8, <2>2 DEF SaveSelect
    <3>3. pc[t] = "saveSelect"
      BY <1>8 DEF SaveSelect
    <3> QED
      BY <2>1, <3>1, <3>2, <3>3
  <2>3. CASE NextMessage(t)
    BY <1>8, <2>1, <2>3, NextMessageType DEF SaveSelect
  <2> QED
    BY <1>8, <2>2, <2>3 DEF SaveSelect
<1>9. CASE SaveUpdate(t)
  <2>1. current[t] \in Msg
    BY <1>9 DEF SaveUpdate
  <2> QED
    BY <1>9, <2>1, NextMessageType, AfterSaveType DEF SaveUpdate
<1>10. CASE ReleaseLock(t)
  BY <1>10 DEF ReleaseLock, Owner
<1>11. CASE ClaimFails(t)
  BY <1>11, AfterClaimType, FaultType DEF ClaimFails
<1>12. CASE SaveFails(t)
  <2>1. current[t] \in Msg /\ rows' \in [Msg -> Row] /\ faults' \in 0..MaxFaults
    BY <1>12, AfterSaveType, FaultType DEF SaveFails
  <2>2. ASSUME NEW kind \in ErrorKind, CatchSendError(t, kind),
               UNCHANGED <<batch, current>>
        PROVE  TypeOK'
    <3>1. /\ entity' \in [Tick -> [Msg -> Row]]
          /\ failure' \in [Tick -> ErrorKind \cup {"none"}]
          /\ diff' \in [Tick -> SUBSET Column]
      BY <2>1, <2>2, CatchType
    <3>2. /\ UNCHANGED <<now, lock, candidates, call, apiVars, netVars, batch, current>>
          /\ pc' = [pc EXCEPT ![t] = "saveSelect"]
      BY <1>12, <2>2 DEF SaveFails, CatchSendError
    <3>3. pc' \in [Tick -> {"idle", "select", "claim", "send", "await", "saveSelect",
                            "saveUpdate", "release"}]
      BY <3>2
    <3>4. /\ now' = now /\ lock' = lock /\ candidates' = candidates /\ batch' = batch
          /\ current' = current /\ call' = call
      BY <3>2, Zenon
    <3>5. /\ UNCHANGED <<rpc, target, draft, rdiff, overwritten, cancelled>>
          /\ late' = late /\ sends' = sends /\ delivered' = delivered
      BY <3>2, Zenon DEF apiVars, netVars
    <3>6. ASSUME NEW u \in Tick
          PROVE  /\ pc'[u] \in {"await", "saveSelect", "saveUpdate"} => current'[u] \in Msg
                 /\ call'[u] # "none" => pc'[u] = "await"
      <4>1. pc[t] \in {"saveSelect", "saveUpdate"}
        BY <1>12 DEF SaveFails
      <4>2. call[t] = "none"
        BY <4>1
      <4> QED
        BY <2>1, <3>2, <3>4, <4>2
    <3> QED
      BY <2>1, <3>1, <3>3, <3>4, <3>5, <3>6
  <2>3. CASE AbandonBatch(t)
    <3>1. entity' \in [Tick -> [Msg -> Row]]
      BY <2>3, NoRowType DEF AbandonBatch
    <3> QED
      BY <1>12, <2>1, <2>3, <3>1 DEF SaveFails, AbandonBatch
  <2> QED
    BY <1>12, <2>2, <2>3 DEF SaveFails, ErrorKind
<1>13. CASE ReleaseFails(t)
  BY <1>13, FaultType DEF ReleaseFails
<1>14. CASE Accept(t)
  BY <1>14 DEF Accept
<1> QED
  BY <1>1, <1>2, <1>3, <1>4, <1>5, <1>6, <1>7, <1>8, <1>9, <1>10, <1>11, <1>12, <1>13,
     <1>14 DEF TickStep, Progress

\* The requests of the API.
LEMMA TypeRequest ==
  ASSUME TypeOK, NEW c \in Client, RequestStep(c)
  PROVE  TypeOK'
<1> USE DEF TypeOK, dbVars, tickVars, netVars
<1>1. ASSUME NEW m \in Msg, LoadForUpdate(c, m)
      PROVE  TypeOK'
  <2>1. \A body \in Content, at \in 0..MaxTime :
          Edited(rows[m], body, at) \in Row
    BY DEF Row, Edited
  <2>2. draft' \in [Client -> Row]
    BY <1>1, <2>1 DEF LoadForUpdate
  <2> QED
    BY <1>1, <2>2 DEF LoadForUpdate, Load
<1>2. ASSUME NEW m \in Msg, LoadForCancel(c, m)
      PROVE  TypeOK'
  <2>1. draft' \in [Client -> Row]
    BY <1>2, StatusType DEF LoadForCancel, Status
  <2> QED
    BY <1>2, <2>1 DEF LoadForCancel, Load
<1>3. CASE RequestSaveSelect(c)
  <2>1. target[c] \in Msg /\ rdiff' \in [Client -> SUBSET Column]
    BY <1>3 DEF RequestSaveSelect, Differing
  <2> QED
    BY <1>3, <2>1 DEF RequestSaveSelect, Acknowledge
<1>4. CASE RequestSaveUpdate(c)
  <2>1. target[c] \in Msg
    BY <1>4 DEF RequestSaveUpdate
  <2>2. rows' \in [Msg -> Row]
    BY <1>4, <2>1, WrittenType DEF RequestSaveUpdate
  <2> QED
    BY <1>4, <2>1, <2>2 DEF RequestSaveUpdate, Acknowledge
<1>5. CASE RequestFails(c)
  BY <1>5 DEF RequestFails
<1> QED
  BY <1>1, <1>2, <1>3, <1>4, <1>5 DEF RequestStep

\* A crash counts the requests of the dead pod that may still be accepted.
LEMMA TypeCrash ==
  ASSUME TypeOK, NEW p \in Pod, Crash(p)
  PROVE  TypeOK'
<1>1. late' \in [Msg -> Nat]
  <2>1. IsFiniteSet(Tick)
    BY ConstantsAssumption, FS_Product DEF Tick
  <2>2. ASSUME NEW m \in Msg
        PROVE  Cardinality({t \in Tick : t[1] = p /\ call[t] = "sent" /\ current[t] = m}) \in Nat
    BY <2>1, FS_Subset, FS_CardinalityType
  <2>3. late' = [m \in Msg |-> late[m] + Cardinality(
                   {t \in Tick : t[1] = p /\ call[t] = "sent" /\ current[t] = m})]
    BY DEF Crash
  <2> HIDE DEF Tick
  <2>4. \A m \in Msg : late[m] \in Nat
    BY DEF TypeOK
  <2>5. \A m \in Msg : late[m] + Cardinality(
          {t \in Tick : t[1] = p /\ call[t] = "sent" /\ current[t] = m}) \in Nat
    BY <2>2, <2>4
  <2> QED
    BY <2>3, <2>5
<1>2. faults' \in 0..MaxFaults
  BY FaultType DEF TypeOK, Crash
<1>3. entity' \in [Tick -> [Msg -> Row]]
  BY NoRowType DEF TypeOK, Crash
<1> QED
  BY <1>1, <1>2, <1>3 DEF TypeOK, Crash, dbVars, apiVars, Owner

LEMMA TypeOther ==
  ASSUME TypeOK,
         \/ \E m \in Msg : Create(m) \/ AcceptLate(m)
         \/ LockExpires \/ Advance
  PROVE  TypeOK'
<1> USE DEF TypeOK, dbVars, tickVars, apiVars, netVars
<1>1. ASSUME NEW m \in Msg, Create(m)
      PROVE  TypeOK'
  BY <1>1 DEF Create, Row, Status
<1>2. ASSUME NEW m \in Msg, AcceptLate(m)
      PROVE  TypeOK'
  BY <1>2 DEF AcceptLate
<1>3. CASE LockExpires
  BY <1>3 DEF LockExpires, Owner
<1>4. CASE Advance
  BY <1>4, ConstantsAssumption DEF Advance
<1> QED
  BY <1>1, <1>2, <1>3, <1>4

LEMMA TypeStep == TypeOK /\ [Next]_vars => TypeOK'
<1> SUFFICES ASSUME TypeOK, [Next]_vars
             PROVE  TypeOK'
  OBVIOUS
<1>1. CASE UNCHANGED vars
  BY <1>1 DEF TypeOK, vars, dbVars, tickVars, apiVars, netVars
<1>2. CASE Next
  BY <1>2, TypeTick, TypeRequest, TypeCrash, TypeOther DEF Next
<1> QED
  BY <1>1, <1>2

\* Every variable keeps its type in every behaviour.
THEOREM TypeCorrect == Spec => []TypeOK
BY TypeInit, TypeStep, PTL DEF Spec

-----------------------------------------------------------------------------
(* The shape of a tick and of a request                                     *)

\* A tick holds messages only between its claim and its release, and has a current one
\* exactly while a call or a save of it is under way.
LEMMA TickShapeStep ==
  ASSUME TypeOK, TickShape, [Next]_vars
  PROVE  TickShape'
<1> USE DEF TickShape, InCall
<1>1. ASSUME NEW t \in Tick, TickStep(t)
      PROVE  TickShape'
  <2> USE <1>1 DEF TypeOK
  <2>1. CASE AcquireLock(t)
    BY <2>1 DEF AcquireLock
  <2>2. CASE AcquireReplyLost(t) \/ Accept(t)
    BY <2>2 DEF AcquireReplyLost, Accept, tickVars
  <2>3. CASE SelectDue(t)
    BY <2>3 DEF SelectDue
  <2>4. CASE ClaimDueMessages(t)
    BY <2>4 DEF ClaimDueMessages
  <2>5. CASE Send(t)
    BY <2>5 DEF Send
  <2>6. CASE ReplyOk(t)
    BY <2>6 DEF ReplyOk
  <2>7. CASE ReplyError(t)
    BY <2>7 DEF ReplyError, CatchSendError
  <2>8. ASSUME pc[t] \in {"saveSelect", "saveUpdate"}, NextMessage(t)
        PROVE  TickShape'
    BY <2>8 DEF NextMessage
  <2>9. CASE SaveSelect(t)
    BY <2>8, <2>9 DEF SaveSelect
  <2>10. CASE SaveUpdate(t)
    BY <2>8, <2>10 DEF SaveUpdate
  <2>11. CASE SaveFails(t)
    <3>1. ASSUME NEW kind, CatchSendError(t, kind), UNCHANGED <<batch, current>>
          PROVE  TickShape'
      BY <2>11, <3>1 DEF CatchSendError, SaveFails
    <3>2. CASE AbandonBatch(t)
      BY <3>2 DEF AbandonBatch
    <3> QED
      BY <2>11, <3>1, <3>2 DEF SaveFails
  <2>12. CASE ClaimFails(t)
    BY <2>12 DEF ClaimFails
  <2>13. CASE ReleaseLock(t) \/ ReleaseFails(t)
    BY <2>13 DEF ReleaseLock, ReleaseFails
  <2> QED
    BY <1>1, <2>1, <2>2, <2>3, <2>4, <2>5, <2>6, <2>7, <2>9, <2>10, <2>11, <2>12, <2>13
       DEF TickStep, Progress
<1>2. ASSUME NEW p \in Pod, Crash(p)
      PROVE  TickShape'
  BY <1>2 DEF TypeOK, Crash
<1>3. ASSUME NEW c \in Client, RequestStep(c)
      PROVE  TickShape'
  BY <1>3 DEF RequestStep, LoadForUpdate, LoadForCancel, Load, RequestSaveSelect,
              RequestSaveUpdate, RequestFails, tickVars
<1>4. CASE \/ \E m \in Msg : Create(m) \/ AcceptLate(m)
           \/ LockExpires \/ Advance \/ UNCHANGED vars
  BY <1>4 DEF Create, AcceptLate, LockExpires, Advance, vars, tickVars
<1> QED
  BY <1>1, <1>2, <1>3, <1>4 DEF Next

\* A request only ever writes "pending" or "cancelled".
LEMMA DraftShapeStep ==
  ASSUME TypeOK, DraftShape, [Next]_vars
  PROVE  DraftShape'
<1> USE DEF DraftShape
<1>1. ASSUME NEW c \in Client, RequestStep(c)
      PROVE  DraftShape'
  <2>1. ASSUME NEW m \in Msg, LoadForUpdate(c, m)
        PROVE  DraftShape'
    BY <1>1, <2>1 DEF LoadForUpdate, Load, Edited, TypeOK
  <2>2. ASSUME NEW m \in Msg, LoadForCancel(c, m)
        PROVE  DraftShape'
    BY <1>1, <2>2 DEF LoadForCancel, Load, WithStatus, TypeOK, Row
  <2>3. CASE RequestSaveSelect(c) \/ RequestSaveUpdate(c) \/ RequestFails(c)
    BY <1>1, <2>3 DEF RequestSaveSelect, RequestSaveUpdate, RequestFails, Acknowledge, TypeOK
  <2> QED
    BY <1>1, <2>1, <2>2, <2>3 DEF RequestStep
<1>2. ASSUME NEW t \in Tick, TickStep(t)
      PROVE  DraftShape'
  BY <1>2 DEF TickStep, Progress, AcquireLock, AcquireReplyLost, SelectDue, ClaimDueMessages,
              ClaimFails, Send, ReplyOk, ReplyError, SaveSelect, SaveUpdate, SaveFails,
              ReleaseLock, ReleaseFails, Accept, apiVars
<1>3. CASE \/ \E p \in Pod : Crash(p)
           \/ \E m \in Msg : Create(m) \/ AcceptLate(m)
           \/ LockExpires \/ Advance \/ UNCHANGED vars
  BY <1>3 DEF Crash, Create, AcceptLate, LockExpires, Advance, vars, apiVars
<1> QED
  BY <1>1, <1>2, <1>3 DEF Next

-----------------------------------------------------------------------------
(* The counter of a row agrees with the ticks that hold it                  *)

\* The cap is a number, and one retry below RETRY_LIMIT stays under it.
LEMMA CapType == MaxAttempts \in Nat /\ MaxAttempts > 0
BY ConstantsAssumption DEF MaxAttempts

\* What AttemptsInv says of one message.
Agreed(m) ==
  /\ RowCounted(m) /\ \A t \in Tick : Held(t, m)
  /\ \A t, u \in Tick : m \in batch[t] \cap batch[u] => t = u

\* A step of one tick does not disturb what another tick holds: it changes the row or its
\* count only if it holds the row itself, or if no tick can.
LEMMA LocalStep ==
  ASSUME AttemptsInv, NEW t \in Tick, NEW m \in Msg \ overwritten,
         \A u \in Tick \ {t} : /\ pc'[u] = pc[u] /\ batch'[u] = batch[u]
                               /\ entity'[u] = entity[u] /\ current'[u] = current[u]
                               /\ diff'[u] = diff[u],
         \/ rows'[m] = rows[m] /\ sends'[m] = sends[m]
         \/ m \in batch[t]
         \/ rows[m].status \notin {"processing", "sent"},
         m \in batch'[t] => m \in batch[t] \/ rows[m].status \notin {"processing", "sent"},
         RowCounted(m)', Held(t, m)'
  PROVE  Agreed(m)'
<1>1. ASSUME NEW u \in Tick \ {t}
      PROVE  Held(u, m)'
  <2>1. CASE m \notin batch[u]
    BY <1>1, <2>1 DEF Held
  <2>2. CASE m \in batch[u]
    <3>1. Held(u, m) /\ rows'[m] = rows[m] /\ sends'[m] = sends[m]
      BY <1>1, <2>2 DEF AttemptsInv, HeldByOneTick, Held
    <3> QED
      BY <1>1, <3>1 DEF Held, Waiting, Underway
  <2> QED
    BY <2>1, <2>2
<1>2. ASSUME NEW u \in Tick, NEW v \in Tick, m \in batch'[u] \cap batch'[v]
      PROVE  u = v
  <2>1. ASSUME NEW w \in Tick \ {t}, m \in batch[w], m \in batch'[t]
        PROVE  FALSE
    BY <2>1 DEF AttemptsInv, HeldByOneTick, Held
  <2> QED
    BY <1>2, <2>1 DEF AttemptsInv, HeldByOneTick
<1> QED
  BY <1>1, <1>2 DEF Agreed

\* The steps of a tick before its first send, and after its last.
LEMMA ClaimStep ==
  ASSUME AttemptsInv, NEW t \in Tick, NEW m \in Msg \ overwritten,
         ClaimDueMessages(t) \/ ClaimFails(t)
  PROVE  Agreed(m)'
<1> USE DEF AttemptsInv
<1>1. RowCounted(m) /\ Held(t, m) /\ batch[t] = {} /\ current[t] = NoMsg
  BY DEF TickShape, InCall, ClaimDueMessages, ClaimFails
<1>2. \/ rows'[m] = rows[m]
      \/ rows[m].status = "pending" /\ rows'[m] = WithStatus(rows[m], "processing")
  BY DEF ClaimDueMessages, ClaimFails, AfterClaim, Claimable, TypeOK
<1>3. sends' = sends
  BY DEF ClaimDueMessages, ClaimFails, netVars
<1>4. rows[m] \in Row
  BY DEF TypeOK
<1>5. RowCounted(m)'
  BY <1>1, <1>2, <1>3, <1>4 DEF RowCounted, WithStatus, Row
<1>6. m \in batch'[t] => /\ rows[m].status = "pending"
                         /\ rows'[m] = WithStatus(rows[m], "processing")
                         /\ entity'[t][m] = rows'[m] /\ current'[t] = NoMsg
  BY <1>1 DEF ClaimDueMessages, ClaimFails, AfterClaim, Claimable, TypeOK
<1>7. Held(t, m)'
  BY <1>1, <1>3, <1>4, <1>6, ConstantsAssumption DEF Held, Waiting, RowCounted, WithStatus, Row
<1>8. \A u \in Tick \ {t} : /\ pc'[u] = pc[u] /\ batch'[u] = batch[u]
                            /\ entity'[u] = entity[u] /\ current'[u] = current[u]
                            /\ diff'[u] = diff[u]
  BY DEF ClaimDueMessages, ClaimFails, TypeOK
<1> QED
  BY <1>2, <1>3, <1>5, <1>6, <1>7, <1>8, LocalStep

LEMMA SendStep ==
  ASSUME AttemptsInv, NEW t \in Tick, NEW m \in Msg \ overwritten, Send(t)
  PROVE  Agreed(m)'
<1> USE DEF AttemptsInv
<1>1. RowCounted(m) /\ Held(t, m) /\ current[t] = NoMsg /\ rows' = rows
  BY DEF TickShape, InCall, Send, dbVars
<1>2. PICK n \in batch[t] : /\ current' = [current EXCEPT ![t] = n]
                            /\ sends' = [sends EXCEPT ![n] = @ + 1]
  BY DEF Send
<1>3. pc' = [pc EXCEPT ![t] = "await"] /\ UNCHANGED <<batch, entity, diff>>
  BY DEF Send
<1>4. m \in batch[t] => m # current[t]
  BY <1>1, ConstantsAssumption DEF TypeOK
<1>5. m # n => sends'[m] = sends[m]
  BY <1>2 DEF TypeOK
<1>6. m = n => sends'[m] = sends[m] + 1
  BY <1>2 DEF TypeOK
<1>7. rows[m].retryCount \in Nat /\ sends[m] \in Nat
  BY DEF TypeOK, Row
<1>8. RowCounted(m)'
  BY <1>1, <1>2, <1>4, <1>5, <1>6, <1>7 DEF RowCounted, Held, Waiting
<1>9. Held(t, m)'
  BY <1>1, <1>2, <1>3, <1>4, <1>5, <1>6, <1>7 DEF Held, Waiting, Underway, TypeOK
<1> QED
  BY <1>1, <1>2, <1>3, <1>5, <1>8, <1>9, LocalStep DEF TypeOK

\* The answer to a call, or an error of the save of "sent", becomes the next entity.
LEMMA CatchStep ==
  ASSUME AttemptsInv, NEW t \in Tick, NEW m \in Msg \ overwritten, NEW kind,
         CatchSendError(t, kind), InCall(t),
         m = current[t] => entity[t][m].status # "pending",
         batch' = batch, current' = current, sends' = sends,
         RowCounted(m)',
         \/ rows'[m] = rows[m]
         \/ /\ m = current[t] /\ rows'[m].status \in {"processing", "sent"}
            /\ rows'[m].retryCount = rows[m].retryCount
  PROVE  Agreed(m)'
<1> USE DEF AttemptsInv
<1>1. current[t] \in Msg /\ current[t] \in batch[t] /\ Held(t, m)
  BY DEF TickShape, InCall, TypeOK
<1>2. /\ entity' = [entity EXCEPT ![t] = [@ EXCEPT ![current[t]] = AfterError(t, kind)]]
      /\ diff' = [diff EXCEPT ![t] = {}] /\ pc' = [pc EXCEPT ![t] = "saveSelect"]
  BY DEF CatchSendError
<1>3. m # current[t] => entity'[t][m] = entity[t][m]
  BY <1>1, <1>2 DEF TypeOK
<1>4. m = current[t] => entity'[t][m] = AfterError(t, kind)
  BY <1>1, <1>2 DEF TypeOK
<1>5. entity[t][m] \in Row
  BY DEF TypeOK
<1>6. CASE m = current[t]
  <2>1. Underway(t, m)
    BY <1>1, <1>6 DEF Held
  <2>2. entity[t][m].retryCount = rows[m].retryCount
    BY <1>6, <2>1 DEF Underway
  <2>3. ASSUME CanRetry(t, kind)
        PROVE  Held(t, m)'
    <3>1. /\ AfterError(t, kind).status = "pending"
          /\ AfterError(t, kind).retryCount = rows[m].retryCount + 1
      BY <1>5, <1>6, <2>2, <2>3 DEF AfterError, WithStatus, Row
    <3>2. "retryCount" \in Hydrated /\ rows[m].retryCount < RETRY_LIMIT
      BY <1>6, <2>2, <2>3 DEF CanRetry
    <3> QED
      BY <1>1, <1>2, <1>4, <1>6, <3>1, <3>2 DEF Held, Underway, TypeOK
  <2>4. ASSUME ~CanRetry(t, kind)
        PROVE  Held(t, m)'
    <3>1. /\ AfterError(t, kind).status = "failed"
          /\ AfterError(t, kind).retryCount = rows[m].retryCount
      BY <1>5, <1>6, <2>2, <2>4 DEF AfterError, WithStatus, Row
    <3> QED
      BY <1>1, <1>2, <1>4, <1>6, <3>1 DEF Held, Underway, TypeOK
  <2>5. Held(t, m)'
    BY <2>3, <2>4
  <2> QED
    BY <1>1, <1>2, <1>6, <2>5, LocalStep DEF TypeOK
<1>7. CASE m # current[t]
  <2>1. Held(t, m)'
    BY <1>1, <1>2, <1>3, <1>7 DEF Held, Waiting
  <2> QED
    BY <1>1, <1>2, <1>7, <2>1, LocalStep DEF TypeOK
<1> QED
  BY <1>6, <1>7

\* The reply to a call.
LEMMA ReplyStep ==
  ASSUME AttemptsInv, NEW t \in Tick, NEW m \in Msg \ overwritten,
         ReplyOk(t) \/ ReplyError(t)
  PROVE  Agreed(m)'
<1> USE DEF AttemptsInv
<1>1. InCall(t) /\ pc[t] = "await" /\ current[t] \in batch[t]
  BY DEF ReplyOk, ReplyError, TickShape, InCall
<1>2. rows' = rows /\ sends' = sends /\ batch' = batch /\ current' = current
  BY DEF ReplyOk, ReplyError, dbVars, netVars
<1>3. RowCounted(m) /\ RowCounted(m)' /\ Held(t, m)
  BY <1>1, <1>2 DEF RowCounted, TypeOK
<1>4. CASE ReplyError(t)
  <2>1. PICK kind : CatchSendError(t, kind)
    BY <1>4 DEF ReplyError
  <2>2. m = current[t] => entity[t][m].status # "pending"
    BY <1>1, <1>3 DEF Held, Underway
  <2> QED
    BY <1>1, <1>2, <1>3, <2>1, <2>2, CatchStep
<1>5. CASE ReplyOk(t)
  <2>1. /\ entity' = [entity EXCEPT ![t] =
             [@ EXCEPT ![current[t]] = WithStatus(entity[t][current[t]], "sent")]]
        /\ pc' = [pc EXCEPT ![t] = "saveSelect"] /\ diff' = diff
    BY <1>5 DEF ReplyOk
  <2>2. CASE m = current[t]
    <3>1. entity[t][m] \in Row /\ entity'[t][m] = WithStatus(entity[t][m], "sent")
      BY <1>1, <2>1, <2>2 DEF TypeOK
    <3>2. Held(t, m)'
      BY <1>1, <1>2, <1>3, <2>1, <2>2, <3>1 DEF Held, Underway, WithStatus, Row, TypeOK
    <3> QED
      BY <1>2, <1>3, <2>1, <3>2, LocalStep DEF TypeOK
  <2>3. CASE m # current[t]
    <3>1. entity'[t][m] = entity[t][m]
      BY <1>1, <2>1, <2>3 DEF TypeOK
    <3>2. Held(t, m)'
      BY <1>2, <1>3, <2>3, <3>1 DEF Held, Waiting
    <3> QED
      BY <1>2, <1>3, <2>1, <3>2, LocalStep DEF TypeOK
  <2> QED
    BY <2>2, <2>3
<1> QED
  BY <1>4, <1>5

\* The loop moves on: what is left in the batch still waits its turn.
LEMMA NextMessageStep ==
  ASSUME AttemptsInv, NEW t \in Tick, NEW m \in Msg \ overwritten,
         NextMessage(t), InCall(t), sends' = sends, RowCounted(m)',
         rows'[m] = rows[m] \/ m = current[t]
  PROVE  Agreed(m)'
<1> USE DEF AttemptsInv
<1>1. current[t] \in batch[t] /\ current[t] \in Msg /\ Held(t, m)
  BY DEF TickShape, InCall, TypeOK
<1>2. /\ batch' = [batch EXCEPT ![t] = @ \ {current[t]}]
      /\ entity' = [entity EXCEPT ![t] = [@ EXCEPT ![current[t]] = NoRow]]
      /\ current' = [current EXCEPT ![t] = NoMsg]
  BY DEF NextMessage
<1>3. m # current[t] => entity'[t][m] = entity[t][m]
  BY <1>1, <1>2 DEF TypeOK
<1>4. Held(t, m)'
  BY <1>1, <1>2, <1>3, ConstantsAssumption DEF Held, Waiting, TypeOK
<1>5. \A u \in Tick \ {t} : /\ pc'[u] = pc[u] /\ batch'[u] = batch[u]
                            /\ entity'[u] = entity[u] /\ current'[u] = current[u]
                            /\ diff'[u] = diff[u]
  BY DEF NextMessage, TypeOK
<1>6. m \in batch'[t] => m \in batch[t]
  BY <1>2 DEF TypeOK
<1> QED
  BY <1>1, <1>4, <1>5, <1>6, LocalStep

\* The row after the UPDATE of a tick: a retry is counted as it becomes visible, and any
\* other outcome leaves the counter.
LEMMA SavedRow ==
  ASSUME AttemptsInv, NEW t \in Tick, NEW m \in Msg \ overwritten,
         pc[t] = "saveUpdate", m = current[t], sends' = sends, rows' = AfterSave(t)
  PROVE  /\ RowCounted(m)'
         /\ entity[t][m].status = "sent" => /\ rows'[m].status \in {"processing", "sent"}
                                            /\ rows'[m].retryCount = rows[m].retryCount
<1> USE DEF AttemptsInv
<1>1. RowCounted(m) /\ Underway(t, m) /\ rows[m].status \in {"processing", "sent"}
  BY DEF TickShape, InCall, Held
<1>2. rows'[m] = Written(entity[t][m], rows[m], diff[t])
  BY DEF AfterSave, TypeOK
<1>3. rows[m].retryCount \in Nat /\ sends[m] \in Nat
  BY DEF TypeOK, Row
<1>4. CASE entity[t][m].status = "pending"
  <2>1. /\ rows'[m].status = "pending" /\ rows'[m].retryCount = rows[m].retryCount + 1
        /\ "retryCount" \in Hydrated /\ rows[m].retryCount < RETRY_LIMIT
    BY <1>1, <1>2, <1>4 DEF Underway, Written
  <2> QED
    BY <1>1, <1>3, <1>4, <2>1, ConstantsAssumption DEF RowCounted, MaxAttempts
<1>5. CASE entity[t][m].status # "pending"
  <2>1. /\ rows'[m].status \in {entity[t][m].status, rows[m].status}
        /\ rows'[m].retryCount = rows[m].retryCount
    BY <1>1, <1>2, <1>5 DEF Underway, Written
  <2>2. entity[t][m].status \in {"sent", "failed"}
    BY <1>1, <1>5 DEF Underway
  <2> QED
    BY <1>1, <2>1, <2>2 DEF RowCounted
<1> QED
  BY <1>4, <1>5

\* Both queries of a save, and their failure.
LEMMA SaveStep ==
  ASSUME AttemptsInv, NEW t \in Tick, NEW m \in Msg \ overwritten,
         SaveSelect(t) \/ SaveUpdate(t) \/ SaveFails(t)
  PROVE  Agreed(m)'
<1> USE DEF AttemptsInv
<1>1. InCall(t) /\ pc[t] \in {"saveSelect", "saveUpdate"} /\ current[t] \in batch[t]
  BY DEF SaveSelect, SaveUpdate, SaveFails, TickShape, InCall
<1>2. sends' = sends /\ RowCounted(m) /\ Held(t, m)
  BY DEF SaveSelect, SaveUpdate, SaveFails, netVars
<1>3. rows' = rows => RowCounted(m)'
  BY <1>2 DEF RowCounted
<1>4. CASE SaveSelect(t)
  <2>1. rows' = rows
    BY <1>4 DEF SaveSelect, dbVars
  <2>2. CASE SaveDiff(t) = {}
    <3>1. NextMessage(t)
      BY <1>4, <2>2 DEF SaveSelect
    <3> QED
      BY <1>1, <1>2, <1>3, <2>1, <3>1, NextMessageStep
  <2>3. CASE SaveDiff(t) # {}
    <3>1. /\ diff' = [diff EXCEPT ![t] = SaveDiff(t)]
          /\ pc' = [pc EXCEPT ![t] = "saveUpdate"]
          /\ UNCHANGED <<batch, entity, current>>
      BY <1>4, <2>3 DEF SaveSelect
    <3>2. ASSUME m = current[t], m \in batch[t]
          PROVE  Underway(t, m)'
      <4>1. Underway(t, m) /\ rows[m].status \in {"processing", "sent"}
        BY <1>2, <3>2 DEF Held
      <4>2. entity[t][m].status \in {"sent", "failed", "pending"}
        BY <1>1, <4>1 DEF Underway
      <4>3. diff'[t] = Differing(entity[t][m], rows[m], Hydrated)
        BY <3>1, <3>2 DEF SaveDiff, TypeOK
      <4>4. rows[m].retryCount \in Nat
        BY DEF TypeOK, Row
      <4>5. CASE entity[t][m].status = "pending"
        <5>1. "status" \in diff'[t] /\ "retryCount" \in diff'[t]
          BY <4>1, <4>3, <4>4, <4>5, HydrationAssumption DEF Underway, Differing, Column
        <5> QED
          BY <2>1, <3>1, <4>1, <4>5, <5>1 DEF Underway, TypeOK
      <4>6. CASE entity[t][m].status # "pending"
        <5>1. "retryCount" \notin diff'[t]
          BY <4>1, <4>3, <4>6 DEF Underway, Differing
        <5> QED
          BY <2>1, <3>1, <4>1, <4>2, <4>6, <5>1 DEF Underway, TypeOK
      <4> QED
        BY <4>5, <4>6
    <3>3. Held(t, m)'
      BY <1>2, <2>1, <3>1, <3>2 DEF Held, Waiting
    <3> QED
      BY <1>2, <1>3, <2>1, <3>1, <3>3, LocalStep DEF TypeOK
  <2> QED
    BY <2>2, <2>3
<1>5. ASSUME rows' = AfterSave(t), pc[t] = "saveUpdate"
      PROVE  RowCounted(m)' /\ (rows'[m] = rows[m] \/ m = current[t])
  <2>1. m # current[t] => rows'[m] = rows[m]
    BY <1>5 DEF AfterSave, TypeOK
  <2> QED
    BY <1>2, <1>5, <2>1, SavedRow DEF RowCounted
<1>6. CASE SaveUpdate(t)
  BY <1>1, <1>2, <1>5, <1>6, NextMessageStep DEF SaveUpdate
<1>7. CASE SaveFails(t)
  <2>1. \/ rows' = rows
        \/ rows' = AfterSave(t) /\ pc[t] = "saveUpdate"
    BY <1>7 DEF SaveFails
  <2>2. RowCounted(m)' /\ (rows'[m] = rows[m] \/ m = current[t])
    BY <1>3, <1>5, <2>1
  <2>3. ASSUME NEW kind, CatchSendError(t, kind), UNCHANGED <<batch, current>>,
               entity[t][current[t]].status = "sent"
        PROVE  Agreed(m)'
    <3>1. m = current[t] => entity[t][m].status # "pending"
      BY <2>3
    <3>2. \/ rows'[m] = rows[m]
          \/ /\ m = current[t] /\ rows'[m].status \in {"processing", "sent"}
             /\ rows'[m].retryCount = rows[m].retryCount
      BY <1>2, <2>1, <2>2, <2>3, SavedRow
    <3> QED
      BY <1>1, <1>2, <2>2, <2>3, <3>1, <3>2, CatchStep
  <2>4. CASE AbandonBatch(t)
    <3>1. Held(t, m)' /\ m \notin batch'[t]
      BY <2>4 DEF AbandonBatch, Held, TypeOK
    <3>2. \A u \in Tick \ {t} : /\ pc'[u] = pc[u] /\ batch'[u] = batch[u]
                                /\ entity'[u] = entity[u] /\ current'[u] = current[u]
                                /\ diff'[u] = diff[u]
      BY <2>4 DEF AbandonBatch, TypeOK
    <3> QED
      BY <1>1, <1>2, <2>2, <3>1, <3>2, LocalStep
  <2> QED
    BY <1>7, <2>3, <2>4 DEF SaveFails
<1> QED
  BY <1>4, <1>6, <1>7

\* The steps of a tick that touch neither its messages nor their rows.
LEMMA QuietStep ==
  ASSUME AttemptsInv, NEW m \in Msg \ overwritten,
         UNCHANGED <<rows, sends, batch, entity, current, diff>>,
         \A t \in Tick : pc'[t] = pc[t] \/ batch[t] = {}
  PROVE  Agreed(m)'
BY DEF AttemptsInv, Agreed, RowCounted, Held, HeldByOneTick, Waiting, Underway

LEMMA TickStepAgreed ==
  ASSUME AttemptsInv, NEW t \in Tick, NEW m \in Msg \ overwritten, TickStep(t)
  PROVE  Agreed(m)'
<1>1. CASE \/ AcquireLock(t) \/ AcquireReplyLost(t) \/ SelectDue(t) \/ ReleaseLock(t)
           \/ ReleaseFails(t) \/ Accept(t)
  <2>1. UNCHANGED <<rows, sends, batch, entity, current, diff>>
    BY <1>1 DEF AcquireLock, AcquireReplyLost, SelectDue, ReleaseLock, ReleaseFails, Accept,
                dbVars, netVars, tickVars
  <2>2. \A u \in Tick : pc'[u] = pc[u] \/ batch[u] = {}
    BY <1>1 DEF AcquireLock, AcquireReplyLost, SelectDue, ReleaseLock, ReleaseFails, Accept,
                tickVars, AttemptsInv, TypeOK, TickShape, InCall
  <2> QED
    BY <2>1, <2>2, QuietStep
<1> QED
  BY <1>1, ClaimStep, SendStep, ReplyStep, SaveStep DEF TickStep, Progress

\* A crash drops batches and changes no row.
LEMMA CrashAgreed ==
  ASSUME AttemptsInv, NEW p \in Pod, NEW m \in Msg \ overwritten, Crash(p)
  PROVE  Agreed(m)'
<1> USE DEF AttemptsInv
<1>1. rows' = rows /\ sends' = sends
  BY DEF Crash, dbVars
<1>2. RowCounted(m)'
  BY <1>1 DEF RowCounted
<1>3. ASSUME NEW t \in Tick
      PROVE  \/ batch'[t] = {}
             \/ /\ batch'[t] = batch[t] /\ pc'[t] = pc[t] /\ entity'[t] = entity[t]
                /\ current'[t] = current[t] /\ diff'[t] = diff[t]
  BY DEF Crash
<1>4. ASSUME NEW t \in Tick
      PROVE  Held(t, m)'
  <2>1. Held(t, m)
    OBVIOUS
  <2> QED
    BY <1>1, <1>3, <2>1 DEF Held, Waiting, Underway
<1>5. \A t, u \in Tick : m \in batch'[t] \cap batch'[u] => t = u
  BY <1>3 DEF HeldByOneTick
<1> QED
  BY <1>2, <1>4, <1>5 DEF Agreed

\* A request that is not blind changes the status of a pending row, which no tick holds.
LEMMA RequestAgreed ==
  ASSUME AttemptsInv, NEW c \in Client, NEW m \in Msg \ overwritten', RequestStep(c)
  PROVE  Agreed(m)'
<1> USE DEF AttemptsInv
<1>1. UNCHANGED <<pc, batch, entity, current, diff, sends>>
  BY DEF RequestStep, LoadForUpdate, LoadForCancel, Load, RequestSaveSelect,
         RequestSaveUpdate, RequestFails, tickVars, netVars
<1>2. CASE rows' = rows /\ overwritten' = overwritten
  BY <1>1, <1>2, QuietStep
<1>3. CASE RequestSaveUpdate(c)
  <2>1. /\ rows' = [rows EXCEPT ![target[c]] = Written(draft[c], @, rdiff[c])]
        /\ overwritten' = IF Blind(c) THEN overwritten \cup {target[c]} ELSE overwritten
        /\ target[c] \in Msg /\ draft[c].status \in {"pending", "cancelled"}
    BY <1>3 DEF RequestSaveUpdate, DraftShape, TypeOK
  <2>2. m \in Msg \ overwritten /\ RowCounted(m)
    BY <2>1
  <2>3. CASE m # target[c]
    <3>1. rows'[m] = rows[m]
      BY <2>1, <2>3 DEF TypeOK
    <3> QED
      BY <1>1, <2>2, <3>1
         DEF Agreed, RowCounted, Held, HeldByOneTick, Waiting, Underway
  <2>4. CASE m = target[c]
    <3>1. /\ rows'[m] = Written(draft[c], rows[m], rdiff[c])
          /\ "retryCount" \notin rdiff[c]
          /\ "status" \notin rdiff[c] \/ rows[m].status = "pending"
      BY <2>1, <2>4 DEF Blind, TypeOK
    <3>2. rows'[m].retryCount = rows[m].retryCount
      BY <3>1 DEF Written
    <3>3. \/ rows'[m].status = rows[m].status
          \/ rows[m].status = "pending" /\ rows'[m].status \in {"pending", "cancelled"}
      BY <2>1, <3>1 DEF Written
    <3>4. RowCounted(m)'
      BY <1>1, <2>2, <3>2, <3>3 DEF RowCounted
    <3>5. ASSUME NEW t \in Tick
          PROVE  Held(t, m)'
      <4>1. Held(t, m)
        BY <2>2
      <4> QED
        BY <1>1, <3>2, <3>3, <4>1 DEF Held, Waiting, Underway
    <3> QED
      BY <1>1, <2>2, <3>4, <3>5 DEF Agreed, HeldByOneTick
  <2> QED
    BY <2>3, <2>4
<1> QED
  BY <1>2, <1>3 DEF RequestStep, LoadForUpdate, LoadForCancel, Load, RequestSaveSelect,
                    RequestFails, dbVars

LEMMA OtherAgreed ==
  ASSUME AttemptsInv, NEW m \in Msg \ overwritten,
         \/ \E n \in Msg : Create(n) \/ AcceptLate(n)
         \/ LockExpires \/ Advance
  PROVE  Agreed(m)'
<1> USE DEF AttemptsInv
<1>1. UNCHANGED <<pc, batch, entity, current, diff, sends>>
  BY DEF Create, AcceptLate, LockExpires, Advance, tickVars, netVars
<1>2. CASE rows'[m] = rows[m]
  BY <1>1, <1>2 DEF Agreed, RowCounted, Held, HeldByOneTick, Waiting, Underway
<1>3. CASE Create(m)
  <2>1. /\ rows[m].status = "absent"
        /\ rows'[m].status = "pending" /\ rows'[m].retryCount = 0
    BY <1>3 DEF Create, TypeOK
  <2>2. RowCounted(m) /\ RowCounted(m)' /\ \A t \in Tick : m \notin batch[t]
    BY <1>1, <2>1, CapType DEF RowCounted, Held
  <2> QED
    BY <1>1, <2>2 DEF Agreed, Held
<1> QED
  BY <1>2, <1>3 DEF Create, AcceptLate, LockExpires, Advance, dbVars, TypeOK

LEMMA AttemptsInit == Init => AttemptsInv
<1> SUFFICES ASSUME Init
             PROVE  AttemptsInv
  OBVIOUS
<1>1. TickShape /\ DraftShape /\ HeldByOneTick
  BY DEF Init, TickShape, InCall, DraftShape, HeldByOneTick
<1>2. \A m \in Msg : RowCounted(m) /\ \A t \in Tick : Held(t, m)
  BY CapType DEF Init, RowCounted, NoRow, Held
<1> QED
  BY <1>1, <1>2, TypeInit DEF AttemptsInv

LEMMA AttemptsStep == AttemptsInv /\ [Next]_vars => AttemptsInv'
<1> SUFFICES ASSUME AttemptsInv, [Next]_vars
             PROVE  AttemptsInv'
  OBVIOUS
<1>1. TypeOK' /\ TickShape' /\ DraftShape'
  BY TypeStep, TickShapeStep, DraftShapeStep DEF AttemptsInv
<1>2. ASSUME NEW m \in Msg \ overwritten'
      PROVE  Agreed(m)'
  <2>1. CASE UNCHANGED vars
    BY <1>2, <2>1, QuietStep DEF vars, dbVars, tickVars, apiVars, netVars
  <2>2. ASSUME NEW c \in Client, RequestStep(c)
        PROVE  Agreed(m)'
    BY <1>2, <2>2, RequestAgreed
  <2>3. ASSUME NEW t \in Tick, TickStep(t)
        PROVE  Agreed(m)'
    <3>1. overwritten' = overwritten
      BY <2>3 DEF TickStep, Progress, AcquireLock, AcquireReplyLost, SelectDue,
                  ClaimDueMessages, ClaimFails, Send, ReplyOk, ReplyError, SaveSelect,
                  SaveUpdate, SaveFails, ReleaseLock, ReleaseFails, Accept, apiVars
    <3> QED
      BY <1>2, <2>3, <3>1, TickStepAgreed
  <2>4. ASSUME NEW p \in Pod, Crash(p)
        PROVE  Agreed(m)'
    BY <1>2, <2>4, CrashAgreed DEF Crash, apiVars
  <2>5. ASSUME \/ \E n \in Msg : Create(n) \/ AcceptLate(n)
               \/ LockExpires \/ Advance
        PROVE  Agreed(m)'
    <3>1. overwritten' = overwritten
      BY <2>5 DEF Create, AcceptLate, LockExpires, Advance, apiVars
    <3> QED
      BY <1>2, <2>5, <3>1, OtherAgreed
  <2> QED
    BY <2>1, <2>2, <2>3, <2>4, <2>5 DEF Next
<1> QED
  BY <1>1, <1>2 DEF AttemptsInv, Agreed, HeldByOneTick

\* The counter of every row agrees with its sends and with the ticks that hold it.
THEOREM AttemptsInvariant == Spec => []AttemptsInv
BY AttemptsInit, AttemptsStep, PTL DEF Spec

\* No row that no request has overwritten blindly is sent more often than the cap allows,
\* and no two ticks hold it, whatever expires, crashes or answers late.
THEOREM SendsAreCapped == Spec => [](AttemptsBounded /\ HeldByOneTick)
<1>1. AttemptsInv => AttemptsBounded /\ HeldByOneTick
  <2>1. ASSUME AttemptsInv, NEW m \in Msg \ overwritten
        PROVE  sends[m] <= MaxAttempts
    <3>1. RowCounted(m) /\ rows[m].retryCount \in Nat /\ sends[m] \in Nat
      BY <2>1 DEF AttemptsInv, TypeOK, Row
    <3> QED
      BY <3>1, CapType DEF RowCounted
  <2> QED
    BY <2>1 DEF AttemptsInv, AttemptsBounded
<1> QED
  BY <1>1, AttemptsInvariant, PTL

\* A row cancelled while it was pending is held by no tick, so nothing claims it, sends it
\* or replaces its status.
LEMMA CancelStep ==
  ASSUME AttemptsInv, [Next]_vars, NEW m \in Msg \ overwritten',
         rows[m].status = "cancelled"
  PROVE  rows'[m].status = "cancelled" /\ sends'[m] = sends[m]
<1> USE DEF AttemptsInv
<1>1. ASSUME NEW t \in Tick, TickStep(t)
      PROVE  rows'[m] = rows[m] /\ sends'[m] = sends[m]
  <2>1. m \in Msg \ overwritten
    BY <1>1 DEF TickStep, Progress, AcquireLock, AcquireReplyLost, SelectDue,
                ClaimDueMessages, ClaimFails, Send, ReplyOk, ReplyError, SaveSelect,
                SaveUpdate, SaveFails, ReleaseLock, ReleaseFails, Accept, apiVars
  <2>2. m \notin batch[t]
    BY <2>1 DEF Held
  <2>3. InCall(t) => current[t] # m
    BY <2>2 DEF TickShape
  <2>4. sends'[m] = sends[m]
    BY <1>1, <2>2 DEF TickStep, Progress, AcquireLock, AcquireReplyLost, SelectDue,
         ClaimDueMessages, ClaimFails, Send, ReplyOk, ReplyError, SaveSelect, SaveUpdate,
         SaveFails, ReleaseLock, ReleaseFails, Accept, netVars, TypeOK
  <2>5. rows' \in {rows, AfterClaim(t)} \/ (pc[t] = "saveUpdate" /\ rows' = AfterSave(t))
    BY <1>1 DEF TickStep, Progress, AcquireLock, AcquireReplyLost, SelectDue,
         ClaimDueMessages, ClaimFails, Send, ReplyOk, ReplyError, SaveSelect, SaveUpdate,
         SaveFails, ReleaseLock, ReleaseFails, Accept, dbVars
  <2>6. AfterClaim(t)[m] = rows[m]
    BY DEF AfterClaim, Claimable
  <2>7. pc[t] = "saveUpdate" => AfterSave(t)[m] = rows[m]
    BY <2>3 DEF AfterSave, InCall, TypeOK
  <2> QED
    BY <2>4, <2>5, <2>6, <2>7
<1>2. ASSUME NEW c \in Client, RequestStep(c)
      PROVE  rows'[m].status = "cancelled" /\ sends'[m] = sends[m]
  <2>1. sends' = sends
    BY <1>2 DEF RequestStep, LoadForUpdate, LoadForCancel, Load, RequestSaveSelect,
                RequestSaveUpdate, RequestFails, netVars
  <2>2. CASE RequestSaveUpdate(c)
    <3>1. /\ rows' = [rows EXCEPT ![target[c]] = Written(draft[c], @, rdiff[c])]
          /\ overwritten' = IF Blind(c) THEN overwritten \cup {target[c]} ELSE overwritten
      BY <2>2 DEF RequestSaveUpdate
    <3>2. target[c] = m => "status" \notin rdiff[c]
      BY <3>1 DEF Blind
    <3> QED
      BY <2>1, <3>1, <3>2 DEF Written, TypeOK
  <2>3. CASE rows' = rows
    BY <2>1, <2>3
  <2> QED
    BY <1>2, <2>2, <2>3 DEF RequestStep, LoadForUpdate, LoadForCancel, Load,
                            RequestSaveSelect, RequestFails, dbVars
<1>3. CASE \/ \E p \in Pod : Crash(p)
           \/ \E n \in Msg : Create(n) \/ AcceptLate(n)
           \/ LockExpires \/ Advance \/ UNCHANGED vars
  BY <1>3 DEF Crash, Create, AcceptLate, LockExpires, Advance, vars, dbVars, netVars, TypeOK
<1> QED
  BY <1>1, <1>2, <1>3 DEF Next

\* Cancelling a pending message is final, in every interleaving with ticks and requests
\* that does not overwrite the row blindly.
THEOREM CancellationIsFinal == Spec => CancelIsFinal
<1>1. AttemptsInv /\ [Next]_vars
        => [\A m \in Msg \ overwritten' :
              rows[m].status = "cancelled"
                => rows'[m].status = "cancelled" /\ sends'[m] = sends[m]]_vars
  BY CancelStep
<1> QED
  BY <1>1, AttemptsInvariant, PTL DEF Spec, CancelIsFinal
=============================================================================
