--------------------------- MODULE DeliveryProofs ---------------------------
(* ScheduledMessages implements MessageDelivery for every message: the      *)
(* invariants of claims and of "sent", then the initial states and steps.   *)
EXTENDS ScheduledMessagesProofs

-----------------------------------------------------------------------------
(* "sent" means accepted                                                    *)

\* A tick leaves the requests alone, and is or is not a fault.
LEMMA TickFrame ==
  ASSUME NEW t \in Tick, TickStep(t)
  PROVE  UNCHANGED <<apiVars, now>> /\ (faults' = faults \/ Fault)
BY DEF TickStep, Progress, AcquireLock, AcquireReplyLost, SelectDue, ClaimDueMessages,
       ClaimFails, Send, ReplyOk, ReplyError, SaveSelect, SaveUpdate, SaveFails, ReleaseLock,
       ReleaseFails, Accept, dbVars

\* The catch block never calls a message sent.
LEMMA CatchUnsent ==
  ASSUME TypeOK, NEW t \in Tick, NEW m \in Msg, NEW kind, CatchSendError(t, kind),
         current[t] \in Msg, \A u \in Tick : entity[u][m].status # "sent"
  PROVE  \A u \in Tick : entity'[u][m].status # "sent"
<1>1. entity' = [entity EXCEPT ![t] = [@ EXCEPT ![current[t]] = AfterError(t, kind)]]
  BY DEF CatchSendError
<1>2. AfterError(t, kind).status # "sent"
  <2>1. entity[t][current[t]] \in Row
    BY DEF TypeOK
  <2> QED
    BY <2>1 DEF AfterError, WithStatus, Row
<1> QED
  BY <1>1, <1>2 DEF TypeOK

LEMMA NextMessageUnsent ==
  ASSUME TypeOK, NEW t \in Tick, NEW m \in Msg, NextMessage(t),
         current[t] \in Msg, \A u \in Tick : entity[u][m].status # "sent"
  PROVE  /\ \A u \in Tick : entity'[u][m].status # "sent"
         /\ \A u \in Tick : current'[u] = m => current[u] = m
BY ConstantsAssumption DEF NextMessage, TypeOK, NoRow

LEMMA SaveUnsent ==
  ASSUME TypeOK, NEW t \in Tick, NEW m \in Msg, rows' = AfterSave(t), Unsent(m)
  PROVE  rows'[m].status # "sent"
BY DEF AfterSave, Written, TypeOK, Unsent

LEMMA TickUnsent ==
  ASSUME TypeOK, NEW t \in Tick, NEW m \in Msg, TickStep(t), Unsent(m)
  PROVE  Unsent(m)' \/ delivered'[m] > 0
<1> USE DEF Unsent
<1>1. CASE \/ AcquireLock(t) \/ AcquireReplyLost(t) \/ SelectDue(t) \/ ReleaseLock(t)
           \/ ReleaseFails(t)
  BY <1>1 DEF AcquireLock, AcquireReplyLost, SelectDue, ReleaseLock, ReleaseFails, dbVars,
              tickVars
<1>2. CASE ClaimDueMessages(t)
  <2>1. /\ rows' = AfterClaim(t) /\ UNCHANGED <<current, call>>
        /\ entity' = [entity EXCEPT ![t] =
             [n \in Msg |-> IF n \in Claimable(t) THEN AfterClaim(t)[n] ELSE NoRow]]
    BY <1>2 DEF ClaimDueMessages
  <2>2. AfterClaim(t)[m].status # "sent"
    BY DEF AfterClaim, WithStatus, TypeOK, Row
  <2>3. \A u \in Tick : entity'[u][m].status # "sent"
    BY <2>1, <2>2 DEF TypeOK, NoRow
  <2> QED
    BY <2>1, <2>2, <2>3
<1>3. CASE ClaimFails(t)
  <2>1. AfterClaim(t)[m].status # "sent"
    BY DEF AfterClaim, WithStatus, TypeOK, Row
  <2> QED
    BY <1>3, <2>1 DEF ClaimFails
<1>4. CASE Send(t)
  BY <1>4 DEF Send, TypeOK, dbVars
<1>5. CASE ReplyOk(t)
  <2>1. /\ call[t] = "accepted" /\ current[t] \in Msg
        /\ entity' = [entity EXCEPT ![t] =
             [@ EXCEPT ![current[t]] = WithStatus(entity[t][current[t]], "sent")]]
        /\ call' = [call EXCEPT ![t] = "none"] /\ UNCHANGED <<rows, current>>
    BY <1>5 DEF ReplyOk, TypeOK, dbVars
  <2>2. current[t] # m
    BY <2>1
  <2> QED
    BY <2>1, <2>2 DEF TypeOK
<1>6. CASE ReplyError(t)
  <2>1. PICK kind \in ErrorKind : CatchSendError(t, kind)
    BY <1>6 DEF ReplyError
  <2>2. /\ current[t] \in Msg /\ UNCHANGED <<rows, current>>
        /\ call' = [call EXCEPT ![t] = "none"]
    BY <1>6 DEF ReplyError, TypeOK, dbVars
  <2>3. \A u \in Tick : entity'[u][m].status # "sent"
    BY <2>1, <2>2, CatchUnsent
  <2> QED
    BY <2>2, <2>3 DEF TypeOK
<1>7. CASE SaveSelect(t) \/ SaveUpdate(t)
  <2>1. current[t] \in Msg /\ UNCHANGED call /\ (rows' = rows \/ rows' = AfterSave(t))
    BY <1>7 DEF SaveSelect, SaveUpdate, TypeOK, dbVars
  <2>2. NextMessage(t) \/ UNCHANGED <<entity, current>>
    BY <1>7 DEF SaveSelect, SaveUpdate
  <2>3. rows'[m].status # "sent"
    BY <2>1, SaveUnsent
  <2> QED
    BY <2>1, <2>2, <2>3, NextMessageUnsent
<1>8. CASE SaveFails(t)
  <2>1. current[t] \in Msg /\ UNCHANGED call /\ (rows' = rows \/ rows' = AfterSave(t))
    BY <1>8 DEF SaveFails, TypeOK
  <2>2. rows'[m].status # "sent"
    BY <2>1, SaveUnsent
  <2>3. CASE AbandonBatch(t)
    BY <2>1, <2>2, <2>3, ConstantsAssumption DEF AbandonBatch, TypeOK, NoRow
  <2>4. ASSUME NEW kind, CatchSendError(t, kind), UNCHANGED current
        PROVE  Unsent(m)'
    BY <2>1, <2>2, <2>4, CatchUnsent
  <2> QED
    BY <1>8, <2>3, <2>4 DEF SaveFails
<1>9. CASE Accept(t)
  BY <1>9 DEF Accept, TypeOK, dbVars
<1> QED
  BY <1>1, <1>2, <1>3, <1>4, <1>5, <1>6, <1>7, <1>8, <1>9 DEF TickStep, Progress

LEMMA SentStep ==
  ASSUME TypeOK, DraftShape, [Next]_vars, NEW m \in Msg, SentInv(m)
  PROVE  SentInv(m)'
<1>1. delivered'[m] \in Nat /\ delivered'[m] >= delivered[m]
  <2>1. delivered \in [Msg -> Nat] /\ delivered' \in [Msg -> Nat]
    BY TypeStep DEF TypeOK
  <2>2. \/ delivered' = delivered
        \/ \E n \in Msg : delivered' = [delivered EXCEPT ![n] = @ + 1]
    <3>1. ASSUME NEW t \in Tick, Accept(t)
          PROVE  current[t] \in Msg /\ delivered' = [delivered EXCEPT ![current[t]] = @ + 1]
      BY <3>1 DEF Accept, TypeOK
    <3> QED
      BY <3>1 DEF Next, TickStep, Progress, AcquireLock, AcquireReplyLost, SelectDue,
         ClaimDueMessages, ClaimFails, Send, ReplyOk, ReplyError, SaveSelect, SaveUpdate,
         SaveFails, ReleaseLock, ReleaseFails, Crash, RequestStep, LoadForUpdate,
         LoadForCancel, Load, RequestSaveSelect, RequestSaveUpdate, RequestFails, Create,
         AcceptLate, LockExpires, Advance, netVars, vars
  <2> QED
    BY <2>1, <2>2
<1>2. CASE delivered[m] > 0
  <2>1. delivered[m] \in Nat
    BY DEF TypeOK
  <2> QED
    BY <1>1, <1>2, <2>1 DEF SentInv
<1>3. CASE Unsent(m)
  <2>1. Unsent(m)' \/ delivered'[m] > 0
    <3>1. ASSUME NEW p \in Pod, Crash(p)
          PROVE  Unsent(m)'
      BY <1>3, <3>1 DEF Crash, Unsent, TypeOK, NoRow, dbVars
    <3>2. ASSUME NEW c \in Client, RequestStep(c)
          PROVE  Unsent(m)'
      <4>1. UNCHANGED tickVars
        BY <3>2 DEF RequestStep, LoadForUpdate, LoadForCancel, Load, RequestSaveSelect,
                    RequestSaveUpdate, RequestFails
      <4>2. \/ rows' = rows
            \/ /\ rows' = [rows EXCEPT ![target[c]] = Written(draft[c], @, rdiff[c])]
               /\ draft[c].status # "sent"
        BY <3>2 DEF RequestStep, LoadForUpdate, LoadForCancel, Load, RequestSaveSelect,
                    RequestSaveUpdate, RequestFails, DraftShape, dbVars
      <4>3. rows'[m].status # "sent"
        <5>1. rows[m].status # "sent" /\ rows \in [Msg -> Row]
          BY <1>3 DEF TypeOK, Unsent
        <5>2. \A cols : draft[c].status # "sent" =>
                Written(draft[c], rows[m], cols).status # "sent"
          BY <5>1 DEF Written
        <5>3. CASE rows' = rows
          BY <5>1, <5>3
        <5>4. CASE /\ rows' = [rows EXCEPT ![target[c]] = Written(draft[c], @, rdiff[c])]
                   /\ draft[c].status # "sent"
          <6>1. rows'[m] = rows[m] \/ rows'[m] = Written(draft[c], rows[m], rdiff[c])
            BY <5>1, <5>4
          <6> QED
            BY <5>1, <5>2, <5>4, <6>1
        <5> QED
          BY <4>2, <5>3, <5>4
      <4> QED
        BY <1>3, <4>1, <4>3 DEF Unsent, tickVars
    <3>3. ASSUME NEW n \in Msg, Create(n)
          PROVE  Unsent(m)'
      <4>1. UNCHANGED tickVars /\ rows'[m].status # "sent"
        BY <1>3, <3>3 DEF Create, Unsent, TypeOK
      <4> QED
        BY <1>3, <4>1 DEF Unsent, tickVars
    <3>4. CASE \/ \E n \in Msg : AcceptLate(n)
               \/ LockExpires \/ Advance \/ UNCHANGED vars
      BY <1>3, <3>4 DEF AcceptLate, LockExpires, Advance, vars, dbVars, tickVars, Unsent
    <3> QED
      BY <1>3, <3>1, <3>2, <3>3, <3>4, TickUnsent DEF Next
  <2> QED
    BY <2>1 DEF SentInv
<1>4. delivered[m] > 0 \/ Unsent(m)
  BY DEF SentInv
<1> QED
  BY <1>2, <1>3, <1>4

-----------------------------------------------------------------------------
(* A claim is held up to the save of its outcome                            *)

\* A step that keeps the status of a row keeps what is known of its claim: its tick may
\* only let go of it once it is no longer "processing", or in a fault.
LEMMA HoldKept ==
  ASSUME NEW m, HoldInv(m), rows'[m].status = rows[m].status,
         faults \in Nat, faults' \in {faults, faults + 1},
         \A t \in Tick : m \in batch'[t] =>
           /\ m \in batch[t] /\ (current'[t] = current[t] \/ current[t] # m)
           /\ current'[t] = m /\ pc'[t] = "saveUpdate" /\ rows[m].status = "processing"
                => "status" \in diff'[t],
         \A t \in Tick : faults' = 0 /\ m \in batch[t] /\ rows[m].status = "processing"
                           => m \in batch'[t]
  PROVE  HoldInv(m)'
<1>1. \A t \in Tick : m \in batch'[t] =>
        /\ current'[t] # m \/ faults' = 0 => rows'[m].status = "processing"
        /\ current'[t] = m /\ pc'[t] = "saveUpdate" /\ rows'[m].status = "processing"
             => "status" \in diff'[t]
  BY DEF HoldInv
<1>2. rows'[m].status = "processing" => faults' > 0 \/ \E t \in Tick : m \in batch'[t]
  BY DEF HoldInv
<1> QED
  BY <1>1, <1>2 DEF HoldInv

\* The status a tick is about to save is not "processing".
LEMMA SavedStatus ==
  ASSUME AttemptsInv, NEW t \in Tick, NEW m \in Msg \ overwritten, current[t] = m,
         pc[t] \in {"saveSelect", "saveUpdate"}
  PROVE  /\ entity[t][m].status # "processing" /\ m \in batch[t]
         /\ SaveDiff(t) = {} => rows[m].status # "processing"
         /\ rows[m].status = "processing" => "status" \in SaveDiff(t)
<1>1. m \in batch[t] /\ Underway(t, m)
  BY DEF AttemptsInv, TickShape, InCall, Held
<1>2. entity[t][m].status # "processing"
  BY <1>1 DEF Underway
<1>3. rows[m].status = "processing" => "status" \in SaveDiff(t)
  BY <1>2, HydrationAssumption DEF SaveDiff, Differing, Column
<1> QED
  BY <1>1, <1>2, <1>3

LEMMA HoldClaim ==
  ASSUME AttemptsInv, NEW t \in Tick, NEW m \in Msg \ overwritten, HoldInv(m),
         ClaimDueMessages(t) \/ ClaimFails(t)
  PROVE  HoldInv(m)'
<1> USE DEF AttemptsInv
<1>1. batch[t] = {} /\ current[t] = NoMsg
  BY DEF TickShape, InCall, ClaimDueMessages, ClaimFails
<1>2. current' = current /\ diff' = diff /\ faults \in Nat /\ NoMsg # m
      /\ \A u \in Tick : pc'[u] = pc[u] \/ pc'[u] # "saveUpdate"
  BY ConstantsAssumption DEF ClaimDueMessages, ClaimFails, TypeOK
<1>3. CASE rows'[m] = rows[m] /\ batch' = batch /\ ClaimFails(t)
  <2>1. faults' = faults + 1
    BY <1>3 DEF ClaimFails, Fault
  <2> QED
    BY <1>2, <1>3, <2>1, HoldKept DEF HoldInv
<1>4. CASE rows'[m] = rows[m] /\ m \notin Claimable(t) /\ ClaimDueMessages(t)
  <2>1. /\ faults' = faults /\ batch' = [batch EXCEPT ![t] = Claimable(t)]
    BY <1>4 DEF ClaimDueMessages
  <2>2. \A u \in Tick : m \in batch'[u] <=> m \in batch[u]
    BY <1>1, <1>4, <2>1 DEF TypeOK
  <2> QED
    BY <1>2, <1>4, <2>1, <2>2, HoldKept DEF HoldInv
<1>5. CASE m \in Claimable(t) /\ rows'[m] = AfterClaim(t)[m]
  <2>1. rows[m].status = "pending" /\ \A u \in Tick : m \notin batch[u]
    BY <1>5 DEF Claimable, Held
  <2>2. rows[m] \in Row /\ rows'[m] = WithStatus(rows[m], "processing")
    BY <1>5 DEF AfterClaim, TypeOK
  <2>3. rows'[m].status = "processing"
    BY <2>2 DEF WithStatus, Row
  <2>4. CASE ClaimFails(t)
    <3>1. batch' = batch /\ faults' > 0
      BY <1>2, <2>4 DEF ClaimFails, Fault
    <3> QED
      BY <2>1, <3>1 DEF HoldInv
  <2>5. CASE ClaimDueMessages(t)
    <3>1. batch' = [batch EXCEPT ![t] = Claimable(t)]
      BY <2>5 DEF ClaimDueMessages
    <3>2. m \in batch'[t] /\ \A u \in Tick : m \in batch'[u] => u = t
      BY <1>5, <2>1, <3>1 DEF TypeOK
    <3> QED
      BY <1>1, <1>2, <2>3, <3>2 DEF HoldInv
  <2> QED
    BY <2>4, <2>5
<1> QED
  BY <1>3, <1>4, <1>5 DEF ClaimDueMessages, ClaimFails, AfterClaim, TypeOK

LEMMA HoldSave ==
  ASSUME AttemptsInv, NEW t \in Tick, NEW m \in Msg \ overwritten, HoldInv(m),
         SaveSelect(t) \/ SaveUpdate(t) \/ SaveFails(t)
  PROVE  HoldInv(m)'
<1> USE DEF AttemptsInv
<1>1. /\ current[t] \in Msg /\ current[t] \in batch[t] /\ faults \in Nat
      /\ pc[t] \in {"saveSelect", "saveUpdate"}
      /\ m \in batch[t] => \A u \in Tick \ {t} : m \notin batch[u]
  BY DEF SaveSelect, SaveUpdate, SaveFails, TickShape, InCall, TypeOK, HeldByOneTick
<1>2. rows' = rows \/ rows' = AfterSave(t)
  BY DEF SaveSelect, SaveUpdate, SaveFails, dbVars
<1>3. m # current[t] => rows'[m] = rows[m]
  BY <1>1, <1>2 DEF AfterSave, TypeOK
<1>4. \A u \in Tick \ {t} : /\ batch'[u] = batch[u] /\ current'[u] = current[u]
                            /\ pc'[u] = pc[u] /\ diff'[u] = diff[u]
  BY DEF SaveSelect, SaveUpdate, SaveFails, NextMessage, CatchSendError, AbandonBatch, TypeOK
<1>5. CASE SaveSelect(t)
  <2>1. rows' = rows /\ faults' = faults
    BY <1>5 DEF SaveSelect, dbVars
  <2>2. CASE SaveDiff(t) # {}
    <3>1. UNCHANGED <<batch, current>> /\ diff'[t] = SaveDiff(t)
      BY <1>5, <2>2 DEF SaveSelect, TypeOK
    <3> QED
      BY <1>1, <1>4, <2>1, <3>1, SavedStatus, HoldKept DEF HoldInv
  <2>3. CASE SaveDiff(t) = {}
    <3>1. batch'[t] = batch[t] \ {current[t]} /\ current'[t] = NoMsg
      BY <1>5, <2>3 DEF SaveSelect, NextMessage, TypeOK
    <3>2. current[t] = m => rows[m].status # "processing"
      BY <1>1, <2>3, SavedStatus
    <3> QED
      BY <1>1, <1>4, <2>1, <3>1, <3>2, HoldKept, ConstantsAssumption DEF HoldInv
  <2> QED
    BY <2>2, <2>3
<1>6. CASE SaveUpdate(t)
  <2>1. /\ batch'[t] = batch[t] \ {current[t]} /\ current'[t] = NoMsg /\ faults' = faults
    BY <1>6 DEF SaveUpdate, NextMessage, TypeOK
  <2>2. CASE m # current[t]
    BY <1>1, <1>3, <1>4, <2>1, <2>2, HoldKept, ConstantsAssumption DEF HoldInv
  <2>3. CASE m = current[t]
    <3>1. \A u \in Tick : m \notin batch'[u]
      BY <1>1, <1>4, <2>1, <2>3
    <3>2. faults = 0 => rows'[m].status # "processing"
      <4>1. rows'[m] = Written(entity[t][m], rows[m], diff[t]) /\ pc[t] = "saveUpdate"
        BY <1>6, <2>3 DEF SaveUpdate, AfterSave, TypeOK
      <4>2. faults = 0 => "status" \in diff[t]
        BY <1>1, <2>3, <4>1 DEF HoldInv
      <4> QED
        BY <1>1, <2>3, <4>1, <4>2, SavedStatus DEF Written
    <3> QED
      BY <1>1, <2>1, <3>1, <3>2 DEF HoldInv
  <2> QED
    BY <2>2, <2>3
<1>7. CASE SaveFails(t)
  <2>1. faults' = faults + 1 /\ faults' > 0
    BY <1>1, <1>7 DEF SaveFails, Fault
  <2>2. CASE UNCHANGED <<batch, current>> /\ pc'[t] = "saveSelect"
    <3>1. CASE m # current[t]
      BY <1>1, <1>3, <1>4, <2>1, <2>2, <3>1, HoldKept DEF HoldInv
    <3>2. CASE m = current[t]
      BY <1>1, <1>4, <2>1, <2>2, <3>2 DEF HoldInv
    <3> QED
      BY <3>1, <3>2
  <2>3. CASE batch'[t] = {}
    <3>1. CASE m # current[t]
      BY <1>1, <1>3, <1>4, <2>1, <2>3, <3>1, HoldKept DEF HoldInv
    <3>2. CASE m = current[t]
      BY <1>1, <1>4, <2>1, <2>3, <3>2 DEF HoldInv
    <3> QED
      BY <3>1, <3>2
  <2> QED
    BY <1>7, <2>2, <2>3 DEF SaveFails, CatchSendError, AbandonBatch, TypeOK
<1> QED
  BY <1>5, <1>6, <1>7

LEMMA HoldTick ==
  ASSUME AttemptsInv, NEW t \in Tick, NEW m \in Msg \ overwritten, HoldInv(m), TickStep(t)
  PROVE  HoldInv(m)'
<1> USE DEF AttemptsInv
<1>1. faults \in Nat
  BY DEF TypeOK
<1>2. CASE \/ AcquireLock(t) \/ AcquireReplyLost(t) \/ SelectDue(t) \/ ReleaseLock(t)
           \/ ReleaseFails(t) \/ Accept(t)
  <2>1. /\ UNCHANGED <<rows, batch, current, diff>> /\ faults' \in {faults, faults + 1}
        /\ \A u \in Tick : pc'[u] = "saveUpdate" => pc[u] = "saveUpdate"
    BY <1>2 DEF AcquireLock, AcquireReplyLost, SelectDue, ReleaseLock, ReleaseFails, Accept,
                Fault, dbVars, tickVars, TypeOK
  <2> QED
    BY <1>1, <2>1, HoldKept DEF HoldInv
<1>3. CASE Send(t)
  <2>1. /\ UNCHANGED <<rows, batch, diff, faults>> /\ current[t] = NoMsg
        /\ pc' = [pc EXCEPT ![t] = "await"]
        /\ \A u \in Tick \ {t} : current'[u] = current[u]
    BY <1>3 DEF Send, TickShape, InCall, dbVars, TypeOK
  <2>2. NoMsg # m
    BY ConstantsAssumption
  <2>3. pc'[t] = "await" /\ \A u \in Tick \ {t} : pc'[u] = pc[u]
    BY <2>1 DEF TypeOK
  <2> QED
    BY <1>1, <2>1, <2>2, <2>3, HoldKept DEF HoldInv
<1>4. CASE ReplyOk(t) \/ ReplyError(t)
  <2>1. /\ UNCHANGED <<rows, batch, current, faults>> /\ pc'[t] = "saveSelect"
        /\ \A u \in Tick \ {t} : pc'[u] = pc[u] /\ diff'[u] = diff[u]
    BY <1>4 DEF ReplyOk, ReplyError, CatchSendError, dbVars, TypeOK
  <2> QED
    BY <1>1, <2>1, HoldKept DEF HoldInv
<1> QED
  BY <1>2, <1>3, <1>4, HoldClaim, HoldSave DEF TickStep, Progress

\* A request that is not blind changes the status of pending rows only, which no tick holds.
LEMMA HoldRequest ==
  ASSUME AttemptsInv, NEW c \in Client, NEW m \in Msg \ overwritten', HoldInv(m),
         m \notin overwritten, RequestStep(c)
  PROVE  HoldInv(m)'
<1> USE DEF AttemptsInv
<1>1. UNCHANGED <<pc, batch, current, diff, faults>> /\ faults \in Nat
  BY DEF RequestStep, LoadForUpdate, LoadForCancel, Load, RequestSaveSelect,
         RequestSaveUpdate, RequestFails, tickVars, TypeOK
<1>2. \/ rows'[m].status = rows[m].status
      \/ rows[m].status = "pending" /\ rows'[m].status # "processing"
  <2>1. CASE RequestSaveUpdate(c)
    <3>1. /\ rows' = [rows EXCEPT ![target[c]] = Written(draft[c], @, rdiff[c])]
          /\ draft[c].status # "processing"
          /\ m = target[c] => ~Blind(c)
      BY <2>1 DEF RequestSaveUpdate, DraftShape
    <3> QED
      BY <3>1 DEF Written, Blind, TypeOK
  <2> QED
    BY <2>1 DEF RequestStep, LoadForUpdate, LoadForCancel, Load, RequestSaveSelect,
                RequestFails, dbVars
<1>3. CASE rows'[m].status = rows[m].status
  BY <1>1, <1>3, HoldKept DEF HoldInv
<1>4. CASE rows[m].status = "pending" /\ rows'[m].status # "processing"
  BY <1>1, <1>4 DEF HoldInv, Held
<1> QED
  BY <1>2, <1>3, <1>4

LEMMA HoldOther ==
  ASSUME AttemptsInv, NEW m \in Msg \ overwritten, HoldInv(m),
         \/ \E p \in Pod : Crash(p)
         \/ \E n \in Msg : Create(n) \/ AcceptLate(n)
         \/ LockExpires \/ Advance \/ UNCHANGED vars
  PROVE  HoldInv(m)'
<1> USE DEF AttemptsInv
<1>1. faults \in Nat
  BY DEF TypeOK
<1>2. ASSUME NEW p \in Pod, Crash(p)
      PROVE  HoldInv(m)'
  <2>1. /\ rows' = rows /\ faults' = faults + 1
        /\ \A t \in Tick : \/ batch'[t] = {}
                           \/ /\ batch'[t] = batch[t] /\ pc'[t] = pc[t]
                              /\ current'[t] = current[t] /\ diff'[t] = diff[t]
    BY <1>2 DEF Crash, Fault, dbVars
  <2> QED
    BY <1>1, <2>1, HoldKept DEF HoldInv
<1>3. CASE Create(m)
  <2>1. rows[m].status = "absent" /\ rows'[m].status = "pending" /\ batch' = batch
    BY <1>3 DEF Create, tickVars, TypeOK
  <2> QED
    BY <2>1 DEF HoldInv, Held
<1>4. CASE UNCHANGED <<rows[m], tickVars, faults>>
  BY <1>1, <1>4, HoldKept DEF HoldInv, tickVars
<1> QED
  BY <1>2, <1>3, <1>4 DEF Create, AcceptLate, LockExpires, Advance, vars, dbVars, TypeOK

\* A row that exists keeps existing.
LEMMA RowsStay ==
  ASSUME AttemptsInv, [Next]_vars, NEW m \in Msg \ overwritten', m \notin overwritten,
         rows[m].status # "absent"
  PROVE  rows'[m].status # "absent"
<1> USE DEF AttemptsInv
<1>1. ASSUME NEW t \in Tick, TickStep(t)
      PROVE  rows'[m].status # "absent"
  <2>1. \/ rows' = rows \/ rows' = AfterClaim(t)
        \/ InCall(t) /\ pc[t] = "saveUpdate" /\ rows' = AfterSave(t)
    BY <1>1 DEF TickStep, Progress, AcquireLock, AcquireReplyLost, SelectDue,
         ClaimDueMessages, ClaimFails, Send, ReplyOk, ReplyError, SaveSelect, SaveUpdate,
         SaveFails, ReleaseLock, ReleaseFails, Accept, dbVars, InCall
  <2>2. AfterClaim(t)[m].status # "absent"
    BY DEF AfterClaim, WithStatus, TypeOK, Row
  <2>3. ASSUME InCall(t), pc[t] = "saveUpdate"
        PROVE  AfterSave(t)[m].status # "absent"
    <3>1. m = current[t] => Underway(t, m)
      BY <2>3 DEF TickShape, Held
    <3> QED
      BY <2>3, <3>1 DEF AfterSave, Written, Underway, TypeOK
  <2> QED
    BY <2>1, <2>2, <2>3
<1>2. ASSUME NEW c \in Client, RequestStep(c)
      PROVE  rows'[m].status # "absent"
  <2>1. CASE RequestSaveUpdate(c)
    BY <2>1 DEF RequestSaveUpdate, Written, DraftShape, TypeOK
  <2> QED
    BY <1>2, <2>1 DEF RequestStep, LoadForUpdate, LoadForCancel, Load, RequestSaveSelect,
                      RequestFails, dbVars
<1>3. CASE \/ \E p \in Pod : Crash(p)
           \/ \E n \in Msg : Create(n) \/ AcceptLate(n)
           \/ LockExpires \/ Advance \/ UNCHANGED vars
  BY <1>3 DEF Crash, Create, AcceptLate, LockExpires, Advance, vars, dbVars, TypeOK
<1> QED
  BY <1>1, <1>2, <1>3 DEF Next

-----------------------------------------------------------------------------
(* The inductive invariant                                                  *)

\* Rows are only ever added to those an API request has overwritten.
LEMMA OverwrittenGrows == [Next]_vars => overwritten \subseteq overwritten'
<1> SUFFICES ASSUME [Next]_vars
             PROVE  overwritten \subseteq overwritten'
  OBVIOUS
<1>1. ASSUME NEW c \in Client, RequestStep(c)
      PROVE  overwritten \subseteq overwritten'
  BY <1>1 DEF RequestStep, LoadForUpdate, LoadForCancel, Load, RequestSaveSelect,
              RequestSaveUpdate, RequestFails
<1>2. CASE \/ \E p \in Pod : Crash(p)
           \/ \E n \in Msg : Create(n) \/ AcceptLate(n)
           \/ LockExpires \/ Advance \/ UNCHANGED vars
  BY <1>2 DEF Crash, Create, AcceptLate, LockExpires, Advance, vars, apiVars
<1> QED
  BY <1>1, <1>2, TickFrame DEF Next, apiVars

\* A request is for a row that exists.
LEMMA TargetStep ==
  ASSUME DeliveryInv, [Next]_vars, NEW c \in Client, rpc'[c] # "idle",
         target'[c] \notin overwritten'
  PROVE  rows'[target'[c]].status # "absent"
<1> USE DEF DeliveryInv
<1>1. target'[c] \in Msg
  BY TypeStep DEF AttemptsInv, TypeOK
<1>2. rows[target'[c]].status # "absent"
  <2>1. \/ rpc[c] # "idle" /\ target'[c] = target[c]
        \/ \E n \in Msg : rows[n].status = "pending" /\ target'[c] = n
    <3>1. ASSUME NEW d \in Client, RequestStep(d)
          PROVE  \/ rpc[c] # "idle" /\ target'[c] = target[c]
                 \/ \E n \in Msg : rows[n].status = "pending" /\ target'[c] = n
      BY <3>1 DEF RequestStep, LoadForUpdate, LoadForCancel, Load, RequestSaveSelect,
                  RequestSaveUpdate, RequestFails, Acknowledge, AttemptsInv, TypeOK
    <3>2. CASE \/ \E p \in Pod : Crash(p)
               \/ \E n \in Msg : Create(n) \/ AcceptLate(n)
               \/ LockExpires \/ Advance \/ UNCHANGED vars
      BY <3>2 DEF Crash, Create, AcceptLate, LockExpires, Advance, vars, apiVars
    <3> QED
      BY <3>1, <3>2, TickFrame DEF Next, apiVars
  <2> QED
    BY <2>1, OverwrittenGrows
<1> QED
  BY <1>1, <1>2, RowsStay, OverwrittenGrows

LEMMA DeliveryInit == Init => DeliveryInv
BY AttemptsInit DEF Init, DeliveryInv, SentInv, Unsent, HoldInv, NoRow

LEMMA DeliveryStep == DeliveryInv /\ [Next]_vars => DeliveryInv'
<1> SUFFICES ASSUME DeliveryInv, [Next]_vars
             PROVE  DeliveryInv'
  OBVIOUS
<1>1. AttemptsInv /\ AttemptsInv'
  BY AttemptsStep DEF DeliveryInv
<1>2. ASSUME NEW m \in Msg
      PROVE  SentInv(m)'
  BY <1>1, <1>2, SentStep DEF DeliveryInv, AttemptsInv
<1>3. ASSUME NEW m \in Msg \ overwritten'
      PROVE  HoldInv(m)'
  <2>1. m \in Msg \ overwritten /\ HoldInv(m)
    BY <1>3, OverwrittenGrows DEF DeliveryInv
  <2> QED
    BY <1>1, <1>3, <2>1, HoldTick, HoldRequest, HoldOther DEF Next
<1>4. ASSUME NEW c \in Client, rpc'[c] # "idle", target'[c] \notin overwritten'
      PROVE  rows'[target'[c]].status # "absent"
  BY <1>4, TargetStep
<1> QED
  BY <1>1, <1>2, <1>3, <1>4 DEF DeliveryInv

\* What ticks hold, what rows say and what the messaging service has agree in every behaviour.
THEOREM DeliveryInvariant == Spec => []DeliveryInv
BY DeliveryInit, DeliveryStep, PTL DEF Spec

\* While nothing fails, a row in "processing" that no request has overwritten blindly is in
\* the batch of the tick that will settle it.
THEOREM ClaimIsRemembered == Spec => []NoClaimForgotten
<1>1. DeliveryInv => NoClaimForgotten
  BY DEF DeliveryInv, HoldInv, NoClaimForgotten
<1> QED
  BY <1>1, DeliveryInvariant, PTL

\* A row is "sent" only if the messaging service has accepted the message, although an error
\* of the save that records it goes through the catch block of a failed call.
THEOREM SentMeansDelivered == Spec => []SentWasDelivered
<1>1. DeliveryInv => SentWasDelivered
  BY DEF DeliveryInv, SentInv, Unsent, SentWasDelivered
<1> QED
  BY <1>1, DeliveryInvariant, PTL

\* The conditional UPDATE alone makes claims exclusive: no premise speaks of the lock.
THEOREM OneTickHoldsARow == Spec => []HeldByOneTick
BY SendsAreCapped, PTL

-----------------------------------------------------------------------------
(* ScheduledMessages implements MessageDelivery: what the mapping keeps      *)

Picked(m) == \E t \in Tick : m \in candidates[t]
Calls(m)  == {t \in Tick : call[t] = "sent" /\ current[t] = m}

LEMMA PhaseKept ==
  ASSUME NEW m, m \notin overwritten, m \notin overwritten',
         rows'[m].status = rows[m].status,
         rows[m].status = "processing" =>
           \A t \in Tick : /\ m \in batch'[t] <=> m \in batch[t]
                           /\ m \in batch[t] => (current'[t] = m <=> current[t] = m)
  PROVE  Phase(m)' = Phase(m)
<1>1. CASE rows[m].status # "processing"
  BY <1>1 DEF Phase
<1>2. CASE rows[m].status = "processing"
  <2>1. (\E t \in Tick : m \in batch'[t]) <=> (\E t \in Tick : m \in batch[t])
    BY <1>2
  <2>2. (\E t \in Tick : m \in batch'[t] /\ current'[t] = m)
          <=> (\E t \in Tick : m \in batch[t] /\ current[t] = m)
    BY <1>2
  <2> QED
    BY <1>2, <2>1, <2>2 DEF Phase
<1> QED
  BY <1>1, <1>2

\* A step that leaves the life of a message alone, but for a tick that forgets it.
LEMMA Quiet ==
  ASSUME NEW m \in Msg, faults > 0 => faults' > 0,
         now' = now, Phase(m)' = Phase(m), rows'[m].scheduledAt = rows[m].scheduledAt,
         sends'[m] = sends[m], InFlight(m)' = InFlight(m), delivered'[m] = delivered[m],
         Picked(m)' => Picked(m)
  PROVE  Delivery(m)!Next
<1>1. CASE Picked(m)' = Picked(m)
  BY <1>1 DEF Delivery!Next, Delivery!wire, Picked
<1>2. CASE ~Picked(m)'
  BY <1>2 DEF Delivery!Next, Delivery!Unpick, Delivery!wire, Delivery!clock, Picked
<1> QED
  BY <1>1, <1>2

LEMMA CallsFinite ==
  ASSUME NEW m
  PROVE  IsFiniteSet(Calls(m)) /\ Cardinality(Calls(m)) \in Nat
<1>1. IsFiniteSet(Tick)
  BY ConstantsAssumption, FS_Product DEF Tick
<1>2. Calls(m) \subseteq Tick
  BY DEF Calls
<1> QED
  BY <1>1, <1>2, FS_Subset, FS_CardinalityType

\* The calls under way change by the one a tick starts or ends.
LEMMA CallsKept ==
  ASSUME NEW m, \A t \in Tick : (call'[t] = "sent" /\ current'[t] = m)
                                  <=> (call[t] = "sent" /\ current[t] = m),
         late'[m] = late[m]
  PROVE  InFlight(m)' = InFlight(m)
<1>1. Calls(m)' = Calls(m)
  BY DEF Calls
<1> QED
  BY <1>1 DEF InFlight, Calls

LEMMA CallStarted ==
  ASSUME NEW m \in Msg, late \in [Msg -> Nat], NEW t \in Tick, t \notin Calls(m),
         Calls(m)' = Calls(m) \cup {t}, late'[m] = late[m]
  PROVE  InFlight(m)' = InFlight(m) + 1
<1>1. Cardinality(Calls(m) \cup {t}) = Cardinality(Calls(m)) + 1
  BY CallsFinite, FS_AddElement
<1>2. InFlight(m) = late[m] + Cardinality(Calls(m))
      /\ InFlight(m)' = late'[m] + Cardinality(Calls(m)')
  BY DEF InFlight, Calls
<1> QED
  BY <1>1, <1>2, CallsFinite

LEMMA CallEnded ==
  ASSUME NEW m \in Msg, late \in [Msg -> Nat], NEW t \in Calls(m),
         Calls(m)' = Calls(m) \ {t}
  PROVE  /\ InFlight(m) > 0
         /\ late'[m] = late[m] => InFlight(m)' = InFlight(m) - 1
         /\ late'[m] = late[m] + 1 => InFlight(m)' = InFlight(m)
<1>1. Cardinality(Calls(m) \ {t}) = Cardinality(Calls(m)) - 1
  BY CallsFinite, FS_RemoveElement
<1>2. InFlight(m) = late[m] + Cardinality(Calls(m))
      /\ InFlight(m)' = late'[m] + Cardinality(Calls(m)')
  BY DEF InFlight, Calls
<1>3. Cardinality(Calls(m)) > 0
  BY CallsFinite, FS_EmptySet
<1> QED
  BY <1>1, <1>2, <1>3, CallsFinite

\* The calls that die with a process are late, or lost.
LEMMA CallsDie ==
  ASSUME TypeOK, NEW m \in Msg, NEW p \in Pod, Crash(p)
  PROVE  InFlight(m)' = InFlight(m)
<1> DEFINE Dying == {t \in Tick : t[1] = p /\ call[t] = "sent" /\ current[t] = m}
<1>1. late' = [n \in Msg |-> late[n] + Cardinality(
                 {t \in Tick : t[1] = p /\ call[t] = "sent" /\ current[t] = n})]
  BY DEF Crash
<1>2. late'[m] = late[m] + Cardinality(Dying)
  BY <1>1
<1>3. Calls(m)' = Calls(m) \ Dying /\ Dying \subseteq Calls(m)
  <2>1. \A t \in Tick : /\ call'[t] = IF t[1] = p THEN "none" ELSE call[t]
                        /\ current'[t] = IF t[1] = p THEN NoMsg ELSE current[t]
    BY DEF Crash
  <2> QED
    BY <2>1, ConstantsAssumption DEF Calls
<1>4. IsFiniteSet(Dying) /\ Cardinality(Dying) \in Nat
  BY <1>3, CallsFinite, FS_Subset, FS_CardinalityType
<1> HIDE DEF Dying
<1>5. Cardinality(Calls(m) \ Dying) = Cardinality(Calls(m)) - Cardinality(Dying)
  <2>1. Calls(m) \cap Dying = Dying
    BY <1>3
  <2> QED
    BY <2>1, CallsFinite, FS_Difference
<1>6. InFlight(m) = late[m] + Cardinality(Calls(m))
      /\ InFlight(m)' = late'[m] + Cardinality(Calls(m)')
  BY DEF InFlight, Calls
<1> QED
  BY <1>2, <1>3, <1>4, <1>5, <1>6, CallsFinite DEF TypeOK

-----------------------------------------------------------------------------
(* ScheduledMessages implements MessageDelivery: the steps                   *)

\* A row that no request overwrites blindly, in a step of one tick.
Free(m) == m \notin overwritten /\ m \notin overwritten'

LEMMA HeldOnce ==
  ASSUME AttemptsInv, NEW m \in Msg \ overwritten, NEW t \in Tick, m \in batch[t]
  PROVE  /\ \A u \in Tick : m \in batch[u] => u = t
         /\ rows[m].status \in {"processing", "sent"}
         /\ rows[m].status = "processing" =>
              Phase(m) = IF current[t] = m THEN "underway" ELSE "claimed"
<1>1. \A u \in Tick : m \in batch[u] => u = t
  BY DEF AttemptsInv, HeldByOneTick
<1>2. rows[m].status \in {"processing", "sent"}
  BY DEF AttemptsInv, Held
<1>3. (\E u \in Tick : m \in batch[u] /\ current[u] = m) <=> current[t] = m
  BY <1>1
<1> QED
  BY <1>1, <1>2, <1>3 DEF Phase

LEMMA SelectImplements ==
  ASSUME DeliveryInv, NEW t \in Tick, NEW m \in Msg, Free(m), SelectDue(t)
  PROVE  Delivery(m)!Next
<1>1. /\ UNCHANGED <<rows, now, batch, current, call, late, sends, delivered, faults>>
  BY DEF SelectDue, dbVars, netVars
<1>2. PICK S \in SUBSET Due : candidates' = [candidates EXCEPT ![t] = S]
  BY DEF SelectDue
<1>3. Phase(m)' = Phase(m)
  BY <1>1, PhaseKept DEF Free
<1>4. InFlight(m)' = InFlight(m)
  BY <1>1, CallsKept
<1>5. \A u \in Tick : candidates'[u] = IF u = t THEN S ELSE candidates[u]
  BY <1>2 DEF DeliveryInv, AttemptsInv, TypeOK
<1>6. CASE m \in S
  <2>1. Picked(m)' /\ rows[m].status = "pending" /\ rows[m].scheduledAt <= now
    BY <1>2, <1>5, <1>6 DEF Picked, Due
  <2>2. Phase(m) = "pending"
    BY <2>1 DEF Phase, Free
  <2> QED
    BY <1>1, <1>3, <1>4, <2>1, <2>2
       DEF Delivery!Next, Delivery!Pick, Delivery!wire, Delivery!clock, Picked
<1>7. CASE m \notin S
  <2>1. Picked(m)' => Picked(m)
    BY <1>5, <1>7 DEF Picked
  <2> QED
    BY <1>1, <1>3, <1>4, <2>1, Quiet
<1> QED
  BY <1>6, <1>7

LEMMA ClaimImplements ==
  ASSUME DeliveryInv, NEW t \in Tick, NEW m \in Msg, Free(m),
         ClaimDueMessages(t) \/ ClaimFails(t)
  PROVE  Delivery(m)!Next
<1> USE DEF DeliveryInv, AttemptsInv
<1>1. /\ batch[t] = {} /\ current[t] = NoMsg /\ NoMsg # m
      /\ UNCHANGED <<now, current, call, late, sends, delivered>>
  BY ConstantsAssumption DEF ClaimDueMessages, ClaimFails, TickShape, InCall, netVars
<1>2. faults \in Nat /\ (faults' = faults \/ faults' = faults + 1)
      /\ (ClaimFails(t) => faults' = faults + 1)
  BY DEF ClaimDueMessages, ClaimFails, Fault, TypeOK
<1>3. InFlight(m)' = InFlight(m)
  BY <1>1, CallsKept
<1>4. \A u \in Tick : candidates'[u] = IF u = t THEN {} ELSE candidates[u]
  BY DEF ClaimDueMessages, ClaimFails, TypeOK
<1>5. Picked(m)' => Picked(m)
  BY <1>4 DEF Picked
<1>6. CASE rows'[m] = rows[m] /\ \A u \in Tick : m \in batch'[u] <=> m \in batch[u]
  <2>1. Phase(m)' = Phase(m)
    BY <1>1, <1>6, PhaseKept DEF Free
  <2> QED
    BY <1>1, <1>2, <1>3, <1>5, <1>6, <2>1, Quiet
<1>7. CASE m \in Claimable(t) /\ rows'[m] = AfterClaim(t)[m]
  <2>1. rows[m].status = "pending" /\ m \in candidates[t]
    BY <1>7 DEF Claimable
  <2>2. \A u \in Tick : m \notin batch[u]
    BY <2>1 DEF Held, Free
  <2>3. rows'[m] = WithStatus(rows[m], "processing") /\ rows[m] \in Row
    BY <1>7 DEF AfterClaim, TypeOK
  <2>4. rows'[m].status = "processing" /\ rows'[m].scheduledAt = rows[m].scheduledAt
    BY <2>3 DEF WithStatus, Row
  <2>5. Phase(m) = "pending" /\ Picked(m)
    BY <2>1 DEF Phase, Picked, Free
  <2>6. CASE ClaimFails(t)
    <3>1. Phase(m)' = "stranded" /\ faults' > 0
      BY <1>2, <2>2, <2>4, <2>6 DEF Phase, Free, ClaimFails
    <3> QED
      BY <1>1, <1>3, <2>4, <2>5, <3>1
         DEF Delivery!Next, Delivery!Strand, Delivery!wire, Delivery!clock, Picked
  <2>7. CASE ClaimDueMessages(t)
    <3>1. batch' = [batch EXCEPT ![t] = Claimable(t)] /\ faults' = faults
      BY <2>7 DEF ClaimDueMessages
    <3>2. \A u \in Tick : m \in batch'[u] <=> u = t
      BY <1>7, <2>2, <3>1 DEF TypeOK
    <3>3. Phase(m)' = "claimed"
      BY <1>1, <2>4, <3>2 DEF Phase, Free
    <3> QED
      BY <1>1, <1>3, <2>4, <2>5, <3>1, <3>3
         DEF Delivery!Next, Delivery!Claim, Delivery!wire, Delivery!clock, Picked
  <2> QED
    BY <2>6, <2>7
<1>8. CASE ClaimDueMessages(t) /\ m \notin Claimable(t)
  <2>1. batch' = [batch EXCEPT ![t] = Claimable(t)] /\ rows'[m] = rows[m]
    BY <1>8 DEF ClaimDueMessages, AfterClaim
  <2>2. \A u \in Tick : m \in batch'[u] <=> m \in batch[u]
    BY <1>1, <1>8, <2>1 DEF TypeOK
  <2> QED
    BY <1>6, <2>1, <2>2
<1> QED
  BY <1>6, <1>7, <1>8 DEF ClaimDueMessages, ClaimFails, AfterClaim

LEMMA SendImplements ==
  ASSUME DeliveryInv, NEW t \in Tick, NEW m \in Msg, Free(m), Send(t)
  PROVE  Delivery(m)!Next
<1> USE DEF DeliveryInv, AttemptsInv
<1>1. /\ current[t] = NoMsg /\ NoMsg # m
      /\ UNCHANGED <<rows, now, batch, candidates, late, delivered, faults>>
  BY ConstantsAssumption DEF Send, TickShape, InCall, dbVars
<1>2. PICK n \in batch[t] : /\ current' = [current EXCEPT ![t] = n]
                            /\ sends' = [sends EXCEPT ![n] = @ + 1]
  BY DEF Send
<1>3. /\ call' = [call EXCEPT ![t] = "sent"] /\ n \in Msg
      /\ \A u \in Tick : current'[u] = IF u = t THEN n ELSE current[u]
      /\ \A u \in Tick : call'[u] = IF u = t THEN "sent" ELSE call[u]
  BY <1>2 DEF Send, TypeOK
<1>4. CASE m # n
  <2>1. InFlight(m)' = InFlight(m)
    BY <1>1, <1>3, <1>4, CallsKept
  <2>2. Phase(m)' = Phase(m)
    BY <1>1, <1>3, <1>4, PhaseKept DEF Free
  <2>3. sends'[m] = sends[m] /\ (Picked(m)' => Picked(m))
    BY <1>1, <1>2, <1>4 DEF TypeOK, Picked
  <2> QED
    BY <1>1, <2>1, <2>2, <2>3, Quiet
<1>5. CASE m = n
  <2>1. m \in batch[t] /\ current[t] # m
    BY <1>1, <1>2, <1>5
  <2>2. rows[m].status = "processing" /\ Waiting(t, m) /\ RowCounted(m)
    BY <2>1 DEF HoldInv, Held, Free
  <2>3. Phase(m) = "claimed"
    BY <2>1, <2>2, HeldOnce DEF Free
  <2>4. Phase(m)' = "underway"
    BY <1>1, <1>3, <1>5, <2>1, <2>2 DEF Phase, Free
  <2>5. sends[m] < MaxAttempts /\ sends'[m] = sends[m] + 1
    <3>1. sends[m] \in Nat /\ rows[m].retryCount \in Nat
      BY DEF TypeOK, Row
    <3>2. sends'[m] = sends[m] + 1
      BY <1>2, <1>5 DEF TypeOK
    <3> QED
      BY <2>2, <3>1, <3>2, CapType DEF Waiting, RowCounted
  <2>6. InFlight(m)' = InFlight(m) + 1
    <3>1. t \notin Calls(m) /\ Calls(m)' = Calls(m) \cup {t}
      BY <1>3, <1>5, <2>1 DEF Calls
    <3> QED
      BY <1>1, <3>1, CallStarted DEF TypeOK
  <2> QED
    BY <1>1, <2>3, <2>4, <2>5, <2>6
       DEF Delivery!Next, Delivery!Send, Delivery!wire, Delivery!clock, Picked
<1> QED
  BY <1>4, <1>5

LEMMA ReplyImplements ==
  ASSUME DeliveryInv, NEW t \in Tick, NEW m \in Msg, Free(m), ReplyOk(t) \/ ReplyError(t)
  PROVE  Delivery(m)!Next
<1> USE DEF DeliveryInv, AttemptsInv
<1>1. /\ UNCHANGED <<rows, now, batch, current, candidates, sends, delivered, faults>>
      /\ call' = [call EXCEPT ![t] = "none"] /\ current[t] \in Msg /\ late \in [Msg -> Nat]
  BY DEF ReplyOk, ReplyError, CatchSendError, dbVars, netVars, TypeOK
<1>2. \A u \in Tick : call'[u] = IF u = t THEN "none" ELSE call[u]
  BY <1>1 DEF TypeOK
<1>3. Phase(m)' = Phase(m) /\ (Picked(m)' => Picked(m))
  BY <1>1, PhaseKept DEF Free, Picked
<1>4. CASE t \notin Calls(m)
  <2>1. late'[m] = late[m]
    <3>1. current[t] # m \/ call[t] # "sent"
      BY <1>4 DEF Calls
    <3> QED
      BY <1>1, <3>1 DEF ReplyOk, ReplyError, netVars
  <2>2. InFlight(m)' = InFlight(m)
    BY <1>1, <1>2, <1>4, <2>1, CallsKept DEF Calls
  <2> QED
    BY <1>1, <1>3, <2>2, Quiet
<1>5. CASE t \in Calls(m)
  <2>1. current[t] = m /\ call[t] = "sent"
    BY <1>5 DEF Calls
  <2>2. late'[m] = late[m] \/ late'[m] = late[m] + 1
    BY <1>1, <2>1 DEF ReplyOk, ReplyError
  <2>3. Calls(m)' = Calls(m) \ {t}
    BY <1>1, <1>2 DEF Calls
  <2>4. \/ InFlight(m)' = InFlight(m)
        \/ InFlight(m) > 0 /\ InFlight(m)' = InFlight(m) - 1
    BY <1>1, <1>5, <2>2, <2>3, CallEnded
  <2>5. CASE InFlight(m)' = InFlight(m)
    BY <1>1, <1>3, <2>5, Quiet
  <2>6. CASE InFlight(m) > 0 /\ InFlight(m)' = InFlight(m) - 1
    BY <1>1, <1>3, <2>6
       DEF Delivery!Next, Delivery!Lose, Delivery!wire, Delivery!clock, Picked
  <2> QED
    BY <2>4, <2>5, <2>6
<1> QED
  BY <1>4, <1>5

\* The outcomes a save may record.
Recorded(m, s) ==
  \/ s = "sent" /\ delivered[m] > 0
  \/ s = "failed"
  \/ s = "pending" /\ sends[m] < MaxAttempts

LEMMA OutcomeSaved ==
  ASSUME DeliveryInv, NEW t \in Tick, NEW m \in Msg, Free(m), current[t] = m,
         pc[t] = "saveUpdate", rows' = AfterSave(t)
  PROVE  /\ Phase(m) = "underway" \/ (Phase(m) = "sent" /\ faults > 0)
         /\ Phase(m)' = rows'[m].status /\ Recorded(m, rows'[m].status)
         /\ entity[t][m].status = "sent" => rows'[m].status = "sent"
<1> USE DEF DeliveryInv, AttemptsInv
<1>1. m \in batch[t] /\ Underway(t, m) /\ RowCounted(m) /\ HoldInv(m) /\ SentInv(m)
  BY DEF TickShape, InCall, Held, Free
<1>2. rows'[m] = Written(entity[t][m], rows[m], diff[t])
  BY DEF AfterSave, TypeOK
<1>3. faults \in Nat /\ sends[m] \in Nat /\ delivered[m] \in Nat /\ rows[m].retryCount \in Nat
  BY DEF TypeOK, Row
<1>4. entity[t][m].status = "sent" \/ rows[m].status = "sent" => delivered[m] > 0
  BY <1>1 DEF SentInv, Unsent
<1>5. Recorded(m, entity[t][m].status)
  <2>1. entity[t][m].status \in {"sent", "failed", "pending"}
    BY <1>1 DEF Underway
  <2>2. entity[t][m].status = "pending" => sends[m] < MaxAttempts
    <3>1. ASSUME entity[t][m].status = "pending"
          PROVE  /\ "retryCount" \in Hydrated /\ rows[m].retryCount < RETRY_LIMIT
                 /\ sends[m] <= rows[m].retryCount + 1
      BY <1>1, <3>1 DEF Underway, RowCounted
    <3> QED
      BY <1>3, <3>1, ConstantsAssumption DEF MaxAttempts
  <2> QED
    BY <1>4, <2>1, <2>2 DEF Recorded
<1>6. CASE rows[m].status = "processing"
  <2>1. rows'[m].status = entity[t][m].status
    BY <1>1, <1>2, <1>6 DEF HoldInv, Written
  <2>2. Phase(m) = "underway"
    BY <1>1, <1>6, HeldOnce DEF Free
  <2> QED
    BY <1>5, <2>1, <2>2 DEF Phase, Free, Recorded
<1>7. CASE rows[m].status = "sent"
  <2>1. rows'[m].status \in {entity[t][m].status, "sent"}
    BY <1>2, <1>7 DEF Written
  <2>2. Phase(m) = "sent" /\ faults > 0
    BY <1>1, <1>3, <1>7 DEF Phase, Free, HoldInv
  <2>3. Recorded(m, rows'[m].status)
    BY <1>4, <1>5, <1>7, <2>1 DEF Recorded
  <2> QED
    BY <2>1, <2>2, <2>3 DEF Phase, Free, Recorded
<1> QED
  BY <1>1, <1>6, <1>7, HeldOnce DEF Free

LEMMA SavedImplements ==
  ASSUME DeliveryInv, TypeOK', NEW t \in Tick, NEW m \in Msg, Free(m), current[t] = m,
         pc[t] = "saveUpdate", rows' = AfterSave(t), faults > 0 => faults' > 0,
         UNCHANGED <<now, candidates, sends, delivered>>, InFlight(m)' = InFlight(m)
  PROVE  Delivery(m)!Next
<1>1. /\ Phase(m) = "underway" \/ (Phase(m) = "sent" /\ faults > 0)
      /\ Phase(m)' = rows'[m].status /\ Recorded(m, rows'[m].status)
  BY OutcomeSaved
<1>2. rows'[m].scheduledAt \in 0..MaxTime
  BY DEF TypeOK, Row
<1>3. Delivery(m)!Outcome
  BY <1>1 DEF Recorded, Delivery!Outcome
<1> QED
  BY <1>1, <1>2, <1>3
     DEF Delivery!Next, Delivery!Settle, Delivery!Unsettle, Delivery!wire, Picked

LEMMA SaveImplements ==
  ASSUME DeliveryInv, TypeOK', NEW t \in Tick, NEW m \in Msg, Free(m),
         SaveSelect(t) \/ SaveUpdate(t) \/ SaveFails(t)
  PROVE  Delivery(m)!Next
<1> USE DEF DeliveryInv, AttemptsInv
<1>1. /\ UNCHANGED <<now, candidates, call, late, sends, delivered>>
      /\ current[t] \in Msg /\ current[t] \in batch[t] /\ call[t] = "none" /\ InCall(t)
      /\ pc[t] \in {"saveSelect", "saveUpdate"} /\ NoMsg # m
  BY ConstantsAssumption DEF SaveSelect, SaveUpdate, SaveFails, TickShape, InCall, TypeOK,
     dbVars, netVars
<1>2. faults \in Nat /\ (faults > 0 => faults' > 0) /\ (SaveFails(t) => faults' > 0)
  BY DEF SaveSelect, SaveUpdate, SaveFails, Fault, TypeOK
<1>3. \A u \in Tick \ {t} : batch'[u] = batch[u] /\ current'[u] = current[u]
  BY DEF SaveSelect, SaveUpdate, SaveFails, NextMessage, AbandonBatch, CatchSendError, TypeOK
<1>4. InFlight(m)' = InFlight(m)
  BY <1>1, <1>3, CallsKept
<1>5. \/ rows' = rows
      \/ rows' = AfterSave(t) /\ pc[t] = "saveUpdate"
  BY DEF SaveSelect, SaveUpdate, SaveFails, dbVars
<1>6. CASE rows' = AfterSave(t) /\ pc[t] = "saveUpdate" /\ m = current[t]
  BY <1>1, <1>2, <1>4, <1>6, SavedImplements
<1>7. ASSUME rows'[m] = rows[m], m \notin batch[t] \/ rows[m].status # "processing",
             m \notin batch'[t] \/ rows[m].status # "processing"
      PROVE  Delivery(m)!Next
  <2>1. Phase(m)' = Phase(m)
    BY <1>3, <1>7, PhaseKept DEF Free
  <2> QED
    BY <1>1, <1>2, <1>4, <1>7, <2>1, Quiet DEF Picked
<1>8. ASSUME rows'[m] = rows[m], m \in batch[t], m \in batch'[t],
             current'[t] = m <=> current[t] = m
      PROVE  Delivery(m)!Next
  <2>1. Phase(m)' = Phase(m)
    BY <1>3, <1>8, PhaseKept DEF Free
  <2> QED
    BY <1>1, <1>2, <1>4, <1>8, <2>1, Quiet DEF Picked
<1>9. ASSUME rows'[m] = rows[m], m \in batch[t], batch'[t] = {}, SaveFails(t),
             rows[m].status = "processing"
      PROVE  Delivery(m)!Next
  <2>1. Phase(m) \in {"claimed", "underway"} /\ \A u \in Tick : m \notin batch'[u]
    BY <1>3, <1>9, HeldOnce DEF Free
  <2>2. Phase(m)' = "stranded"
    BY <1>9, <2>1 DEF Phase, Free
  <2> QED
    BY <1>1, <1>2, <1>4, <1>9, <2>1, <2>2
       DEF Delivery!Next, Delivery!Strand, Delivery!wire, Delivery!clock, Picked
<1>10. CASE m # current[t] \/ rows' = rows
  <2>1. rows'[m] = rows[m]
    BY <1>1, <1>5, <1>10 DEF AfterSave, TypeOK
  <2>2. CASE UNCHANGED <<batch, current>>
    BY <1>7, <1>8, <2>1, <2>2
  <2>3. CASE NextMessage(t) /\ (m = current[t] => rows[m].status # "processing")
    <3>1. batch'[t] = batch[t] \ {current[t]} /\ current'[t] = NoMsg
      BY <2>3 DEF NextMessage, TypeOK
    <3> QED
      BY <1>1, <1>7, <1>8, <2>1, <2>3, <3>1
  <2>4. CASE batch'[t] = {} /\ SaveFails(t)
    BY <1>7, <1>9, <2>1, <2>4
  <2>5. CASE SaveSelect(t)
    <3>1. SaveDiff(t) = {} /\ m = current[t] => rows[m].status # "processing"
      BY <1>1, SavedStatus DEF Free
    <3> QED
      BY <2>2, <2>3, <2>5, <3>1 DEF SaveSelect
  <2>6. CASE SaveUpdate(t) /\ m # current[t]
    BY <2>3, <2>6 DEF SaveUpdate
  <2>7. CASE SaveFails(t)
    BY <2>2, <2>4, <2>7 DEF SaveFails, AbandonBatch, TypeOK
  <2>8. SaveUpdate(t) => rows' = AfterSave(t) /\ pc[t] = "saveUpdate"
    BY DEF SaveUpdate
  <2> QED
    BY <1>6, <2>5, <2>6, <2>7, <2>8
<1> QED
  BY <1>5, <1>6, <1>10

LEMMA AcceptImplements ==
  ASSUME DeliveryInv, NEW m \in Msg, Free(m),
         \/ \E t \in Tick : Accept(t)
         \/ \E n \in Msg : AcceptLate(n)
  PROVE  Delivery(m)!Next
<1> USE DEF DeliveryInv, AttemptsInv
<1>1. /\ UNCHANGED <<rows, now, batch, current, candidates, sends, faults>>
      /\ late \in [Msg -> Nat] /\ late[m] \in Nat
  BY DEF Accept, AcceptLate, dbVars, tickVars, TypeOK
<1>2. Phase(m)' = Phase(m) /\ (Picked(m)' => Picked(m))
  BY <1>1, PhaseKept DEF Free, Picked
<1>3. CASE InFlight(m)' = InFlight(m) /\ delivered'[m] = delivered[m]
  BY <1>1, <1>2, <1>3, Quiet
<1>4. CASE /\ InFlight(m) > 0 /\ InFlight(m)' = InFlight(m) - 1
           /\ delivered'[m] = delivered[m] + 1
  BY <1>1, <1>2, <1>4
     DEF Delivery!Next, Delivery!Deliver, Delivery!wire, Delivery!clock, Picked
<1>5. ASSUME NEW t \in Tick, Accept(t)
      PROVE  Delivery(m)!Next
  <2>1. /\ call[t] = "sent" /\ call' = [call EXCEPT ![t] = "accepted"] /\ late' = late
        /\ delivered' = [delivered EXCEPT ![current[t]] = @ + 1] /\ current[t] \in Msg
    BY <1>5 DEF Accept, TypeOK
  <2>2. \A u \in Tick : call'[u] = IF u = t THEN "accepted" ELSE call[u]
    BY <2>1 DEF TypeOK
  <2>3. CASE current[t] = m
    <3>1. t \in Calls(m) /\ Calls(m)' = Calls(m) \ {t}
      BY <1>1, <2>1, <2>2, <2>3 DEF Calls
    <3>2. InFlight(m) > 0 /\ InFlight(m)' = InFlight(m) - 1
      BY <1>1, <2>1, <3>1, CallEnded
    <3> QED
      BY <1>4, <2>1, <2>3, <3>2 DEF TypeOK
  <2>4. CASE current[t] # m
    <3>1. InFlight(m)' = InFlight(m)
      BY <1>1, <2>1, <2>2, <2>4, CallsKept
    <3> QED
      BY <1>3, <2>1, <2>4, <3>1 DEF TypeOK
  <2> QED
    BY <2>3, <2>4
<1>6. ASSUME NEW n \in Msg, AcceptLate(n)
      PROVE  Delivery(m)!Next
  <2>1. /\ late[n] > 0 /\ late' = [late EXCEPT ![n] = @ - 1] /\ call' = call
        /\ delivered' = [delivered EXCEPT ![n] = @ + 1]
    BY <1>6 DEF AcceptLate, tickVars
  <2>2. Calls(m)' = Calls(m) /\ Cardinality(Calls(m)) \in Nat
    BY <1>1, <2>1, CallsFinite DEF Calls
  <2>3. /\ InFlight(m) = late[m] + Cardinality(Calls(m))
        /\ InFlight(m)' = late'[m] + Cardinality(Calls(m))
    BY <2>2 DEF InFlight, Calls
  <2>4. CASE n = m
    <3>1. late[m] > 0 /\ late'[m] = late[m] - 1 /\ delivered'[m] = delivered[m] + 1
      BY <1>1, <2>1, <2>4 DEF TypeOK
    <3> QED
      BY <1>1, <1>4, <2>2, <2>3, <3>1
  <2>5. CASE n # m
    BY <1>1, <1>3, <2>1, <2>3, <2>5 DEF TypeOK
  <2> QED
    BY <2>4, <2>5
<1> QED
  BY <1>5, <1>6

LEMMA CrashImplements ==
  ASSUME DeliveryInv, NEW p \in Pod, NEW m \in Msg, Free(m), Crash(p)
  PROVE  Delivery(m)!Next
<1> USE DEF DeliveryInv, AttemptsInv
<1>1. UNCHANGED <<rows, now, sends, delivered>> /\ faults' > 0 /\ NoMsg # m
  BY ConstantsAssumption DEF Crash, Fault, dbVars, TypeOK
<1>2. \A t \in Tick : /\ batch'[t] = IF t[1] = p THEN {} ELSE batch[t]
                      /\ current'[t] = IF t[1] = p THEN NoMsg ELSE current[t]
                      /\ candidates'[t] = IF t[1] = p THEN {} ELSE candidates[t]
  BY DEF Crash
<1>3. InFlight(m)' = InFlight(m) /\ (Picked(m)' => Picked(m))
  BY <1>2, CallsDie DEF Picked
<1>4. CASE \E t \in Tick : t[1] = p /\ m \in batch[t] /\ rows[m].status = "processing"
  <2>1. PICK t \in Tick : t[1] = p /\ m \in batch[t] /\ rows[m].status = "processing"
    BY <1>4
  <2>2. Phase(m) \in {"claimed", "underway"} /\ \A u \in Tick : m \in batch[u] => u = t
    BY <2>1, HeldOnce DEF Free
  <2>3. \A u \in Tick : m \notin batch'[u]
    BY <1>2, <2>1, <2>2
  <2>4. Phase(m)' = "stranded"
    BY <1>1, <2>1, <2>3 DEF Phase, Free
  <2> QED
    BY <1>1, <1>3, <2>2, <2>4
       DEF Delivery!Next, Delivery!Strand, Delivery!wire, Delivery!clock, Picked
<1>5. CASE ~\E t \in Tick : t[1] = p /\ m \in batch[t] /\ rows[m].status = "processing"
  <2>1. Phase(m)' = Phase(m)
    BY <1>1, <1>2, <1>5, PhaseKept DEF Free
  <2> QED
    BY <1>1, <1>3, <2>1, Quiet
<1> QED
  BY <1>4, <1>5

LEMMA RequestImplements ==
  ASSUME DeliveryInv, TypeOK', NEW c \in Client, NEW m \in Msg, Free(m), RequestStep(c)
  PROVE  Delivery(m)!Next
<1> USE DEF DeliveryInv, AttemptsInv
<1>1. UNCHANGED <<now, batch, current, candidates, call, late, sends, delivered, faults>>
  BY DEF RequestStep, LoadForUpdate, LoadForCancel, Load, RequestSaveSelect,
         RequestSaveUpdate, RequestFails, tickVars, netVars, dbVars
<1>2. InFlight(m)' = InFlight(m) /\ (Picked(m)' <=> Picked(m))
  BY <1>1, CallsKept DEF Picked
<1>3. CASE rows'[m] = rows[m]
  <2>1. Phase(m)' = Phase(m)
    BY <1>1, <1>3, PhaseKept DEF Free
  <2> QED
    BY <1>1, <1>2, <1>3, <2>1, Quiet
<1>4. CASE RequestSaveUpdate(c) /\ m = target[c]
  <2>1. /\ rows' = [rows EXCEPT ![target[c]] = Written(draft[c], @, rdiff[c])]
        /\ draft[c].status \in {"pending", "cancelled"} /\ rows[m].status # "absent"
        /\ ~Blind(c)
    BY <1>4 DEF RequestSaveUpdate, DraftShape, Free
  <2>2. \/ rows'[m].status = rows[m].status
        \/ rows[m].status = "pending" /\ rows'[m].status = "cancelled"
    BY <1>4, <2>1 DEF Written, Blind, TypeOK
  <2>3. rows'[m].scheduledAt \in 0..MaxTime
    BY DEF TypeOK, Row
  <2>4. CASE rows'[m].status = rows[m].status
    <3>1. Phase(m)' = Phase(m) /\ Phase(m) # "absent"
      BY <1>1, <2>1, <2>4, PhaseKept DEF Free, Phase
    <3> QED
      BY <1>1, <1>2, <2>3, <3>1 DEF Delivery!Next, Delivery!Edit, Delivery!wire, Picked
  <2>5. CASE rows[m].status = "pending" /\ rows'[m].status = "cancelled"
    <3>1. Phase(m) = "pending" /\ Phase(m)' = "cancelled"
      BY <2>5 DEF Phase, Free
    <3> QED
      BY <1>1, <1>2, <2>3, <3>1 DEF Delivery!Next, Delivery!Cancel, Delivery!wire, Picked
  <2> QED
    BY <2>2, <2>4, <2>5
<1>5. rows'[m] = rows[m] \/ (RequestSaveUpdate(c) /\ m = target[c])
  BY DEF RequestStep, LoadForUpdate, LoadForCancel, Load, RequestSaveSelect,
         RequestSaveUpdate, RequestFails, dbVars, TypeOK
<1> QED
  BY <1>3, <1>4, <1>5

LEMMA OtherImplements ==
  ASSUME DeliveryInv, TypeOK', NEW m \in Msg, Free(m),
         \/ \E n \in Msg : Create(n)
         \/ LockExpires \/ Advance \/ UNCHANGED vars
  PROVE  Delivery(m)!Next
<1> USE DEF DeliveryInv, AttemptsInv
<1>1. UNCHANGED <<batch, current, candidates, call, late, sends, delivered, faults>>
  BY DEF Create, LockExpires, Advance, vars, tickVars, netVars
<1>2. InFlight(m)' = InFlight(m) /\ (Picked(m)' <=> Picked(m))
  BY <1>1, CallsKept DEF Picked
<1>3. CASE rows'[m] = rows[m]
  <2>1. Phase(m)' = Phase(m)
    BY <1>1, <1>3, PhaseKept DEF Free
  <2>2. CASE now' = now
    BY <1>1, <1>2, <1>3, <2>1, <2>2, Quiet
  <2>3. CASE now' = now + 1
    BY <1>1, <1>2, <1>3, <2>1, <2>3
       DEF Delivery!Next, Delivery!Advance, Delivery!wire, Picked
  <2> QED
    BY <2>2, <2>3 DEF Create, LockExpires, Advance, vars, dbVars
<1>4. CASE Create(m)
  <2>1. /\ rows[m].status = "absent" /\ rows'[m].status = "pending" /\ now' = now
        /\ rows'[m].scheduledAt > now /\ rows'[m].scheduledAt \in 0..MaxTime
    BY <1>4 DEF Create, InReach, TypeOK
  <2>2. Phase(m) = "absent" /\ Phase(m)' = "pending"
    BY <2>1 DEF Phase, Free
  <2> QED
    BY <1>1, <1>2, <2>1, <2>2 DEF Delivery!Next, Delivery!Schedule, Delivery!wire, Picked
<1> QED
  BY <1>3, <1>4 DEF Create, LockExpires, Advance, vars, dbVars, TypeOK

LEMMA TickImplements ==
  ASSUME DeliveryInv, TypeOK', NEW t \in Tick, NEW m \in Msg, Free(m), TickStep(t)
  PROVE  Delivery(m)!Next
<1>1. CASE \/ AcquireLock(t) \/ AcquireReplyLost(t) \/ ReleaseLock(t) \/ ReleaseFails(t)
  <2>1. /\ UNCHANGED <<rows, now, batch, current, candidates, call, late, sends, delivered>>
        /\ faults > 0 => faults' > 0
    BY <1>1 DEF AcquireLock, AcquireReplyLost, ReleaseLock, ReleaseFails, Fault, tickVars,
       dbVars, netVars, DeliveryInv, AttemptsInv, TypeOK
  <2>2. InFlight(m)' = InFlight(m) /\ (Picked(m)' => Picked(m)) /\ Phase(m)' = Phase(m)
    BY <2>1, CallsKept, PhaseKept DEF Picked, Free
  <2> QED
    BY <2>1, <2>2, Quiet
<1> QED
  BY <1>1, SelectImplements, ClaimImplements, SendImplements, ReplyImplements,
     SaveImplements, AcceptImplements DEF TickStep, Progress

LEMMA DeliveryInitial ==
  ASSUME Init, NEW m \in Msg
  PROVE  Delivery(m)!Init
<1>1. Phase(m) = "absent" /\ ~Picked(m)
  BY DEF Init, NoRow, Phase, Picked
<1>2. InFlight(m) = 0
  <2>1. Calls(m) = {}
    BY DEF Init, Calls
  <2>2. InFlight(m) = late[m] + Cardinality(Calls(m))
    BY DEF InFlight, Calls
  <2> QED
    BY <2>1, <2>2, FS_EmptySet DEF Init
<1> QED
  BY <1>1, <1>2 DEF Init, NoRow, Delivery!Init, Picked

LEMMA DeliveryImplements ==
  ASSUME DeliveryInv, [Next]_vars, NEW m \in Msg
  PROVE  Delivery(m)!Next
<1>1. CASE m \in overwritten'
  <2>1. faults > 0 => faults' > 0
    <3>1. faults' = faults \/ Fault
      BY TickFrame DEF Next, RequestStep, LoadForUpdate, LoadForCancel, Load,
         RequestSaveSelect, RequestSaveUpdate, RequestFails, Crash, Create, AcceptLate,
         LockExpires, Advance, vars
    <3> QED
      BY <3>1 DEF Fault, DeliveryInv, AttemptsInv, TypeOK
  <2>2. Phase(m)' = "void"
    BY <1>1 DEF Phase
  <2> QED
    BY <2>1, <2>2 DEF Delivery!Next, Delivery!Overwrite
<1>2. CASE m \notin overwritten'
  <2>1. Free(m) /\ TypeOK'
    BY <1>2, OverwrittenGrows, TypeStep DEF Free, DeliveryInv, AttemptsInv
  <2> QED
    BY <2>1, TickImplements, CrashImplements, RequestImplements, AcceptImplements,
       OtherImplements DEF Next
<1> QED
  BY <1>1, <1>2

\* Every message of every behaviour lives the life that MessageDelivery promises, for every
\* number of pods, overlapping ticks, requests and faults.
THEOREM MessagesAreDelivered == Spec => DeliveryPromised
<1>1. Init => \A m \in Msg : Delivery(m)!Init
  BY DeliveryInitial
<1>2. DeliveryInv /\ [Next]_vars
        => [\A m \in Msg : Delivery(m)!Next \/ UNCHANGED Delivery(m)!vars]_vars
  BY DeliveryImplements
<1> QED
  BY <1>1, <1>2, DeliveryInvariant, PTL DEF Spec, DeliveryPromised
=============================================================================
