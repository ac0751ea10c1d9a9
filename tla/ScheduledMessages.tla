------------------------- MODULE ScheduledMessages -------------------------
(* The scheduled_messages table, the pods whose cron tick claims the due    *)
(* rows and sends them, the Redis lock around a tick, and the HTTP requests *)
(* that edit or cancel a row meanwhile.                                     *)
EXTENDS Integers, FiniteSets

CONSTANTS
  Msg,                \* ids the database may generate
  Pod,                \* instances of the service
  Slot,               \* invocations of the cron handler one pod may overlap
  Client,             \* API requests, each issued at most once
  Content,            \* bodies a message may have
  MaxTime,            \* bound on the clock
  Horizon,            \* MAX_SCHEDULE_HORIZON_MS, in clock units
  PROCESS_BATCH_SIZE,
  RETRY_LIMIT,
  Hydrated,           \* properties of the entity that survive UPDATE ... RETURNING *
  MaxFaults           \* bound on crashes and on failures of the database and Redis

Column     == {"status", "content", "scheduledAt", "retryCount"}
Recipient  == {"userId", "conversationId"}
Status     == {"absent", "pending", "processing", "sent", "cancelled", "failed"}
ErrorKind  == {"transient", "permanent", "timeout"}
NoOwner    == "no owner"
Orphan     == "dead process"
Owner      == Pod \cup {NoOwner, Orphan}
Tick       == Pod \X Slot
NoMsg      == "no message"

ASSUME ConstantsAssumption ==
  /\ MaxTime \in Nat /\ Horizon \in Nat /\ PROCESS_BATCH_SIZE \in Nat \ {0}
  /\ RETRY_LIMIT \in Nat /\ MaxFaults \in Nat
  /\ IsFiniteSet(Pod) /\ IsFiniteSet(Slot) /\ Content # {}
  /\ NoMsg \notin Msg /\ Pod \cap {NoOwner, Orphan} = {}

\* The driver names a column "status" or "content" as the entity does; the other
\* properties of the entity have a snake_case column.
ASSUME HydrationAssumption ==
  {"status", "content"} \subseteq Hydrated /\ Hydrated \subseteq Column \cup Recipient

Row == [status: Status, content: Content, scheduledAt: 0..MaxTime, retryCount: Nat]
NoRow == [status |-> "absent", content |-> CHOOSE c \in Content : TRUE,
          scheduledAt |-> 0, retryCount |-> 0]

VARIABLES
  now,
  rows,        \* the table
  lock,        \* value of the Redis key: the owner id of a process
  \* one invocation of processDueMessages
  pc, candidates, batch, entity, current, diff, failure, call,
  \* one API request: its row, the entity it loaded, the columns it will write
  rpc, target, draft, rdiff,
  \* the messaging service, and what observers saw
  late,        \* requests given up by the client that the service may still accept
  sends,       \* history: requests issued
  delivered,   \* history: requests accepted
  overwritten, \* history: rows whose status or counter an API request wrote blindly
  cancelled,   \* history: rows whose cancellation was acknowledged
  faults

dbVars   == <<rows, now>>
tickVars == <<pc, candidates, batch, entity, current, diff, failure, call>>
apiVars  == <<rpc, target, draft, rdiff, overwritten, cancelled>>
netVars  == <<late, sends, delivered>>
vars     == <<dbVars, lock, tickVars, apiVars, netVars, faults>>

Init ==
  /\ now = 0 /\ rows = [m \in Msg |-> NoRow]
  /\ lock = NoOwner
  /\ pc = [t \in Tick |-> "idle"] /\ candidates = [t \in Tick |-> {}]
  /\ batch = [t \in Tick |-> {}] /\ entity = [t \in Tick |-> [m \in Msg |-> NoRow]]
  /\ current = [t \in Tick |-> NoMsg] /\ diff = [t \in Tick |-> {}]
  /\ failure = [t \in Tick |-> "none"] /\ call = [t \in Tick |-> "none"]
  /\ rpc = [c \in Client |-> "idle"] /\ target = [c \in Client |-> NoMsg]
  /\ draft = [c \in Client |-> NoRow] /\ rdiff = [c \in Client |-> {}]
  /\ late = [m \in Msg |-> 0] /\ sends = [m \in Msg |-> 0]
  /\ delivered = [m \in Msg |-> 0] /\ overwritten = {} /\ cancelled = {}
  /\ faults = 0

(* Repository.save: a SELECT by id finds the loaded columns that differ, then *)
(* an UPDATE by id writes exactly those, whatever the row holds by then.      *)
Differing(e, row, known) == {f \in known \cap Column : e[f] # row[f]}
Written(e, row, cols) ==
  [status      |-> IF "status" \in cols THEN e.status ELSE row.status,
   content     |-> IF "content" \in cols THEN e.content ELSE row.content,
   scheduledAt |-> IF "scheduledAt" \in cols THEN e.scheduledAt ELSE row.scheduledAt,
   retryCount  |-> IF "retryCount" \in cols THEN e.retryCount ELSE row.retryCount]

WithStatus(e, s) == [e EXCEPT !.status = s]
Edited(e, body, at) ==
  [status |-> e.status, content |-> body, scheduledAt |-> at, retryCount |-> e.retryCount]

InReach(at) == at > now /\ at - now <= Horizon

Fault == faults < MaxFaults /\ faults' = faults + 1

-----------------------------------------------------------------------------
(* The cron tick.                                                           *)

AcquireLock(t) ==
  /\ pc[t] = "idle" /\ lock = NoOwner
  /\ lock' = t[1]
  /\ pc' = [pc EXCEPT ![t] = "select"]
  /\ UNCHANGED <<dbVars, candidates, batch, entity, current, diff, failure, call,
                 apiVars, netVars, faults>>

\* The reply to SET NX is lost; the client resends and is told "not acquired".
AcquireReplyLost(t) ==
  /\ Fault /\ pc[t] = "idle" /\ lock = NoOwner
  /\ lock' = t[1]
  /\ UNCHANGED <<dbVars, tickVars, apiVars, netVars>>

\* SET NX without EX.
LockExpiresNever == FALSE /\ UNCHANGED vars
LockExpires ==
  /\ lock # NoOwner /\ lock' = NoOwner
  /\ UNCHANGED <<dbVars, tickVars, apiVars, netVars, faults>>

\* The SELECT forgets the LessThanOrEqual(now).
DueAnyTime == {m \in Msg : rows[m].status = "pending"}
Due == {m \in Msg : rows[m].status = "pending" /\ rows[m].scheduledAt <= now}
OldestDue(S) ==
  /\ \/ S = Due /\ Cardinality(S) <= PROCESS_BATCH_SIZE
     \/ Cardinality(S) = PROCESS_BATCH_SIZE
  /\ \A m \in S, n \in Due \ S : rows[m].scheduledAt <= rows[n].scheduledAt

SelectDue(t) ==
  /\ pc[t] = "select"
  /\ \E S \in SUBSET Due :
       /\ OldestDue(S)
       /\ candidates' = [candidates EXCEPT ![t] = S]
       /\ pc' = [pc EXCEPT ![t] = IF S = {} THEN "release" ELSE "claim"]
  /\ UNCHANGED <<dbVars, lock, batch, entity, current, diff, failure, call,
                 apiVars, netVars, faults>>

\* The UPDATE of the claim forgets its status predicate.
ClaimableBlindly(t) == candidates[t]
Claimable(t) == {m \in candidates[t] : rows[m].status = "pending"}
AfterClaim(t) ==
  [m \in Msg |-> IF m \in Claimable(t) THEN WithStatus(rows[m], "processing") ELSE rows[m]]

ClaimDueMessages(t) ==
  /\ pc[t] = "claim"
  /\ rows' = AfterClaim(t)
  /\ batch' = [batch EXCEPT ![t] = Claimable(t)]
  /\ entity' = [entity EXCEPT ![t] =
       [m \in Msg |-> IF m \in Claimable(t) THEN AfterClaim(t)[m] ELSE NoRow]]
  /\ candidates' = [candidates EXCEPT ![t] = {}]
  /\ pc' = [pc EXCEPT ![t] = IF Claimable(t) = {} THEN "release" ELSE "send"]
  /\ UNCHANGED <<now, lock, current, diff, failure, call, apiVars, netVars, faults>>

\* Either query of the claim throws; the UPDATE may have been committed.
ClaimFails(t) ==
  /\ Fault
  /\ \/ pc[t] \in {"select", "claim"} /\ UNCHANGED rows
     \/ pc[t] = "claim" /\ rows' = AfterClaim(t)
  /\ candidates' = [candidates EXCEPT ![t] = {}]
  /\ pc' = [pc EXCEPT ![t] = "release"]
  /\ UNCHANGED <<now, lock, batch, entity, current, diff, failure, call,
                 apiVars, netVars>>

Send(t) ==
  /\ pc[t] = "send"
  /\ \E m \in batch[t] :
       /\ current' = [current EXCEPT ![t] = m]
       /\ sends' = [sends EXCEPT ![m] = @ + 1]
  /\ call' = [call EXCEPT ![t] = "sent"]
  /\ pc' = [pc EXCEPT ![t] = "await"]
  /\ UNCHANGED <<dbVars, lock, candidates, batch, entity, diff, failure,
                 apiVars, late, delivered, faults>>

\* `<=` for `<`.
CanRetryOnceMore(t, kind) ==
  kind = "transient" /\ "retryCount" \in Hydrated
    /\ entity[t][current[t]].retryCount <= RETRY_LIMIT
IsTransient(kind) == kind = "transient"
CanRetry(t, kind) ==
  /\ IsTransient(kind)
  /\ "retryCount" \in Hydrated /\ entity[t][current[t]].retryCount < RETRY_LIMIT

\* The retry branch returns without counting; the last branch forgets the status, swallows
\* the error, or writes a value outside the enum.
AfterErrorUncounted(t, kind) ==
  [entity[t][current[t]] EXCEPT !.status = IF CanRetry(t, kind) THEN "pending" ELSE "failed"]
AfterErrorForgotten(t, kind) == entity[t][current[t]]
AfterErrorSwallowed(t, kind) == [entity[t][current[t]] EXCEPT !.status = "sent"]
AfterErrorUnknown(t, kind) == [entity[t][current[t]] EXCEPT !.status = "error"]

\* The entity as the catch block of sendMessage leaves it before its save.
AfterError(t, kind) ==
  IF CanRetry(t, kind)
  THEN [WithStatus(entity[t][current[t]], "pending") EXCEPT !.retryCount = @ + 1]
  ELSE WithStatus(entity[t][current[t]], "failed")

CatchSendError(t, kind) ==
  /\ entity' = [entity EXCEPT ![t] = [@ EXCEPT ![current[t]] = AfterError(t, kind)]]
  /\ failure' = [failure EXCEPT ![t] = kind]
  /\ diff' = [diff EXCEPT ![t] = {}]
  /\ pc' = [pc EXCEPT ![t] = "saveSelect"]

ReplyOk(t) ==
  /\ pc[t] = "await" /\ call[t] = "accepted"
  /\ entity' = [entity EXCEPT ![t] = 
       [@ EXCEPT ![current[t]] = WithStatus(entity[t][current[t]], "sent")]]
  /\ call' = [call EXCEPT ![t] = "none"]
  /\ pc' = [pc EXCEPT ![t] = "saveSelect"]
  /\ UNCHANGED <<dbVars, lock, candidates, batch, current, diff, failure,
                 apiVars, netVars, faults>>

\* The call throws. A request not yet accepted was refused, is lost, or is still on its way.
ReplyError(t) ==
  /\ pc[t] = "await"
  /\ \E kind \in ErrorKind :
       /\ kind = "permanent" => call[t] = "sent"
       /\ CatchSendError(t, kind)
       /\ \/ UNCHANGED late
          \/ /\ kind # "permanent" /\ call[t] = "sent"
             /\ late' = [late EXCEPT ![current[t]] = @ + 1]
  /\ call' = [call EXCEPT ![t] = "none"]
  /\ UNCHANGED <<dbVars, lock, candidates, batch, current, apiVars,
                 sends, delivered, faults>>

\* The loop of processDueMessages moves to the next claimed message, if any.
NextMessage(t) ==
  /\ batch' = [batch EXCEPT ![t] = @ \ {current[t]}]
  /\ entity' = [entity EXCEPT ![t] = [@ EXCEPT ![current[t]] = NoRow]]
  /\ current' = [current EXCEPT ![t] = NoMsg]
  /\ diff' = [diff EXCEPT ![t] = {}]
  /\ failure' = [failure EXCEPT ![t] = "none"]
  /\ pc' = [pc EXCEPT ![t] = IF batch[t] = {current[t]} THEN "release" ELSE "send"]

SaveDiff(t) == Differing(entity[t][current[t]], rows[current[t]], Hydrated)

SaveSelect(t) ==
  /\ pc[t] = "saveSelect"
  /\ \/ /\ SaveDiff(t) # {}
        /\ diff' = [diff EXCEPT ![t] = SaveDiff(t)]
        /\ pc' = [pc EXCEPT ![t] = "saveUpdate"]
        /\ UNCHANGED <<batch, entity, current, failure>>
     \/ SaveDiff(t) = {} /\ NextMessage(t)
  /\ UNCHANGED <<dbVars, lock, candidates, call, apiVars, netVars, faults>>

AfterSave(t) ==
  [rows EXCEPT ![current[t]] = Written(entity[t][current[t]], @, diff[t])]

SaveUpdate(t) ==
  /\ pc[t] = "saveUpdate"
  /\ rows' = AfterSave(t)
  /\ NextMessage(t)
  /\ UNCHANGED <<now, lock, candidates, call, apiVars, netVars, faults>>

\* The tick forgets its batch and runs the finally block.
AbandonBatch(t) ==
  /\ batch' = [batch EXCEPT ![t] = {}]
  /\ entity' = [entity EXCEPT ![t] = [m \in Msg |-> NoRow]]
  /\ current' = [current EXCEPT ![t] = NoMsg]
  /\ diff' = [diff EXCEPT ![t] = {}]
  /\ failure' = [failure EXCEPT ![t] = "none"]
  /\ pc' = [pc EXCEPT ![t] = "release"]

\* save() throws, with its UPDATE committed or not. The save of "sent" is inside the
\* try of sendMessage, so its error is handled as a failure to send; an error of a
\* save of the catch block leaves the loop.
SaveFails(t) ==
  /\ Fault
  /\ \/ pc[t] \in {"saveSelect", "saveUpdate"} /\ UNCHANGED rows
     \/ pc[t] = "saveUpdate" /\ rows' = AfterSave(t)
  /\ \/ /\ entity[t][current[t]].status = "sent"
        /\ \E kind \in {"transient", "permanent"} : CatchSendError(t, kind)
        /\ UNCHANGED <<batch, current>>
     \/ entity[t][current[t]].status # "sent" /\ AbandonBatch(t)
  /\ UNCHANGED <<now, lock, candidates, call, apiVars, netVars>>

ReleaseLock(t) ==
  /\ pc[t] = "release"
  /\ lock' = IF lock = t[1] THEN NoOwner ELSE lock
  /\ pc' = [pc EXCEPT ![t] = "idle"]
  /\ UNCHANGED <<dbVars, candidates, batch, entity, current, diff, failure, call,
                 apiVars, netVars, faults>>

\* The error of EVAL is logged and swallowed.
ReleaseFails(t) ==
  /\ Fault /\ pc[t] = "release"
  /\ pc' = [pc EXCEPT ![t] = "idle"]
  /\ UNCHANGED <<dbVars, lock, candidates, batch, entity, current, diff, failure,
                 call, apiVars, netVars>>

\* The process of a pod dies and restarts with a new owner id.
Crash(p) ==
  LET lost(t) == t[1] = p IN
  /\ Fault
  /\ \E t \in Tick : lost(t) /\ pc[t] # "idle"
  /\ lock' = IF lock = p THEN Orphan ELSE lock
  /\ pc' = [t \in Tick |-> IF lost(t) THEN "idle" ELSE pc[t]]
  /\ candidates' = [t \in Tick |-> IF lost(t) THEN {} ELSE candidates[t]]
  /\ batch' = [t \in Tick |-> IF lost(t) THEN {} ELSE batch[t]]
  /\ entity' = [t \in Tick |-> IF lost(t) THEN [m \in Msg |-> NoRow] ELSE entity[t]]
  /\ current' = [t \in Tick |-> IF lost(t) THEN NoMsg ELSE current[t]]
  /\ diff' = [t \in Tick |-> IF lost(t) THEN {} ELSE diff[t]]
  /\ failure' = [t \in Tick |-> IF lost(t) THEN "none" ELSE failure[t]]
  /\ call' = [t \in Tick |-> IF lost(t) THEN "none" ELSE call[t]]
  /\ late' = [m \in Msg |-> late[m] + Cardinality({t \in Tick :
                              lost(t) /\ call[t] = "sent" /\ current[t] = m})]
  /\ UNCHANGED <<dbVars, apiVars, sends, delivered>>

-----------------------------------------------------------------------------
(* The messaging service, known by how MessagingGrpcClient uses it.          *)

Accept(t) ==
  /\ call[t] = "sent"
  /\ call' = [call EXCEPT ![t] = "accepted"]
  /\ delivered' = [delivered EXCEPT ![current[t]] = @ + 1]
  /\ UNCHANGED <<dbVars, lock, pc, candidates, batch, entity, current, diff, failure,
                 apiVars, late, sends, faults>>

AcceptLate(m) ==
  /\ late[m] > 0
  /\ late' = [late EXCEPT ![m] = @ - 1]
  /\ delivered' = [delivered EXCEPT ![m] = @ + 1]
  /\ UNCHANGED <<dbVars, lock, tickVars, apiVars, sends, faults>>

-----------------------------------------------------------------------------
(* The API, for the owner of the row (any other user gets 404).              *)

Create(m) ==
  /\ rows[m].status = "absent"
  /\ \E at \in 0..MaxTime, body \in Content :
       /\ InReach(at)
       /\ rows' = [rows EXCEPT ![m] = [status |-> "pending", content |-> body,
                                       scheduledAt |-> at, retryCount |-> 0]]
  /\ UNCHANGED <<now, lock, tickVars, apiVars, netVars, faults>>

Load(c, m) ==
  /\ rpc[c] = "idle" /\ rows[m].status = "pending"
  /\ target' = [target EXCEPT ![c] = m]
  /\ rpc' = [rpc EXCEPT ![c] = "saveSelect"]
  /\ UNCHANGED <<dbVars, lock, tickVars, rdiff, overwritten, cancelled,
                 netVars, faults>>

LoadForUpdate(c, m) ==
  /\ Load(c, m)
  /\ \E body \in Content, at \in 0..MaxTime :
       /\ at = rows[m].scheduledAt \/ InReach(at)
       /\ draft' = [draft EXCEPT ![c] = Edited(rows[m], body, at)]

LoadForCancel(c, m) ==
  /\ Load(c, m)
  /\ draft' = [draft EXCEPT ![c] = WithStatus(rows[m], "cancelled")]

\* The request has its 2xx answer.
Acknowledge(c) ==
  /\ rpc' = [rpc EXCEPT ![c] = "done"]
  /\ cancelled' = IF draft[c].status = "cancelled" THEN cancelled \cup {target[c]}
                                                   ELSE cancelled

RequestSaveSelect(c) ==
  LET cols == Differing(draft[c], rows[target[c]], Column) IN
  /\ rpc[c] = "saveSelect"
  /\ rdiff' = [rdiff EXCEPT ![c] = cols]
  /\ \/ cols = {} /\ Acknowledge(c)
     \/ cols # {} /\ rpc' = [rpc EXCEPT ![c] = "saveUpdate"] /\ UNCHANGED cancelled
  /\ UNCHANGED <<dbVars, lock, tickVars, target, draft, overwritten, netVars, faults>>

\* The UPDATE replaces a status that is no longer "pending", or the retry counter.
Blind(c) ==
  \/ "status" \in rdiff[c] /\ rows[target[c]].status # "pending"
  \/ "retryCount" \in rdiff[c]

RequestSaveUpdate(c) ==
  /\ rpc[c] = "saveUpdate"
  /\ rows' = [rows EXCEPT ![target[c]] = Written(draft[c], @, rdiff[c])]
  /\ overwritten' = IF Blind(c) THEN overwritten \cup {target[c]} ELSE overwritten
  /\ Acknowledge(c)
  /\ UNCHANGED <<now, lock, tickVars, target, draft, rdiff, netVars, faults>>

\* The request is dropped before its UPDATE is committed.
RequestFails(c) ==
  /\ rpc[c] \in {"saveSelect", "saveUpdate"}
  /\ rpc' = [rpc EXCEPT ![c] = "done"]
  /\ UNCHANGED <<dbVars, lock, tickVars, target, draft, rdiff, overwritten, cancelled,
                 netVars, faults>>

-----------------------------------------------------------------------------
Advance ==
  /\ now < MaxTime /\ now' = now + 1
  /\ UNCHANGED <<rows, lock, tickVars, apiVars, netVars, faults>>

\* What a tick does when nothing fails around it.
Progress(t) ==
  \/ SelectDue(t) \/ ClaimDueMessages(t) \/ Send(t) \/ ReplyOk(t) \/ ReplyError(t)
  \/ SaveSelect(t) \/ SaveUpdate(t) \/ ReleaseLock(t)

TickStep(t) ==
  \/ AcquireLock(t) \/ AcquireReplyLost(t) \/ Progress(t)
  \/ ClaimFails(t) \/ SaveFails(t) \/ ReleaseFails(t) \/ Accept(t)

RequestStep(c) ==
  \/ RequestSaveSelect(c) \/ RequestSaveUpdate(c) \/ RequestFails(c)
  \/ \E m \in Msg : LoadForUpdate(c, m) \/ LoadForCancel(c, m)

Next ==
  \/ \E t \in Tick : TickStep(t)
  \/ \E p \in Pod : Crash(p)
  \/ \E c \in Client : RequestStep(c)
  \/ \E m \in Msg : Create(m) \/ AcceptLate(m)
  \/ LockExpires \/ Advance

Spec == Init /\ [][Next]_vars

\* The clock runs, the key has a TTL, the cron fires every minute on every pod, and the
\* code awaits each call of a tick with a deadline of its own.
Fairness ==
  /\ WF_vars(Advance) /\ WF_vars(LockExpires)
  /\ \A t \in Tick : WF_vars(AcquireLock(t)) /\ WF_vars(Progress(t))
  /\ \A c \in Client : WF_vars(RequestSaveSelect(c) \/ RequestSaveUpdate(c))

FairSpec == Spec /\ Fairness

-----------------------------------------------------------------------------
(* Properties                                                               *)

\* Every variable keeps its type: a row's status and counter, a tick's position in
\* processDueMessages and the entity it holds, a request's draft.
TypeOK ==
  /\ now \in 0..MaxTime /\ rows \in [Msg -> Row] /\ lock \in Owner
  /\ pc \in [Tick -> {"idle", "select", "claim", "send", "await",
                       "saveSelect", "saveUpdate", "release"}]
  /\ candidates \in [Tick -> SUBSET Msg] /\ batch \in [Tick -> SUBSET Msg]
  /\ entity \in [Tick -> [Msg -> Row]] /\ current \in [Tick -> Msg \cup {NoMsg}]
  /\ \A t \in Tick : /\ pc[t] \in {"await", "saveSelect", "saveUpdate"} => current[t] \in Msg
                     /\ call[t] # "none" => pc[t] = "await"
  /\ diff \in [Tick -> SUBSET Column]
  /\ failure \in [Tick -> ErrorKind \cup {"none"}]
  /\ call \in [Tick -> {"none", "sent", "accepted"}]
  /\ rpc \in [Client -> {"idle", "saveSelect", "saveUpdate", "done"}]
  /\ target \in [Client -> Msg \cup {NoMsg}] /\ draft \in [Client -> Row]
  /\ \A c \in Client : rpc[c] # "idle" => target[c] \in Msg
  /\ rdiff \in [Client -> SUBSET Column]
  /\ late \in [Msg -> Nat] /\ sends \in [Msg -> Nat] /\ delivered \in [Msg -> Nat]
  /\ overwritten \subseteq Msg /\ cancelled \subseteq Msg /\ faults \in 0..MaxFaults

\* RETRY_LIMIT caps retries, so a row is sent at most once more than that; when the claimed
\* entity has no retryCount the comparison is false and there is no retry at all.
MaxAttempts == IF "retryCount" \in Hydrated THEN RETRY_LIMIT + 1 ELSE 1

\* However ticks, pods, lock expiries, crashes and late replies interleave, no row is sent
\* more often than the cap allows, unless an API request has overwritten it blindly.
AttemptsBounded == \A m \in Msg \ overwritten : sends[m] <= MaxAttempts

\* The conditional UPDATE of claimDueMessages gives a row to one tick at a time, with or
\* without the Redis lock.
HeldByOneTick ==
  \A m \in Msg \ overwritten : \A t, u \in Tick : m \in batch[t] \cap batch[u] => t = u

\* A row leaves "processing" by a save of the tick that claimed it: only a fault (or a blind
\* API write) leaves a processing row that no tick holds.
NoClaimForgotten ==
  \A m \in Msg \ overwritten :
    rows[m].status = "processing" => faults > 0 \/ \E t \in Tick : m \in batch[t]

\* "sent" is only ever recorded for a message the messaging service has accepted.
SentWasDelivered == \A m \in Msg : rows[m].status = "sent" => delivered[m] > 0

\* cancel() on a row still pending is final: no tick that selected the row before claims or
\* sends it, and no save of a tick replaces the status.
CancelIsFinal ==
  [][\A m \in Msg \ overwritten' :
       rows[m].status = "cancelled"
         => rows'[m].status = "cancelled" /\ sends'[m] = sends[m]]_vars

\* What the state says of one message.
Phase(m) ==
  IF m \in overwritten THEN "void"
  ELSE IF rows[m].status # "processing" THEN rows[m].status
  ELSE IF \E t \in Tick : m \in batch[t] /\ current[t] = m THEN "underway"
  ELSE IF \E t \in Tick : m \in batch[t] THEN "claimed"
  ELSE "stranded"
InFlight(m) == late[m] + Cardinality({t \in Tick : call[t] = "sent" /\ current[t] = m})

Delivery(m) == INSTANCE MessageDelivery WITH
  MaxSends <- MaxAttempts, time <- now, status <- Phase(m), at <- rows[m].scheduledAt,
  picked <- \E t \in Tick : m \in candidates[t],
  sends <- sends[m], inFlight <- InFlight(m), delivered <- delivered[m],
  trouble <- faults > 0

\* Each message lives the life MessageDelivery promises: seen due before it is claimed, one
\* call for a claim, an outcome for each claim unless something fails, "sent" only if the
\* messaging service has it, retries below the cap; the ticks of two pods, lapsed locks, late
\* deliveries and saves that fail halfway included. (\A m \in Msg : Delivery(m)!Spec.)
DeliveryPromised ==
  /\ \A m \in Msg : Delivery(m)!Init
  /\ [][\A m \in Msg : Delivery(m)!Next \/ UNCHANGED Delivery(m)!vars]_vars

\* "Plus de double-send": a row is handed to the messaging service at most once when no
\* failure makes a retry necessary.
NoDoubleSend == \A m \in Msg : sends[m] <= 1

\* A cancellation answered with 204 is honoured: nothing is sent afterwards.
CancelHonoured == [][\A m \in cancelled : sends'[m] = sends[m]]_vars

\* A transient failure, the client's own timeout included, below the cap leaves the
\* message to be retried.
TransientFailureRetried ==
  \A t \in Tick :
    failure[t] \in {"transient", "timeout"} /\ rows[current[t]].retryCount < RETRY_LIMIT
      => entity[t][current[t]].status = "pending"

\* A due row does not stay pending: after a crash of the lock's owner the key expires and
\* another tick claims it.
DueIsTaken ==
  \A m \in Msg : rows[m].status = "pending" /\ rows[m].scheduledAt <= now
                 ~> rows[m].status # "pending"

\* While nothing fails around the service, a claimed row reaches an outcome.
ClaimIsSettledWithoutFault ==
  \A m \in Msg : rows[m].status = "processing"
                 ~> rows[m].status # "processing" \/ faults > 0

\* "Fiabilite garantie": a claimed row reaches an outcome, whatever fails.
ClaimIsSettled ==
  \A m \in Msg : rows[m].status = "processing" ~> rows[m].status # "processing"

-----------------------------------------------------------------------------
(* The inductive invariant behind AttemptsBounded, HeldByOneTick and        *)
(* CancelIsFinal: what a tick knows of the rows it holds.                   *)

InCall(t) == pc[t] \in {"await", "saveSelect", "saveUpdate"}

TickShape ==
  \A t \in Tick :
    /\ IF InCall(t) THEN current[t] \in batch[t] ELSE current[t] = NoMsg
    /\ InCall(t) \/ pc[t] = "send" \/ batch[t] = {}

DraftShape ==
  \A c \in Client : rpc[c] # "idle" => draft[c].status \in {"pending", "cancelled"}

\* Every send but the one under way has been counted in retry_count.
RowCounted(m) ==
  /\ rows[m].retryCount < MaxAttempts
  /\ rows[m].status = "absent" => sends[m] = 0
  /\ rows[m].status = "pending" => sends[m] <= rows[m].retryCount
  /\ sends[m] <= rows[m].retryCount + 1

\* A claimed message before its turn, and the one the loop is at: its entity is the row,
\* or the row with one more retry counted, which the next UPDATE will write whole.
Waiting(t, m) ==
  /\ entity[t][m].status = "processing" /\ entity[t][m].retryCount = rows[m].retryCount
  /\ sends[m] <= rows[m].retryCount
Underway(t, m) ==
  /\ entity[t][m].status \in (IF pc[t] = "await" THEN {"processing"}
                                                ELSE {"sent", "failed", "pending"})
  /\ IF entity[t][m].status = "pending"
     THEN /\ "retryCount" \in Hydrated /\ rows[m].retryCount < RETRY_LIMIT
          /\ entity[t][m].retryCount = rows[m].retryCount + 1
          /\ pc[t] = "saveUpdate" => {"status", "retryCount"} \subseteq diff[t]
     ELSE /\ entity[t][m].retryCount = rows[m].retryCount
          /\ pc[t] = "saveUpdate" => "retryCount" \notin diff[t]

Held(t, m) ==
  m \in batch[t] => /\ rows[m].status \in {"processing", "sent"}
                    /\ IF current[t] = m THEN Underway(t, m) ELSE Waiting(t, m)

\* The counter of a row and the entities of the ticks agree, for every row that no API
\* request has overwritten blindly.
AttemptsInv ==
  /\ TypeOK /\ TickShape /\ DraftShape /\ HeldByOneTick
  /\ \A m \in Msg \ overwritten : RowCounted(m) /\ \A t \in Tick : Held(t, m)

-----------------------------------------------------------------------------
(* The inductive invariant behind NoClaimForgotten, SentWasDelivered and the *)
(* implementation of MessageDelivery.                                        *)

\* A held row stays "processing" up to the save of its outcome, except when that save was
\* reported as failed and had been committed; the UPDATE about to be issued changes it.
HoldInv(m) ==
  /\ \A t \in Tick : m \in batch[t] =>
       /\ current[t] # m \/ faults = 0 => rows[m].status = "processing"
       /\ current[t] = m /\ pc[t] = "saveUpdate" /\ rows[m].status = "processing"
            => "status" \in diff[t]
  /\ rows[m].status = "processing" => faults > 0 \/ \E t \in Tick : m \in batch[t]

\* "sent" is in a row, or in an entity to be saved, only once the service has the message.
Unsent(m) ==
  /\ rows[m].status # "sent"
  /\ \A t \in Tick : /\ entity[t][m].status # "sent"
                     /\ current[t] = m => call[t] # "accepted"
SentInv(m) == delivered[m] > 0 \/ Unsent(m)

DeliveryInv ==
  /\ AttemptsInv /\ \A m \in Msg : SentInv(m)
  /\ \A m \in Msg \ overwritten : HoldInv(m)
  /\ \A c \in Client :
       rpc[c] # "idle" /\ target[c] \notin overwritten => rows[target[c]].status # "absent"
=============================================================================
