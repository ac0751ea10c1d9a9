--------------------------- MODULE PromisesProofs ---------------------------
(* What the two abstract specifications are worth: the bounds and the final  *)
(* states that whatever implements them has. DeliveryProofs and              *)
(* ExecutionProofs show that the code does.                                  *)
EXTENDS Integers, TLAPS

CONSTANTS MaxTime, MaxSends

VARIABLES
  target, phase, door, starting, routed, wire, effects, placeholders, opened, completed, failed,
  faults,
  time, status, at, picked, sends, inFlight, delivered, trouble

Job     == INSTANCE JobExecution
Message == INSTANCE MessageDelivery

-----------------------------------------------------------------------------
(* An entry of the queue                                                    *)

JobTypes ==
  /\ starting \in Nat /\ routed \in Nat /\ wire \in Nat /\ effects \in Nat
  /\ placeholders \in Nat
  /\ opened \in Nat /\ completed \in Nat /\ failed \in Nat /\ faults \in Nat
JobInv == JobTypes /\ Job!Accounts

LEMMA StillPositive == \A a, b, c, d \in Int : a + b > 0 /\ c + d >= a + b => c + d > 0
  OBVIOUS

LEMMA JobStep == JobInv /\ [Job!Next]_(Job!vars) => JobInv'
<1> SUFFICES ASSUME JobInv, [Job!Next]_(Job!vars)
             PROVE  JobInv'
  OBVIOUS
<1> USE DEF Job!entry, Job!net, Job!rows
<1>1. faults' = faults \/ faults' = faults + 1
  BY DEF Job!Next, Job!Smooth, Job!Mishap, Job!vars
<1>2. ASSUME UNCHANGED <<starting, routed, wire, effects, placeholders, opened, completed, failed>>,
             phase' = "completed" => phase = "completed" \/ completed + failed > 0,
             target' = target \/ (effects = 0 /\ wire = 0 /\ placeholders = 0)
      PROVE  JobInv'
  <2>1. /\ starting' = starting /\ routed' = routed /\ wire' = wire /\ effects' = effects
        /\ placeholders' = placeholders
        /\ opened' = opened /\ completed' = completed /\ failed' = failed
    BY <1>2
  <2> QED
    BY <1>1, <1>2, <2>1 DEF JobInv, JobTypes, Job!Accounts
<1>3. CASE \/ Job!Enter \/ Job!GiveBack \/ Job!Retry \/ Job!Clean \/ Job!Close \/ Job!Complete
           \/ UNCHANGED <<Job!entry, starting, Job!net, Job!rows>> \/ UNCHANGED Job!vars
  <2>1. /\ UNCHANGED <<starting, routed, wire, effects, placeholders, opened, completed, failed>>
        /\ target' = target
    BY <1>3
       DEF Job!Enter, Job!GiveBack, Job!Retry, Job!Clean, Job!Close, Job!Complete, Job!vars
  <2>2. phase' = "completed" => phase = "completed" \/ completed + failed > 0
    BY <1>3
       DEF Job!Enter, Job!GiveBack, Job!Retry, Job!Clean, Job!Close, Job!Complete, Job!vars
  <2> QED
    BY <1>2, <2>1, <2>2
<1>4. CASE Job!Assign
  <2>1. /\ UNCHANGED <<starting, routed, wire, effects, placeholders, opened, completed, failed>>
        /\ target = "absent" /\ phase' = phase
    BY <1>4 DEF Job!Assign
  <2>2. effects = 0 /\ wire = 0 /\ placeholders = 0
    BY <2>1 DEF JobInv, Job!Accounts
  <2> QED
    BY <1>2, <2>1, <2>2
<1>5. CASE Job!Take
  <2>1. /\ routed + starting <= faults /\ starting' = starting + 1 /\ faults' = faults
        /\ UNCHANGED <<target, routed, wire, effects, placeholders, opened, completed, failed>>
        /\ phase' = "taken"
    BY <1>5 DEF Job!Take, Job!Smooth
  <2> QED
    BY <2>1 DEF JobInv, JobTypes, Job!Accounts
<1>6. CASE Job!Open
  <2>1. /\ opened' = opened + 1 /\ faults' = faults
        /\ UNCHANGED <<target, phase, starting, routed, wire, effects, placeholders,
                       completed, failed>>
    BY <1>6 DEF Job!Open, Job!Smooth
  <2> QED
    BY <2>1 DEF JobInv, JobTypes, Job!Accounts
<1>7. CASE Job!Call \/ Job!Skip \/ Job!Refuse
  <2>1. /\ starting > 0 /\ starting' = starting - 1 /\ routed < opened + completed + failed
        /\ routed' = routed + 1 /\ faults' = faults
        /\ UNCHANGED <<target, phase, effects, opened, completed, failed>>
    BY <1>7 DEF Job!Call, Job!Skip, Job!Refuse, Job!Reach, Job!Smooth
  <2>2. \/ target = "messaging" /\ wire' = wire + 1 /\ placeholders' = placeholders
        \/ target = "placeholder" /\ wire' = wire /\ placeholders' = placeholders + 1
        \/ wire' = wire /\ placeholders' = placeholders
    BY <1>7 DEF Job!Call, Job!Skip, Job!Refuse
  <2>3. /\ routed \in Nat /\ wire \in Nat /\ effects \in Nat /\ placeholders \in Nat
        /\ starting \in Nat /\ completed \in Nat /\ faults \in Nat
        /\ effects + wire + placeholders <= routed /\ completed <= effects + placeholders
        /\ routed + starting <= 1 + faults
    BY DEF JobInv, JobTypes, Job!Accounts
  <2> HIDE DEF Job!entry, Job!net, Job!rows
  <2>4. /\ wire' \in Nat /\ placeholders' \in Nat /\ effects + wire' + placeholders' <= routed'
        /\ completed <= effects + placeholders'
    <3>1. CASE wire' = wire + 1 /\ placeholders' = placeholders
      BY <2>1, <2>3, <3>1
    <3>2. CASE wire' = wire /\ placeholders' = placeholders + 1
      BY <2>1, <2>3, <3>2
    <3>3. CASE wire' = wire /\ placeholders' = placeholders
      BY <2>1, <2>3, <3>3
    <3> QED
      BY <2>2, <3>1, <3>2, <3>3
  <2>5. /\ target # "messaging" => effects = 0 /\ wire' = 0
        /\ target # "placeholder" => placeholders' = 0
    BY <2>2 DEF JobInv, Job!Accounts
  <2>6. routed' \in Nat /\ starting' \in Nat /\ routed' + starting' <= 1 + faults
    BY <2>1, <2>3
  <2>7. /\ opened \in Nat /\ failed \in Nat
        /\ phase = "completed" => completed + failed > 0
    BY DEF JobInv, JobTypes, Job!Accounts
  <2>8. routed' <= opened + completed + failed
    BY <2>1, <2>3, <2>7
  <2>9. /\ faults' = faults /\ target' = target /\ phase' = phase /\ effects' = effects
        /\ opened' = opened /\ completed' = completed /\ failed' = failed
    BY <2>1
  <2> QED
    BY <2>3, <2>4, <2>5, <2>6, <2>7, <2>8, <2>9 DEF JobInv, JobTypes, Job!Accounts
<1>8. CASE Job!Accept \/ Job!Lose
  <2>1. /\ wire > 0 /\ wire' = wire - 1 /\ (effects' = effects \/ effects' = effects + 1)
        /\ faults' = faults
        /\ UNCHANGED <<target, phase, starting, routed, placeholders, opened, completed, failed>>
    BY <1>8 DEF Job!Accept, Job!Lose, Job!Smooth
  <2>2. /\ wire \in Nat /\ effects \in Nat /\ routed \in Nat /\ completed \in Nat
        /\ placeholders \in Nat
        /\ effects + wire + placeholders <= routed /\ completed <= effects + placeholders
        /\ target # "messaging" => wire = 0
    BY DEF JobInv, JobTypes, Job!Accounts
  <2>3. /\ wire' \in Nat /\ effects' \in Nat /\ target = "messaging"
        /\ effects' + wire' + placeholders <= routed /\ completed <= effects' + placeholders
    <3>1. CASE effects' = effects
      BY <2>1, <2>2, <3>1
    <3>2. CASE effects' = effects + 1
      BY <2>1, <2>2, <3>2
    <3> QED
      BY <2>1, <3>1, <3>2
  <2> QED
    BY <2>1, <2>3 DEF JobInv, JobTypes, Job!Accounts
<1>9. CASE Job!Record
  <2>1. /\ target' = target /\ phase' = phase /\ starting' = starting /\ routed' = routed
        /\ wire' = wire /\ effects' = effects /\ placeholders' = placeholders
    BY <1>9 DEF Job!Record
  <2>2. \/ /\ opened > 0 /\ completed < effects + placeholders
           /\ opened' = opened - 1 /\ completed' = completed + 1 /\ failed' = failed
        \/ /\ opened > 0
           /\ opened' = opened - 1 /\ completed' = completed /\ failed' = failed + 1
        \/ /\ completed > 0
           /\ opened' = opened /\ completed' = completed - 1 /\ failed' = failed + 1
    BY <1>9 DEF Job!Record
  <2>3. /\ opened' \in Nat /\ completed' \in Nat /\ failed' \in Nat
        /\ opened' + completed' + failed' = opened + completed + failed
        /\ completed' <= effects + placeholders /\ completed' + failed' >= completed + failed
    BY <2>2 DEF JobInv, JobTypes, Job!Accounts
  <2>4. /\ JobTypes' /\ routed' + starting' <= 1 + faults'
        /\ effects' + wire' + placeholders' <= routed'
        /\ target' # "messaging" => effects' = 0 /\ wire' = 0
        /\ target' # "placeholder" => placeholders' = 0
    BY <1>1, <2>1, <2>3 DEF JobInv, JobTypes, Job!Accounts
  <2>5. routed' <= opened' + completed' + failed' /\ completed' <= effects' + placeholders'
    <3>1. routed <= opened + completed + failed
      BY DEF JobInv, Job!Accounts
    <3> QED
      BY <2>1, <2>3, <3>1
  <2>6. phase' = "completed" => completed' + failed' > 0
    <3>1. phase = "completed" => completed + failed > 0
      BY DEF JobInv, Job!Accounts
    <3>2. completed \in Nat /\ failed \in Nat
      BY DEF JobInv, JobTypes
    <3>3. /\ completed' \in Nat /\ failed' \in Nat
          /\ completed' + failed' >= completed + failed
      BY <2>3
    <3> HIDE DEF Job!entry, Job!net, Job!rows
    <3>4. ASSUME completed + failed > 0
          PROVE  completed' + failed' > 0
      <4>1. completed' \in Int /\ failed' \in Int /\ completed \in Int /\ failed \in Int
        BY <3>2, <3>3
      <4>2. completed' + failed' >= completed + failed
        BY <3>3
      <4> QED
        BY <3>4, <4>1, <4>2, StillPositive
    <3> QED
      BY <2>1, <3>1, <3>4
  <2> QED
    BY <2>4, <2>5, <2>6 DEF JobInv, Job!Accounts
<1>10. CASE Job!Abandon
  <2>1. /\ faults' = faults + 1 /\ starting > 0 /\ starting' = starting - 1
        /\ (opened' = opened \/ opened' = opened + 1) /\ (phase' = phase \/ phase' = "queued")
        /\ target' = target /\ routed' = routed /\ wire' = wire /\ effects' = effects
        /\ placeholders' = placeholders /\ completed' = completed /\ failed' = failed
    BY <1>10 DEF Job!Abandon, Job!Mishap
  <2>2. JobTypes' /\ routed' + starting' <= 1 + faults'
    BY <2>1 DEF JobInv, JobTypes, Job!Accounts
  <2>3. routed' <= opened' + completed' + failed'
    <3>1. /\ routed \in Nat /\ opened \in Nat /\ completed \in Nat /\ failed \in Nat
          /\ routed <= opened + completed + failed
      BY DEF JobInv, JobTypes, Job!Accounts
    <3>2. CASE opened' = opened
      BY <2>1, <3>1, <3>2
    <3>3. CASE opened' = opened + 1
      BY <2>1, <3>1, <3>3
    <3> QED
      BY <2>1, <3>2, <3>3
  <2>4. phase' = "completed" => completed' + failed' > 0
    BY <2>1 DEF JobInv, Job!Accounts
  <2> QED
    BY <2>1, <2>2, <2>3, <2>4 DEF JobInv, Job!Accounts
<1> QED
  BY <1>3, <1>4, <1>5, <1>6, <1>7, <1>8, <1>9, <1>10 DEF Job!Next

\* An entry reaches its service once, and once more for each fault; rows are opened before and
\* completed for results; a job that asks for no call gets none, and only one that asks for a
\* notification or an unknown service has its success recorded without an accepted call.
THEOREM EntryAccounts == Job!Spec => []Job!Accounts
<1>1. Job!Init => JobInv
  BY DEF Job!Init, JobInv, JobTypes, Job!Accounts
<1>2. JobInv => Job!Accounts
  BY DEF JobInv
<1> QED
  BY <1>1, <1>2, JobStep, PTL DEF Job!Spec

\* An entry that is out when the door closes stays out.
THEOREM EntryStaysOut == Job!Spec => Job!StaysOut
<1>1. [Job!Next]_(Job!vars) =>
        [door = "closed" /\ phase \in {"none", "removed"} => phase' = phase]_(Job!vars)
  BY DEF Job!Next, Job!vars, Job!entry, Job!Enter, Job!Take, Job!Complete, Job!GiveBack,
         Job!Assign, Job!Retry, Job!Clean, Job!Close, Job!Open, Job!Call, Job!Skip, Job!Refuse,
         Job!Reach, Job!Accept, Job!Lose, Job!Record, Job!Abandon
<1> QED
  BY <1>1, PTL DEF Job!Spec, Job!StaysOut

-----------------------------------------------------------------------------
(* A scheduled message                                                      *)

\* Nothing is promised of a message that the API has overwritten.
MessageInv ==
  /\ MaxSends \in Nat
  /\ status # "void" =>
       /\ sends \in Nat /\ inFlight \in Nat /\ delivered \in Nat
       /\ sends <= MaxSends /\ delivered + inFlight <= sends
       /\ status = "sent" => delivered > 0

LEMMA MessageStep == MessageInv /\ [Message!Next]_(Message!vars) => MessageInv'
<1> SUFFICES ASSUME MessageInv, [Message!Next]_(Message!vars)
             PROVE  MessageInv'
  OBVIOUS
<1> USE DEF Message!clock, Message!wire
<1>1. CASE UNCHANGED <<sends, inFlight, delivered>> /\ (status' = status \/ status' # "sent")
           /\ (status = "void" => status' = "void")
  <2>1. sends' = sends /\ inFlight' = inFlight /\ delivered' = delivered
    BY <1>1
  <2> QED
    BY <1>1, <2>1 DEF MessageInv
<1>2. CASE \/ Message!Advance \/ Message!Schedule \/ Message!Edit \/ Message!Cancel
           \/ Message!Pick \/ Message!Unpick \/ Message!Claim \/ Message!Strand
           \/ UNCHANGED <<time, status, at, picked, Message!wire>> \/ UNCHANGED Message!vars
  BY <1>1, <1>2 DEF Message!Advance, Message!Schedule, Message!Edit, Message!Cancel,
     Message!Pick, Message!Unpick, Message!Claim, Message!Strand, Message!vars
<1>3. CASE Message!Send
  BY <1>3 DEF Message!Send, MessageInv
<1>4. CASE Message!Deliver
  BY <1>4 DEF Message!Deliver, MessageInv
<1>5. CASE Message!Lose
  BY <1>5 DEF Message!Lose, MessageInv
<1>6. CASE Message!Settle \/ Message!Unsettle
  <2>1. /\ sends' = sends /\ inFlight' = inFlight /\ delivered' = delivered
        /\ status # "void" /\ (status' = "sent" => delivered > 0)
    BY <1>6 DEF Message!Settle, Message!Unsettle, Message!Outcome
  <2> QED
    BY <2>1 DEF MessageInv
<1>7. CASE Message!Overwrite
  BY <1>7 DEF Message!Overwrite, MessageInv
<1> QED
  BY <1>2, <1>3, <1>4, <1>5, <1>6, <1>7 DEF Message!Next

\* Unless the API overwrites it, a message costs MaxSends calls at most, each accepted once at
\* most, and is sent only if the messaging service has it.
THEOREM MessageAccounts == MaxSends \in Nat /\ Message!Spec => []Message!Accounts
<1>1. MaxSends \in Nat /\ Message!Init => MessageInv
  BY DEF Message!Init, MessageInv
<1>2. MessageInv => Message!Accounts
  BY DEF MessageInv, Message!Accounts
<1> QED
  BY <1>1, <1>2, MessageStep, PTL DEF Message!Spec

\* A message that is cancelled, failed or stranded is not sent.
THEOREM MessageFinal == Message!Spec => Message!Final
<1>1. [Message!Next]_(Message!vars) =>
        [(status \in {"cancelled", "failed", "stranded"} /\ status' # "void")
           => sends' = sends]_(Message!vars)
  BY DEF Message!Next, Message!vars, Message!wire, Message!clock, Message!Advance,
         Message!Schedule, Message!Edit, Message!Cancel, Message!Pick, Message!Unpick,
         Message!Claim, Message!Send, Message!Deliver, Message!Lose, Message!Settle,
         Message!Strand, Message!Unsettle, Message!Overwrite
<1> QED
  BY <1>1, PTL DEF Message!Spec, Message!Final
=============================================================================
