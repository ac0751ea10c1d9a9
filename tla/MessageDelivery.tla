-------------------------- MODULE MessageDelivery --------------------------
(* What the service promises of one scheduled message, whatever pods, ticks, *)
(* locks, requests and failures it takes. ScheduledMessages implements it    *)
(* for every message.                                                        *)
EXTENDS Integers

CONSTANTS
  MaxTime,
  MaxSends   \* calls of the messaging service one message may cost

VARIABLES
  time,
  status,    \* claimed, underway: processing, with a tick that will settle it;
             \* stranded: processing for good; void: overwritten by the API, nothing promised
  at,        \* scheduledAt
  picked,    \* some tick has read it as due
  sends, inFlight, delivered,
  trouble    \* a process, a store or a call has failed

vars == <<time, status, at, picked, sends, inFlight, delivered, trouble>>
clock == <<time, at>>
wire  == <<sends, inFlight, delivered>>

Init ==
  /\ time = 0 /\ status = "absent" /\ at = 0 /\ picked = FALSE
  /\ sends = 0 /\ inFlight = 0 /\ delivered = 0 /\ trouble = FALSE

Advance == time' = time + 1 /\ UNCHANGED <<status, at, picked, wire, trouble>>

Schedule ==
  /\ status = "absent" /\ status' = "pending"
  /\ at' \in 0..MaxTime /\ at' > time
  /\ UNCHANGED <<time, picked, wire, trouble>>

\* An edit moves the instant of a message in any status: it does not look at it again.
Edit ==
  /\ status # "absent" /\ at' \in 0..MaxTime
  /\ UNCHANGED <<time, status, picked, wire, trouble>>

Cancel ==
  /\ status = "pending" /\ status' = "cancelled" /\ at' \in 0..MaxTime
  /\ UNCHANGED <<time, picked, wire, trouble>>

\* Whoever claims it must have seen it due, though an edit may have postponed it since.
Pick ==
  /\ status = "pending" /\ at <= time /\ picked' = TRUE
  /\ UNCHANGED <<clock, status, wire, trouble>>
Unpick == picked' = FALSE /\ UNCHANGED <<clock, status, wire>>
Claim ==
  /\ status = "pending" /\ picked /\ status' = "claimed" /\ picked' \in BOOLEAN
  /\ UNCHANGED <<clock, wire, trouble>>

\* One call for a claim.
Send ==
  /\ status = "claimed" /\ status' = "underway"
  /\ sends < MaxSends /\ sends' = sends + 1 /\ inFlight' = inFlight + 1
  /\ UNCHANGED <<clock, picked, delivered, trouble>>
Deliver ==
  /\ inFlight > 0 /\ inFlight' = inFlight - 1 /\ delivered' = delivered + 1
  /\ UNCHANGED <<clock, status, picked, sends, trouble>>
Lose ==
  /\ inFlight > 0 /\ inFlight' = inFlight - 1
  /\ UNCHANGED <<clock, status, picked, sends, delivered, trouble>>

Outcome ==
  \/ status' = "sent" /\ delivered > 0
  \/ status' = "failed"
  \/ status' = "pending" /\ sends < MaxSends
\* The save of the outcome may put back the instant that was claimed.
Settle ==
  /\ status = "underway" /\ Outcome /\ at' \in 0..MaxTime
  /\ UNCHANGED <<time, picked, wire>>

\* A failure leaves a claim without its tick, or unsettles a "sent" whose save was committed
\* but reported as failed.
Strand ==
  /\ trouble'
  /\ status \in {"claimed", "underway"} \/ (status = "pending" /\ picked)
  /\ status' = "stranded" /\ picked' \in BOOLEAN /\ UNCHANGED <<clock, wire>>
Unsettle ==
  /\ trouble /\ status = "sent" /\ Outcome /\ at' \in 0..MaxTime
  /\ UNCHANGED <<time, picked, wire>>

\* An API request writes a status or a counter it read before.
Overwrite == status' = "void"

Next ==
  /\ trouble => trouble'
  /\ \/ Advance \/ Schedule \/ Edit \/ Cancel \/ Pick \/ Unpick \/ Claim
     \/ Send \/ Deliver \/ Lose \/ Settle \/ Strand \/ Unsettle \/ Overwrite
     \/ UNCHANGED <<time, status, at, picked, wire>>

Spec == Init /\ [][Next]_vars

-----------------------------------------------------------------------------
(* What follows of the life of a message.                                   *)

\* The calls sendMessage makes are capped, each is accepted once at most, and the row says
\* "sent" only of a message the messaging service has accepted.
Accounts ==
  status # "void" => /\ sends <= MaxSends /\ delivered + inFlight <= sends
                     /\ status = "sent" => delivered > 0

\* A message that is cancelled, failed or stranded is not sent unless the API overwrites it.
Final ==
  [][(status \in {"cancelled", "failed", "stranded"} /\ status' # "void") => sends' = sends]_vars
=============================================================================
