---------------------------- MODULE JobExecution ----------------------------
(* What the scheduler promises of one entry of a queue, whatever workers,    *)
(* locks, requests, operators and failures it takes. Scheduler implements it *)
(* for every entry.                                                          *)
EXTENDS Integers

VARIABLES
  target,    \* what its job asks for: absent until its schedule is there
  phase,     \* none, queued, taken by a worker, or filed: completed, failed, removed
  door,      \* open, or closed by a removeJob that found its schedule
  starting,  \* executions that have not reached their service yet
  routed,    \* those that have: by a call, with a placeholder, or refused
  wire, effects, placeholders,
  opened, completed, failed,   \* rows with the status RUNNING, COMPLETED and FAILED
  faults

vars == <<target, phase, door, starting, routed, wire, effects, placeholders,
          opened, completed, failed, faults>>
entry == <<target, phase, door>>
net   == <<routed, wire, effects, placeholders>>
rows  == <<opened, completed, failed>>

Init ==
  /\ target = "absent" /\ phase = "none" /\ door = "open" /\ starting = 0
  /\ routed = 0 /\ wire = 0 /\ effects = 0 /\ placeholders = 0
  /\ opened = 0 /\ completed = 0 /\ failed = 0 /\ faults = 0

Smooth == faults' = faults
Mishap == faults' = faults + 1

-----------------------------------------------------------------------------
(* The entry.                                                               *)

\* A schedule has one job, whose target does not change.
Assign ==
  /\ Smooth /\ target = "absent" /\ target' # "absent"
  /\ UNCHANGED <<phase, door, starting, net, rows>>

Enter ==
  /\ phase = "none" /\ door = "open" /\ target # "absent" /\ phase' = "queued"
  /\ UNCHANGED <<target, door, starting, net, rows>>

\* A worker takes it; again only when a failure accounts for each execution so far.
Take ==
  /\ Smooth /\ phase = "queued" /\ routed + starting <= faults
  /\ phase' = "taken" /\ starting' = starting + 1
  /\ UNCHANGED <<target, door, net, rows>>

\* It completes with an outcome on record.
Complete ==
  /\ Smooth /\ phase = "taken" /\ completed + failed > 0 /\ phase' = "completed"
  /\ UNCHANGED <<target, door, starting, net, rows>>

\* Only a failure takes it from its worker or files it as failed.
GiveBack ==
  /\ faults' > 0 /\ phase \in {"taken", "queued"} /\ phase' \in {"queued", "failed"}
  /\ UNCHANGED <<target, door, starting, net, rows>>

\* The operator's retry and clean.
Retry ==
  /\ Smooth /\ phase = "failed" /\ phase' = "queued"
  /\ UNCHANGED <<target, door, starting, net, rows>>
Clean ==
  /\ Smooth /\ phase \in {"completed", "failed"} /\ phase' = "removed"
  /\ UNCHANGED <<target, door, starting, net, rows>>

\* removeJob: what has not entered stays out, and what it removes does not come back.
Close ==
  /\ Smooth /\ door' = "closed"
  /\ phase' = phase \/ (phase \notin {"none", "taken"} /\ phase' = "removed")
  /\ UNCHANGED <<target, starting, net, rows>>

-----------------------------------------------------------------------------
(* Its executions.                                                          *)

Open ==
  /\ Smooth /\ starting > 0 /\ opened' = opened + 1
  /\ UNCHANGED <<entry, starting, net, completed, failed>>

\* A start reaches its service once, on a row of its own.
Reach ==
  /\ Smooth /\ starting > 0 /\ starting' = starting - 1
  /\ routed < opened + completed + failed /\ routed' = routed + 1
  /\ UNCHANGED <<entry, effects, rows>>

Call   == Reach /\ target = "messaging" /\ wire' = wire + 1 /\ UNCHANGED placeholders
Skip   == Reach /\ target = "placeholder" /\ placeholders' = placeholders + 1 /\ UNCHANGED wire
Refuse == Reach /\ target = "unknown" /\ UNCHANGED <<wire, placeholders>>

Accept ==
  /\ Smooth /\ wire > 0 /\ wire' = wire - 1 /\ effects' = effects + 1
  /\ UNCHANGED <<entry, starting, routed, placeholders, rows>>
Lose ==
  /\ Smooth /\ wire > 0 /\ wire' = wire - 1
  /\ UNCHANGED <<entry, starting, routed, effects, placeholders, rows>>

\* COMPLETED is written for a result; FAILED over RUNNING, and over a COMPLETED whose save was
\* committed but reported as failed.
Record ==
  /\ \/ /\ opened > 0 /\ completed < effects + placeholders
        /\ opened' = opened - 1 /\ completed' = completed + 1 /\ UNCHANGED failed
     \/ opened > 0 /\ opened' = opened - 1 /\ failed' = failed + 1 /\ UNCHANGED completed
     \/ /\ faults > 0 /\ completed > 0
        /\ completed' = completed - 1 /\ failed' = failed + 1 /\ UNCHANGED opened
  /\ UNCHANGED <<entry, starting, net>>

\* A process or a store fails before the service is reached: the row may be there, the worker
\* may be gone.
Abandon ==
  /\ Mishap /\ starting > 0 /\ starting' = starting - 1
  /\ \/ opened' \in {opened, opened + 1} /\ UNCHANGED phase
     \/ phase = "taken" /\ phase' = "queued" /\ UNCHANGED opened
  /\ UNCHANGED <<target, door, net, completed, failed>>

Next ==
  /\ Smooth \/ Mishap
  /\ \/ UNCHANGED <<entry, starting, net, rows>>
     \/ Assign \/ Enter \/ Take \/ Complete \/ GiveBack \/ Retry \/ Clean \/ Close
     \/ Open \/ Call \/ Skip \/ Refuse \/ Accept \/ Lose \/ Record \/ Abandon

Spec == Init /\ [][Next]_vars

-----------------------------------------------------------------------------
(* What follows of the life of an entry.                                    *)

\* Executions against failures, results against executions, rows against both: the bounds that
\* executeJob and process() keep for whoever reads the tables or bills the calls. A job that
\* asks for no call gets none, and any other is a success only for an accepted call.
Accounts ==
  /\ routed + starting <= 1 + faults /\ effects + wire + placeholders <= routed
  /\ completed <= effects + placeholders /\ routed <= opened + completed + failed
  /\ phase = "completed" => completed + failed > 0
  /\ target # "messaging" => effects = 0 /\ wire = 0
  /\ target # "placeholder" => placeholders = 0

\* removeJob is final: an entry that is out when the door closes never comes in again.
StaysOut == [][door = "closed" /\ phase \in {"none", "removed"} => phase' = phase]_vars
=============================================================================
