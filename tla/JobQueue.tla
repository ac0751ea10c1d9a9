------------------------------ MODULE JobQueue ------------------------------
(* One of the three BullMQ queues, as QueueService and the job processors    *)
(* use it: entries, the worker that holds the lock of an active entry,       *)
(* attempts, stalled entries, repeatable registrations, pause and clean.     *)
(* The definitions are the atomic steps of the queue (its Lua scripts); the  *)
(* module Scheduler composes them with the code that calls them.             *)
EXTENDS Integers, FiniteSets

CONSTANTS
  Schedule,          \* ids of the schedules table
  Worker,            \* concurrent slots of the workers of all processes
  MaxIterations,     \* bound on the iterations of a repeatable job
  ATTEMPTS,          \* JobsOptions.attempts
  MAX_STALLED_COUNT

NoWorker == "no worker"
Entry    == Schedule \X (1..MaxIterations)
State    == {"none", "delayed", "waiting", "active", "completed", "failed", "removed"}
Pending  == {"delayed", "waiting", "active"}

ASSUME QueueAssumption ==
  /\ MaxIterations \in Nat \ {0} /\ ATTEMPTS \in Nat \ {0} /\ MAX_STALLED_COUNT \in Nat
  /\ NoWorker \notin Worker

VARIABLES
  state,    \* the set of the queue that holds an entry
  holder,   \* the worker whose token locks an active entry
  attempts, \* attemptsMade
  stalls,   \* times the entry was found stalled
  repeats,  \* schedules with a repeatable registration
  paused

queueVars == <<state, holder, attempts, stalls, repeats, paused>>

QueueInit ==
  /\ state = [e \in Entry |-> "none"] /\ holder = [e \in Entry |-> NoWorker]
  /\ attempts = [e \in Entry |-> 0] /\ stalls = [e \in Entry |-> 0]
  /\ repeats = {} /\ paused = FALSE

First(s)   == <<s, 1>>
Next1(e)   == <<e[1], e[2] + 1>>
EntriesOf(s) == {e \in Entry : e[1] = s}

\* queue.add with a delay or none.
AddJob(s, how) ==
  /\ state' = [state EXCEPT ![First(s)] = how]
  /\ UNCHANGED <<holder, attempts, stalls, repeats, paused>>

\* queue.add with `repeat`: the registration and its first iteration.
AddRepeatableJob(s) ==
  /\ repeats' = repeats \cup {s}
  /\ state' = [state EXCEPT ![First(s)] = "delayed"]
  /\ UNCHANGED <<holder, attempts, stalls, paused>>

\* The delay of an entry (schedule, backoff or iteration) is over.
Promote(e) ==
  /\ state[e] = "delayed" /\ state' = [state EXCEPT ![e] = "waiting"]
  /\ UNCHANGED <<holder, attempts, stalls, repeats, paused>>

\* A worker locks an entry; one of a repeatable job has its successor added, if the
\* registration is still there.
Take(w, e) ==
  LET adds == e[1] \in repeats /\ Next1(e) \in Entry /\ state[Next1(e)] = "none" IN
  /\ ~paused /\ state[e] = "waiting"
  /\ state' = [f \in Entry |-> IF f = e THEN "active"
                               ELSE IF adds /\ f = Next1(e) THEN "delayed" ELSE state[f]]
  /\ holder' = [holder EXCEPT ![e] = w]
  /\ UNCHANGED <<attempts, stalls, repeats, paused>>

\* moveToCompleted and moveToFailed of a worker that has lost the lock change nothing.
Complete(w, e) ==
  /\ IF holder[e] = w
     THEN /\ state' = [state EXCEPT ![e] = "completed"]
          /\ holder' = [holder EXCEPT ![e] = NoWorker]
     ELSE UNCHANGED <<state, holder>>
  /\ UNCHANGED <<attempts, stalls, repeats, paused>>

FailAttempt(w, e) ==
  /\ IF holder[e] = w
     THEN /\ attempts' = [attempts EXCEPT ![e] = @ + 1]
          /\ state' = [state EXCEPT ![e] =
               IF attempts[e] + 1 < ATTEMPTS THEN "delayed" ELSE "failed"]
          /\ holder' = [holder EXCEPT ![e] = NoWorker]
     ELSE UNCHANGED <<state, holder, attempts>>
  /\ UNCHANGED <<stalls, repeats, paused>>

\* The stalled check finds an active entry whose lock has lapsed.
Stall(e) ==
  /\ state[e] = "active"
  /\ stalls' = [stalls EXCEPT ![e] = @ + 1]
  /\ state' = [state EXCEPT ![e] =
       IF stalls[e] + 1 > MAX_STALLED_COUNT THEN "failed" ELSE "waiting"]
  /\ holder' = [holder EXCEPT ![e] = NoWorker]
  /\ UNCHANGED <<attempts, repeats, paused>>

\* The process of a worker dies: nobody renews the locks it had.
Orphaned(w) ==
  /\ holder' = [e \in Entry |-> IF holder[e] = w THEN NoWorker ELSE holder[e]]
  /\ UNCHANGED <<state, attempts, stalls, repeats, paused>>

\* job.remove() throws on an entry that is locked, which an orphan is until its lock lapses.
Removable(e) == holder[e] = NoWorker
Remove(e) ==
  /\ Removable(e) /\ state' = [state EXCEPT ![e] = "removed"]
  /\ UNCHANGED <<holder, attempts, stalls, repeats, paused>>

\* removeRepeatableByKey: the registration and the iteration it has delayed.
RemoveRepeatable(s) ==
  /\ repeats' = repeats \ {s}
  /\ state' = [e \in Entry |-> IF e[1] = s /\ state[e] = "delayed" /\ attempts[e] = 0
                               THEN "removed" ELSE state[e]]
  /\ UNCHANGED <<holder, attempts, stalls, paused>>

\* job.retry(): throws unless the entry is still failed; attemptsMade is kept.
Retry(e) ==
  /\ state' = [state EXCEPT ![e] = IF @ = "failed" THEN "waiting" ELSE @]
  /\ UNCHANGED <<holder, attempts, stalls, repeats, paused>>

\* queue.clean(): the finished entries older than the grace.
Clean(kind) ==
  /\ \E old \in SUBSET {e \in Entry : state[e] = kind} :
       state' = [e \in Entry |-> IF e \in old THEN "removed" ELSE state[e]]
  /\ UNCHANGED <<holder, attempts, stalls, repeats, paused>>

SetPaused(b) == paused' = b /\ UNCHANGED <<state, holder, attempts, stalls, repeats>>

QueueTypeOK ==
  /\ state \in [Entry -> State] /\ holder \in [Entry -> Worker \cup {NoWorker}]
  /\ attempts \in [Entry -> Nat] /\ stalls \in [Entry -> Nat]
  /\ repeats \subseteq Schedule /\ paused \in BOOLEAN
=============================================================================
