---------------------------- MODULE JwksService ----------------------------
(* The public keys of the identity service: the load at start-up with its    *)
(* backoff, the background retry, and the reload that a request with an      *)
(* unknown kid triggers through JwtAuthGuard.                                *)
EXTENDS Integers, FiniteSets, Sequences

CONSTANTS
  Kid,
  Documents,            \* the key sets the endpoint publishes, one after the other
  Fetch,                \* calls of loadPublicKey that may be in flight
  BACKOFF_MAX_ATTEMPTS,
  MaxOutages            \* bound on the outages of the endpoint

ASSUME JwksAssumption ==
  /\ Documents \in Seq(SUBSET Kid) /\ Documents # <<>>
  /\ BACKOFF_MAX_ATTEMPTS \in Nat \ {0} /\ MaxOutages \in Nat

Version == DOMAIN Documents
Free    == [by |-> "nobody", got |-> 0]

VARIABLES
  published,  \* the document the endpoint serves
  up,         \* whether it answers in time
  outages,
  loaded,     \* the document keyMap and primaryPem come from, 0 for none
  fetches,    \* who awaits each call of loadPublicKey, and the response it has
  boot,       \* where onModuleInit, then the background loop, is
  attempt,
  serving,    \* onModuleInit has returned: requests arrive
  debounce,   \* reloadDebounceTimer is set
  destroyed,
  setbacks    \* history: times an older document replaced a newer one

vars == <<published, up, outages, loaded, fetches, boot, attempt, serving, debounce, destroyed,
          setbacks>>
endpointVars == <<published, up, outages>>
bootVars     == <<boot, attempt, serving>>

keyMap  == IF loaded = 0 THEN {} ELSE Documents[loaded]
IsReady == loaded # 0

Init ==
  /\ published = 1 /\ up \in BOOLEAN /\ outages = 0 /\ loaded = 0
  /\ fetches = [f \in Fetch |-> Free]
  /\ boot = "start" /\ attempt = 1 /\ serving = FALSE
  /\ debounce = FALSE /\ destroyed = FALSE /\ setbacks = 0

-----------------------------------------------------------------------------
(* The endpoint.                                                            *)

Rotate ==
  /\ published < Len(Documents) /\ published' = published + 1
  /\ UNCHANGED <<up, outages, loaded, fetches, bootVars, debounce, destroyed, setbacks>>

GoDown ==
  /\ up /\ outages < MaxOutages /\ up' = FALSE /\ outages' = outages + 1
  /\ UNCHANGED <<published, loaded, fetches, bootVars, debounce, destroyed, setbacks>>

ComeUp ==
  /\ ~up /\ up' = TRUE
  /\ UNCHANGED <<published, outages, loaded, fetches, bootVars, debounce, destroyed, setbacks>>

Respond(f) ==
  /\ fetches[f].by # "nobody" /\ fetches[f].got = 0 /\ up
  /\ fetches' = [fetches EXCEPT ![f].got = published]
  /\ UNCHANGED <<endpointVars, loaded, bootVars, debounce, destroyed, setbacks>>

-----------------------------------------------------------------------------
(* loadPublicKey.                                                           *)

Load(who) ==
  \E f \in Fetch : /\ fetches[f] = Free
                   /\ fetches' = [fetches EXCEPT ![f] = [by |-> who, got |-> 0]]

\* A document with a usable key replaces the map and the primary key at once.
Loaded(f) ==
  /\ fetches[f].got # 0 /\ Documents[fetches[f].got] # {}
  /\ loaded' = fetches[f].got /\ fetches' = [fetches EXCEPT ![f] = Free]
  /\ setbacks' = IF loaded' < loaded THEN setbacks + 1 ELSE setbacks

\* The fetch, its deadline, the status, the parsing or the keys make it throw.
LoadThrows(f) ==
  /\ \/ fetches[f].got = 0 /\ ~up
     \/ fetches[f].got # 0 /\ Documents[fetches[f].got] = {}
  /\ fetches' = [fetches EXCEPT ![f] = Free] /\ UNCHANGED <<loaded, setbacks>>

-----------------------------------------------------------------------------
(* onModuleInit and the background loop.                                    *)

StartLoad ==
  /\ boot = "start" /\ Load("boot") /\ boot' = "load"
  /\ UNCHANGED <<endpointVars, loaded, attempt, serving, debounce, destroyed, setbacks>>

BootLoaded(f) ==
  /\ boot = "load" /\ fetches[f].by = "boot" /\ Loaded(f)
  /\ boot' = "done" /\ serving' = TRUE
  /\ UNCHANGED <<endpointVars, attempt, debounce, destroyed>>

\* `<=` for `<`.
TriesLeftOneMore == attempt <= BACKOFF_MAX_ATTEMPTS
TriesLeft == attempt < BACKOFF_MAX_ATTEMPTS

BootFailed(f) ==
  /\ boot = "load" /\ fetches[f].by = "boot" /\ LoadThrows(f)
  /\ \/ destroyed /\ boot' = "done" /\ serving' = TRUE /\ UNCHANGED attempt
     \/ /\ ~destroyed /\ TriesLeft
        /\ boot' = "backoff" /\ attempt' = attempt + 1 /\ UNCHANGED serving
     \/ /\ ~destroyed /\ ~TriesLeft
        /\ boot' = "retrySleep" /\ serving' = TRUE /\ UNCHANGED attempt
  /\ UNCHANGED <<endpointVars, debounce, destroyed>>

BackoffOver ==
  /\ boot = "backoff" /\ ~destroyed /\ Load("boot") /\ boot' = "load"
  /\ UNCHANGED <<endpointVars, loaded, attempt, serving, debounce, destroyed, setbacks>>

\* The loop goes on only while nothing is loaded. The other one gives up at the
\* first failure.
OneBackgroundTry == "done"
LoopAgain == IF loaded' # 0 \/ destroyed THEN "done" ELSE "retrySleep"

\* The timer of the loop fires: the keys may have come by a reload meanwhile.
RetrySleepOver ==
  /\ boot = "retrySleep" /\ ~destroyed
  /\ IF IsReady THEN boot' = "done" /\ UNCHANGED fetches
                ELSE Load("loop") /\ boot' = "retryLoad"
  /\ UNCHANGED <<endpointVars, loaded, attempt, serving, debounce, destroyed, setbacks>>

RetryLoadEnds(f) ==
  /\ boot = "retryLoad" /\ fetches[f].by = "loop" /\ (Loaded(f) \/ LoadThrows(f))
  /\ boot' = LoopAgain
  /\ UNCHANGED <<endpointVars, attempt, serving, debounce, destroyed>>

-----------------------------------------------------------------------------
(* Requests.                                                                *)

ReloadUnderWay == \E f \in Fetch : fetches[f].by = "reload"
\* Only the timer is checked.
MayReloadAnyTime == ~debounce
MayReload == ~ReloadUnderWay /\ ~debounce

\* JwtAuthGuard: a kid that the map lacks is rejected and asks for a reload; with a known
\* one the guard verifies the token and changes nothing here.
UnknownKid(k) ==
  /\ serving /\ k \notin keyMap
  /\ MayReload /\ Load("reload")
  /\ UNCHANGED <<endpointVars, loaded, bootVars, debounce, destroyed, setbacks>>

\* The callback of the timer forgets to clear its handle.
DebounceForGood == debounce' = TRUE
DebounceEnds == debounce' = FALSE

\* The finally of the promise sets the timer, after onModuleDestroy too.
ReloadEnds(f) ==
  /\ fetches[f].by = "reload" /\ (Loaded(f) \/ LoadThrows(f))
  /\ debounce' = TRUE
  /\ UNCHANGED <<endpointVars, bootVars, destroyed>>

DebounceOver ==
  /\ debounce /\ DebounceEnds
  /\ UNCHANGED <<endpointVars, loaded, fetches, bootVars, destroyed, setbacks>>

\* The timers of the sleeps and of the debounce are cleared; a sleeping loop never wakes.
OnModuleDestroy ==
  /\ ~destroyed /\ destroyed' = TRUE /\ debounce' = FALSE
  /\ UNCHANGED <<endpointVars, loaded, fetches, bootVars, setbacks>>

-----------------------------------------------------------------------------
Next ==
  \/ Rotate \/ GoDown \/ ComeUp \/ StartLoad \/ BackoffOver \/ RetrySleepOver
  \/ DebounceOver \/ OnModuleDestroy
  \/ \E f \in Fetch : \/ Respond(f) \/ BootLoaded(f) \/ BootFailed(f)
                      \/ RetryLoadEnds(f) \/ ReloadEnds(f)
  \/ \E k \in Kid : UnknownKid(k)

Spec == Init /\ [][Next]_vars

\* Timers fire, each fetch has a deadline, and the endpoint comes back.
Fairness ==
  /\ WF_vars(ComeUp) /\ WF_vars(StartLoad \/ BackoffOver \/ RetrySleepOver)
  /\ WF_vars(DebounceOver)
  /\ \A f \in Fetch :
       /\ WF_vars(Respond(f))
       /\ WF_vars(BootLoaded(f) \/ BootFailed(f) \/ RetryLoadEnds(f) \/ ReloadEnds(f))

FairSpec == Spec /\ Fairness

-----------------------------------------------------------------------------
(* Properties                                                               *)

\* Every variable keeps its type: the loaded document, the calls in flight, the loop.
TypeOK ==
  /\ published \in Version /\ up \in BOOLEAN /\ outages \in 0..MaxOutages
  /\ loaded \in Version \cup {0}
  /\ fetches \in [Fetch -> [by : {"nobody", "boot", "loop", "reload"}, got : Version \cup {0}]]
  /\ boot \in {"start", "load", "backoff", "retrySleep", "retryLoad", "done"}
  /\ attempt \in 1..BACKOFF_MAX_ATTEMPTS /\ serving \in BOOLEAN
  /\ debounce \in BOOLEAN /\ destroyed \in BOOLEAN /\ setbacks \in Nat

\* However many requests carry unknown kids, and whatever the background loop does, the
\* identity service sees at most one reload and one other load of this process at a time.
FetchesBounded ==
  LET by(S) == Cardinality({f \in Fetch : fetches[f].by \in S}) IN
  by({"reload"}) <= 1 /\ by({"boot", "loop"}) <= 1

\* The inductive invariant behind FetchesBounded: each loader has one call in flight at most,
\* and onModuleInit and the loop have theirs only where their code awaits one.
LoadsInv ==
  /\ TypeOK
  /\ \A f, g \in Fetch : fetches[f].by = "reload" /\ fetches[g].by = "reload" => f = g
  /\ \A f, g \in Fetch :
       fetches[f].by \in {"boot", "loop"} /\ fetches[g].by \in {"boot", "loop"} => f = g
  /\ \A f \in Fetch : fetches[f].by = "boot" => boot = "load"
  /\ \A f \in Fetch : fetches[f].by = "loop" => boot = "retryLoad"

\* The inductive invariant behind SetBackAtMostOnce: until the loop ends no reload holds a
\* document older than the loaded one, and after a set-back none does for good.
RaceInv ==
  /\ LoadsInv
  /\ loaded <= published /\ \A f \in Fetch : fetches[f].got <= published
  /\ boot \in {"start", "load", "backoff"} => ~serving /\ loaded = 0
  /\ ~serving => \A f \in Fetch : fetches[f].by # "reload"
  /\ boot # "done" => setbacks = 0
  /\ boot # "done" \/ setbacks = 1 =>
       \A f \in Fetch : fetches[f].by = "reload" => fetches[f].got \in {0} \cup loaded..published
  /\ setbacks <= 1

\* An older document replaces a newer one at most once in the life of the process: only the
\* last load of the background loop can race a reload.
SetBackAtMostOnce == setbacks <= 1

\* A service that started without keys gets some once the endpoint serves a usable
\* document, even if no request ever triggers a reload.
ReadyInTheEnd == []<>(IsReady \/ destroyed \/ Documents[published] = {})

\* For every published key, requests signed with it keep coming.
RequestsKeepComing == \A k \in Kid : SF_vars(k \in Documents[published] /\ UnknownKid(k))

\* Then every key the endpoint publishes ends in the map, whatever rotations, outages,
\* debounce windows and racing loads came before.
PublishedKeysAreKnown ==
  RequestsKeepComing => <>[](Documents[published] \subseteq keyMap \/ destroyed)
=============================================================================
