------------------------- MODULE JwksServiceProofs -------------------------
(* For every number of keys, documents, outages and requests: the loads of  *)
(* the public keys are bounded, and only one race can bring an old document  *)
(* back.                                                                    *)
EXTENDS JwksService, FiniteSetTheorems, TLAPS

\* The indices of the documents.
LEMMA Versions == /\ Version = 1..Len(Documents) /\ Len(Documents) \in Nat \ {0}
                  /\ 1 \in Version
  BY JwksAssumption DEF Version

\* The initial state: no call is in flight.
LEMMA InitLoads == Init => LoadsInv
  <1> SUFFICES ASSUME Init PROVE LoadsInv
    OBVIOUS
  <1>1. fetches \in [Fetch -> [by : {"nobody", "boot", "loop", "reload"},
                             got : Version \cup {0}]]
    BY DEF Init, Free
  <1>2. /\ published \in Version /\ outages \in 0..MaxOutages
        /\ attempt \in 1..BACKOFF_MAX_ATTEMPTS /\ setbacks \in Nat
        /\ loaded \in Version \cup {0}
    BY Versions, JwksAssumption DEF Init
  <1>3. TypeOK
    BY <1>1, <1>2 DEF Init, TypeOK
  <1>4. \A f \in Fetch : fetches[f].by = "nobody"
    BY DEF Init, Free
  <1> QED BY <1>3, <1>4 DEF LoadsInv

\* A call of loadPublicKey that ends leaves the other calls as they are.
LEMMA LoadEnds ==
  ASSUME TypeOK, NEW f \in Fetch, fetches[f].by # "nobody", Loaded(f) \/ LoadThrows(f)
  PROVE  /\ fetches' = [fetches EXCEPT ![f] = Free]
         /\ loaded' \in Version \cup {0} /\ setbacks' \in Nat
         /\ fetches' \in [Fetch -> [by : {"nobody", "boot", "loop", "reload"},
                                    got : Version \cup {0}]]
  <1>1. CASE Loaded(f)
    BY <1>1 DEF Loaded, TypeOK, Free
  <1>2. CASE LoadThrows(f)
    BY <1>2 DEF LoadThrows, TypeOK, Free
  <1> QED BY <1>1, <1>2

\* A new call takes a free slot.
LEMMA LoadStarts ==
  ASSUME TypeOK, NEW who \in {"boot", "loop", "reload"}, Load(who)
  PROVE  \E f \in Fetch :
           /\ fetches[f].by = "nobody"
           /\ fetches' = [fetches EXCEPT ![f] = [by |-> who, got |-> 0]]
           /\ fetches' \in [Fetch -> [by : {"nobody", "boot", "loop", "reload"},
                                      got : Version \cup {0}]]
  <1>1. PICK f \in Fetch : /\ fetches[f] = Free
                           /\ fetches' = [fetches EXCEPT ![f] = [by |-> who, got |-> 0]]
    BY DEF Load
  <1>2. fetches[f].by = "nobody"
    BY <1>1 DEF Free
  <1>3. [by |-> who, got |-> 0] \in [by : {"nobody", "boot", "loop", "reload"},
                                      got : Version \cup {0}]
    OBVIOUS
  <1> QED BY <1>1, <1>2, <1>3 DEF TypeOK

\* Every step of the service and of the endpoint keeps the invariant.
LEMMA NextLoads == LoadsInv /\ [Next]_vars => LoadsInv'
  <1> SUFFICES ASSUME LoadsInv, [Next]_vars PROVE LoadsInv'
    OBVIOUS
  <1> USE DEF LoadsInv
  <1> TypeOK
    OBVIOUS
  <1>1. CASE Rotate
    BY <1>1, Versions DEF Rotate, TypeOK, bootVars
  <1>2. CASE GoDown
    <2>1. outages' \in 0..MaxOutages
      BY <1>2, JwksAssumption DEF GoDown, TypeOK
    <2>2. UNCHANGED <<fetches, boot>>
      BY <1>2 DEF GoDown, bootVars
    <2>3. TypeOK'
      BY <1>2, <2>1, <2>2 DEF GoDown, TypeOK, bootVars
    <2> QED BY <2>2, <2>3
  <1>3. CASE ComeUp
    BY <1>3 DEF ComeUp, TypeOK, bootVars
  <1>4. CASE StartLoad
    <2>1. PICK f \in Fetch :
            /\ fetches[f].by = "nobody"
            /\ fetches' = [fetches EXCEPT ![f] = [by |-> "boot", got |-> 0]]
            /\ fetches' \in [Fetch -> [by : {"nobody", "boot", "loop", "reload"},
                                       got : Version \cup {0}]]
      BY <1>4, LoadStarts DEF StartLoad
    <2> QED BY <1>4, <2>1 DEF StartLoad, TypeOK, endpointVars
  <1>5. CASE BackoffOver
    <2>1. PICK f \in Fetch :
            /\ fetches[f].by = "nobody"
            /\ fetches' = [fetches EXCEPT ![f] = [by |-> "boot", got |-> 0]]
            /\ fetches' \in [Fetch -> [by : {"nobody", "boot", "loop", "reload"},
                                       got : Version \cup {0}]]
      BY <1>5, LoadStarts DEF BackoffOver
    <2> QED BY <1>5, <2>1 DEF BackoffOver, TypeOK, endpointVars
  <1>6. CASE RetrySleepOver
    <2>1. CASE IsReady
      BY <1>6, <2>1 DEF RetrySleepOver, TypeOK, endpointVars
    <2>2. CASE ~IsReady
      <3>1. PICK f \in Fetch :
              /\ fetches[f].by = "nobody"
              /\ fetches' = [fetches EXCEPT ![f] = [by |-> "loop", got |-> 0]]
              /\ fetches' \in [Fetch -> [by : {"nobody", "boot", "loop", "reload"},
                                         got : Version \cup {0}]]
        BY <1>6, <2>2, LoadStarts DEF RetrySleepOver
      <3> QED BY <1>6, <2>2, <3>1 DEF RetrySleepOver, TypeOK, endpointVars
    <2> QED BY <2>1, <2>2
  <1>7. CASE DebounceOver
    BY <1>7 DEF DebounceOver, DebounceEnds, TypeOK, endpointVars, bootVars
  <1>8. CASE OnModuleDestroy
    BY <1>8 DEF OnModuleDestroy, TypeOK, endpointVars, bootVars
  <1>9. ASSUME NEW f \in Fetch, Respond(f) PROVE LoadsInv'
    BY <1>9 DEF Respond, TypeOK, endpointVars, bootVars
  <1>10. ASSUME NEW f \in Fetch, BootLoaded(f) PROVE LoadsInv'
    BY <1>10, LoadEnds DEF BootLoaded, TypeOK, endpointVars, Free
  <1>11. ASSUME NEW f \in Fetch, BootFailed(f) PROVE LoadsInv'
    <2>1. attempt' \in 1..BACKOFF_MAX_ATTEMPTS
      BY <1>11, JwksAssumption DEF BootFailed, TriesLeft, TypeOK
    <2>2. /\ fetches[f].by = "boot"
          /\ boot' \in {"done", "backoff", "retrySleep"}
          /\ serving' \in BOOLEAN
      BY <1>11 DEF BootFailed, TypeOK
    <2>3. /\ fetches' = [fetches EXCEPT ![f] = Free]
          /\ loaded' \in Version \cup {0} /\ setbacks' \in Nat
          /\ fetches' \in [Fetch -> [by : {"nobody", "boot", "loop", "reload"},
                                     got : Version \cup {0}]]
      BY <1>11, <2>2, LoadEnds DEF BootFailed
    <2>4. TypeOK'
      BY <1>11, <2>1, <2>2, <2>3 DEF BootFailed, TypeOK, endpointVars
    <2>5. \A g \in Fetch : g # f => fetches'[g].by \notin {"boot", "loop"}
      BY <2>2, <2>3 DEF TypeOK
    <2>6. fetches'[f].by = "nobody"
      BY <2>3 DEF TypeOK, Free
    <2>7. \A g \in Fetch : fetches'[g].by = "reload" => fetches[g].by = "reload"
      BY <2>3, <2>6 DEF TypeOK
    <2> QED BY <2>4, <2>5, <2>6, <2>7
  <1>12. ASSUME NEW f \in Fetch, RetryLoadEnds(f) PROVE LoadsInv'
    BY <1>12, LoadEnds DEF RetryLoadEnds, LoopAgain, TypeOK, endpointVars, Free
  <1>13. ASSUME NEW f \in Fetch, ReloadEnds(f) PROVE LoadsInv'
    BY <1>13, LoadEnds DEF ReloadEnds, TypeOK, endpointVars, bootVars, Free
  <1>14. ASSUME NEW k \in Kid, UnknownKid(k) PROVE LoadsInv'
    <2>1. PICK f \in Fetch :
            /\ fetches[f].by = "nobody"
            /\ fetches' = [fetches EXCEPT ![f] = [by |-> "reload", got |-> 0]]
            /\ fetches' \in [Fetch -> [by : {"nobody", "boot", "loop", "reload"},
                                       got : Version \cup {0}]]
      BY <1>14, LoadStarts DEF UnknownKid
    <2> QED BY <1>14, <2>1
            DEF UnknownKid, MayReload, ReloadUnderWay, TypeOK, endpointVars, bootVars
  <1>15. CASE UNCHANGED vars
    BY <1>15 DEF vars, TypeOK
  <1> QED BY <1>1, <1>2, <1>3, <1>4, <1>5, <1>6, <1>7, <1>8, <1>9, <1>10, <1>11, <1>12,
             <1>13, <1>14, <1>15 DEF Next

\* The inductive invariant: each loader of the keys has one call in flight at most.
THEOREM LoadsInvariant == Spec => []LoadsInv
  BY InitLoads, NextLoads, PTL DEF Spec

\* The loaded document, the calls in flight and the loop keep their types.
THEOREM LoadsTypes == Spec => []TypeOK
  <1>1. LoadsInv => TypeOK
    BY DEF LoadsInv
  <1> QED BY <1>1, LoadsInvariant, PTL

\* A set without two different members has at most one.
LEMMA AtMostOne ==
  ASSUME NEW S, \A x, y \in S : x = y
  PROVE  Cardinality(S) <= 1
  <1>1. CASE S = {}
    BY <1>1, FS_EmptySet
  <1>2. CASE S # {}
    <2>1. PICK x \in S : TRUE
      BY <1>2
    <2>2. S = {x}
      BY <2>1
    <2> QED BY <2>2, FS_Singleton
  <1> QED BY <1>1, <1>2

\* However many requests with unknown kids arrive, and whatever the background loop does, at
\* most one reload and one other load are in flight.
THEOREM LoadsAreBounded == Spec => []FetchesBounded
  <1>1. ASSUME LoadsInv PROVE FetchesBounded
    <2>1. Cardinality({f \in Fetch : fetches[f].by \in {"reload"}}) <= 1
      BY <1>1, AtMostOne DEF LoadsInv
    <2>2. Cardinality({f \in Fetch : fetches[f].by \in {"boot", "loop"}}) <= 1
      BY <1>1, AtMostOne DEF LoadsInv
    <2> QED BY <2>1, <2>2 DEF FetchesBounded
  <1> QED BY <1>1, LoadsInvariant, PTL

\* What a call that ends does to the loaded document, with the response it had.
LEMMA LoadSets ==
  ASSUME TypeOK, NEW f \in Fetch, Loaded(f) \/ LoadThrows(f)
  PROVE  \/ /\ loaded' = loaded /\ setbacks' = setbacks
         \/ /\ loaded' = fetches[f].got /\ loaded' # 0
            /\ setbacks' = IF loaded' < loaded THEN setbacks + 1 ELSE setbacks
  BY DEF Loaded, LoadThrows, TypeOK

\* A reload starts without a response.
LEMMA ReloadStarts ==
  ASSUME TypeOK, NEW who \in {"boot", "loop", "reload"}, Load(who)
  PROVE  \A g \in Fetch : \/ fetches'[g] = fetches[g]
                          \/ fetches'[g].by = who /\ fetches'[g].got = 0
  BY DEF Load, TypeOK, Free

\* The initial state: nothing is loaded and nothing is in flight.
LEMMA InitRace == Init => RaceInv
  BY InitLoads, Versions DEF Init, RaceInv, Free

\* Every step keeps the order of the documents that a race may swap once.
LEMMA NextRace == RaceInv /\ [Next]_vars => RaceInv'
  <1> SUFFICES ASSUME RaceInv, [Next]_vars PROVE RaceInv'
    OBVIOUS
  <1> LoadsInv'
    BY NextLoads DEF RaceInv
  <1> LoadsInv /\ TypeOK /\ TypeOK'
    BY DEF RaceInv, LoadsInv
  <1> DEFINE got(g) == fetches[g].got
  <1>0. /\ published \in Nat /\ loaded \in Nat /\ setbacks \in Nat
        /\ published' \in Nat /\ loaded' \in Nat /\ setbacks' \in Nat
        /\ \A g \in Fetch : got(g) \in Nat /\ got(g)' \in Nat
    BY Versions DEF TypeOK
  <1>1. CASE Rotate
    BY <1>0, <1>1 DEF Rotate, RaceInv, bootVars
  <1>2. CASE GoDown
    BY <1>2 DEF GoDown, RaceInv, bootVars
  <1>3. CASE ComeUp
    BY <1>3 DEF ComeUp, RaceInv, bootVars
  <1>4. CASE StartLoad
    BY <1>0, <1>4, ReloadStarts DEF StartLoad, RaceInv, endpointVars
  <1>5. CASE BackoffOver
    BY <1>0, <1>5, ReloadStarts DEF BackoffOver, RaceInv, endpointVars
  <1>6. CASE RetrySleepOver
    BY <1>0, <1>6, ReloadStarts DEF RetrySleepOver, RaceInv, endpointVars
  <1>7. CASE DebounceOver
    BY <1>7 DEF DebounceOver, RaceInv, endpointVars, bootVars
  <1>8. CASE OnModuleDestroy
    BY <1>8 DEF OnModuleDestroy, RaceInv, endpointVars, bootVars
  <1>9. ASSUME NEW f \in Fetch, Respond(f) PROVE RaceInv'
    <2>1. \A g \in Fetch : /\ fetches'[g].by = fetches[g].by
                           /\ got(g)' = IF g = f THEN published ELSE got(g)
      BY <1>9 DEF Respond, TypeOK
    <2> QED BY <1>0, <1>9, <2>1 DEF Respond, RaceInv, endpointVars, bootVars
  <1>10. ASSUME NEW f \in Fetch, BootLoaded(f) PROVE RaceInv'
    <2>1. /\ boot = "load" /\ fetches[f].by = "boot" /\ loaded = 0
      BY <1>10 DEF BootLoaded, RaceInv
    <2>2. \A g \in Fetch : fetches'[g] = IF g = f THEN Free ELSE fetches[g]
      BY <1>10, <2>1, LoadEnds DEF BootLoaded, TypeOK
    <2>3. loaded' = fetches[f].got /\ setbacks' = setbacks
      BY <1>0, <1>10, <2>1 DEF BootLoaded, Loaded
    <2> QED BY <1>0, <1>10, <2>1, <2>2, <2>3
            DEF BootLoaded, RaceInv, endpointVars, Free
  <1>11. ASSUME NEW f \in Fetch, BootFailed(f) PROVE RaceInv'
    <2>1. /\ boot = "load" /\ fetches[f].by = "boot"
          /\ loaded' = loaded /\ setbacks' = setbacks
      BY <1>11 DEF BootFailed, LoadThrows
    <2>2. \A g \in Fetch : fetches'[g] = IF g = f THEN Free ELSE fetches[g]
      BY <1>11, <2>1, LoadEnds DEF BootFailed, TypeOK
    <2> QED BY <1>0, <1>11, <2>1, <2>2 DEF BootFailed, RaceInv, endpointVars, Free
  <1>12. ASSUME NEW f \in Fetch, RetryLoadEnds(f) PROVE RaceInv'
    <2>0. /\ boot = "retryLoad" /\ fetches[f].by = "loop"
          /\ UNCHANGED <<published, serving>>
      BY <1>12 DEF RetryLoadEnds, endpointVars
    <2>1. setbacks = 0 /\ (serving \/ \A g \in Fetch : fetches[g].by # "reload")
      BY <2>0 DEF RaceInv
    <2>2. \A g \in Fetch : fetches'[g] = IF g = f THEN Free ELSE fetches[g]
      BY <1>12, <2>0, LoadEnds DEF RetryLoadEnds, TypeOK
    <2>3. \/ loaded' = loaded /\ setbacks' = setbacks
          \/ /\ loaded' = got(f) /\ loaded' # 0
             /\ setbacks' = IF loaded' < loaded THEN setbacks + 1 ELSE setbacks
      BY <1>12, LoadSets DEF RetryLoadEnds
    <2>4. boot' \in {"done", "retrySleep"} /\ (loaded' # 0 => boot' = "done")
      BY <1>12 DEF RetryLoadEnds, LoopAgain
    <2> QED BY <1>0, <2>0, <2>1, <2>2, <2>3, <2>4 DEF RaceInv, Free
  <1>13. ASSUME NEW f \in Fetch, ReloadEnds(f) PROVE RaceInv'
    <2>1. /\ fetches[f].by = "reload" /\ UNCHANGED <<published, boot, serving>> /\ serving
      BY <1>13 DEF ReloadEnds, RaceInv, endpointVars, bootVars
    <2>2. \A g \in Fetch : fetches'[g] = IF g = f THEN Free ELSE fetches[g]
      BY <1>13, <2>1, LoadEnds DEF ReloadEnds, TypeOK
    <2>3. \/ loaded' = loaded /\ setbacks' = setbacks
          \/ /\ loaded' = got(f) /\ loaded' # 0
             /\ setbacks' = IF loaded' < loaded THEN setbacks + 1 ELSE setbacks
      BY <1>13, LoadSets DEF ReloadEnds
    <2>4. \A g \in Fetch : fetches'[g].by # "reload"
      BY <2>1, <2>2 DEF LoadsInv, Free
    <2> QED BY <1>0, <2>1, <2>2, <2>3, <2>4 DEF RaceInv, Free
  <1>14. ASSUME NEW k \in Kid, UnknownKid(k) PROVE RaceInv'
    BY <1>0, <1>14, ReloadStarts DEF UnknownKid, RaceInv, endpointVars, bootVars
  <1>15. CASE UNCHANGED vars
    BY <1>15 DEF vars, RaceInv
  <1> QED BY <1>1, <1>2, <1>3, <1>4, <1>5, <1>6, <1>7, <1>8, <1>9, <1>10, <1>11, <1>12,
             <1>13, <1>14, <1>15 DEF Next

\* An older document replaces a newer one at most once: only the last load of the background
\* loop can race a reload, and no load races the next reload.
THEOREM SetBacksAreRare == Spec => []SetBackAtMostOnce
  <1>1. RaceInv => SetBackAtMostOnce
    BY DEF RaceInv, SetBackAtMostOnce
  <1> QED BY <1>1, InitRace, NextRace, PTL DEF Spec
=============================================================================
