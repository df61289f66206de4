-------------------------- MODULE ConfigCache_proofs --------------------------
(***************************************************************************)
(* How stale a configuration can be, what becomes of an announced          *)
(* override, and when a restart is asked for, for any number of requests,  *)
(* callers, keys, writes and ticks.                                        *)
(***************************************************************************)
EXTENDS ConfigCache, TLAPS

USE DEF tableVars, cacheVars, NoCache

Steps == {"idle", "flag", "clear", "serve", "load", "store"}

\* The conjuncts of TypeOK that a step of one side leaves alone.
TableType ==
    /\ overrides \subseteq Keys /\ version \in 0..MaxWrites
    /\ flag \in BOOLEAN /\ restart \in BOOLEAN
    /\ promised \in 0..version /\ crossed \in BOOLEAN

CacheType ==
    /\ cache \in {NoCache} \cup (0..version) /\ age \in 0..CacheTTL
    /\ blind \in BOOLEAN /\ dropped \in BOOLEAN

CallType ==
    /\ call \in [Callers -> Call]
    /\ \A c \in Callers :
          /\ call[c].snap <= version
          /\ call[c].at \in {"flag", "clear", "serve"} => cache # NoCache

SinceType == since \in [0..MaxWrites -> 0..(Bound + 1)]

ReqType == req \in [Requests -> Request]

LEMMA TypeParts ==
    TypeOK <=> TableType /\ CacheType /\ CallType /\ SinceType /\ ReqType
  BY Zenon DEF TypeOK, TableType, CacheType, CallType, SinceType, ReqType

LEMMA TypePartsNext ==
    TableType' /\ CacheType' /\ CallType' /\ SinceType' /\ ReqType' => TypeOK'
  BY Zenon DEF TypeOK, TableType, CacheType, CallType, SinceType, ReqType

LEMMA BoundType == Bound \in Nat /\ CacheTTL \in Nat \ {0} /\ MaxCall \in Nat /\ MaxWrites \in Nat
  BY ConfigAssumption DEF Bound

LEMMA NoCallType == NoCall \in Call /\ NoCall.snap = 0 /\ NoCall.at = "idle"
  BY BoundType DEF NoCall, Call

LEMMA RequestTypes ==
    /\ NoRequest \in Request
    /\ \A n \in {"restart", "read", "done"} : [at |-> "flag", next |-> n] \in Request
    /\ \A a \in {"restart", "read", "lift"} : [at |-> a] \in Request
  BY Zenon DEF Request

LEMMA FlagType ==
    ASSUME NEW q \in Request, q.at = "flag"
    PROVE  q.next \in {"restart", "read", "done"}
<1>1. NoRequest.at # "flag"
  BY DEF NoRequest
<1>2. ~ q \in [at : {"restart", "read", "lift"}]
  OBVIOUS
<1>3. q \in [at : {"flag"}, next : {"restart", "read", "done"}]
  BY <1>1, <1>2, Zenon DEF Request
<1> QED BY <1>3

LEMMA AfterType ==
    ASSUME NEW n \in {"restart", "read", "done"}
    PROVE  After(n) \in Request
  BY RequestTypes, Zenon DEF After

\* Replacing one request by another keeps the type.
LEMMA ReqStep ==
    ASSUME ReqType, NEW r \in Requests, NEW q \in Request, req' = [req EXCEPT ![r] = q]
    PROVE  ReqType'
  BY DEF ReqType

-----------------------------------------------------------------------------
(* Types.                                                                  *)

LEMMA TypeStart == Init => TypeOK
<1> SUFFICES ASSUME Init PROVE TypeOK
  OBVIOUS
<1>0. FALSE \in BOOLEAN /\ 0 \in 0..MaxWrites /\ 0 \in 0..0 /\ 0 \in 0..CacheTTL
      /\ 0 \in 0..(Bound + 1)
  BY BoundType
<1>1. TableType /\ CacheType /\ SinceType /\ ReqType
  BY <1>0, RequestTypes, Zenon DEF Init, TableType, CacheType, SinceType, ReqType
<1>2. CallType
  BY <1>1, NoCallType DEF Init, CallType, TableType
<1> QED BY <1>1, <1>2, TypeParts

LEMMA TypeRequest ==
    ASSUME TypeOK, NEW r \in Requests, Dashboard(r)
    PROVE  TypeOK'
<1>0. TableType /\ CacheType /\ CallType /\ SinceType /\ ReqType
  BY TypeParts
<1> USE DEF dashUnchanged
<1>v. version \in Nat
  BY <1>0 DEF TableType
<1>1. ASSUME NEW k \in Keys, Upsert(r, k)
      PROVE  TableType' /\ ReqType' /\ version <= version'
  <2>1. crossed' \in BOOLEAN
    BY <1>1, Zenon DEF Upsert
  <2>2. TableType' /\ version <= version'
    BY <1>0, <1>1, <2>1, <1>v, BoundType DEF Upsert, Write, TableType
  <2>3. (IF k \in RestartKeys THEN "restart" ELSE "done") \in {"restart", "read", "done"}
    OBVIOUS
  <2>4. ReqType'
    BY <1>0, <1>1, <2>3, RequestTypes, ReqStep, Zenon DEF Upsert
  <2> QED BY <2>2, <2>4
<1>1b. ASSUME NEW k \in Keys, Delete(r, k)
      PROVE  TableType' /\ ReqType' /\ version <= version'
  <2>1. TableType' /\ version <= version'
    BY <1>0, <1>1b, <1>v, BoundType DEF Delete, Write, TableType
  <2>2. ReqType'
    BY <1>0, <1>1b, RequestTypes, ReqStep, Zenon DEF Delete
  <2> QED BY <2>1, <2>2
<1>2. ASSUME RaiseFlag(r) PROVE TableType' /\ ReqType' /\ version <= version'
  <2>1. After(req[r].next) \in Request
    BY <1>0, <1>2, FlagType, AfterType, Zenon DEF RaiseFlag, ReqType
  <2>2. ReqType'
    BY <1>0, <1>2, <2>1, ReqStep, Zenon DEF RaiseFlag
  <2> QED BY <1>0, <1>2, <2>2 DEF RaiseFlag, TableType
<1>3. ASSUME AskRestart(r) PROVE TableType' /\ ReqType' /\ version <= version'
  <2>1. crossed' \in BOOLEAN
    BY <1>3, Zenon DEF AskRestart, Lifting
  <2>2. ReqType'
    BY <1>0, <1>3, RequestTypes, ReqStep, Zenon DEF AskRestart
  <2> QED BY <1>0, <1>3, <2>1, <2>2 DEF AskRestart, TableType
<1>4. ASSUME ReadRemaining(r) PROVE TableType' /\ ReqType' /\ version <= version'
  <2>1. ReqType'
    BY <1>0, <1>4, RequestTypes, ReqStep, Zenon DEF ReadRemaining
  <2> QED BY <1>0, <1>4, <2>1 DEF ReadRemaining, TableType
<1>5. ASSUME Lift(r) PROVE TableType' /\ ReqType' /\ version <= version'
  <2>1. ReqType'
    BY <1>0, <1>5, RequestTypes, ReqStep, Zenon DEF Lift
  <2>2. restart' \in BOOLEAN
    BY <1>5, Zenon DEF Lift
  <2>3. UNCHANGED <<overrides, version, flag, promised, crossed>>
    BY <1>5 DEF Lift
  <2> QED BY <1>0, <1>v, <2>1, <2>2, <2>3 DEF TableType
<1>6. ASSUME Break(r) PROVE TableType' /\ ReqType' /\ version <= version'
  <2>1. crossed' \in BOOLEAN
    BY <1>6, Zenon DEF Break
  <2>2. ReqType'
    BY <1>0, <1>6, RequestTypes, ReqStep, Zenon DEF Break
  <2> QED BY <1>0, <1>6, <2>1, <2>2 DEF Break, TableType
<1>7. TableType' /\ ReqType' /\ version <= version'
  BY <1>1, <1>1b, <1>2, <1>3, <1>4, <1>5, <1>6, Zenon DEF Dashboard
<1>8. UNCHANGED <<cacheVars, call, since>>
  BY DEF Dashboard, Upsert, Delete, RaiseFlag, AskRestart, ReadRemaining, Lift, Break
<1>9. version \in Int /\ version' \in Int
  BY <1>0, <1>7 DEF TableType
<1>10. CacheType'
  BY <1>0, <1>7, <1>8, <1>9 DEF CacheType
<1>11. CallType'
  BY <1>0, <1>7, <1>8, <1>9, BoundType DEF CallType, Call
<1>12. SinceType'
  BY <1>0, <1>8 DEF SinceType
<1> QED BY <1>7, <1>10, <1>11, <1>12, TypePartsNext, Zenon

LEMMA TypeCall ==
    ASSUME TypeOK, NEW c \in Callers, GetEffectiveConfig(c)
    PROVE  TypeOK'
<1>0. TableType /\ CacheType /\ CallType /\ SinceType /\ ReqType
  BY TypeParts
<1>1. TableType' /\ SinceType' /\ ReqType' /\ version' = version
  <2>1. flag' \in BOOLEAN
    BY <1>0, Zenon DEF GetEffectiveConfig, Enter, ReadFlag, Clear, Serve, Load, LoadFails, Store,
                       TableType
  <2> QED BY <1>0, <2>1 DEF GetEffectiveConfig, Enter, ReadFlag, Clear, Serve, Load, LoadFails,
                            Store, callUnchanged, TableType, SinceType, ReqType
<1> USE DEF Call
<1>2. ASSUME Enter(c) PROVE CacheType' /\ CallType'
  BY <1>0, <1>1, <1>2 DEF Enter, At, Fresh, NoCall, CacheType, CallType
<1>3. ASSUME ReadFlag(c) PROVE CacheType' /\ CallType'
  BY <1>0, <1>1, <1>3 DEF ReadFlag, At, CacheType, CallType
<1>4. ASSUME Clear(c) PROVE CacheType' /\ CallType'
  BY <1>0, <1>1, <1>4 DEF Clear, At, CacheType, CallType
<1>5. ASSUME Serve(c) PROVE CacheType' /\ CallType'
  BY <1>0, <1>1, <1>5, NoCallType DEF Serve, Return, CacheType, CallType, TableType
<1>6. ASSUME Load(c) PROVE CacheType' /\ CallType'
  <2>1. CacheType'
    BY <1>0, <1>1, <1>6 DEF Load, CacheType
  <2>2. call' = [call EXCEPT ![c].at = "store", ![c].snap = version] /\ version \in 0..MaxWrites
    BY <1>0, <1>6 DEF Load, TableType
  <2>3. CallType'
    <3>1. call' = [call EXCEPT ![c] = [call[c] EXCEPT !.at = "store", !.snap = version]]
      BY <1>0, <2>2 DEF CallType
    <3>2. [call[c] EXCEPT !.at = "store", !.snap = version] \in Call
      BY <1>0, <2>2 DEF CallType
    <3>3. call' \in [Callers -> Call]
      BY <1>0, <3>1, <3>2, Zenon DEF CallType
    <3>4. version <= version /\ UNCHANGED cache
      BY <1>6, <2>2 DEF Load
    <3>5. call'[c].snap = version /\ call'[c].at = "store"
      BY <1>0, <3>1 DEF CallType
    <3>6. \A d \in Callers : d # c => call'[d] = call[d]
      BY <1>0, <3>1 DEF CallType
    <3> QED BY <1>0, <1>1, <3>3, <3>4, <3>5, <3>6 DEF CallType
  <2> QED BY <2>1, <2>3
<1>7. ASSUME LoadFails(c) PROVE CacheType' /\ CallType'
  <2>1. dropped' \in BOOLEAN
    BY <1>0, <1>7, Zenon DEF LoadFails, CacheType
  <2>2. cache' \in {NoCache} \cup (0..version') /\ age' \in 0..CacheTTL
    BY <1>0, <1>1, <1>7, BoundType DEF LoadFails, CacheType, TableType
  <2>3. blind' \in BOOLEAN
    BY <1>0, <1>7, Zenon DEF LoadFails, CacheType
  <2>4. CacheType'
    BY <2>1, <2>2, <2>3, Zenon DEF CacheType
  <2> QED BY <1>0, <1>1, <1>7, <2>4, NoCallType DEF LoadFails, Return, CacheType, CallType, TableType
<1>8. ASSUME Store(c) PROVE CacheType' /\ CallType'
  <2>1. dropped' \in BOOLEAN
    BY <1>8, Zenon DEF Store
  <2>4. cache' \in {NoCache} \cup (0..version') /\ age' \in 0..CacheTTL
    BY <1>0, <1>1, <1>8, BoundType DEF Store, CallType, TableType
  <2>5. blind' \in BOOLEAN
    BY <1>8, Zenon DEF Store
  <2>2. CacheType'
    BY <2>1, <2>4, <2>5, Zenon DEF CacheType
  <2>3. cache' # NoCache
    BY <1>0, <1>8 DEF Store, CallType
  <2> QED BY <1>0, <1>1, <1>8, <2>2, <2>3, NoCallType DEF Store, Return, CallType, TableType
<1> QED BY <1>1, <1>2, <1>3, <1>4, <1>5, <1>6, <1>7, <1>8, TypePartsNext, Zenon DEF GetEffectiveConfig

LEMMA TypeClock == ASSUME TypeOK, Tick PROVE TypeOK'
<1>0. TableType /\ CacheType /\ CallType /\ SinceType /\ ReqType
  BY TypeParts
<1>1. TableType' /\ ReqType'
  BY <1>0 DEF Tick, TableType, ReqType
<1>2. CacheType'
  BY <1>0, BoundType DEF Tick, UpTo, CacheType
<1>3. SinceType'
  BY <1>0, BoundType DEF Tick, UpTo, SinceType
<1>4. call' \in [Callers -> Call]
  <2> SUFFICES ASSUME NEW c \in Callers
               PROVE  (IF call[c].at = "idle" THEN call[c]
                       ELSE [call[c] EXCEPT !.waited = @ + 1]) \in Call
    BY DEF Tick
  <2>1. call[c] \in Call /\ (call[c].at = "idle" \/ call[c].waited < MaxCall)
    BY <1>0 DEF Tick, CallType
  <2> QED BY <2>1, BoundType DEF Call
<1>5. \A c \in Callers : call'[c].snap = call[c].snap /\ call'[c].at = call[c].at
  BY <1>0 DEF Tick, CallType, Call
<1>6. CallType'
  BY <1>0, <1>4, <1>5 DEF CallType, Tick
<1> QED BY <1>1, <1>2, <1>3, <1>6, TypePartsNext, Zenon

LEMMA TypeKeeps == TypeOK /\ [Next]_vars => TypeOK'
<1> SUFFICES ASSUME TypeOK, [Next]_vars PROVE TypeOK'
  OBVIOUS
<1>1. CASE Restart
  <2>0. TableType /\ CacheType /\ CallType /\ SinceType /\ ReqType
    BY TypeParts
  <2>1. TableType' /\ CacheType' /\ SinceType' /\ ReqType'
    <3>1. TableType' /\ SinceType' /\ ReqType'
      BY <1>1, <2>0 DEF Restart, TableType, SinceType, ReqType
    <3>2. 0 \in 0..CacheTTL
      BY BoundType
    <3> QED BY <1>1, <3>1, <3>2, Zenon DEF Restart, CacheType
  <2>2. CallType'
    BY <1>1, <2>0, <2>1, NoCallType DEF Restart, CallType, TableType
  <2> QED BY <2>1, <2>2, TypePartsNext, Zenon
<1>2. CASE UNCHANGED vars
  BY <1>2 DEF vars, TypeOK
<1> QED BY <1>1, <1>2, TypeRequest, TypeCall, TypeClock DEF Next

\* Every variable keeps its shape, whatever the dashboard and ancnouv do.
THEOREM ConfigTypes == Spec => []TypeOK
  BY TypeStart, TypeKeeps, PTL DEF Spec

-----------------------------------------------------------------------------
(* How stale a configuration can be.                                       *)

\* What the cache and the calls under way are worth, by the clock.
StaleInv ==
    /\ TypeOK
    /\ \A v \in 0..MaxWrites : v >= version => since[v] = 0
    /\ \A c \in Callers : call[c].at = "store" => since[call[c].snap] <= call[c].waited
    /\ cache # NoCache /\ ~blind /\ age < CacheTTL => since[cache] <= age + MaxCall
    /\ \A c \in Callers :
          call[c].at \in {"flag", "clear", "serve"} /\ ~blind =>
              since[cache] <= CacheTTL - 1 + MaxCall + call[c].waited

Numbers == /\ version \in Nat /\ version <= MaxWrites /\ age \in Nat
           /\ cache \in Int /\ cache >= -1 /\ cache <= version
           /\ cache # NoCache => cache \in 0..MaxWrites
           /\ \A v \in 0..MaxWrites : since[v] \in Nat
           /\ \A c \in Callers : /\ call[c] \in Call
                                  /\ call[c].waited \in Nat /\ call[c].waited <= MaxCall
                                  /\ call[c].snap \in 0..MaxWrites

LEMMA TypeNumbers == TypeOK => Numbers
<1> SUFFICES ASSUME TypeOK PROVE Numbers
  OBVIOUS
<1>0. TableType /\ CacheType /\ CallType /\ SinceType
  BY TypeParts
<1>1. version \in Nat /\ version <= MaxWrites /\ age \in Nat
  BY <1>0, BoundType DEF TableType, CacheType
<1>2. cache \in Int /\ cache >= -1 /\ cache <= version /\ (cache # NoCache => cache \in 0..MaxWrites)
  BY <1>0, <1>1, BoundType DEF CacheType
<1>3. \A v \in 0..MaxWrites : since[v] \in Nat
  BY <1>0, BoundType DEF SinceType
<1>4. ASSUME NEW c \in Callers
      PROVE  /\ call[c] \in Call
             /\ call[c].waited \in Nat /\ call[c].waited <= MaxCall
             /\ call[c].snap \in 0..MaxWrites
  BY <1>0, BoundType DEF CallType, Call
<1> QED BY <1>1, <1>2, <1>3, <1>4 DEF Numbers

LEMMA StaleRequest ==
    ASSUME StaleInv, TypeOK', NEW r \in Requests, Dashboard(r)
    PROVE  StaleInv'
<1>1. UNCHANGED <<cacheVars, call, since>>
  BY DEF Dashboard, Upsert, Delete, RaiseFlag, AskRestart, ReadRemaining, Lift, Break, dashUnchanged
<1>2. Numbers
  BY TypeNumbers DEF StaleInv
<1>3. version' \in Int /\ version' >= version
  <2>1. version' = version \/ version' = version + 1
    BY DEF Dashboard, Upsert, Delete, RaiseFlag, AskRestart, ReadRemaining, Lift, Break, Write
  <2> QED BY <1>2, <2>1 DEF Numbers
<1> QED BY <1>1, <1>2, <1>3 DEF StaleInv, Numbers

LEMMA StaleCall ==
    ASSUME StaleInv, TypeOK', NEW c \in Callers, GetEffectiveConfig(c)
    PROVE  StaleInv'
<1>0. Numbers /\ version' = version /\ since' = since
  BY TypeNumbers DEF StaleInv, GetEffectiveConfig, Enter, ReadFlag, Clear, Serve, Load, LoadFails,
                     Store, callUnchanged
<1>t. call \in [Callers -> Call] /\ (\A d \in Callers :
         call[d].at \in {"flag", "clear", "serve"} => cache # NoCache)
  BY DEF StaleInv, TypeOK
<1>1. ASSUME UNCHANGED cacheVars, NEW q, call' = [call EXCEPT ![c] = q],
             q.at = "store" => since[q.snap] <= q.waited,
             q.at \in {"flag", "clear", "serve"} /\ ~blind =>
                 since[cache] <= CacheTTL - 1 + MaxCall + q.waited
      PROVE  StaleInv'
  <2>1. \A d \in Callers : call'[d] = IF d = c THEN q ELSE call[d]
    BY <1>t, <1>1
  <2> QED BY <1>0, <1>1, <2>1 DEF StaleInv
<1>2. CASE Enter(c)
  <2> DEFINE q == [call[c] EXCEPT !.at = IF Fresh THEN "flag" ELSE "load"]
  <2>1. call' = [call EXCEPT ![c] = q] /\ q.waited = 0 /\ UNCHANGED cacheVars
    BY <1>2, <1>t DEF Enter, At, NoCall
  <2>2. q.at = "flag" => Fresh
    BY <1>2 DEF Enter, NoCall
  <2>3. q.at \in {"flag", "load"}
    BY <1>2 DEF Enter, NoCall
  <2>4. ASSUME Fresh, ~blind PROVE since[cache] <= CacheTTL - 1 + MaxCall
    BY <1>0, <2>4, BoundType DEF StaleInv, Fresh, Numbers
  <2>5. CacheTTL - 1 + MaxCall + q.waited = CacheTTL - 1 + MaxCall
    BY <2>1, BoundType
  <2> HIDE DEF q
  <2> QED BY <1>1, <2>1, <2>2, <2>3, <2>4, <2>5
<1>3. CASE ReadFlag(c)
  <2>1. PICK a \in {"clear", "serve"} : call' = [call EXCEPT ![c].at = a]
    BY <1>3 DEF ReadFlag, At
  <2> DEFINE q == [call[c] EXCEPT !.at = a]
  <2>2. call' = [call EXCEPT ![c] = q] /\ q.waited = call[c].waited /\ UNCHANGED cacheVars
        /\ q.at # "store" /\ call[c].at = "flag"
    BY <1>3, <2>1, <1>t DEF ReadFlag, Call
  <2> HIDE DEF q
  <2> QED BY <1>1, <2>2 DEF StaleInv
<1>4. CASE Clear(c)
  <2>1. PICK q \in {[call[c] EXCEPT !.at = "load", !.cleared = TRUE], [call[c] EXCEPT !.at = "serve"]} :
            call' = [call EXCEPT ![c] = q]
    BY <1>4, <1>t DEF Clear, At
  <2>2. q.waited = call[c].waited /\ UNCHANGED cacheVars /\ q.at # "store" /\ call[c].at = "clear"
    BY <1>4, <2>1, <1>t DEF Clear, Call
  <2> QED BY <1>1, <2>1, <2>2 DEF StaleInv
<1>5. CASE Serve(c)
  BY <1>1, <1>5 DEF Serve, Return, NoCall
<1>6. CASE Load(c)
  <2> DEFINE q == [call[c] EXCEPT !.at = "store", !.snap = version]
  <2>1. call' = [call EXCEPT ![c] = q] /\ q.waited = call[c].waited /\ q.snap = version
        /\ q.at = "store" /\ UNCHANGED cacheVars
    BY <1>6, <1>t DEF Load, Call
  <2>2. since[version] = 0 /\ call[c].waited \in Nat
    BY <1>0 DEF StaleInv, Numbers
  <2> HIDE DEF q
  <2>3. since[q.snap] <= q.waited /\ q.at \notin {"flag", "clear", "serve"}
    BY <2>1, <2>2
  <2> QED BY <1>1, <2>1, <2>3
<1>n. ASSUME Return(c),
             cache' # NoCache /\ ~blind' /\ age' < CacheTTL => since[cache'] <= age' + MaxCall,
             \A d \in Callers :
                 call[d].at \in {"flag", "clear", "serve"} /\ ~blind' =>
                     since[cache'] <= CacheTTL - 1 + MaxCall + call[d].waited
      PROVE  StaleInv'
  <2>1. \A d \in Callers : call'[d] = IF d = c THEN NoCall ELSE call[d]
    BY <1>t, <1>n DEF Return
  <2>2. NoCall.at = "idle"
    BY DEF NoCall
  <2> QED BY <1>0, <1>n, <2>1, <2>2 DEF StaleInv
<1>7. CASE LoadFails(c)
  <2>1. CASE cache # NoCache
    BY <1>n, <1>7, <2>1 DEF LoadFails, StaleInv
  <2>2. CASE cache = NoCache
    BY <1>n, <1>7, <2>2 DEF LoadFails
  <2> QED BY <2>1, <2>2
<1>8. CASE Store(c)
  <2>1. since[cache'] <= MaxCall /\ age' = 0 /\ since[cache'] \in Nat
    BY <1>0, <1>8, BoundType DEF Store, StaleInv, Numbers
  <2>2. \A d \in Callers : since[cache'] <= CacheTTL - 1 + MaxCall + call[d].waited
    BY <1>0, <2>1, BoundType DEF Numbers
  <2> QED BY <1>n, <1>8, <2>1, <2>2, BoundType DEF Store
<1> QED BY <1>2, <1>3, <1>4, <1>5, <1>6, <1>7, <1>8 DEF GetEffectiveConfig

LEMMA StaleClock == ASSUME StaleInv, TypeOK', Tick PROVE StaleInv'
<1>0. Numbers
  BY TypeNumbers DEF StaleInv
<1>t. call \in [Callers -> Call] /\ (\A d \in Callers :
         call[d].at \in {"flag", "clear", "serve"} => cache # NoCache)
  BY DEF StaleInv, TypeOK
<1>1. \A v \in 0..MaxWrites : since'[v] <= since[v] + 1 /\ (v >= version => since'[v] = 0)
  BY <1>0, BoundType DEF Tick, UpTo, Numbers
<1>2. \A d \in Callers :
         /\ call'[d].at = call[d].at /\ call'[d].snap = call[d].snap
         /\ call[d].at # "idle" => call'[d].waited = call[d].waited + 1
  BY <1>t DEF Tick, Call
<1>3. UNCHANGED <<version, cache, blind>>
  BY DEF Tick
<1>4. cache # NoCache /\ age' < CacheTTL => age' = age + 1 /\ age < CacheTTL
  BY <1>0, BoundType DEF Tick, UpTo, Numbers
<1>5. \A v \in 0..MaxWrites : since'[v] \in Int
  BY BoundType DEF TypeOK
<1>6. ASSUME NEW d \in Callers, call'[d].at = "store"
      PROVE  since'[call'[d].snap] <= call'[d].waited
  BY <1>0, <1>1, <1>2, <1>5, <1>6 DEF StaleInv, Numbers
<1>7. ASSUME cache # NoCache, ~blind, age' < CacheTTL
      PROVE  since'[cache] <= age' + MaxCall
  BY <1>0, <1>1, <1>4, <1>5, <1>7, BoundType DEF StaleInv, Numbers
<1>8. ASSUME NEW d \in Callers, call'[d].at \in {"flag", "clear", "serve"}, ~blind
      PROVE  since'[cache] <= CacheTTL - 1 + MaxCall + call'[d].waited
  BY <1>0, <1>t, <1>1, <1>2, <1>5, <1>8, BoundType DEF StaleInv, Numbers
<1> QED BY <1>1, <1>3, <1>6, <1>7, <1>8 DEF StaleInv

LEMMA StaleKeeps == StaleInv /\ [Next]_vars => StaleInv'
<1> SUFFICES ASSUME StaleInv, [Next]_vars PROVE StaleInv'
  OBVIOUS
<1>0. TypeOK'
  BY TypeKeeps DEF StaleInv
<1>1. CASE Restart
  BY <1>0, <1>1 DEF Restart, StaleInv, NoCall
<1>2. CASE UNCHANGED vars
  BY <1>0, <1>2 DEF vars, StaleInv
<1> QED BY <1>0, <1>1, <1>2, StaleRequest, StaleCall, StaleClock DEF Next

\* What a caller is about to get is at most Bound ticks old, for any TTL.
THEOREM ConfigSeenWithin == Spec => []SeenWithin
<1>1. Init => StaleInv
  BY TypeStart DEF Init, StaleInv, NoCall
<1>2. StaleInv => SeenWithin
  <2> SUFFICES ASSUME StaleInv, NEW c \in Callers
               PROVE  /\ call[c].at = "serve" /\ ~blind => Behind(cache) <= Bound
                      /\ call[c].at = "store" => Behind(call[c].snap) <= Bound
    BY DEF SeenWithin
  <2>1. Numbers /\ (call[c].at = "serve" => cache # NoCache)
    BY TypeNumbers DEF StaleInv, TypeOK
  <2>2. ASSUME call[c].at = "serve", ~blind PROVE Behind(cache) <= Bound
    BY <2>1, <2>2, BoundType DEF StaleInv, Numbers, Behind, Bound
  <2>3. ASSUME call[c].at = "store" PROVE Behind(call[c].snap) <= Bound
    BY <2>1, <2>3, BoundType DEF StaleInv, Numbers, Behind, Bound
  <2> QED BY <2>2, <2>3
<1> QED BY <1>1, <1>2, StaleKeeps, PTL DEF Spec

-----------------------------------------------------------------------------
(* What becomes of an announced override.                                  *)

\* Somebody is going to put it into the cache.
Coming ==
    \/ flag \/ dropped
    \/ \E c \in Callers : call[c].cleared /\ (call[c].at = "store" => call[c].snap >= promised)

ReloadInv ==
    /\ TypeOK
    /\ \A c \in Callers : call[c].cleared => call[c].at \in {"load", "store"}
    /\ \A c \in Callers : call[c].at = "store" /\ call[c].snap < promised =>
                              Coming \/ cache >= promised
    /\ NoLostReload

LEMMA Numbers2 ==
    ASSUME TypeOK
    PROVE  /\ Numbers /\ promised \in Nat /\ promised <= version
           /\ call \in [Callers -> Call]
<1>1. TableType /\ CallType
  BY TypeParts
<1> QED BY <1>1, TypeNumbers DEF TableType, CallType, Numbers

LEMMA ReloadRequest ==
    ASSUME ReloadInv, TypeOK', NEW r \in Requests, Dashboard(r)
    PROVE  ReloadInv'
<1>1. UNCHANGED <<cacheVars, call>>
  BY DEF Dashboard, Upsert, Delete, RaiseFlag, AskRestart, ReadRemaining, Lift, Break, dashUnchanged
<1>2. flag' \/ UNCHANGED <<flag, promised>>
  BY Zenon DEF Dashboard, Upsert, Delete, RaiseFlag, AskRestart, ReadRemaining, Lift, Break
<1>3. CASE flag'
  BY <1>1, <1>3 DEF ReloadInv, Coming, NoLostReload
<1>4. CASE UNCHANGED <<flag, promised>>
  BY <1>1, <1>4 DEF ReloadInv, Coming, NoLostReload
<1> QED BY <1>2, <1>3, <1>4

LEMMA ReloadCall ==
    ASSUME ReloadInv, TypeOK', NEW c \in Callers, GetEffectiveConfig(c)
    PROVE  ReloadInv'
<1>0. Numbers /\ promised \in Nat /\ promised <= version /\ call \in [Callers -> Call]
  BY Numbers2 DEF ReloadInv
<1>p. promised' = promised
  BY DEF GetEffectiveConfig, Enter, ReadFlag, Clear, Serve, Load, LoadFails, Store, callUnchanged
<1>b. NoCall.cleared = FALSE /\ NoCall.at = "idle" /\ NoCall.snap = 0
  BY DEF NoCall
\* A call that had cleared no flag moves on, and the cache stays.
<1>1. ASSUME UNCHANGED <<cache, flag>>, dropped => dropped',
             NEW q, call' = [call EXCEPT ![c] = q], ~call[c].cleared, ~q.cleared,
             q.at # "store"
      PROVE  ReloadInv'
  <2>1. \A d \in Callers : call'[d] = IF d = c THEN q ELSE call[d]
    BY <1>0, <1>1
  <2>2. Coming => Coming'
    BY <1>1, <1>p, <2>1 DEF Coming
  <2>3. NoLostReload' /\ (\A d \in Callers : call'[d].cleared => call'[d].at \in {"load", "store"})
    BY <1>1, <1>p, <2>1, <2>2 DEF ReloadInv, NoLostReload, Coming
  <2>4. ASSUME NEW d \in Callers, call'[d].at = "store", call'[d].snap < promised
        PROVE  Coming' \/ cache >= promised
    BY <1>1, <2>1, <2>2, <2>4 DEF ReloadInv
  <2> QED BY <1>1, <1>p, <2>3, <2>4 DEF ReloadInv
<1>2. CASE Enter(c)
  <2>1. call' = [call EXCEPT ![c] = [call[c] EXCEPT !.at = IF Fresh THEN "flag" ELSE "load"]]
        /\ ~call[c].cleared /\ UNCHANGED <<cache, flag, dropped>>
    BY <1>2, <1>0, <1>b DEF Enter, At
  <2>2. LET q == [call[c] EXCEPT !.at = IF Fresh THEN "flag" ELSE "load"]
        IN  q.cleared = call[c].cleared /\ q.at # "store"
    BY <1>0 DEF Numbers, Call
  <2> QED BY <1>1, <2>1, <2>2
<1>3. CASE ReadFlag(c)
  <2>1. PICK a \in {"clear", "serve"} : call' = [call EXCEPT ![c].at = a]
    BY <1>3 DEF ReadFlag, At
  <2>2. call' = [call EXCEPT ![c] = [call[c] EXCEPT !.at = a]]
        /\ ~call[c].cleared /\ UNCHANGED <<cache, flag, dropped>>
    BY <1>3, <2>1, <1>0 DEF ReadFlag, ReloadInv
  <2>3. [call[c] EXCEPT !.at = a].cleared = call[c].cleared /\ [call[c] EXCEPT !.at = a].at = a
    BY <1>0 DEF Numbers, Call
  <2> QED BY <1>1, <2>2, <2>3
<1>4. CASE Clear(c)
  <2>1. CASE At(c, "serve") /\ UNCHANGED flag
    <3>1. call' = [call EXCEPT ![c] = [call[c] EXCEPT !.at = "serve"]]
          /\ ~call[c].cleared /\ UNCHANGED <<cache, flag, dropped>>
      BY <1>4, <2>1, <1>0 DEF Clear, At, ReloadInv
    <3>2. [call[c] EXCEPT !.at = "serve"].cleared = call[c].cleared
          /\ [call[c] EXCEPT !.at = "serve"].at = "serve"
      BY <1>0 DEF Numbers, Call
    <3> QED BY <1>1, <3>1, <3>2
  <2>2. CASE call' = [call EXCEPT ![c].at = "load", ![c].cleared = TRUE]
    <3>1. call'[c].at = "load" /\ call'[c].cleared /\ \A d \in Callers : d # c => call'[d] = call[d]
      BY <1>0, <2>2 DEF Call
    <3>2. Coming'
      BY <3>1 DEF Coming
    <3> QED BY <1>4, <3>1, <3>2 DEF ReloadInv, NoLostReload, Coming, Clear
  <2> QED BY <1>4, <2>1, <2>2 DEF Clear
<1>5. CASE Serve(c)
  <2>1. ~call[c].cleared /\ UNCHANGED <<cache, flag, dropped>> /\ call' = [call EXCEPT ![c] = NoCall]
    BY <1>5 DEF Serve, Return, ReloadInv
  <2> QED BY <1>1, <1>b, <2>1
<1>6. CASE Load(c)
  <2>1. call'[c].at = "store" /\ call'[c].snap = version /\ call'[c].cleared = call[c].cleared
        /\ \A d \in Callers : d # c => call'[d] = call[d]
    BY <1>0, <1>6 DEF Load, Call
  <2>2. UNCHANGED <<cacheVars, flag>> /\ call[c].at = "load"
    BY <1>6 DEF Load
  <2>3. Coming => Coming'
    BY <1>0, <1>p, <2>1, <2>2 DEF Coming, Numbers
  <2>4. \A d \in Callers : call'[d].at = "store" /\ call'[d].snap < promised =>
                                Coming' \/ cache >= promised
    BY <1>0, <2>1, <2>3 DEF ReloadInv, Numbers
  <2>5. NoLostReload'
    BY <1>p, <2>2, <2>3 DEF ReloadInv, NoLostReload, Coming
  <2> QED BY <1>p, <2>1, <2>2, <2>4, <2>5 DEF ReloadInv
<1>7. CASE LoadFails(c)
  <2>1. UNCHANGED flag /\ call' = [call EXCEPT ![c] = NoCall]
    BY <1>7 DEF LoadFails, Return
  <2>2. \A d \in Callers : call'[d] = IF d = c THEN NoCall ELSE call[d]
    BY <1>0, <2>1
  <2>3. CASE dropped'
    BY <1>b, <2>2, <2>3 DEF ReloadInv, Coming, NoLostReload
  <2>4. CASE ~dropped'
    <3>1. UNCHANGED cache /\ ~call[c].cleared /\ ~dropped
      BY <1>7, <2>4, Zenon DEF LoadFails
    <3> QED BY <1>1, <1>b, <2>1, <3>1
  <2> QED BY <2>3, <2>4
<1>8. CASE Store(c)
  <2>1. UNCHANGED flag /\ call' = [call EXCEPT ![c] = NoCall] /\ cache' = call[c].snap
        /\ call[c].at = "store"
    BY <1>8 DEF Store, Return
  <2>2. \A d \in Callers : call'[d] = IF d = c THEN NoCall ELSE call[d]
    BY <1>0, <2>1
  <2>3. CASE call[c].snap >= promised
    BY <1>0, <1>b, <1>p, <2>1, <2>2, <2>3 DEF ReloadInv, NoLostReload, Numbers
  <2>4. CASE ~(call[c].snap >= promised)
    <3>1. call[c].snap < promised
      BY <1>0, <2>4 DEF Numbers
    <3>2. dropped \/ call[c].snap < cache => dropped'
      BY <1>8, <3>1, Zenon DEF Store
    <3>3. call[c].snap < cache \/ Coming
      BY <1>0, <2>1, <3>1 DEF ReloadInv, Numbers
    <3>4. Coming => Coming'
      BY <1>p, <2>1, <2>2, <2>4, <3>2 DEF Coming
    <3>5. Coming'
      BY <3>2, <3>3, <3>4 DEF Coming
    <3> QED BY <1>b, <2>2, <3>5 DEF ReloadInv, NoLostReload, Coming
  <2> QED BY <2>3, <2>4
<1> QED BY <1>2, <1>3, <1>4, <1>5, <1>6, <1>7, <1>8 DEF GetEffectiveConfig

LEMMA ReloadKeeps == ReloadInv /\ [Next]_vars => ReloadInv'
<1> SUFFICES ASSUME ReloadInv, [Next]_vars PROVE ReloadInv'
  OBVIOUS
<1>0. TypeOK'
  BY TypeKeeps DEF ReloadInv
<1>1. CASE Restart
  BY <1>0, <1>1 DEF Restart, ReloadInv, NoCall, NoLostReload
<1>2. CASE Tick
  <2>1. \A d \in Callers : /\ call'[d].at = call[d].at /\ call'[d].snap = call[d].snap
                           /\ call'[d].cleared = call[d].cleared
    BY <1>2, Numbers2 DEF Tick, Call, ReloadInv
  <2>2. UNCHANGED <<cache, flag, dropped, promised>>
    BY <1>2 DEF Tick
  <2> QED BY <1>0, <2>1, <2>2 DEF ReloadInv, NoLostReload, Coming
<1>3. CASE UNCHANGED vars
  BY <1>0, <1>3 DEF vars, ReloadInv, NoLostReload, Coming
<1> QED BY <1>0, <1>1, <1>2, <1>3, ReloadRequest, ReloadCall DEF Next

\* An announced override is never forgotten by accident, for any number of
\* callers and requests.
THEOREM ReloadsAreKept == Spec => []NoLostReload
<1>1. Init => ReloadInv
  BY TypeStart DEF Init, ReloadInv, NoCall, NoLostReload
<1>2. ReloadInv => NoLostReload
  BY DEF ReloadInv
<1> QED BY <1>1, <1>2, ReloadKeeps, PTL DEF Spec

-----------------------------------------------------------------------------
(* When a restart is asked for.                                            *)

\* A request is going to ask for it.
Asking == \E r \in Requests : \/ req[r].at = "restart"
                              \/ req[r].at = "flag" /\ req[r].next = "restart"

RestartInv ==
    /\ TypeOK
    /\ overrides \cap RestartKeys # {} => /\ restart \/ crossed \/ Asking
                                          /\ Lifting => crossed

LEMMA RestartRequest ==
    ASSUME RestartInv, TypeOK', NEW r \in Requests, Dashboard(r)
    PROVE  RestartInv'
<1>0. req \in [Requests -> Request]
  BY DEF RestartInv, TypeOK
<1>r. \A q : req' = [req EXCEPT ![r] = q] =>
           \A s \in Requests : req'[s] = IF s = r THEN q ELSE req[s]
  BY <1>0
<1>n. NoRequest.at = "idle"
  BY DEF NoRequest
<1> SUFFICES ASSUME overrides' \cap RestartKeys # {}
             PROVE  (restart' \/ crossed' \/ Asking') /\ (Lifting' => crossed')
  BY DEF RestartInv
<1>1. ASSUME NEW k \in Keys, Upsert(r, k)
      PROVE  (restart' \/ crossed' \/ Asking') /\ (Lifting' => crossed')
  <2> DEFINE q == [at |-> "flag", next |-> IF k \in RestartKeys THEN "restart" ELSE "done"]
  <2>1. \A s \in Requests : req'[s] = IF s = r THEN q ELSE req[s]
    BY <1>1, <1>r DEF Upsert
  <2>2. req[r].at = "idle"
    BY <1>1, <1>n DEF Upsert
  <2>3. (Lifting' => Lifting) /\ (Asking => Asking')
    BY <2>1, <2>2 DEF Lifting, Asking
  <2>4. crossed' = (crossed \/ (k \in RestartKeys /\ Lifting)) /\ restart' = restart
    BY <1>1, Zenon DEF Upsert
  <2>5. CASE k \in RestartKeys
    <3>1. Asking'
      BY <2>1, <2>5 DEF Asking
    <3> QED BY <2>3, <2>4, <2>5, <3>1
  <2>6. CASE k \notin RestartKeys
    <3>1. overrides \cap RestartKeys # {}
      BY <1>1, <2>6 DEF Upsert
    <3> QED BY <2>3, <2>4, <3>1 DEF RestartInv
  <2> QED BY <2>5, <2>6
<1>2. ASSUME NEW k \in Keys, Delete(r, k)
      PROVE  (restart' \/ crossed' \/ Asking') /\ (Lifting' => crossed')
  <2>1. \A s \in Requests : req'[s] = IF s = r THEN [at |-> "flag", next |-> "read"] ELSE req[s]
    BY <1>2, <1>r DEF Delete
  <2>2. req[r].at = "idle" /\ overrides \cap RestartKeys # {} /\ UNCHANGED <<restart, crossed>>
    BY <1>2, <1>n DEF Delete
  <2>3. (Lifting' => Lifting) /\ (Asking => Asking')
    BY <2>1, <2>2 DEF Lifting, Asking
  <2> QED BY <2>2, <2>3 DEF RestartInv
<1>3. ASSUME RaiseFlag(r)
      PROVE  (restart' \/ crossed' \/ Asking') /\ (Lifting' => crossed')
  <2>1. \A s \in Requests : req'[s] = IF s = r THEN After(req[r].next) ELSE req[s]
    BY <1>3, <1>r DEF RaiseFlag
  <2>2. req[r].at = "flag" /\ UNCHANGED <<overrides, restart, crossed>>
    BY <1>3 DEF RaiseFlag
  <2>3. req[r].next \in {"restart", "read", "done"}
    BY <1>0, <2>2, FlagType
  <2>4. After(req[r].next).at # "lift" /\ (req[r].next = "restart" => After(req[r].next).at = "restart")
    BY <2>3, <1>n DEF After
  <2>5. (Lifting' => Lifting) /\ (Asking => Asking')
    BY <2>1, <2>2, <2>4 DEF Lifting, Asking
  <2> QED BY <2>2, <2>5 DEF RestartInv
<1>4. ASSUME AskRestart(r)
      PROVE  (restart' \/ crossed' \/ Asking') /\ (Lifting' => crossed')
  <2>1. \A s \in Requests : req'[s] = IF s = r THEN NoRequest ELSE req[s]
    BY <1>4, <1>r DEF AskRestart
  <2>2. restart' /\ (Lifting => crossed')
    BY <1>4, Zenon DEF AskRestart
  <2>3. Lifting' => Lifting
    BY <2>1, <1>n DEF Lifting
  <2> QED BY <2>2, <2>3
<1>5. ASSUME ReadRemaining(r)
      PROVE  (restart' \/ crossed' \/ Asking') /\ (Lifting' => crossed')
  <2>1. overrides \cap RestartKeys # {} /\ UNCHANGED <<restart, crossed>> /\ req[r].at = "read"
    BY <1>5 DEF ReadRemaining
  <2>2. \A s \in Requests : req'[s] = IF s = r THEN NoRequest ELSE req[s]
    BY <1>5, <1>r, <2>1 DEF ReadRemaining
  <2>3. (Lifting' => Lifting) /\ (Asking => Asking')
    BY <1>n, <2>1, <2>2 DEF Lifting, Asking
  <2> QED BY <2>1, <2>3 DEF RestartInv
<1>6. ASSUME Lift(r)
      PROVE  (restart' \/ crossed' \/ Asking') /\ (Lifting' => crossed')
  <2>1. Lifting /\ UNCHANGED <<overrides, crossed>>
    BY <1>6 DEF Lift, Lifting
  <2> QED BY <2>1 DEF RestartInv
<1>7. ASSUME Break(r)
      PROVE  (restart' \/ crossed' \/ Asking') /\ (Lifting' => crossed')
  <2>1. \A s \in Requests : req'[s] = IF s = r THEN NoRequest ELSE req[s]
    BY <1>7, <1>r DEF Break
  <2>2. UNCHANGED <<overrides, restart>> /\ (crossed => crossed')
        /\ (req[r].at = "restart" \/ (req[r].at = "flag" /\ req[r].next = "restart") => crossed')
    BY <1>7, Zenon DEF Break, tableVars
  <2>3. (Lifting' => Lifting) /\ (Asking => Asking' \/ crossed')
    BY <1>n, <2>1, <2>2 DEF Lifting, Asking
  <2> QED BY <2>2, <2>3 DEF RestartInv
<1> QED BY <1>1, <1>2, <1>3, <1>4, <1>5, <1>6, <1>7 DEF Dashboard

LEMMA RestartKeeps == RestartInv /\ [Next]_vars => RestartInv'
<1> SUFFICES ASSUME RestartInv, [Next]_vars PROVE RestartInv'
  OBVIOUS
<1>0. TypeOK'
  BY TypeKeeps DEF RestartInv
<1>1. ASSUME UNCHANGED <<overrides, restart, req, crossed>> PROVE RestartInv'
  BY <1>0, <1>1 DEF RestartInv, Asking, Lifting
<1>2. ASSUME NEW c \in Callers, GetEffectiveConfig(c) PROVE RestartInv'
  <2>1. UNCHANGED <<overrides, restart, req, crossed>>
    BY <1>2 DEF GetEffectiveConfig, Enter, ReadFlag, Clear, Serve, Load, LoadFails, Store, callUnchanged
  <2> QED BY <1>1, <2>1
<1>3. CASE Tick \/ Restart \/ UNCHANGED vars
  BY <1>1, <1>3 DEF Tick, Restart, vars
<1> QED BY <1>0, <1>2, <1>3, RestartRequest DEF Next

\* The notice of a restart is there whenever a restart is due, for any number
\* of requests at the same time.
THEOREM RestartIsShown == Spec => []RestartShown
<1>1. Init => RestartInv
  BY TypeStart DEF Init, RestartInv
<1>2. RestartInv => RestartShown
  BY DEF RestartInv, RestartShown, Asking, NoRequest
<1> QED BY <1>1, <1>2, RestartKeeps, PTL DEF Spec
=============================================================================
