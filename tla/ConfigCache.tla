----------------------------- MODULE ConfigCache -----------------------------
(***************************************************************************)
(* The configuration overrides.  The dashboard, a process of its own,      *)
(* writes them and raises flags in scheduler_state, each in a commit of    *)
(* its own; ancnouv overlays them on config.yml and keeps the result in a  *)
(* cache of CacheTTL that all its coroutines share.  A value of the        *)
(* configuration is known by the version of the overrides it was made of.  *)
(* Time is counted in ticks.                                               *)
(***************************************************************************)
EXTENDS Integers

CONSTANTS
    Requests,     \* requests that the dashboard serves at the same time
    Keys,         \* keys of the registry
    RestartKeys,  \* those with requires_restart
    Callers,      \* coroutines of ancnouv that ask for the configuration
    CacheTTL,     \* _CACHE_TTL, in ticks
    MaxCall,      \* ticks that a call waits for the database, at most
    MaxWrites     \* bound on the writes of overrides

NoCache == -1   \* _cache_config is None
Bound   == CacheTTL - 1 + 2 * MaxCall   \* the ticks that a value may be stale

ASSUME ConfigAssumption ==
    /\ RestartKeys \subseteq Keys
    /\ CacheTTL \in Nat \ {0} /\ MaxCall \in Nat
    /\ MaxWrites \in Nat

VARIABLES
    overrides,  \* keys with a row in config_overrides
    version,    \* number of writes of that table
    flag,       \* config_reload_requested = "true"
    restart,    \* config_restart_required = "true"
    req,        \* requests of the dashboard
    cache,      \* _cache_config: the version it was made of
    age,        \* ticks since _cache_timestamp
    call,       \* calls of get_effective_config
    \* history
    since,      \* ticks since each version was replaced
    promised,   \* the version when the reload flag was last raised
    blind,      \* the cache was filled without the database
    dropped,    \* a reload was lost: it failed, or an older one came after it
    crossed     \* a restart key was set behind the back of a reset, or half set

tableVars == <<overrides, version, flag, restart>>
cacheVars == <<cache, age, blind, dropped>>
vars == <<tableVars, req, cacheVars, call, since, promised, crossed>>

NoRequest == [at |-> "idle"]
NoCall    == [at |-> "idle", snap |-> 0, cleared |-> FALSE, waited |-> 0]

Init ==
    /\ overrides = {} /\ version = 0 /\ flag = FALSE /\ restart = FALSE
    /\ req = [r \in Requests |-> NoRequest]
    /\ cache = NoCache /\ age = 0 /\ blind = FALSE /\ dropped = FALSE
    /\ call = [c \in Callers |-> NoCall]
    /\ since = [v \in 0..MaxWrites |-> 0]
    /\ promised = 0 /\ crossed = FALSE

-----------------------------------------------------------------------------
(* The dashboard.                                                          *)

dashUnchanged == UNCHANGED <<cacheVars, call>>

\* A row was written.
Write == version < MaxWrites /\ version' = version + 1

Lifting == \E r \in Requests : req[r].at = "lift"

\* upsert_override.
Upsert(r, k) ==
    /\ req[r] = NoRequest
    /\ Write
    /\ overrides' = overrides \cup {k}
    /\ req' = [req EXCEPT ![r] = [at |-> "flag", next |-> IF k \in RestartKeys THEN "restart"
                                                          ELSE "done"]]
    /\ crossed' = (crossed \/ (k \in RestartKeys /\ Lifting))
    /\ UNCHANGED <<flag, restart, since, promised>> /\ dashUnchanged

\* delete_override.
Delete(r, k) ==
    /\ req[r] = NoRequest
    /\ IF k \in overrides THEN Write ELSE UNCHANGED version
    /\ overrides' = overrides \ {k}
    /\ req' = [req EXCEPT ![r] = [at |-> "flag", next |-> "read"]]
    /\ UNCHANGED <<flag, restart, since, promised, crossed>> /\ dashUnchanged

After(next) == IF next = "done" THEN NoRequest ELSE [at |-> next]

\* config_reload_requested.
RaiseFlag(r) ==
    /\ req[r].at = "flag"
    /\ flag' = TRUE /\ promised' = version
    /\ req' = [req EXCEPT ![r] = After(req[r].next)]
    /\ UNCHANGED <<overrides, version, restart, since, crossed>> /\ dashUnchanged

\* config_restart_required, when a restart key was set.
AskRestart(r) ==
    /\ req[r].at = "restart"
    /\ restart' = TRUE /\ crossed' = Lifting
    /\ req' = [req EXCEPT ![r] = NoRequest]
    /\ UNCHANGED <<overrides, version, flag, since, promised>> /\ dashUnchanged

\* Mutation: a reset lifts the notice whatever is left.
ReadRemainingNot(r) ==
    /\ req[r].at = "read"
    /\ req' = [req EXCEPT ![r] = [at |-> "lift"]]
    /\ UNCHANGED <<tableVars, since, promised, crossed>> /\ dashUnchanged

\* A reset looks for overrides left that need a restart.
ReadRemaining(r) ==
    /\ req[r].at = "read"
    /\ req' = [req EXCEPT ![r] = IF overrides \cap RestartKeys = {} THEN [at |-> "lift"]
                                 ELSE NoRequest]
    /\ UNCHANGED <<tableVars, since, promised, crossed>> /\ dashUnchanged

Lift(r) ==
    /\ req[r].at = "lift"
    /\ restart' = FALSE
    /\ req' = [req EXCEPT ![r] = NoRequest]
    /\ UNCHANGED <<overrides, version, flag, since, promised, crossed>> /\ dashUnchanged

\* An exception, or the dashboard dies.
Break(r) ==
    /\ req[r] # NoRequest
    /\ req' = [req EXCEPT ![r] = NoRequest]
    /\ crossed' = (crossed \/ req[r].at = "restart" \/ (req[r].at = "flag" /\ req[r].next = "restart"))
    /\ UNCHANGED <<tableVars, since, promised>> /\ dashUnchanged

Dashboard(r) ==
    \/ \E k \in Keys : Upsert(r, k) \/ Delete(r, k)
    \/ RaiseFlag(r) \/ AskRestart(r) \/ ReadRemaining(r) \/ Lift(r) \/ Break(r)

-----------------------------------------------------------------------------
(* The calls of get_effective_config.                                      *)

callUnchanged == UNCHANGED <<req, since, promised, crossed>>

At(c, step) == call' = [call EXCEPT ![c].at = step]
Return(c)   == call' = [call EXCEPT ![c] = NoCall]

\* Ticks since the overrides of version v were replaced.
Behind(v) == IF v < version THEN since[v] ELSE 0

\* Mutation: the age is looked at before there is a cache.
FreshUnset == age < CacheTTL

\* Mutation: one tick too many.
FreshTooLong == cache # NoCache /\ age <= CacheTTL

Fresh == cache # NoCache /\ age < CacheTTL

Enter(c) ==
    /\ call[c] = NoCall
    /\ At(c, IF Fresh THEN "flag" ELSE "load")
    /\ UNCHANGED <<tableVars, cacheVars>> /\ callUnchanged

\* _reload_requested: the flag is read, and an error counts as no flag.
ReadFlag(c) ==
    /\ call[c].at = "flag"
    /\ \E seen \in {flag, FALSE} : At(c, IF seen THEN "clear" ELSE "serve")
    /\ UNCHANGED <<tableVars, cacheVars>> /\ callUnchanged

\* The flag is cleared in a statement of its own, or that fails too.
Clear(c) ==
    /\ call[c].at = "clear"
    /\ \/ /\ flag' = FALSE
          /\ call' = [call EXCEPT ![c].at = "load", ![c].cleared = TRUE]
       \/ /\ At(c, "serve") /\ UNCHANGED flag
    /\ UNCHANGED <<overrides, version, restart, cacheVars>> /\ callUnchanged

\* The global is read when the answer about the flag is back.
Serve(c) ==
    /\ call[c].at = "serve"
    /\ Return(c)
    /\ UNCHANGED <<tableVars, cacheVars>> /\ callUnchanged

\* get_all_overrides.
Load(c) ==
    /\ call[c].at = "load"
    /\ call' = [call EXCEPT ![c].at = "store", ![c].snap = version]
    /\ UNCHANGED <<tableVars, cacheVars>> /\ callUnchanged

\* Mutation: a reload that fails falls back on config.yml, cache or not.
LoadFailsToBaseline(c) ==
    /\ call[c].at = "load"
    /\ Return(c)
    /\ cache' = 0 /\ age' = 0 /\ blind' = TRUE
    /\ dropped' = (dropped \/ call[c].cleared \/ cache = NoCache)
    /\ UNCHANGED tableVars /\ callUnchanged

\* The database cannot be read: the cache as it is, or config.yml alone.
LoadFails(c) ==
    /\ call[c].at = "load"
    /\ Return(c)
    /\ IF cache # NoCache
          THEN dropped' = (dropped \/ call[c].cleared) /\ UNCHANGED <<cache, age, blind>>
          ELSE cache' = 0 /\ age' = 0 /\ blind' = TRUE /\ dropped' = TRUE
    /\ UNCHANGED tableVars /\ callUnchanged

\* Whichever call ends last leaves its configuration and the new timestamp.
Store(c) ==
    /\ call[c].at = "store"
    /\ Return(c)
    /\ cache' = call[c].snap /\ age' = 0 /\ blind' = FALSE
    /\ dropped' = ((dropped \/ call[c].snap < cache) /\ call[c].snap < promised)
    /\ UNCHANGED tableVars /\ callUnchanged

GetEffectiveConfig(c) ==
    \/ Enter(c) \/ ReadFlag(c) \/ Clear(c) \/ Serve(c)
    \/ Load(c) \/ LoadFails(c) \/ Store(c)

-----------------------------------------------------------------------------
(* The clock and ancnouv itself.                                           *)

UpTo(limit, n) == IF n < limit THEN n + 1 ELSE limit

\* No call waits for the database longer than MaxCall.
Tick ==
    /\ \A c \in Callers : call[c].at = "idle" \/ call[c].waited < MaxCall
    /\ age' = IF cache = NoCache THEN age ELSE UpTo(CacheTTL, age)
    /\ since' = [v \in 0..MaxWrites |-> IF v < version THEN UpTo(Bound + 1, since[v]) ELSE 0]
    /\ call' = [c \in Callers |-> IF call[c].at = "idle" THEN call[c]
                                   ELSE [call[c] EXCEPT !.waited = @ + 1]]
    /\ UNCHANGED <<tableVars, req, cache, blind, dropped, promised, crossed>>

\* The cache is in the process: a restart begins without one.
Restart ==
    /\ cache' = NoCache /\ age' = 0 /\ blind' = FALSE /\ dropped' = FALSE
    /\ call' = [c \in Callers |-> NoCall]
    /\ UNCHANGED <<tableVars, req, since, promised, crossed>>

Next ==
    \/ \E r \in Requests : Dashboard(r)
    \/ \E c \in Callers : GetEffectiveConfig(c)
    \/ Tick \/ Restart

Spec == Init /\ [][Next]_vars

-----------------------------------------------------------------------------
(* Properties.                                                             *)

Request == {NoRequest} \cup [at : {"flag"}, next : {"restart", "read", "done"}]
                       \cup [at : {"restart", "read", "lift"}]
Call == [at : {"idle", "flag", "clear", "serve", "load", "store"},
         snap : 0..MaxWrites, cleared : BOOLEAN, waited : 0..MaxCall]

\* The type invariant: every variable keeps its shape, neither the cache nor a
\* configuration being built is of a version that does not exist yet, and no
\* call is on its way to serve a cache that is not there.
TypeOK ==
    /\ overrides \subseteq Keys /\ version \in 0..MaxWrites
    /\ flag \in BOOLEAN /\ restart \in BOOLEAN
    /\ req \in [Requests -> Request]
    /\ cache \in {NoCache} \cup (0..version) /\ age \in 0..CacheTTL
    /\ blind \in BOOLEAN /\ dropped \in BOOLEAN
    /\ call \in [Callers -> Call]
    /\ \A c \in Callers :
          /\ call[c].snap <= version
          /\ call[c].at \in {"flag", "clear", "serve"} => cache # NoCache
    /\ since \in [0..MaxWrites -> 0..(Bound + 1)]
    /\ promised \in 0..version /\ crossed \in BOOLEAN

\* What a caller is about to get is at most Bound ticks old: the TTL, and the
\* waits of the call that filled the cache and of the one that reads it.  No flag
\* is needed for it.  Only a configuration that was returned because the
\* database could not be read is exempt (get_effective_config, _reload).
SeenWithin ==
    \A c \in Callers :
        /\ call[c].at = "serve" /\ ~blind => Behind(cache) <= Bound
        /\ call[c].at = "store" => Behind(call[c].snap) <= Bound

\* An override that was announced and is not in the cache yet has its flag up,
\* or a call under way that has cleared it and will store it, whatever came
\* between the read of the flag and its clearing.  It is lost to the TTL only
\* when that call failed or an older one was stored after it (_reload_requested).
NoLostReload ==
    cache # NoCache /\ promised > cache =>
        \/ flag \/ dropped
        \/ \E c \in Callers :
               call[c].cleared /\ (call[c].at = "store" => call[c].snap >= promised)

\* Once every request is served, the dashboard asks for a restart whenever an
\* override needs one, unless a reset counted before that override was written
\* or the request that wrote it broke off (config_set, config_reset).
RestartShown ==
    (\A r \in Requests : req[r] = NoRequest) /\ overrides \cap RestartKeys # {}
        => restart \/ crossed
=============================================================================
