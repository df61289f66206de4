--------------------------- MODULE SourceSelection ---------------------------
(***************************************************************************)
(* Which source a post is generated from.  JOB-3 and the bot (/force and   *)
(* the replacement of a skipped post) choose among events, RSS articles    *)
(* and Gallica items by the deduplication policy of the configuration,     *)
(* relaxed by the escalation level.  A generation takes minutes (thumbnail,*)
(* Reel) between the choice and the commit that stores the post and        *)
(* last_used_at, and a post waits for days between that commit and the     *)
(* publication that increments published_count.                            *)
(***************************************************************************)
EXTENDS Naturals, FiniteSets, FiniteSetsExt

CONSTANTS
    Events, Articles, GallicaItems,  \* rows of the three tables
    Configs,      \* values of content.deduplication_policy and _window_days
    LongWindow,   \* 365: the window of level 3
    ShortWindow,  \* 180: the window of level 4
    MaxRest,      \* days after which a source counts as never used
    MinDelay,     \* content.rss.min_delay_days
    MaxPending,   \* scheduler.max_pending_posts
    MaxAccepted   \* bound on the posts that wait for their publication

Dated      == Events \cup Articles
Sources    == Dated \cup GallicaItems
Generators == {"job3", "bot"}
MaxLevel   == 5
Params     == [policy : {"never", "window", "always"}, window : 0..MaxRest]

ASSUME SelectionAssumption ==
    /\ MaxRest \in Nat /\ LongWindow \in 0..MaxRest /\ ShortWindow \in 0..MaxRest
    /\ Configs \subseteq Params
    /\ MinDelay \in Nat /\ MaxPending \in Nat /\ MaxAccepted \in Nat

VARIABLES
    config,     \* the configuration, fixed
    level,      \* scheduler_state.escalation_level
    blocked,    \* sources whose status is 'blocked'
    published,  \* sources whose published_count is not 0
    rest,       \* whole days since last_used_at, MaxRest when it is NULL; nothing
                \* reads the one of a Gallica item
    collected,  \* whole days since an article's fetched_at
    gen,        \* what each generator is doing
    pending,    \* posts of each source that wait for an admin
    accepted,   \* posts of each source that wait for their publication
    \* history
    quiet,      \* whole days since a post of the source was last stored
    out,        \* sources a post of which was published
    refused,    \* sources a post of which was rejected
    excess      \* posts stored since the policy last allowed the source

rowVars  == <<blocked, published, rest, collected>>
postVars == <<pending, accepted>>
pastVars == <<quiet, out, refused>>
vars == <<config, level, rowVars, gen, postVars, pastVars, excess>>

Idle == [at |-> "idle"]

Total(posts) == MapThenSumSet(LAMBDA s : posts[s], Sources)

OneMore(counts, s) == [counts EXCEPT ![s] = @ + 1]
OneLess(counts, s) == [counts EXCEPT ![s] = @ - 1]
UsedNow(days, s)   == [d \in Dated |-> IF d = s THEN 0 ELSE days[d]]

Init ==
    /\ config \in Configs
    /\ level = 0
    /\ blocked = {} /\ published = {}
    /\ rest = [s \in Dated |-> MaxRest]
    /\ collected = [s \in Articles |-> 0]
    /\ gen = [g \in Generators |-> Idle]
    /\ pending = [s \in Sources |-> 0] /\ accepted = [s \in Sources |-> 0]
    /\ quiet = [s \in Dated |-> MaxRest] /\ out = {} /\ refused = {}
    /\ excess = [s \in Sources |-> 0]

-----------------------------------------------------------------------------
Relax(p, limit) ==
    IF p.policy = "never" THEN [policy |-> "window", window |-> limit]
    ELSE IF p.policy = "window" /\ p.window > limit
         THEN [p EXCEPT !.window = limit]
         ELSE p

\* Mutation: level 3 sets its window without comparing.
ParamsUnguarded(l) ==
    LET three == IF l >= 3 /\ config.policy # "always"
                 THEN [policy |-> "window", window |-> LongWindow]
                 ELSE config
    IN  IF l >= 4 THEN Relax(three, ShortWindow) ELSE three

\* The levels add up.
get_effective_query_params(l) ==
    LET three == IF l >= 3 THEN Relax(config, LongWindow) ELSE config
    IN  IF l >= 4 THEN Relax(three, ShortWindow) ELSE three

\* What the parameters p allow of a source, given the sources published and
\* the days since each was used.  A Gallica item is used once, whatever p.
Fresh(p, s, used, days) ==
    CASE s \in GallicaItems \/ p.policy = "never" -> s \notin used
      [] s \notin GallicaItems /\ p.policy = "window" -> days[s] >= p.window
      [] OTHER -> TRUE

\* Mutation: status = 'available' is forgotten.
CandidatesAnyStatus(p) ==
    {s \in Sources : /\ Fresh(p, s, published, rest)
                     /\ s \in Articles => collected[s] >= MinDelay}

\* select_event, select_article, select_gallica_article.
Candidates(p) ==
    {s \in Sources \ blocked : /\ Fresh(p, s, published, rest)
                               /\ s \in Articles => collected[s] >= MinDelay}

\* The guards of JOB-3 and of generate_post; the bot does not look at level 5.
Begin(g) ==
    /\ gen[g] = Idle
    /\ g = "job3" => level < MaxLevel
    /\ Total(pending) < MaxPending
    /\ gen' = [gen EXCEPT ![g] = [at |-> "reading", p |-> get_effective_query_params(level)]]
    /\ UNCHANGED <<config, level, rowVars, postVars, pastVars>>

\* The draws between the three kinds, and their fallbacks: any candidate.  An
\* event of another date, or too old or too recent, is one that is not drawn.
Select(g) ==
    /\ gen[g].at = "reading"
    /\ \E s \in Candidates(gen[g].p) :
          gen' = [gen EXCEPT ![g] = [at |-> "making", source |-> s]]
    /\ UNCHANGED <<config, level, rowVars, postVars, pastVars>>

\* No candidate, an exception (no commit), a crash.
Abandon(g) ==
    /\ gen[g] # Idle
    /\ gen' = [gen EXCEPT ![g] = Idle]
    /\ UNCHANGED <<config, level, rowVars, postVars, pastVars>>

\* Mutation: last_used_at waits for the publication.
SaveUnmarked(g) ==
    /\ gen[g].at = "making"
    /\ LET s == gen[g].source
       IN  /\ pending' = OneMore(pending, s)
           /\ quiet' = UsedNow(quiet, s)
           /\ UNCHANGED rest
    /\ gen' = [gen EXCEPT ![g] = Idle]
    /\ UNCHANGED <<config, level, blocked, published, collected, accepted, out, refused>>

\* The post and last_used_at, in one commit.
Save(g) ==
    /\ gen[g].at = "making"
    /\ LET s == gen[g].source
       IN  /\ pending' = OneMore(pending, s)
           /\ rest' = UsedNow(rest, s)
           /\ quiet' = UsedNow(quiet, s)
    /\ gen' = [gen EXCEPT ![g] = Idle]
    /\ UNCHANGED <<config, level, blocked, published, collected, accepted, out, refused>>

-----------------------------------------------------------------------------
\* Mutation: handle_reject does not look at the status of the post.
RejectAgain(s) ==
    /\ pending' = OneLess(pending, s)
    /\ blocked' = IF s \in GallicaItems THEN blocked ELSE blocked \cup {s}
    /\ refused' = refused \cup {s}
    /\ UNCHANGED <<config, level, published, rest, collected, gen, accepted, quiet, out>>

\* handle_reject blocks events and articles.
Reject(s) ==
    /\ pending[s] > 0
    /\ pending' = OneLess(pending, s)
    /\ blocked' = IF s \in GallicaItems THEN blocked ELSE blocked \cup {s}
    /\ refused' = refused \cup {s}
    /\ UNCHANGED <<config, level, published, rest, collected, gen, accepted, quiet, out>>

\* Skipped, expired or failed: nothing is written to the source.
Drop(s) ==
    /\ pending[s] > 0
    /\ pending' = OneLess(pending, s)
    /\ UNCHANGED <<config, level, rowVars, gen, accepted, pastVars>>

Accept(s) ==
    /\ pending[s] > 0 /\ Total(accepted) < MaxAccepted
    /\ pending' = OneLess(pending, s)
    /\ accepted' = OneMore(accepted, s)
    /\ UNCHANGED <<config, level, rowVars, gen, pastVars>>

\* Mutation: published_count is left alone.
PublishUncounted(s) ==
    /\ accepted[s] > 0
    /\ accepted' = OneLess(accepted, s)
    /\ out' = out \cup {s}
    /\ UNCHANGED <<config, level, rowVars, gen, pending, quiet, refused>>

\* Some platform took the post: published_count of the source.
Publish(s) ==
    /\ accepted[s] > 0
    /\ accepted' = OneLess(accepted, s)
    /\ published' = published \cup {s}
    /\ out' = out \cup {s}
    /\ UNCHANGED <<config, level, blocked, rest, collected, gen, pending, quiet, refused>>

-----------------------------------------------------------------------------
Older(days, limit) == IF days < limit THEN days + 1 ELSE limit

\* A selection takes milliseconds: a day that
\* passes during it is one that passes after it.
NewDay ==
    /\ \A g \in Generators : gen[g].at # "reading"
    /\ rest' = [s \in Dated |-> Older(rest[s], MaxRest)]
    /\ quiet' = [s \in Dated |-> Older(quiet[s], MaxRest)]
    /\ collected' = [s \in Articles |-> Older(collected[s], MinDelay)]
    /\ UNCHANGED <<config, level, blocked, published, gen, postVars, out, refused>>

\* JOB-1 finds too little stock (module Escalation).
Escalate ==
    /\ level < MaxLevel /\ level' = level + 1
    /\ UNCHANGED <<config, rowVars, gen, postVars, pastVars>>

\* `escalation reset`, another process.
Reset ==
    /\ level > 0 /\ level' = 0
    /\ UNCHANGED <<config, rowVars, gen, postVars, pastVars>>

-----------------------------------------------------------------------------
\* What the admin and the configuration mean to allow, by what happened and not
\* by what the rows say.  Nothing blocks a Gallica item.
Permitted(s) ==
    /\ Fresh(get_effective_query_params(level), s, out, quiet)
    /\ s \notin refused \ GallicaItems

Count ==
    excess' = [s \in Sources |->
                  IF Permitted(s) THEN 0
                  ELSE IF pending'[s] > pending[s] THEN excess[s] + 1
                  ELSE excess[s]]

Generate(g) == Begin(g) \/ Select(g) \/ Abandon(g) \/ Save(g)
Settle(s)   == Reject(s) \/ Drop(s) \/ Accept(s) \/ Publish(s)

Next ==
    /\ \/ \E g \in Generators : Generate(g)
       \/ \E s \in Sources : Settle(s)
       \/ NewDay
       \/ Escalate
       \/ Reset
    /\ Count

Spec == Init /\ [][Next]_vars

-----------------------------------------------------------------------------
TypeOK ==
    /\ config \in Configs /\ level \in 0..MaxLevel
    /\ blocked \subseteq Sources /\ published \subseteq Sources
    /\ out \subseteq Sources /\ refused \subseteq Sources
    /\ rest \in [Dated -> 0..MaxRest] /\ quiet \in [Dated -> 0..MaxRest]
    /\ collected \in [Articles -> 0..MinDelay]
    /\ gen \in [Generators -> {Idle} \cup [at : {"reading"}, p : Params]
                                     \cup [at : {"making"}, source : Sources]]
    /\ pending \in [Sources -> Nat] /\ accepted \in [Sources -> Nat]
    /\ excess \in [Sources -> Nat]

\* [SPEC-3.2.3] Generators run side by side, each for minutes, while posts are
\* rejected and published and the level moves: from the moment the policy no
\* longer allows a source, each generator stores at most one more post of it.
RepeatsBounded == \A s \in Sources : excess[s] <= Cardinality(Generators)

\* [DS-1.4c] One level more never takes a source away, except that level 3
\* replaces "never" by a window, which counts from the generation.
EscalationRelaxes ==
    [][level' > level =>
          \/ config.policy = "never" /\ level = 2
          \/ Candidates(get_effective_query_params(level))
                \subseteq Candidates(get_effective_query_params(level))']_vars
=============================================================================
