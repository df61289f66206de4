----------------------------- MODULE Escalation -----------------------------
(***************************************************************************)
(* The stock of Wikipedia events and the escalation level.  JOB-1 runs     *)
(* every night: it collects the events of the days to come, at the level   *)
(* it reads when it starts, then counts the stock of each of the next days *)
(* and raises the level by one when some day has too little.  Publications *)
(* and rejections use the stock, `fetch` adds to it, and `escalation       *)
(* reset`, another process, is the only way down.                          *)
(*                                                                         *)
(* Events come back every year: dates are counted modulo Year.             *)
(***************************************************************************)
EXTENDS Integers, FiniteSets

CONSTANTS
    Entries,    \* what Wikipedia has: [lang, type, date, sound, nr]
    BaseTypes,  \* content.wikipedia_event_types
    Year,       \* number of dates
    Window,     \* content.date_window_days
    Prefetch,   \* content.prefetch_days
    Horizon,    \* 7: days whose stock is counted
    Threshold,  \* content.low_stock_threshold
    MinEvents,  \* content.wikipedia_min_events
    MaxResets,  \* bound on the resets by hand
    MaxAborts   \* bound on the runs of JOB-1 that are cut short

MaxLevel == 5
MaxTries == 3

Dates == 0..(Year - 1)
TYPE_TO_KEY == {"events", "births", "deaths", "holidays", "selected"}

\* The configuration accepts any prefetch_days from 1: below the horizon JOB-1
\* would count days that it has not collected.
ASSUME EscalationAssumption ==
    /\ Year \in Nat \ {0} /\ Window \in Nat /\ Horizon \in Nat \ {0}
    /\ Prefetch \in Nat /\ Horizon <= Prefetch
    /\ Threshold \in Nat \ {0} /\ MinEvents \in Nat
    /\ MaxResets \in Nat /\ MaxAborts \in Nat
    /\ IsFiniteSet(Entries)
    /\ Entries \subseteq [lang : {"fr", "en"}, type : STRING, date : Dates,
                          sound : BOOLEAN, nr : Nat]

VARIABLES
    today,
    stored,  \* rows of the table events
    gone,    \* rows that were published, or blocked
    level,   \* scheduler_state.escalation_level
    job1,    \* JOB-1: step, level of its parameters, day, tries, level it read
    ran,     \* JOB-1 has run today
    \* history
    failed,  \* dates that this run of JOB-1 could not collect
    raises,  \* times JOB-1 raised the level since the last reset, up to 5
    torn,    \* that reset came between the read and the write of the level
    resets,
    aborts   \* runs of JOB-1 cut short

rowVars  == <<stored, gone>>
histVars == <<raises, torn, resets, aborts>>
vars == <<today, rowVars, level, job1, ran, failed, histVars>>

Idle == [at |-> "idle", params |-> 0, day |-> 0, tries |-> 0, read |-> 0]

Init ==
    /\ today \in Dates
    /\ stored = {} /\ gone = {}
    /\ level = 0 /\ job1 = Idle /\ ran = FALSE
    /\ failed = {} /\ raises = 0 /\ torn = FALSE
    /\ resets = 0 /\ aborts = 0

-----------------------------------------------------------------------------
Day(i) == (today + i + Year * Window) % Year

Types(l)       == BaseTypes \cup (IF l >= 1 THEN {"births", "deaths"} ELSE {})
FallbackEn(l)  == l >= 2

\* One call per known type, and the entries of each that pass the filters.
ParsedEntries(lang, l, d) ==
    {e \in Entries : /\ e.lang = lang /\ e.date = d /\ e.sound
                     /\ e.type \in Types(l) \cap TYPE_TO_KEY}

\* WikipediaFetcher.fetch at the parameters of level l.
Fetched(l, d) ==
    LET fr == ParsedEntries("fr", l, d)
    IN  IF FallbackEn(l) \/ Cardinality(fr) < MinEvents
        THEN fr \cup ParsedEntries("en", l, d)
        ELSE fr

Stock(d) == Cardinality({e \in stored \ gone : e.date = d})

-----------------------------------------------------------------------------
Start ==
    /\ job1 = Idle /\ ~ran
    /\ job1' = [at |-> "fetch", params |-> level, day |-> -Window, tries |-> 0, read |-> 0]
    /\ UNCHANGED <<today, rowVars, level, ran, failed, histVars>>

\* Mutation: the last day is left out.
NextDateShort(j) ==
    IF j.day + 1 < Prefetch - 1 THEN [j EXCEPT !.day = @ + 1, !.tries = 0]
    ELSE [j EXCEPT !.at = "check", !.day = 0, !.tries = 0]

\* range(-window, prefetch_days), then the check, from today.
NextDate(j) ==
    IF j.day + 1 < Prefetch THEN [j EXCEPT !.day = @ + 1, !.tries = 0]
    ELSE [j EXCEPT !.at = "check", !.day = 0, !.tries = 0]

\* fetch and INSERT OR IGNORE, in a transaction of its own.
Collect ==
    /\ job1.at = "fetch"
    /\ stored' = stored \cup Fetched(job1.params, Day(job1.day))
    /\ job1' = NextDate(job1)
    /\ UNCHANGED <<today, gone, level, ran, failed, histVars>>

\* SQLite is busy: three tries.
Busy ==
    /\ job1.at = "fetch" /\ job1.tries < MaxTries - 1
    /\ job1' = [job1 EXCEPT !.tries = @ + 1]
    /\ UNCHANGED <<today, rowVars, level, ran, failed, histVars>>

\* The third time, or one of the calls of the date fails: the date is left out.
SkipDate ==
    /\ job1.at = "fetch"
    /\ failed' = failed \cup {Day(job1.day)}
    /\ job1' = NextDate(job1)
    /\ UNCHANGED <<today, rowVars, level, ran, histVars>>

Stop == job1' = Idle /\ ran' = TRUE /\ failed' = {}

\* Mutation: any stock is enough.
LowOnlyEmpty(d) == Stock(d) = 0

Low(d) == Stock(d) < Threshold

\* One SELECT per day.
CountEnough ==
    /\ job1.at = "check" /\ ~Low(Day(job1.day))
    /\ IF job1.day + 1 < Horizon
       THEN job1' = [job1 EXCEPT !.day = @ + 1] /\ UNCHANGED <<ran, failed>>
       ELSE Stop
    /\ UNCHANGED <<today, rowVars, level, histVars>>

CountLow ==
    /\ job1.at = "check" /\ Low(Day(job1.day))
    /\ job1' = [job1 EXCEPT !.at = "level"]
    /\ UNCHANGED <<today, rowVars, level, ran, failed, histVars>>

\* Mutation: the level the parameters were made of.
ReadStale ==
    /\ job1.at = "level"
    /\ job1' = [job1 EXCEPT !.at = "raise", !.read = job1.params]
    /\ UNCHANGED <<today, rowVars, level, ran, failed, histVars>>

ReadLevel ==
    /\ job1.at = "level"
    /\ job1' = [job1 EXCEPT !.at = "raise", !.read = level]
    /\ UNCHANGED <<today, rowVars, level, ran, failed, histVars>>

\* Mutation: the level is not capped.
RaiseUncapped ==
    /\ job1.at = "raise"
    /\ level' = job1.read + 1
    /\ raises' = IF raises < MaxLevel THEN raises + 1 ELSE MaxLevel
    /\ Stop
    /\ UNCHANGED <<today, rowVars, torn, resets, aborts>>

\* The second statement of increment_escalation_level.
Raise ==
    /\ job1.at = "raise"
    /\ level' = IF job1.read < MaxLevel THEN job1.read + 1 ELSE MaxLevel
    /\ raises' = IF raises < MaxLevel THEN raises + 1 ELSE MaxLevel
    /\ Stop
    /\ UNCHANGED <<today, rowVars, torn, resets, aborts>>

\* An exception, caught and logged, or the process dies.
Abort1 ==
    /\ job1 # Idle /\ Stop
    /\ aborts < MaxAborts /\ aborts' = aborts + 1
    /\ UNCHANGED <<today, rowVars, level, raises, torn, resets>>

-----------------------------------------------------------------------------
\* A post of the event was published, or rejected.
Use(e) ==
    /\ e \in stored \ gone
    /\ gone' = gone \cup {e}
    /\ UNCHANGED <<today, stored, level, job1, ran, failed, histVars>>

\* `fetch` for one of its dates; --prefetch as JOB-1, the window otherwise.
RunFetch(i) ==
    /\ stored' = stored \cup Fetched(level, Day(i))
    /\ stored' # stored
    /\ UNCHANGED <<today, gone, level, job1, ran, failed, histVars>>

\* `escalation reset`.
Reset ==
    /\ resets < MaxResets
    /\ resets' = resets + 1
    /\ level' = 0 /\ raises' = 0
    /\ torn' = (job1.at = "raise")
    /\ UNCHANGED <<today, rowVars, job1, ran, failed, aborts>>

\* JOB-1 starts at two in the morning and lasts minutes.  A night when the
\* machine is down has no run.
NewDay ==
    /\ job1 = Idle
    /\ today' = (today + 1) % Year
    /\ ran' = FALSE
    /\ UNCHANGED <<rowVars, level, job1, failed, histVars>>

Job1 == Start \/ Collect \/ SkipDate \/ CountEnough \/ CountLow \/ ReadLevel \/ Raise

Next ==
    \/ Job1 \/ Busy \/ Abort1
    \/ \E e \in Entries : Use(e)
    \/ \E i \in -Window..(Prefetch - 1) : RunFetch(i)
    \/ Reset
    \/ NewDay

\* Days pass; JOB-1 goes on once started; the machine is up on some nights and
\* a run that the process or the database cuts short is followed by others.
Fairness == WF_vars(NewDay) /\ SF_vars(Start) /\ WF_vars(Job1)

Spec == Init /\ [][Next]_vars
FairSpec == Spec /\ Fairness

-----------------------------------------------------------------------------
TypeOK ==
    /\ today \in Dates
    /\ stored \subseteq Entries /\ gone \subseteq stored
    /\ level \in 0..MaxLevel
    /\ job1 \in [at : {"idle", "fetch", "check", "level", "raise"}, params : 0..MaxLevel,
                 day : -Window..(Prefetch - 1), tries : 0..(MaxTries - 1), read : 0..MaxLevel]
    /\ ran \in BOOLEAN /\ torn \in BOOLEAN
    /\ failed \subseteq Dates
    /\ raises \in 0..MaxLevel /\ resets \in 0..MaxResets /\ aborts \in 0..MaxAborts

\* A day that JOB-1 finds short is a day it could not collect in this run, or
\* one for which its parameters get too little from Wikipedia, or one whose
\* events were used.
EscalatesForCause ==
    [][CountLow => LET d == Day(job1.day)
                   IN  \/ d \in failed
                       \/ Cardinality(Fetched(job1.params, d)) < Threshold
                       \/ \E e \in gone : e.date = d]_vars

\* [CLI-M6] A reset counts from 0, for a run of JOB-1 that began before it too,
\* unless it fell between the two statements of increment_escalation_level.
ResetHolds == level = raises \/ torn

LowStock == \E i \in 0..(Horizon - 1) : Stock(Day(i)) < Threshold

\* [DS-1.4c] A shortage that does not end takes the level to 5, where JOB-3 stops.
ShortageIsNoticed == <>[]LowStock => <>[](level = MaxLevel)
=============================================================================
