-------------------------- MODULE Escalation_proofs --------------------------
(***************************************************************************)
(* What raises the level, and what a reset is worth, for any Wikipedia,    *)
(* year, window, horizon and threshold.                                    *)
(***************************************************************************)
EXTENDS Escalation, TLAPS, FiniteSetTheorems

USE DEF MaxLevel, MaxTries

Offsets == -Window..(Prefetch - 1)

Steps == {"idle", "fetch", "check", "level", "raise"}

JobType ==
    job1 \in [at : Steps, params : 0..MaxLevel, day : Offsets,
              tries : 0..(MaxTries - 1), read : 0..MaxLevel]

-----------------------------------------------------------------------------
(* Types.                                                                  *)

LEMMA TodayIsDate ==
    ASSUME NEW n \in Int
    PROVE  n % Year \in Dates
  BY EscalationAssumption DEF Dates

LEMMA DayIsDate ==
    ASSUME today \in Dates, NEW i \in Int
    PROVE  Day(i) \in Dates
<1>1. today \in Int /\ Year \in Nat /\ Window \in Nat
  BY EscalationAssumption DEF Dates
<1>2. Year * Window \in Int
  BY <1>1
<1>3. today + i + Year * Window \in Int
  BY <1>1, <1>2
<1> QED BY <1>3, TodayIsDate DEF Day

LEMMA Nearness ==
    /\ 0 \in Offsets /\ -Window \in Offsets
    /\ \A i \in Offsets : i \in Int
    /\ \A i \in 0..(Horizon - 1) : i \in Offsets
  BY EscalationAssumption DEF Offsets

LEMMA IdleType == Idle \in [at : Steps, params : 0..MaxLevel, day : Offsets,
                            tries : 0..(MaxTries - 1), read : 0..MaxLevel]
  BY Nearness DEF Idle, Steps

LEMMA NextDateType ==
    ASSUME JobType
    PROVE  /\ NextDate(job1) \in [at : Steps, params : 0..MaxLevel, day : Offsets,
                                  tries : 0..(MaxTries - 1), read : 0..MaxLevel]
           /\ NextDate(job1).params = job1.params
           /\ IF job1.day + 1 < Prefetch
              THEN NextDate(job1).at = job1.at /\ NextDate(job1).day = job1.day + 1
              ELSE NextDate(job1).at = "check" /\ NextDate(job1).day = 0
<1>0. 0 \in 0..(MaxTries - 1) /\ "check" \in Steps
  BY DEF Steps
<1>1. CASE job1.day + 1 < Prefetch
  <2>1. job1.day + 1 \in Offsets
    BY <1>1, EscalationAssumption DEF Offsets, JobType
  <2>2. NextDate(job1) = [job1 EXCEPT !.day = job1.day + 1, !.tries = 0]
    BY <1>1 DEF NextDate
  <2> QED BY <1>0, <1>1, <2>1, <2>2 DEF JobType
<1>2. CASE ~(job1.day + 1 < Prefetch)
  <2>1. NextDate(job1) = [job1 EXCEPT !.at = "check", !.day = 0, !.tries = 0]
    BY <1>2 DEF NextDate
  <2> QED BY <1>0, <1>2, <2>1, Nearness DEF JobType
<1> QED BY <1>1, <1>2

LEMMA TypeStart == Init => TypeOK
<1> SUFFICES ASSUME Init PROVE TypeOK
  OBVIOUS
<1>1. JobType
  BY IdleType DEF Init, JobType
<1>2. job1 \in [at : {"idle", "fetch", "check", "level", "raise"}, params : 0..MaxLevel,
                day : -Window..(Prefetch - 1), tries : 0..(MaxTries - 1), read : 0..MaxLevel]
  BY <1>1 DEF JobType, Steps, Offsets
<1>3. 0 \in 0..MaxLevel /\ 0 \in 0..MaxResets /\ 0 \in 0..MaxAborts
  BY EscalationAssumption
<1> QED BY <1>2, <1>3, Zenon DEF Init, TypeOK

LEMMA TypeIsJobType == TypeOK => JobType
  BY DEF TypeOK, JobType, Steps, Offsets

LEMMA TypeKeeps == TypeOK /\ [Next]_vars => TypeOK'
<1> SUFFICES ASSUME TypeOK, [Next]_vars PROVE TypeOK'
  OBVIOUS
<1> USE DEF rowVars, histVars
<1>0. JobType /\ Idle \in [at : Steps, params : 0..MaxLevel, day : Offsets,
                           tries : 0..(MaxTries - 1), read : 0..MaxLevel]
  BY TypeIsJobType, IdleType
<1>j. ASSUME JobType', UNCHANGED <<today, rowVars, level, histVars>>,
             ran' \in BOOLEAN, failed' \subseteq Dates
      PROVE  TypeOK'
  BY <1>j DEF TypeOK, JobType, Steps, Offsets
<1>1. CASE Start
  <2>1. JobType'
    BY <1>1, Nearness DEF Start, TypeOK, JobType, Steps
  <2> QED BY <1>1, <2>1, <1>j DEF Start, TypeOK
<1>2. CASE Collect
  <2>1. JobType'
    BY <1>0, <1>2, NextDateType DEF Collect, JobType
  <2>2. stored' \subseteq Entries /\ stored \subseteq stored'
    BY <1>2 DEF Collect, Fetched, ParsedEntries, TypeOK
  <2> QED BY <1>2, <2>1, <2>2 DEF Collect, TypeOK, JobType, Steps, Offsets
<1>3. CASE Busy
  <2>1. JobType'
    BY <1>0, <1>3 DEF Busy, JobType
  <2> QED BY <1>3, <2>1, <1>j DEF Busy, TypeOK
<1>4. CASE SkipDate
  <2>1. JobType'
    BY <1>0, <1>4, NextDateType DEF SkipDate, JobType
  <2>2. Day(job1.day) \in Dates
    BY <1>0, Nearness, DayIsDate DEF TypeOK, JobType
  <2> QED BY <1>4, <2>1, <2>2, <1>j DEF SkipDate, TypeOK
<1>5. CASE CountEnough
  <2>1. CASE job1.day + 1 < Horizon
    <3>1. job1.day + 1 \in Offsets
      BY <1>0, <2>1, EscalationAssumption DEF JobType, Offsets
    <3>2. JobType'
      BY <1>0, <1>5, <2>1, <3>1 DEF CountEnough, JobType
    <3> QED BY <1>5, <2>1, <3>2, <1>j DEF CountEnough, TypeOK
  <2>2. CASE ~(job1.day + 1 < Horizon)
    BY <1>0, <1>5, <2>2, <1>j DEF CountEnough, Stop, JobType
  <2> QED BY <2>1, <2>2
<1>6. CASE CountLow
  <2>1. JobType'
    BY <1>0, <1>6 DEF CountLow, JobType, Steps
  <2> QED BY <1>6, <2>1, <1>j DEF CountLow, TypeOK
<1>7. CASE ReadLevel
  <2>1. JobType'
    BY <1>0, <1>7 DEF ReadLevel, JobType, Steps, TypeOK
  <2> QED BY <1>7, <2>1, <1>j DEF ReadLevel, TypeOK
<1>8. CASE Raise
  <2>1. JobType'
    BY <1>0, <1>8 DEF Raise, Stop, JobType
  <2>2. level' \in 0..MaxLevel /\ raises' \in 0..MaxLevel
    BY <1>0, <1>8 DEF Raise, JobType, TypeOK
  <2> QED BY <1>8, <2>1, <2>2 DEF Raise, Stop, TypeOK, JobType, Steps, Offsets
<1>9. CASE Abort1
  <2>1. JobType'
    BY <1>0, <1>9 DEF Abort1, Stop, JobType
  <2>2. aborts' \in 0..MaxAborts
    BY <1>9, EscalationAssumption DEF Abort1, TypeOK
  <2> QED BY <1>9, <2>1, <2>2 DEF Abort1, Stop, TypeOK, JobType, Steps, Offsets
<1>10. ASSUME NEW e \in Entries, Use(e) PROVE TypeOK'
  BY <1>10 DEF Use, TypeOK
<1>11. ASSUME NEW i \in -Window..(Prefetch - 1), RunFetch(i) PROVE TypeOK'
  BY <1>11 DEF RunFetch, Fetched, ParsedEntries, TypeOK
<1>12. CASE Reset
  BY <1>12, EscalationAssumption DEF Reset, TypeOK
<1>13. CASE NewDay
  <2>1. today' \in Dates
    BY <1>13, TodayIsDate DEF NewDay, TypeOK, Dates
  <2> QED BY <1>13, <2>1 DEF NewDay, TypeOK
<1>14. CASE UNCHANGED vars
  BY <1>14 DEF vars, TypeOK
<1> QED BY <1>1, <1>2, <1>3, <1>4, <1>5, <1>6, <1>7, <1>8, <1>9, <1>10, <1>11,
           <1>12, <1>13, <1>14 DEF Next, Job1

\* The types of the module hold for any constants.
THEOREM EscalationTypes == Spec => []TypeOK
  BY TypeStart, TypeKeeps, PTL DEF Spec

-----------------------------------------------------------------------------
(* A reset.  Until it is written, the level that JOB-1 read is the level,  *)
(* unless a reset came in between.                                         *)

ResetInv ==
    /\ TypeOK
    /\ ResetHolds
    /\ job1.at = "raise" => torn \/ job1.read = level

LEMMA ResetKeeps == ResetInv /\ [Next]_vars => ResetInv'
<1> SUFFICES ASSUME ResetInv, [Next]_vars PROVE ResetInv'
  OBVIOUS
<1> USE DEF rowVars, histVars
<1>0. TypeOK /\ TypeOK'
  BY TypeKeeps DEF ResetInv
<1>1. JobType /\ level \in 0..MaxLevel /\ raises \in 0..MaxLevel
  BY <1>0, TypeIsJobType DEF TypeOK
<1> DEFINE Kept == UNCHANGED <<level, raises, torn>>
<1>2. ASSUME Kept, job1'.at # "raise" PROVE ResetInv'
  BY <1>0, <1>2 DEF ResetInv, ResetHolds
<1>3. ASSUME Kept, job1' = job1 PROVE ResetInv'
  BY <1>0, <1>3 DEF ResetInv, ResetHolds
<1>4. CASE Start
  BY <1>2, <1>4 DEF Start
<1>5. CASE Collect \/ SkipDate
  <2>1. job1'.at # "raise"
    BY <1>1, <1>5, NextDateType DEF Collect, SkipDate
  <2> QED BY <1>2, <1>5, <2>1 DEF Collect, SkipDate
<1>6. CASE Busy
  BY <1>1, <1>2, <1>6 DEF Busy, JobType
<1>7. CASE CountEnough
  BY <1>1, <1>2, <1>7 DEF CountEnough, Stop, Idle, JobType
<1>8. CASE CountLow
  BY <1>1, <1>2, <1>8 DEF CountLow, JobType
<1>9. CASE ReadLevel
  <2>1. job1'.read = level /\ UNCHANGED <<level, raises, torn>>
    BY <1>1, <1>9 DEF ReadLevel, JobType
  <2> QED BY <1>0, <2>1 DEF ResetInv, ResetHolds
<1>10. CASE Raise
  <2>1. job1'.at # "raise" /\ torn' = torn
    BY <1>10 DEF Raise, Stop, Idle
  <2>2. torn \/ level' = raises'
    BY <1>1, <1>10 DEF Raise, ResetInv, ResetHolds
  <2> QED BY <1>0, <2>1, <2>2 DEF ResetInv, ResetHolds
<1>11. CASE Abort1
  BY <1>2, <1>11 DEF Abort1, Stop, Idle
<1>12. CASE Reset
  <2>1. level' = raises' /\ job1' = job1
    BY <1>12 DEF Reset
  <2>2. job1'.at = "raise" => torn'
    BY <1>12, <2>1, Zenon DEF Reset
  <2>3. ResetHolds'
    BY <2>1 DEF ResetHolds
  <2> QED BY <1>0, <2>2, <2>3, Zenon DEF ResetInv
<1>13. ASSUME NEW e \in Entries, Use(e) PROVE ResetInv'
  BY <1>3, <1>13 DEF Use
<1>14. ASSUME NEW i \in -Window..(Prefetch - 1), RunFetch(i) PROVE ResetInv'
  BY <1>3, <1>14 DEF RunFetch
<1>15. CASE NewDay \/ UNCHANGED vars
  BY <1>3, <1>15 DEF NewDay, vars
<1> QED BY <1>4, <1>5, <1>6, <1>7, <1>8, <1>9, <1>10, <1>11, <1>12, <1>13, <1>14, <1>15
        DEF Next, Job1

\* After a reset the level counts the raises since, unless the reset fell
\* between the two statements of an increment.
THEOREM ResetsHold == Spec => []ResetHolds
<1>1. Init => ResetInv
  BY TypeStart DEF Init, ResetInv, ResetHolds, Idle
<1>2. ResetInv => ResetHolds
  BY DEF ResetInv
<1> QED BY <1>1, <1>2, ResetKeeps, PTL DEF Spec

-----------------------------------------------------------------------------
(* The cause of an escalation.  As JOB-1 goes from date to date, what      *)
(* Wikipedia has for the dates behind it is stored, or the date is left    *)
(* out; when it counts, all the days of the horizon are behind it.         *)

Collected(d) == d \in failed \/ Fetched(job1.params, d) \subseteq stored

CauseInv ==
    /\ TypeOK
    /\ job1.at = "fetch" => \A i \in Offsets : i < job1.day => Collected(Day(i))
    /\ job1.at = "check" => \A i \in Offsets : Collected(Day(i))

LEMMA CollectedGrows ==
    ASSUME NEW d, Collected(d), UNCHANGED job1.params,
           failed \subseteq failed', stored \subseteq stored'
    PROVE  Collected(d)'
  BY DEF Collected, Fetched, ParsedEntries, Types, FallbackEn

\* A step of the run itself: one more date is behind JOB-1.
LEMMA DateBehind ==
    ASSUME CauseInv, job1.at = "fetch", job1' = NextDate(job1), today' = today,
           failed \subseteq failed', stored \subseteq stored', TypeOK',
           NEW k \in Offsets, k = job1.day, Collected(Day(k))'
    PROVE  CauseInv'
<1>1. JobType
  BY TypeIsJobType DEF CauseInv
<1>2. job1'.params = job1.params
  BY <1>1, NextDateType
<1>3. \A i \in Offsets : Day(i)' = Day(i)
  BY DEF Day
<1>4. job1.day \in Offsets /\ \A i \in Offsets : i \in Int
  BY <1>1, Nearness DEF JobType
<1>5. ASSUME NEW i \in Offsets, i < job1.day PROVE Collected(Day(i))'
  <2>1. Collected(Day(i))
    BY <1>5 DEF CauseInv
  <2> QED BY <1>2, <1>3, <2>1, CollectedGrows DEF Collected, Fetched, ParsedEntries
<1>6. ASSUME NEW i \in Offsets, i <= job1.day PROVE Collected(Day(i))'
  <2>1. i = k \/ i < job1.day
    BY <1>4, <1>6
  <2> QED BY <1>5, <2>1
<1>7. CASE job1.day + 1 < Prefetch
  <2>1. job1'.at = "fetch" /\ job1'.day = job1.day + 1
    BY <1>1, <1>7, NextDateType
  <2>2. \A i \in Offsets : i < job1'.day => i <= job1.day
    BY <1>4, <2>1
  <2> QED BY <1>6, <2>1, <2>2 DEF CauseInv
<1>8. CASE ~(job1.day + 1 < Prefetch)
  <2>1. job1'.at = "check"
    BY <1>1, <1>8, NextDateType
  <2>2. \A i \in Offsets : i <= job1.day
    BY <1>4, <1>8, EscalationAssumption DEF Offsets
  <2> QED BY <1>6, <2>1, <2>2 DEF CauseInv
<1> QED BY <1>7, <1>8

LEMMA CauseKeeps == CauseInv /\ [Next]_vars => CauseInv'
<1> SUFFICES ASSUME CauseInv, [Next]_vars PROVE CauseInv'
  OBVIOUS
<1> USE DEF rowVars, histVars
<1>0. TypeOK /\ TypeOK' /\ JobType
  BY TypeKeeps, TypeIsJobType DEF CauseInv
<1>1. ASSUME job1'.at \notin {"fetch", "check"} PROVE CauseInv'
  BY <1>0, <1>1 DEF CauseInv
\* Nothing moves but the counters of the step and what is stored.
<1>2. ASSUME UNCHANGED <<today, failed>>, stored \subseteq stored',
             job1'.at = job1.at, job1'.params = job1.params,
             job1.at = "fetch" => job1'.day = job1.day
      PROVE  CauseInv'
  <2>1. \A i \in Offsets : Day(i)' = Day(i)
    BY <1>2 DEF Day
  <2>2. ASSUME NEW i \in Offsets, Collected(Day(i)) PROVE Collected(Day(i))'
    BY <1>2, <2>1, <2>2, CollectedGrows DEF Collected, Fetched, ParsedEntries
  <2> QED BY <1>0, <1>2, <2>2 DEF CauseInv
<1>3. CASE Start
  <2>1. job1'.at = "fetch" /\ job1'.day = -Window
    BY <1>3 DEF Start
  <2>2. \A i \in Offsets : ~(i < job1'.day)
    BY <2>1, EscalationAssumption DEF Offsets
  <2> QED BY <1>0, <2>1, <2>2 DEF CauseInv
<1>4. ASSUME Collect \/ SkipDate PROVE CauseInv'
  <2>1. PICK k \in Offsets : k = job1.day
    BY <1>0 DEF JobType
  <2>2. /\ job1.at = "fetch" /\ job1' = NextDate(job1) /\ today' = today
        /\ failed \subseteq failed' /\ stored \subseteq stored'
    BY <1>4 DEF Collect, SkipDate
  <2>3. job1'.params = job1.params /\ Day(k)' = Day(k)
    BY <1>0, <2>2, NextDateType DEF Day
  <2>4. Collected(Day(k))'
    <3>1. CASE Collect
      <4>1. Fetched(job1.params, Day(k)) \subseteq stored'
        BY <2>1, <3>1 DEF Collect
      <4>2. Fetched(job1.params, Day(k))' = Fetched(job1.params, Day(k))
        BY <2>3 DEF Fetched, ParsedEntries
      <4> QED BY <4>1, <4>2 DEF Collected
    <3>2. CASE SkipDate
      <4>1. Day(k) \in failed'
        BY <2>1, <3>2 DEF SkipDate
      <4> QED BY <2>3, <4>1 DEF Collected
    <3> QED BY <1>4, <3>1, <3>2
  <2> QED BY <1>0, <2>1, <2>2, <2>4, DateBehind
<1>5. CASE Busy
  <2>1. /\ job1'.at = job1.at /\ job1'.params = job1.params /\ job1'.day = job1.day
        /\ UNCHANGED <<today, failed, stored>>
    BY <1>0, <1>5 DEF Busy, JobType
  <2> QED BY <1>2, <2>1
<1>6. CASE CountEnough
  <2>1. CASE job1.day + 1 < Horizon
    <3>1. /\ job1.at = "check" /\ job1'.at = job1.at /\ job1'.params = job1.params
          /\ UNCHANGED <<today, failed, stored>>
      BY <1>0, <1>6, <2>1 DEF CountEnough, JobType
    <3> QED BY <1>2, <3>1
  <2>2. CASE ~(job1.day + 1 < Horizon)
    BY <1>1, <1>6, <2>2 DEF CountEnough, Stop, Idle
  <2> QED BY <2>1, <2>2
<1>7. CASE CountLow \/ ReadLevel \/ Raise \/ Abort1
  <2>1. CASE CountLow
    BY <1>0, <1>1, <2>1 DEF CountLow, JobType
  <2>2. CASE ReadLevel
    BY <1>0, <1>1, <2>2 DEF ReadLevel, JobType
  <2>3. CASE Raise \/ Abort1
    <3>1. job1' = Idle
      BY <2>3 DEF Raise, Abort1, Stop
    <3> QED BY <1>1, <3>1 DEF Idle
  <2> QED BY <1>7, <2>1, <2>2, <2>3
<1>8. ASSUME UNCHANGED <<today, failed, job1>>, stored \subseteq stored' PROVE CauseInv'
  BY <1>2, <1>8
<1>10. ASSUME NEW e \in Entries, Use(e) PROVE CauseInv'
  BY <1>8, <1>10 DEF Use
<1>11. ASSUME NEW i \in -Window..(Prefetch - 1), RunFetch(i) PROVE CauseInv'
  BY <1>8, <1>11 DEF RunFetch
<1>12. CASE Reset \/ UNCHANGED vars
  BY <1>8, <1>12 DEF Reset, vars
<1>9. CASE NewDay
  <2>1. job1' = Idle
    BY <1>9 DEF NewDay
  <2> QED BY <1>1, <2>1 DEF Idle
<1> QED BY <1>3, <1>4, <1>5, <1>6, <1>7, <1>9, <1>10, <1>11, <1>12 DEF Next, Job1

\* When JOB-1 finds a day short, it could not collect the day, or Wikipedia has
\* too little for it, or its events were used.
THEOREM EscalationHasCause == Spec => EscalatesForCause
<1>1. Init => CauseInv
  BY TypeStart DEF Init, CauseInv, Idle
<1>2. ASSUME CauseInv, CountLow
      PROVE  LET d == Day(job1.day)
             IN  \/ d \in failed
                 \/ Cardinality(Fetched(job1.params, d)) < Threshold
                 \/ \E e \in gone : e.date = d
  <2> DEFINE d == Day(job1.day)
             F == Fetched(job1.params, d)
             S == {e \in stored \ gone : e.date = d}
  <2> SUFFICES ASSUME d \notin failed, ~ \E e \in gone : e.date = d
               PROVE  Cardinality(F) < Threshold
    OBVIOUS
  <2>1. TypeOK /\ JobType
    BY <1>2, TypeIsJobType DEF CauseInv
  <2>2. Collected(d)
    BY <1>2, <2>1 DEF CauseInv, CountLow, JobType
  <2>3. F \subseteq S
    BY <2>2 DEF Collected, Fetched, ParsedEntries
  <2>4. IsFiniteSet(S)
    <3>1. S \subseteq Entries
      BY <2>1 DEF TypeOK
    <3> QED BY <3>1, EscalationAssumption, FS_Subset, Zenon
  <2>5. IsFiniteSet(F) /\ Cardinality(F) <= Cardinality(S)
    BY <2>3, <2>4, FS_Subset
  <2>6. Cardinality(S) < Threshold
    BY <1>2 DEF CountLow, Low, Stock
  <2>7. Cardinality(F) \in Nat /\ Cardinality(S) \in Nat /\ Threshold \in Nat
    BY <2>4, <2>5, FS_CardinalityType, EscalationAssumption
  <2> QED BY <2>5, <2>6, <2>7
<1>3. CauseInv => [CountLow => LET d == Day(job1.day)
                               IN  \/ d \in failed
                                   \/ Cardinality(Fetched(job1.params, d)) < Threshold
                                   \/ \E e \in gone : e.date = d]_vars
  BY <1>2
<1> QED BY <1>1, <1>3, CauseKeeps, PTL DEF Spec, EscalatesForCause
=============================================================================
