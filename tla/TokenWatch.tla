----------------------------- MODULE TokenWatch -----------------------------
(***************************************************************************)
(* The long-lived user token of Meta, by days: JOB-5 looks at it once a    *)
(* day, warns at the thresholds, refreshes it and suspends publications;   *)
(* publishers refresh it when they publish in its last week; `auth meta`,  *)
(* another process, replaces it.                                           *)
(*                                                                         *)
(* JOB-5 runs at 9:00 local time and its day is not the day of the token:  *)
(* a change to winter time, like a machine that is down, makes it skip a   *)
(* value of `left`.  A skipped value is a missed day here.                 *)
(***************************************************************************)
EXTENDS Integers, FiniteSets, SchedulerState

CONSTANTS
    Validity,   \* days a new token lives (60)
    MaxMissed,  \* bound on the days JOB-5 misses in the life of one token
    NoAlert     \* last_alert_days_threshold IS NULL, no threshold today

ALERT_THRESHOLDS == {30, 14, 7, 3, 1}
REFRESH_THRESHOLD_DAYS == 7

ASSUME TokenAssumption ==
    /\ Validity \in Nat /\ Validity > 30
    /\ MaxMissed \in Nat
    /\ NoAlert \notin Nat

VARIABLES
    left,       \* days_until_expiry of the row user_long, 0 when negative
    lastAlert,  \* last_alert_days_threshold
    job5,       \* JOB-5: its step, the threshold it read, what it believes
    renewed,    \* outcome of JOB-5's last refresh, as Meta knows it
    refreshing, \* a publisher is exchanging the token
    checked,    \* JOB-5 has run to its end today
    missed,     \* days JOB-5 did not look, since the token was renewed
    failed      \* refreshes of JOB-5 that failed since then, up to 2

dbVars    == <<left, lastAlert, suspended>>
faultVars == <<checked, missed, failed>>
tokenVars == <<dbVars, job5, renewed, refreshing, faultVars>>

Idle5 == [at |-> "off", threshold |-> NoAlert, refresh_ok |-> FALSE]

TokenInit ==
    /\ left = Validity /\ lastAlert = NoAlert /\ suspended = FALSE
    /\ job5 = Idle5 /\ renewed = FALSE /\ refreshing = FALSE
    /\ checked = FALSE /\ missed = 0 /\ failed = 0

\* Mutation: an expired token has no threshold of its own.
ThresholdNoZero(remaining) ==
    IF remaining \in ALERT_THRESHOLDS THEN remaining ELSE NoAlert

get_alert_threshold(remaining) ==
    IF remaining <= 0 THEN 0
    ELSE IF remaining \in ALERT_THRESHOLDS THEN remaining ELSE NoAlert

\* A new token is in the row.
Renew ==
    /\ left' = Validity
    /\ missed' = 0 /\ failed' = 0

-----------------------------------------------------------------------------
\* JOB-5 reads the row; nothing to do unless the token has reached a threshold
\* other than the last one announced.
Unremarkable ==
    LET t == get_alert_threshold(left) IN t = NoAlert \/ t = lastAlert

LookIdle ==
    /\ job5.at = "off" /\ Unremarkable
    /\ checked' = TRUE
    /\ UNCHANGED <<dbVars, job5, renewed, refreshing, missed, failed>>

\* Mutation: the refresh is tried at J-7 only.
AfterLookOnce(threshold) ==
    CASE threshold = 7  -> "refresh"
      [] threshold <= 1 -> "suspend"
      [] OTHER          -> "write"

\* What JOB-5 does with the threshold it has read.
AfterLook(threshold) ==
    CASE threshold \in {7, 3} -> "refresh"
      [] threshold <= 1       -> "suspend"
      [] OTHER                -> "write"

Look ==
    /\ job5.at = "off" /\ ~Unremarkable
    /\ LET t == get_alert_threshold(left)
       IN job5' = [at |-> AfterLook(t), threshold |-> t, refresh_ok |-> FALSE]
    /\ UNCHANGED <<dbVars, renewed, refreshing, faultVars>>

\* get_valid_token on the row JOB-5 holds.  It absorbs the failures of Meta and
\* returns the old token, so that JOB-5 believes that the refresh succeeded.
Refresh ==
    /\ job5.at = "refresh"
    /\ job5' = [at |-> "write", threshold |-> job5.threshold, refresh_ok |-> TRUE]
    /\ \/ renewed' = TRUE /\ Renew
       \/ /\ renewed' = FALSE
          /\ failed' = IF failed < 2 THEN failed + 1 ELSE failed
          /\ UNCHANGED <<left, missed>>
    /\ UNCHANGED <<lastAlert, suspended, refreshing, checked>>

\* No refresh is tried on the last day: JOB-5 suspends, in a commit of its own.
Suspend ==
    /\ job5.at = "suspend"
    /\ suspended' = TRUE
    /\ job5' = [job5 EXCEPT !.at = "write"]
    /\ UNCHANGED <<left, lastAlert, renewed, refreshing, faultVars>>

\* The threshold announced.
Write ==
    /\ job5.at = "write"
    /\ lastAlert' = job5.threshold
    /\ checked' = TRUE
    /\ job5' = Idle5
    /\ UNCHANGED <<left, suspended, renewed, refreshing, missed, failed>>

\* An exception or a crash; JOB-5 runs again at start-up or tomorrow.
Abort5 ==
    /\ job5.at # "off" /\ job5' = Idle5
    /\ UNCHANGED <<dbVars, renewed, refreshing, faultVars>>

\* A publication, or /retry_ig, which does not look at the suspension, uses the
\* token in its last week.
ExchangeStart ==
    /\ ~refreshing
    /\ 0 < left /\ left <= REFRESH_THRESHOLD_DAYS
    /\ refreshing' = TRUE
    /\ UNCHANGED <<dbVars, job5, renewed, faultVars>>

\* _save_token, or a failure that the publication survives.
ExchangeEnd ==
    /\ refreshing /\ refreshing' = FALSE
    /\ \/ Renew
       \/ UNCHANGED <<left, missed, failed>>
    /\ UNCHANGED <<lastAlert, suspended, job5, renewed, checked>>

\* `auth meta` stores a new token and lifts the suspension; the announced
\* threshold stays.
AuthMeta ==
    /\ Renew /\ suspended' = FALSE
    /\ UNCHANGED <<lastAlert, job5, renewed, refreshing, checked>>

\* The token is a day older.  A run of JOB-5 lasts a minute: a day that passes
\* during the run is a day that passes after it.
Tick ==
    /\ job5.at = "off"
    /\ checked \/ missed < MaxMissed
    /\ left' = IF left > 0 THEN left - 1 ELSE 0
    /\ missed' = IF checked THEN missed ELSE missed + 1
    /\ checked' = FALSE
    /\ UNCHANGED <<lastAlert, suspended, job5, renewed, refreshing, failed>>

Job5 == LookIdle \/ Look \/ Refresh \/ Suspend \/ Write \/ Abort5
TokenStep == Job5 \/ ExchangeStart \/ ExchangeEnd \/ AuthMeta

TokenNext == TokenStep \/ Tick
TokenSpec == TokenInit /\ [][TokenNext]_tokenVars

-----------------------------------------------------------------------------
Thresholds == ALERT_THRESHOLDS \cup {0}

\* Types; JOB-5 only refreshes at the two thresholds of the last week.
TokenTypeOK ==
    /\ left \in 0..Validity
    /\ lastAlert \in Thresholds \cup {NoAlert}
    /\ suspended \in BOOLEAN /\ renewed \in BOOLEAN
    /\ refreshing \in BOOLEAN /\ checked \in BOOLEAN
    /\ missed \in 0..MaxMissed /\ failed \in 0..2
    /\ \/ job5 = Idle5
       \/ /\ job5 \in [at : {"refresh", "suspend", "write"}, threshold : Thresholds,
                       refresh_ok : BOOLEAN]
          /\ job5.at = "refresh" => job5.threshold \in {7, 3}
          /\ job5.at = "suspend" => job5.threshold \in {1, 0}

\* [RF-3.4.5] JOB-5 compares the threshold with the last one it announced, maybe
\* for an earlier token.  Whatever renewed the token since, an expired token that
\* JOB-5 has looked at is suspended, unless it missed five days of its life.
UnusableIsSuspended ==
    left = 0 /\ checked /\ missed <= 4 => suspended

\* [D-10] A token reaches its last day only after two faults: a day that JOB-5
\* missed or a refresh that Meta refused.
TwoChances == left <= 1 => missed + failed >= 2
=============================================================================
