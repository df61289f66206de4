----------------------- MODULE PublicationGate_proofs -----------------------
(***************************************************************************)
(* The safety of the gate, for any validity of the token, any number of    *)
(* missed days, any callers and any limit.                                 *)
(***************************************************************************)
EXTENDS PublicationGate, TLAPS

USE DEF ALERT_THRESHOLDS, Thresholds, Away

-----------------------------------------------------------------------------
(* The counter.  Between two calls that passed midnight at most            *)
(* MaxDailyPosts publications are granted, and `count` of them are in the  *)
(* row as long as the row is dated today.                                  *)

Straddles == straddled * (MaxDailyPosts + 1)

QuotaInv ==
    /\ QuotaTypeOK
    /\ granted <= (IF date = 0 THEN count ELSE 0) + Straddles

LEMMA OneMoreStraddle ==
    ASSUME NEW s \in Nat, NEW m \in Nat
    PROVE  /\ (s + 1) * (m + 1) = s * (m + 1) + m + 1
           /\ s * (m + 1) \in Nat
  OBVIOUS

LEMMA QuotaStart == QuotaInit => QuotaInv
  BY QuotaAssumption DEF QuotaInit, QuotaInv, QuotaTypeOK, Straddles

\* What a grant adds is either in the row of today, or the price of a straddle.
LEMMA GrantKeeps ==
    ASSUME QuotaInv, NEW c \in Callers, Grant(c)
    PROVE  QuotaInv'
<1>1. /\ count \in 0..MaxDailyPosts /\ date \in 0..2
      /\ call \in [Callers -> {-1, 0, 1}] /\ granted \in Nat /\ straddled \in Nat
      /\ MaxDailyPosts \in Nat \ {0}
  BY QuotaAssumption DEF QuotaInv, QuotaTypeOK
<1>2. call[c] \in {0, 1}
  BY <1>1 DEF Grant
<1>3. QuotaTypeOK'
  <2>1. count' \in 0..MaxDailyPosts
    BY <1>1, <1>2 DEF Grant, Allowed, SameDay
  <2>2. date' \in 0..2 /\ granted' \in Nat /\ straddled' \in Nat
    BY <1>1, <1>2 DEF Grant
  <2>3. call' \in [Callers -> {-1, 0, 1}]
    BY <1>1 DEF Grant
  <2> QED BY <2>1, <2>2, <2>3 DEF QuotaTypeOK
<1>4. granted' <= (IF date' = 0 THEN count' ELSE 0) + Straddles'
  <2>1. CASE call[c] = 0
    <3>1. straddled' = straddled /\ date' = 0 /\ granted' = granted + 1
      BY <2>1, <1>1 DEF Grant
    <3>2. Straddles' = Straddles /\ Straddles \in Nat
      BY <3>1, <1>1, OneMoreStraddle DEF Straddles
    <3>3. CASE date = 0
      BY <2>1, <3>1, <3>2, <3>3, <1>1 DEF Grant, SameDay, QuotaInv
    <3>4. CASE date # 0
      BY <2>1, <3>1, <3>2, <3>4, <1>1 DEF Grant, SameDay, QuotaInv
    <3> QED BY <3>3, <3>4
  <2>2. CASE call[c] = 1
    <3>1. straddled' = straddled + 1 /\ date' = 1 /\ granted' = granted + 1
      BY <2>2, <1>1 DEF Grant
    <3>2. Straddles' = Straddles + MaxDailyPosts + 1 /\ Straddles \in Nat
      BY <3>1, <1>1, OneMoreStraddle DEF Straddles
    <3> QED BY <3>1, <3>2, <1>1 DEF QuotaInv
  <2> QED BY <2>1, <2>2, <1>2
<1> QED BY <1>3, <1>4 DEF QuotaInv

LEMMA QuotaKeeps == QuotaInv /\ [Next]_vars => QuotaInv'
<1> SUFFICES ASSUME QuotaInv, [Next]_vars PROVE QuotaInv'
  OBVIOUS
<1> USE QuotaAssumption
<1>1. ASSUME NEW c \in Callers, ReadDate(c) PROVE QuotaInv'
  BY <1>1 DEF ReadDate, QuotaInv, QuotaTypeOK, Straddles
<1>2. ASSUME NEW c \in Callers, Refuse(c) \/ GiveUp(c) PROVE QuotaInv'
  BY <1>2 DEF Refuse, GiveUp, QuotaInv, QuotaTypeOK, Straddles
<1>3. ASSUME Midnight PROVE QuotaInv'
  BY <1>3 DEF Midnight, QuotaInv, QuotaTypeOK, Straddles
<1>4. CASE UNCHANGED quotaVars
  BY <1>4 DEF quotaVars, QuotaInv, QuotaTypeOK, Straddles
<1> QED BY <1>1, <1>2, <1>3, <1>4, GrantKeeps DEF Next, QuotaStep, vars

\* [SC-2] In a day that no call entered from the day before, the three callers
\* publish max_daily_posts posts together, whatever the interleaving; each call
\* that passed midnight costs one more day's worth.
THEOREM QuotaHonoured == Spec => []QuotaBound
<1>1. Init => QuotaInv
  BY QuotaStart DEF Init
<1>2. QuotaInv => QuotaBound
  <2> SUFFICES ASSUME QuotaInv PROVE QuotaBound
    OBVIOUS
  <2>1. Straddles \in Nat
    BY QuotaAssumption, OneMoreStraddle DEF QuotaInv, QuotaTypeOK, Straddles
  <2> QED BY <2>1, QuotaAssumption DEF QuotaInv, QuotaTypeOK, QuotaBound, Straddles
<1> QED BY <1>1, <1>2, QuotaKeeps, PTL DEF Spec

-----------------------------------------------------------------------------
(* The token.  `left` only goes down while JOB-5 is off, so what JOB-5 has *)
(* in hand is the present threshold, unless the token was renewed since    *)
(* (JobInv); a threshold that was looked at is the last one announced      *)
(* (LookInv).  An announcement that is older than the token is therefore   *)
(* paid for by the days that missed the thresholds in between.             *)

Faults == missed + failed

JobInv ==
    /\ job5.at # "off" => left = Validity \/ left = job5.threshold
    /\ job5.at = "write" /\ left = job5.threshold =>
         /\ job5.threshold = 7 => Faults >= 1
         /\ job5.threshold = 3 => Faults >= 2
         /\ job5.threshold = 0 => suspended

LookInv == checked /\ left \in Thresholds => lastAlert = left

\* A threshold announced for an earlier token was followed by misses.
OldAlertInv ==
    /\ lastAlert \in {7, 3} /\ left < 30 => Faults >= 1
    /\ lastAlert = 3 /\ left < 14 => Faults >= 2

LastWeekInv ==
    /\ left < 7 => Faults >= 1
    /\ left < 3 => Faults >= 2

\* An expiry that was announced suspends, or belongs to an earlier token.
ExpiryInv ==
    lastAlert = 0 /\ ~suspended =>
      /\ left < 30 => missed >= 1
      /\ left < 14 => missed >= 2
      /\ left < 7 => missed >= 3
      /\ left < 3 => missed >= 4
      /\ left < 1 => missed >= 5

TokenInv ==
    TokenTypeOK /\ JobInv /\ LookInv /\ OldAlertInv /\ LastWeekInv /\ ExpiryInv

LEMMA TokenStart == TokenInit => TokenInv
<1> SUFFICES ASSUME TokenInit PROVE TokenInv
  OBVIOUS
<1> USE TokenAssumption DEF TokenInit
<1>1. TokenTypeOK
  <2>1. left \in 0..Validity /\ missed \in 0..MaxMissed /\ failed \in 0..2
    OBVIOUS
  <2> QED BY <2>1 DEF TokenTypeOK
<1>2. JobInv
  BY DEF JobInv, Idle5
<1>3. LookInv /\ OldAlertInv /\ LastWeekInv /\ ExpiryInv
  BY DEF LookInv, OldAlertInv, LastWeekInv, ExpiryInv
<1> QED BY <1>1, <1>2, <1>3 DEF TokenInv

\* Where JOB-5 is.
LEMMA JobTypes ==
    ASSUME TokenTypeOK
    PROVE  \/ job5 = Idle5 /\ job5.at = "off"
           \/ /\ job5.at \in {"refresh", "suspend", "write"}
              /\ job5.threshold \in Thresholds /\ job5.refresh_ok \in BOOLEAN
              /\ job5 = [at |-> job5.at, threshold |-> job5.threshold,
                         refresh_ok |-> job5.refresh_ok]
              /\ job5.at = "refresh" => job5.threshold \in {7, 3}
              /\ job5.at = "suspend" => job5.threshold \in {1, 0}
  BY DEF TokenTypeOK, Idle5

\* A renewed token owes nothing.
LEMMA Renewed ==
    ASSUME TokenInv, Renew, UNCHANGED <<lastAlert, job5, checked>>,
           renewed' \in BOOLEAN, refreshing' \in BOOLEAN, suspended' \in BOOLEAN
    PROVE  TokenInv'
<1> USE TokenAssumption DEF Renew
<1>1. TokenTypeOK'
  BY DEF TokenInv, TokenTypeOK, Idle5
<1>2. JobInv'
  BY DEF TokenInv, TokenTypeOK, JobInv, Idle5
<1>3. LookInv' /\ OldAlertInv' /\ LastWeekInv' /\ ExpiryInv'
  BY DEF LookInv, OldAlertInv, LastWeekInv, ExpiryInv
<1> QED BY <1>1, <1>2, <1>3 DEF TokenInv

LEMMA LookIdleKeeps ==
    ASSUME TokenInv, LookIdle
    PROVE  TokenInv'
<1> USE TokenAssumption DEF LookIdle
<1>1. TokenTypeOK' /\ JobInv'
  BY DEF TokenInv, TokenTypeOK, JobInv, Faults, Idle5, dbVars
<1>2. LookInv'
  BY DEF TokenInv, TokenTypeOK, LookInv, Unremarkable, get_alert_threshold, dbVars
<1>3. OldAlertInv' /\ LastWeekInv' /\ ExpiryInv'
  BY DEF TokenInv, OldAlertInv, LastWeekInv, ExpiryInv, Faults, dbVars
<1> QED BY <1>1, <1>2, <1>3 DEF TokenInv

LEMMA LookKeeps ==
    ASSUME TokenInv, Look
    PROVE  TokenInv'
<1> USE TokenAssumption DEF Look
<1>1. /\ left \in Thresholds
      /\ job5' = [at |-> AfterLook(left), threshold |-> left, refresh_ok |-> FALSE]
      /\ AfterLook(left) \in {"refresh", "suspend", "write"}
      /\ AfterLook(left) = "refresh" => left \in {7, 3}
      /\ AfterLook(left) = "suspend" => left \in {1, 0}
      /\ AfterLook(left) = "write" => left \notin {7, 3, 0}
  <2>1. left \in Nat
    BY DEF TokenInv, TokenTypeOK
  <2>2. get_alert_threshold(left) # NoAlert
    BY DEF Unremarkable
  <2>3. left \in Thresholds /\ get_alert_threshold(left) = left
    BY <2>1, <2>2 DEF get_alert_threshold
  <2>4. /\ AfterLook(left) \in {"refresh", "suspend", "write"}
        /\ AfterLook(left) = "refresh" => left \in {7, 3}
        /\ AfterLook(left) = "suspend" => left \in {1, 0}
        /\ AfterLook(left) = "write" => left \notin {7, 3, 0}
    BY <2>3 DEF AfterLook
  <2> QED BY <2>3, <2>4
<1>2. TokenTypeOK'
  BY <1>1 DEF TokenInv, TokenTypeOK, Idle5, dbVars, faultVars
<1>3. JobInv'
  BY <1>1 DEF TokenInv, JobInv, dbVars, faultVars
<1>4. LookInv' /\ OldAlertInv' /\ LastWeekInv' /\ ExpiryInv'
  BY DEF TokenInv, LookInv, OldAlertInv, LastWeekInv, ExpiryInv, Faults, dbVars, faultVars
<1> QED BY <1>2, <1>3, <1>4 DEF TokenInv

\* The record that a refresh leaves.
LEMMA JobOfRefresh ==
    ASSUME NEW t \in {7, 3}
    PROVE  LET j == [at |-> "write", threshold |-> t, refresh_ok |-> TRUE]
           IN  /\ j \in [at : {"refresh", "suspend", "write"}, threshold : Thresholds,
                         refresh_ok : BOOLEAN]
               /\ j.threshold = t
  OBVIOUS

LEMMA RefreshKeeps ==
    ASSUME TokenInv, Refresh
    PROVE  TokenInv'
<1> USE TokenAssumption DEF Refresh
<1>1. /\ job5.at = "refresh" /\ job5.threshold \in {7, 3}
      /\ job5' = [at |-> "write", threshold |-> job5.threshold, refresh_ok |-> TRUE]
  BY JobTypes DEF TokenInv
<1>2. CASE Renew
  <2>1. TokenTypeOK'
    <3>1. left' \in 0..Validity /\ missed' \in 0..MaxMissed /\ failed' \in 0..2
      BY <1>2 DEF Renew
    <3>2. renewed' \in BOOLEAN
      BY DEF TokenInv, TokenTypeOK
    <3> QED BY <1>1, <3>1, <3>2, JobOfRefresh DEF TokenInv, TokenTypeOK
  <2>2. JobInv' /\ LookInv' /\ OldAlertInv' /\ LastWeekInv' /\ ExpiryInv'
    BY <1>1, <1>2
    DEF Renew, JobInv, LookInv, OldAlertInv, LastWeekInv, ExpiryInv
  <2> QED BY <2>1, <2>2 DEF TokenInv
<1>3. CASE /\ failed' = IF failed < 2 THEN failed + 1 ELSE failed
           /\ UNCHANGED <<left, missed>> /\ renewed' = FALSE
  <2>1. TokenTypeOK'
    <3>1. failed' \in 0..2
      BY <1>3 DEF TokenInv, TokenTypeOK
    <3> QED BY <1>1, <1>3, <3>1, JobOfRefresh DEF TokenInv, TokenTypeOK
  <2>2. JobInv'
    BY <1>1, <1>3 DEF TokenInv, TokenTypeOK, JobInv, LastWeekInv, Faults
  <2>3. LookInv' /\ OldAlertInv' /\ LastWeekInv' /\ ExpiryInv'
    BY <1>3 DEF TokenInv, TokenTypeOK, LookInv, OldAlertInv, LastWeekInv, ExpiryInv, Faults
  <2> QED BY <2>1, <2>2, <2>3 DEF TokenInv
<1> QED BY <1>2, <1>3

LEMMA SuspendKeeps ==
    ASSUME TokenInv, Suspend
    PROVE  TokenInv'
<1> USE TokenAssumption DEF Suspend
<1>1. /\ job5.at = "suspend" /\ job5.threshold \in {1, 0}
      /\ job5' = [at |-> "write", threshold |-> job5.threshold,
                  refresh_ok |-> job5.refresh_ok]
      /\ job5.refresh_ok \in BOOLEAN
  BY JobTypes DEF TokenInv
<1>2. TokenTypeOK'
  BY <1>1 DEF TokenInv, TokenTypeOK, faultVars
<1>3. JobInv'
  BY <1>1 DEF TokenInv, JobInv, faultVars
<1>4. LookInv' /\ OldAlertInv' /\ LastWeekInv' /\ ExpiryInv'
  BY DEF TokenInv, LookInv, OldAlertInv, LastWeekInv, ExpiryInv, Faults, faultVars
<1> QED BY <1>2, <1>3, <1>4 DEF TokenInv

\* What JOB-5 announces is the present threshold, or the token is new.
LEMMA WriteKeeps ==
    ASSUME TokenInv, Write
    PROVE  TokenInv'
<1> USE TokenAssumption DEF Write
<1>1. /\ job5.at = "write" /\ job5.threshold \in Thresholds
      /\ left = Validity \/ left = job5.threshold
  BY JobTypes DEF TokenInv, JobInv
<1>2. TokenTypeOK' /\ JobInv'
  BY <1>1 DEF TokenInv, TokenTypeOK, JobInv, Idle5
<1>3. LookInv' /\ LastWeekInv'
  BY <1>1 DEF TokenInv, LookInv, LastWeekInv, Faults
<1>4. OldAlertInv'
  BY <1>1 DEF TokenInv, TokenTypeOK, JobInv, OldAlertInv, Faults
<1>5. ExpiryInv'
  BY <1>1 DEF TokenInv, JobInv, ExpiryInv
<1> QED BY <1>2, <1>3, <1>4, <1>5 DEF TokenInv

LEMMA TickKeeps ==
    ASSUME TokenInv, Tick
    PROVE  TokenInv'
<1> USE TokenAssumption DEF Tick
<1>1. /\ left \in Nat /\ missed \in Nat /\ failed \in Nat
      /\ left' = IF left > 0 THEN left - 1 ELSE 0
      /\ \/ missed' = missed + 1
         \/ /\ missed' = missed
            /\ left \in Thresholds => lastAlert = left
  BY DEF TokenInv, TokenTypeOK, LookInv
<1>2. TokenTypeOK' /\ JobInv' /\ LookInv'
  <2>1. missed' \in 0..MaxMissed
    BY DEF TokenInv, TokenTypeOK
  <2>2. left' \in 0..Validity
    BY DEF TokenInv, TokenTypeOK
  <2>3. job5 = Idle5
    BY JobTypes DEF TokenInv
  <2> QED BY <2>1, <2>2, <2>3 DEF TokenInv, TokenTypeOK, JobInv, LookInv, Idle5
<1>3. OldAlertInv'
  BY <1>1 DEF TokenInv, OldAlertInv, Faults
<1>4. LastWeekInv'
  BY <1>1 DEF TokenInv, OldAlertInv, LastWeekInv, Faults
<1>5. ExpiryInv'
  BY <1>1 DEF TokenInv, ExpiryInv
<1> QED BY <1>2, <1>3, <1>4, <1>5 DEF TokenInv

LEMMA TokenKeeps == TokenInv /\ [Next]_vars => TokenInv'
<1> SUFFICES ASSUME TokenInv, [Next]_vars PROVE TokenInv'
  OBVIOUS
<1>1. CASE UNCHANGED tokenVars
  BY <1>1
  DEF tokenVars, dbVars, faultVars, TokenInv, TokenTypeOK, JobInv, LookInv, OldAlertInv,
      LastWeekInv, ExpiryInv, Faults
<1>2. CASE Abort5
  BY <1>2
  DEF Abort5, dbVars, faultVars, TokenInv, TokenTypeOK, JobInv, LookInv, OldAlertInv,
      LastWeekInv, ExpiryInv, Faults, Idle5
<1>3. CASE ExchangeStart
  BY <1>3
  DEF ExchangeStart, dbVars, faultVars, TokenInv, TokenTypeOK, JobInv, LookInv,
      OldAlertInv, LastWeekInv, ExpiryInv, Faults
<1>4. CASE ExchangeEnd
  <2>1. CASE Renew
    BY <1>4, <2>1, Renewed DEF ExchangeEnd, TokenInv, TokenTypeOK
  <2>2. CASE UNCHANGED <<left, missed, failed>>
    <3>1. TokenTypeOK'
      BY <1>4, <2>2 DEF ExchangeEnd, TokenInv, TokenTypeOK
    <3>2. JobInv' /\ LookInv' /\ OldAlertInv' /\ LastWeekInv' /\ ExpiryInv'
      BY <1>4, <2>2
      DEF ExchangeEnd, TokenInv, JobInv, LookInv, OldAlertInv, LastWeekInv, ExpiryInv,
          Faults
    <3> QED BY <3>1, <3>2 DEF TokenInv
  <2> QED BY <1>4, <2>1, <2>2 DEF ExchangeEnd
<1>5. CASE AuthMeta
  BY <1>5, Renewed DEF AuthMeta, TokenInv, TokenTypeOK
<1> QED
  BY <1>1, <1>2, <1>3, <1>4, <1>5, LookIdleKeeps, LookKeeps, RefreshKeeps, SuspendKeeps,
     WriteKeeps, TickKeeps
  DEF Next, TokenStep, Job5, vars

\* [D-10] Whatever the thresholds announced for earlier tokens, a token that is
\* down to its last day was missed or refused twice.
THEOREM TokenGetsTwoChances == Spec => []TwoChances
<1>1. Init => TokenInv
  BY TokenStart DEF Init
<1>2. TokenInv => TwoChances
  BY DEF TokenInv, TokenTypeOK, LastWeekInv, TwoChances, Faults
<1> QED BY <1>1, <1>2, TokenKeeps, PTL DEF Spec

\* [RF-3.4.5] An expired token that JOB-5 has looked at is suspended, as long as
\* JOB-5 did not miss five days of its life.
THEOREM ExpirySuspends == Spec => []UnusableIsSuspended
<1>1. Init => TokenInv
  BY TokenStart DEF Init
<1>2. TokenInv => UnusableIsSuspended
  BY DEF TokenInv, TokenTypeOK, LookInv, ExpiryInv, UnusableIsSuspended
<1> QED BY <1>1, <1>2, TokenKeeps, PTL DEF Spec

\* Both sides keep their types; JOB-5 only refreshes at 7 and 3 days.
THEOREM GateTypes == Spec => []TypeOK
<1>1. Init => QuotaInv /\ TokenInv
  BY QuotaStart, TokenStart DEF Init
<1>2. QuotaInv /\ TokenInv => TypeOK
  BY DEF QuotaInv, TokenInv, TypeOK
<1> QED BY <1>1, <1>2, QuotaKeeps, TokenKeeps, PTL DEF Spec

\* [SC-2] No post is let out on a token that JOB-5 has seen expired: the counter
\* looks at the suspension in the lock, and ExpirySuspends says that it is there.
THEOREM DeadTokenStops == Spec => NoGrantOnDeadToken
<1>1. Init => QuotaInv /\ TokenInv
  BY QuotaStart, TokenStart DEF Init
<1>2. ASSUME QuotaInv, TokenInv, [Next]_vars, granted' > granted
      PROVE  ~(left = 0 /\ checked /\ missed <= 4)
  <2>1. granted \in Nat
    BY <1>2 DEF QuotaInv, QuotaTypeOK
  <2>2. \E c \in Callers : Grant(c)
    BY <1>2, <2>1 DEF Next, QuotaStep, ReadDate, Refuse, GiveUp, Midnight, quotaVars, vars
  <2>3. ~suspended
    BY <2>2 DEF Grant
  <2>4. UnusableIsSuspended
    BY <1>2 DEF TokenInv, TokenTypeOK, LookInv, ExpiryInv, UnusableIsSuspended
  <2> QED BY <2>3, <2>4 DEF UnusableIsSuspended
<1>3. QuotaInv /\ TokenInv /\ [Next]_vars =>
          [granted' > granted => ~(left = 0 /\ checked /\ missed <= 4)]_vars
  BY <1>2
<1> QED BY <1>1, <1>3, QuotaKeeps, TokenKeeps, PTL DEF Spec, NoGrantOnDeadToken
=============================================================================
