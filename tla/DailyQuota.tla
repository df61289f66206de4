----------------------------- MODULE DailyQuota -----------------------------
(***************************************************************************)
(* The daily counter of publications: check_and_increment_daily_count,     *)
(* called by the handler of approvals, by JOB-3 and by JOB-7.  The date is *)
(* read before the exclusive lock of SQLite is asked for, and the wait for *)
(* the lock can pass midnight.                                             *)
(*                                                                         *)
(* Dates are ages in days: 0 is today (UTC), 1 yesterday, 2 anything older *)
(* or absent.                                                              *)
(***************************************************************************)
EXTENDS Integers, FiniteSets, SchedulerState

CONSTANTS
    Callers,        \* coroutines that ask for a publication
    MaxDailyPosts   \* instagram.max_daily_posts

ASSUME QuotaAssumption ==
    /\ IsFiniteSet(Callers)
    /\ MaxDailyPosts \in Nat \ {0}

VARIABLES
    count,      \* daily_post_count
    date,       \* age of daily_post_count_date
    call,       \* per caller: not asking, or the age of its today_str
    granted,    \* publications granted today
    straddled   \* those of them that were asked for yesterday

quotaVars == <<count, date, call, granted, straddled>>

Away == -1

QuotaInit ==
    /\ count = 0 /\ date = 2
    /\ call = [c \in Callers |-> Away]
    /\ granted = 0 /\ straddled = 0

\* today_str, before the lock.
ReadDate(c) ==
    /\ call[c] = Away
    /\ call' = [call EXCEPT ![c] = 0]
    /\ UNCHANGED <<count, date, granted, straddled>>

SameDay(c) == date = call[c]

\* Mutation: one too many.
AllowedPlusOne(c) == ~SameDay(c) \/ count <= MaxDailyPosts

\* The counter of another day is not looked at.
Allowed(c) == ~SameDay(c) \/ count < MaxDailyPosts

\* Mutation: the first publication of a day does not look at the suspension.
GrantFirst(c) ==
    /\ call[c] # Away
    /\ suspended => ~SameDay(c)
    /\ Allowed(c)
    /\ count' = IF SameDay(c) THEN count + 1 ELSE 1
    /\ date' = call[c]
    /\ granted' = granted + 1
    /\ straddled' = IF call[c] = 1 THEN straddled + 1 ELSE straddled
    /\ call' = [call EXCEPT ![c] = Away]

\* Mutation: the date is not written with the counter.
GrantKeepsDate(c) ==
    /\ call[c] # Away
    /\ ~suspended /\ Allowed(c)
    /\ count' = IF SameDay(c) THEN count + 1 ELSE 1
    /\ date' = date
    /\ granted' = granted + 1
    /\ straddled' = IF call[c] = 1 THEN straddled + 1 ELSE straddled
    /\ call' = [call EXCEPT ![c] = Away]

\* Inside BEGIN EXCLUSIVE ... COMMIT.
Grant(c) ==
    /\ call[c] # Away
    /\ ~suspended /\ Allowed(c)
    /\ count' = IF SameDay(c) THEN count + 1 ELSE 1
    /\ date' = call[c]
    /\ granted' = granted + 1
    /\ straddled' = IF call[c] = 1 THEN straddled + 1 ELSE straddled
    /\ call' = [call EXCEPT ![c] = Away]

Refuse(c) ==
    /\ call[c] # Away
    /\ suspended \/ ~Allowed(c)
    /\ call' = [call EXCEPT ![c] = Away]
    /\ UNCHANGED <<count, date, granted, straddled>>

\* The lock is not obtained in time, or the process dies.
GiveUp(c) ==
    /\ call[c] # Away
    /\ call' = [call EXCEPT ![c] = Away]
    /\ UNCHANGED <<count, date, granted, straddled>>

\* A call lasts seconds: it passes one midnight at most.
Midnight ==
    /\ \A c \in Callers : call[c] # 1
    /\ call' = [c \in Callers |-> IF call[c] = 0 THEN 1 ELSE Away]
    /\ date' = IF date = 2 THEN 2 ELSE date + 1
    /\ granted' = 0 /\ straddled' = 0
    /\ UNCHANGED count

QuotaStep == \E c \in Callers : ReadDate(c) \/ Grant(c) \/ Refuse(c) \/ GiveUp(c)

\* Whoever writes the suspension.
Suspension == suspended' \in BOOLEAN /\ UNCHANGED quotaVars

QuotaNext ==
    \/ (QuotaStep \/ Midnight) /\ UNCHANGED suspended
    \/ Suspension

QuotaSpec ==
    QuotaInit /\ suspended \in BOOLEAN /\ [][QuotaNext]_<<suspended, quotaVars>>

-----------------------------------------------------------------------------
\* Types; the counter of the row never passes the limit.
QuotaTypeOK ==
    /\ count \in 0..MaxDailyPosts
    /\ date \in 0..2
    /\ call \in [Callers -> {Away, 0, 1}]
    /\ granted \in Nat /\ straddled \in Nat

\* [SC-2] At most max_daily_posts publications in a day, whoever asks, except
\* that a call that passed midnight takes the counter back to yesterday: it is
\* granted on top, and the day starts again.
QuotaBound == granted <= MaxDailyPosts + straddled * (MaxDailyPosts + 1)
=============================================================================
