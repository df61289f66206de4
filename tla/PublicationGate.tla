--------------------------- MODULE PublicationGate ---------------------------
(***************************************************************************)
(* What lets a post go out: the daily counter, behind the suspension that  *)
(* JOB-5 writes and `auth meta` lifts.                                     *)
(***************************************************************************)
EXTENDS TokenWatch, DailyQuota

vars == <<tokenVars, quotaVars>>

Init == TokenInit /\ QuotaInit

Next ==
    \/ TokenStep /\ UNCHANGED quotaVars
    \/ QuotaStep /\ UNCHANGED tokenVars
    \/ Tick /\ UNCHANGED quotaVars
    \/ Midnight /\ UNCHANGED tokenVars

Spec == Init /\ [][Next]_vars

-----------------------------------------------------------------------------
TypeOK == TokenTypeOK /\ QuotaTypeOK

\* [SC-2] The counter never lets a post go out with a token that JOB-5 has seen
\* expired, on the first publication of a day either.
NoGrantOnDeadToken ==
    [][granted' > granted => ~(left = 0 /\ checked /\ missed <= 4)]_vars
=============================================================================
