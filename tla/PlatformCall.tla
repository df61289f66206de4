---------------------------- MODULE PlatformCall ----------------------------
(***************************************************************************)
(* What PostLifecycle takes one call of a publisher to be: it puts one     *)
(* copy of the post on the platform at most, and the identifier it returns *)
(* stands for that copy.  An interrupted or failed call may have left its  *)
(* copy behind.                                                            *)
(***************************************************************************)
EXTENDS Naturals

VARIABLES
    phase,     \* "idle", "calling" or "sent"
    copies,    \* copies on the platform
    recorded   \* an identifier is stored in the row

vars == <<phase, copies, recorded>>

Init == phase = "idle" /\ copies = 0 /\ recorded = FALSE

Begin ==
    /\ phase = "idle" /\ phase' = "calling"
    /\ UNCHANGED <<copies, recorded>>

Send ==
    /\ phase = "calling" /\ phase' = "sent"
    /\ copies' = copies + 1
    /\ UNCHANGED recorded

Record ==
    /\ phase = "sent" /\ phase' = "idle"
    /\ recorded' = TRUE
    /\ UNCHANGED copies

\* An exception, a lost answer or a crash.
Fail ==
    /\ phase # "idle" /\ phase' = "idle"
    /\ UNCHANGED <<copies, recorded>>

Next == Begin \/ Send \/ Record \/ Fail

Spec == Init /\ [][Next]_vars
=============================================================================
