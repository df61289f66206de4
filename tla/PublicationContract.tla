------------------------- MODULE PublicationContract -------------------------
(***************************************************************************)
(* What the approval workflow promises the admins, without a word about    *)
(* coroutines, snapshots or restarts.  A post is proposed, then an admin   *)
(* accepts it or refuses it, or nobody answers in time, which is a refusal *)
(* too.  A verdict is final, and copies appear on a platform only after    *)
(* the post was accepted.                                                  *)
(***************************************************************************)
EXTENDS Naturals

CONSTANTS Posts, Platforms

VARIABLES
    verdict,   \* "absent", "open", "accepted" or "refused"
    copies     \* copies of each post on each platform

vars == <<verdict, copies>>

Init ==
    /\ verdict = [p \in Posts |-> "absent"]
    /\ copies  = [p \in Posts |-> [f \in Platforms |-> 0]]

Decide(p, from, to) ==
    /\ verdict[p] = from
    /\ verdict' = [verdict EXCEPT ![p] = to]
    /\ UNCHANGED copies

Propose(p) == Decide(p, "absent", "open")
Accept(p)  == Decide(p, "open", "accepted")

\* One admin refuses one post; a timeout closes any set of open ones.
Refuse(S) ==
    /\ S # {} /\ \A p \in S : verdict[p] = "open"
    /\ verdict' = [p \in Posts |-> IF p \in S THEN "refused" ELSE verdict[p]]
    /\ UNCHANGED copies

Copy(p, f) ==
    /\ verdict[p] = "accepted"
    /\ copies' = [copies EXCEPT ![p][f] = @ + 1]
    /\ UNCHANGED verdict

Next ==
    \/ \E p \in Posts : Propose(p) \/ Accept(p) \/ \E f \in Platforms : Copy(p, f)
    \/ \E S \in SUBSET Posts : Refuse(S)

Spec == Init /\ [][Next]_vars
=============================================================================
