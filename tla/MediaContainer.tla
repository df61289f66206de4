--------------------------- MODULE MediaContainer ---------------------------
(***************************************************************************)
(* One post against the container protocol of Meta: create a container,    *)
(* poll it until it is FINISHED, publish it.  Instagram keeps the          *)
(* container of a failed call in the row (ig_container_id) and takes it up *)
(* again; a Reel writes reel_container_id on a post of another session;    *)
(* Threads keeps nothing.                                                  *)
(*                                                                         *)
(* Calls for a post follow one another (OnePublisher of PostLifecycle), so *)
(* a single call is under way at a time.                                   *)
(***************************************************************************)
EXTENDS Naturals, FiniteSets

CONSTANTS
    Kinds,        \* publishers considered: a subset of {"instagram", "reel", "threads"}
    Containers,   \* containers that Meta can create (bound)
    None,         \* no container
    MaxWait,      \* polls of one wait (max_wait)
    MaxCrashes,   \* bound on the crashes of the process
    MaxLost       \* bound on the publications whose answer is lost

MetaStates == {"unborn", "IN_PROGRESS", "FINISHED", "ERROR", "EXPIRED", "PUBLISHED"}
Steps == {"idle", "check", "wait_old", "create", "save", "wait", "publish", "end"}

ASSUME ContainerAssumption ==
    /\ Kinds \subseteq {"instagram", "reel", "threads"} /\ Kinds # {}
    /\ IsFiniteSet(Containers) /\ None \notin Containers
    /\ MaxWait \in Nat \ {0} /\ MaxCrashes \in Nat /\ MaxLost \in Nat

VARIABLES
    kind,      \* the publisher
    meta,      \* status_code of each container
    stored,    \* the container id of the row, as committed
    memory,    \* the container id in the session of publish_to_all_platforms
    recorded,  \* the *_post_id of the row is set
    pc, cid,   \* the call under way and the container it works on
    polls,     \* polls done in the current wait
    ok,        \* the call will return an identifier
    crashes, lost

rowVars  == <<stored, recorded>>
callVars == <<memory, pc, cid, polls, ok>>
vars     == <<kind, meta, rowVars, callVars, crashes, lost>>

Init ==
    /\ kind \in Kinds
    /\ meta = [c \in Containers |-> "unborn"]
    /\ stored = None /\ memory = None /\ recorded = FALSE
    /\ pc = "idle" /\ cid = None /\ polls = 0 /\ ok = FALSE
    /\ crashes = 0 /\ lost = 0

Published == {c \in Containers : meta[c] = "PUBLISHED"}
Goto(s) == pc' = s /\ UNCHANGED <<memory, cid, polls, ok>>

-----------------------------------------------------------------------------
\* A call of publish().  Instagram is never called again once its id is known;
\* /retry calls Reels and Threads whatever the row says.
Start ==
    /\ pc = "idle"
    /\ kind = "instagram" => ~recorded
    /\ Goto(IF kind = "instagram" /\ stored # None THEN "check" ELSE "create")
    /\ UNCHANGED <<kind, meta, rowVars, crashes, lost>>

\* An API error or a network error is an exception, except that waiting for the
\* old container turns an API error into a new container (Renew).
CallFails ==
    /\ pc \in {"check", "wait_old", "create", "wait", "publish"}
    /\ Goto("end")
    /\ UNCHANGED <<kind, meta, rowVars, crashes, lost>>

\* The container of the row is taken up, as if it had just been created.
Take ==
    /\ pc' = "wait" /\ cid' = stored /\ polls' = 0
    /\ UNCHANGED <<memory, ok, stored>>

\* Mutation: the container is forgotten and the wait goes on.
RenewKeepsWaiting ==
    /\ pc' = pc /\ stored' = None /\ polls' = 0
    /\ UNCHANGED <<memory, cid, ok>>

\* The container of the row is forgotten.
Renew ==
    /\ pc' = "create" /\ stored' = None /\ polls' = 0
    /\ UNCHANGED <<memory, cid, ok>>

\* _get_or_create_container looks at the stored container.  Any other answer
\* leaves it in the row and creates a new one.
Check ==
    /\ pc = "check"
    /\ \/ meta[stored] = "FINISHED" /\ Take
       \/ meta[stored] = "IN_PROGRESS" /\ Goto("wait_old") /\ UNCHANGED stored
       \/ meta[stored] \in {"ERROR", "EXPIRED"} /\ Renew
       \/ /\ meta[stored] \notin {"FINISHED", "IN_PROGRESS", "ERROR", "EXPIRED"}
          /\ Goto("create") /\ UNCHANGED stored
    /\ UNCHANGED <<kind, meta, recorded, crashes, lost>>

PollOld ==
    /\ pc = "wait_old"
    /\ \/ meta[stored] = "FINISHED" /\ Take
       \/ Renew
       \/ /\ meta[stored] = "IN_PROGRESS" /\ polls + 1 < MaxWait
          /\ polls' = polls + 1
          /\ UNCHANGED <<pc, cid, memory, ok, stored>>
    /\ UNCHANGED <<kind, meta, recorded, crashes, lost>>

\* POST /media; the answer may be lost.
Create ==
    /\ pc = "create"
    /\ \E c \in Containers :
         /\ meta[c] = "unborn"
         /\ meta' = [meta EXCEPT ![c] = "IN_PROGRESS"]
         /\ \/ /\ pc' = "save" /\ cid' = c
               /\ UNCHANGED <<memory, polls, ok>>
            \/ Goto("end")
    /\ UNCHANGED <<kind, rowVars, crashes, lost>>

\* Mutation: the creation id is not committed.
SaveLater ==
    /\ pc = "save"
    /\ pc' = "wait" /\ polls' = 0
    /\ memory' = cid
    /\ UNCHANGED <<kind, meta, stored, recorded, cid, ok, crashes, lost>>

\* Instagram commits the id on its own copy of the row.  The Reel sets it on
\* the caller's post and commits its own, empty, session.
Save ==
    /\ pc = "save"
    /\ pc' = "wait" /\ polls' = 0
    /\ stored' = IF kind = "instagram" THEN cid ELSE stored
    /\ memory' = IF kind = "reel" THEN cid ELSE memory
    /\ UNCHANGED <<kind, meta, recorded, cid, ok, crashes, lost>>

\* Mutation: a wait that times out starts again.
PollRestarts ==
    /\ pc = "wait"
    /\ \/ meta[cid] = "FINISHED" /\ pc' = "publish" /\ UNCHANGED polls
       \/ meta[cid] \in {"ERROR", "EXPIRED"} /\ pc' = "end" /\ UNCHANGED polls
       \/ /\ meta[cid] \notin {"FINISHED", "ERROR", "EXPIRED"}
          /\ polls' = IF polls + 1 < MaxWait THEN polls + 1 ELSE 0
          /\ UNCHANGED pc
    /\ UNCHANGED <<kind, meta, rowVars, memory, cid, ok, crashes, lost>>

\* _wait_for_container_ready.
Poll ==
    /\ pc = "wait"
    /\ \/ meta[cid] = "FINISHED" /\ pc' = "publish" /\ UNCHANGED polls
       \/ meta[cid] \in {"ERROR", "EXPIRED"} /\ pc' = "end" /\ UNCHANGED polls
       \/ /\ meta[cid] \notin {"FINISHED", "ERROR", "EXPIRED"}
          /\ IF polls + 1 < MaxWait
               THEN polls' = polls + 1 /\ UNCHANGED pc
               ELSE pc' = "end" /\ UNCHANGED polls
    /\ UNCHANGED <<kind, meta, rowVars, memory, cid, ok, crashes, lost>>

\* Mutation: a lost answer is tried again at once.
PublishAgain ==
    /\ pc = "publish" /\ meta[cid] = "FINISHED"
    /\ meta' = [meta EXCEPT ![cid] = "PUBLISHED"]
    /\ \/ /\ pc' = "end" /\ ok' = TRUE
          /\ UNCHANGED <<cid, lost>>
       \/ /\ lost < MaxLost /\ lost' = lost + 1
          /\ pc' = "create" /\ cid' = None
          /\ UNCHANGED ok
    /\ UNCHANGED <<kind, rowVars, memory, polls, crashes>>

\* media_publish; the answer may be lost.
Publish ==
    /\ pc = "publish" /\ meta[cid] = "FINISHED"
    /\ meta' = [meta EXCEPT ![cid] = "PUBLISHED"]
    /\ \/ /\ ok' = TRUE
          /\ UNCHANGED lost
       \/ /\ lost < MaxLost /\ lost' = lost + 1
          /\ UNCHANGED ok
    /\ pc' = "end"
    /\ UNCHANGED <<kind, rowVars, memory, cid, polls, crashes>>

\* Mutation: the identifier of a successful call is not written.
FinishForgets ==
    /\ pc = "end"
    /\ pc' = "idle" /\ cid' = None /\ polls' = 0 /\ ok' = FALSE /\ memory' = None
    /\ recorded' = recorded
    /\ stored' = IF memory = None THEN stored ELSE memory
    /\ UNCHANGED <<kind, meta, crashes, lost>>

\* publish_to_all_platforms writes the outcome; only this commit flushes what
\* the Reel set on the post.
Finish ==
    /\ pc = "end"
    /\ pc' = "idle" /\ cid' = None /\ polls' = 0 /\ ok' = FALSE /\ memory' = None
    /\ recorded' = (recorded \/ ok)
    /\ stored' = IF memory = None THEN stored ELSE memory
    /\ UNCHANGED <<kind, meta, crashes, lost>>

Crash ==
    /\ pc # "idle" /\ crashes < MaxCrashes
    /\ crashes' = crashes + 1
    /\ pc' = "idle" /\ cid' = None /\ polls' = 0 /\ ok' = FALSE /\ memory' = None
    /\ UNCHANGED <<kind, meta, rowVars, lost>>

\* Meta: a container is processed, fails, or expires after 24 hours.
Process(c) ==
    /\ \/ meta[c] = "IN_PROGRESS" /\ meta' \in {[meta EXCEPT ![c] = s] : s \in {"FINISHED", "ERROR"}}
       \/ meta[c] \in {"IN_PROGRESS", "FINISHED"} /\ meta' = [meta EXCEPT ![c] = "EXPIRED"]
    /\ UNCHANGED <<kind, rowVars, callVars, crashes, lost>>

\* The publisher's own steps.
Call == CallFails \/ Check \/ PollOld \/ Create \/ Save \/ Poll \/ Publish \/ Finish

Next == Start \/ Call \/ Crash \/ \E c \in Containers : Process(c)

Spec == Init /\ [][Next]_vars

\* Each HTTP call answers or times out, each commit ends.
FairSpec == Spec /\ WF_vars(Call)

-----------------------------------------------------------------------------
\* Types; a call that polls or publishes has a container in hand.
TypeOK ==
    /\ kind \in Kinds /\ meta \in [Containers -> MetaStates]
    /\ stored \in Containers \cup {None} /\ memory \in Containers \cup {None}
    /\ recorded \in BOOLEAN /\ ok \in BOOLEAN
    /\ pc \in Steps /\ cid \in Containers \cup {None} /\ polls \in 0..MaxWait - 1
    /\ pc \in {"save", "wait", "publish"} => cid \in Containers
    /\ pc \in {"check", "wait_old"} => stored \in Containers
    /\ crashes \in 0..MaxCrashes /\ lost \in 0..MaxLost

\* [IG-3.4] Instagram never waits for or publishes a container that a restart
\* would not find in the row.
PersistedFirst ==
    kind = "instagram" /\ pc \in {"wait", "publish"} => stored = cid

\* However often the call is repeated, each extra copy on Instagram was paid for
\* by a crash or a lost answer.
CopiesAreFaults ==
    kind = "instagram" => Cardinality(Published) <= 1 + crashes + lost

\* Where the call is, seen from PostLifecycle.
Phase ==
    IF pc = "idle" THEN "idle"
    ELSE IF cid # None /\ meta[cid] = "PUBLISHED" THEN "sent" ELSE "calling"

Contract == INSTANCE PlatformCall WITH phase <- Phase, copies <- Cardinality(Published)

\* Whatever container a call takes up, renews or creates, it is one call of
\* PostLifecycle: one copy at most, and an identifier only for a real copy.
OneCopyPerCall == Contract!Spec

\* A call ends: no wait is endless, however long Meta takes.
CallEnds == (pc # "idle") ~> (pc = "idle")
=============================================================================
