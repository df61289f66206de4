------------------------ MODULE MediaContainer_proofs ------------------------
(* A call of a publisher is one call of PlatformCall, for every kind of     *)
(* publisher, any containers and any faults.                                *)
EXTENDS MediaContainer, FiniteSetTheorems, TLAPS

\* A call that still has a wait or a publication before it has published
\* nothing yet; a call that will return an identifier has published its
\* container.
CallInv ==
    /\ TypeOK
    /\ pc \in {"idle", "check", "wait_old", "create"} => cid = None
    /\ pc \in {"save", "wait", "publish"} => meta[cid] # "PUBLISHED"
    /\ ok => pc = "end" /\ cid # None /\ meta[cid] = "PUBLISHED"

\* The bounded counters.
Bounds == polls \in 0..MaxWait - 1 /\ crashes \in 0..MaxCrashes /\ lost \in 0..MaxLost

LEMMA InitCall == Init => CallInv
<1> SUFFICES ASSUME Init PROVE CallInv
  OBVIOUS
<1>1. recorded \in BOOLEAN /\ ok \in BOOLEAN
  BY DEF Init
<1>2. Bounds
  BY ContainerAssumption DEF Init, Bounds
<1>3. meta \in [Containers -> MetaStates] /\ pc \in Steps
  BY DEF Init, MetaStates, Steps
<1>4. TypeOK
  BY <1>1, <1>2, <1>3 DEF Init, TypeOK, Bounds
<1> QED
  BY <1>4 DEF Init, CallInv

LEMMA PublishedFinite == IsFiniteSet(Published)
  BY ContainerAssumption, FS_Subset DEF Published

\* A container that is not published and becomes so is one more copy.
LEMMA OneMore ==
  ASSUME TypeOK, NEW c \in Containers, meta[c] # "PUBLISHED",
         meta' = [meta EXCEPT ![c] = "PUBLISHED"]
  PROVE  Cardinality(Published)' = Cardinality(Published) + 1
<1>1. Published' = Published \cup {c}
  BY DEF TypeOK, Published
<1>2. c \notin Published
  BY DEF Published
<1> QED
  BY <1>1, <1>2, PublishedFinite, FS_AddElement

\* The steps of the code and of Meta keep the invariant.
LEMMA StepCall == CallInv /\ [Next]_vars => CallInv'
<1> SUFFICES ASSUME CallInv, [Next]_vars PROVE CallInv'
  OBVIOUS
<1> USE ContainerAssumption DEF CallInv, TypeOK, Goto
<1>1. CASE Start
  BY <1>1 DEF Start, rowVars, Steps
<1>2. CASE CallFails
  BY <1>2 DEF CallFails, rowVars, Steps
<1>3. CASE Check
  BY <1>3 DEF Check, Take, Renew, Steps
<1>4. CASE PollOld
  BY <1>4 DEF PollOld, Take, Renew, Steps
<1>5. CASE Create
  BY <1>5 DEF Create, rowVars, Steps, MetaStates
<1>6. CASE Save
  BY <1>6 DEF Save, Steps
<1>7. CASE Poll
  BY <1>7 DEF Poll, rowVars, Steps
<1>8. CASE Publish
  <2>1. recorded' \in BOOLEAN /\ ok' \in BOOLEAN
    BY <1>8 DEF Publish, rowVars
  <2>2. Bounds'
    BY <1>8 DEF Publish, Bounds
  <2>3. meta' \in [Containers -> MetaStates] /\ pc' \in Steps
    BY <1>8 DEF Publish, MetaStates, Steps
  <2>4. TypeOK'
    BY <1>8, <2>1, <2>2, <2>3 DEF Publish, Bounds, rowVars
  <2> QED
    BY <1>8, <2>4 DEF Publish
<1>9. CASE Finish
  <2>1. recorded' \in BOOLEAN /\ ok' \in BOOLEAN
    BY <1>9 DEF Finish, rowVars
  <2>2. Bounds'
    BY <1>9 DEF Finish, Bounds
  <2>3. meta' \in [Containers -> MetaStates] /\ pc' \in Steps
    BY <1>9 DEF Finish, MetaStates, Steps
  <2>4. TypeOK'
    BY <1>9, <2>1, <2>2, <2>3 DEF Finish, Bounds, rowVars
  <2> QED
    BY <1>9, <2>4 DEF Finish
<1>10. CASE Crash
  <2>1. recorded' \in BOOLEAN /\ ok' \in BOOLEAN
    BY <1>10 DEF Crash, rowVars
  <2>2. Bounds'
    BY <1>10 DEF Crash, Bounds
  <2>3. meta' \in [Containers -> MetaStates] /\ pc' \in Steps
    BY <1>10 DEF Crash, MetaStates, Steps
  <2>4. TypeOK'
    BY <1>10, <2>1, <2>2, <2>3 DEF Crash, Bounds, rowVars
  <2> QED
    BY <1>10, <2>4 DEF Crash
<1>11. ASSUME NEW c \in Containers, Process(c) PROVE CallInv'
  BY <1>11 DEF Process, rowVars, callVars, MetaStates
<1>12. CASE UNCHANGED vars
  BY <1>12 DEF vars, rowVars, callVars
<1> QED
  BY <1>1, <1>2, <1>3, <1>4, <1>5, <1>6, <1>7, <1>8, <1>9, <1>10, <1>11, <1>12
  DEF Next, Call

\* Each step is a step of PlatformCall or leaves its variables alone.
LEMMA StepContract == CallInv /\ [Next]_vars => [Contract!Next]_(Contract!vars)
<1> SUFFICES ASSUME CallInv, [Next]_vars PROVE [Contract!Next]_(Contract!vars)
  OBVIOUS
<1> DEFINE Same == UNCHANGED <<Phase, Published, recorded>>
<1>0. Same => [Contract!Next]_(Contract!vars)
  BY DEF Contract!vars
<1> HIDE DEF Same
<1> USE DEF CallInv, TypeOK, Goto
<1>1. CASE Start
  <2>1. Phase = "idle" /\ Phase' = "calling" /\ UNCHANGED <<Published, recorded>>
    BY <1>1 DEF Start, rowVars, Phase, Published
  <2> QED
    BY <2>1 DEF Contract!Next, Contract!Begin
<1>2. CASE CallFails
  <2>1. Same
    BY <1>2, ContainerAssumption DEF Same, CallFails, rowVars, Phase, Published
  <2> QED
    BY <2>1, <1>0
<1>3. CASE Check
  <2>1. Same
    BY <1>3, ContainerAssumption DEF Same, Check, Take, Renew, Phase, Published
  <2> QED
    BY <2>1, <1>0
<1>4. CASE PollOld
  <2>1. Same
    BY <1>4, ContainerAssumption DEF Same, PollOld, Take, Renew, Phase, Published
  <2> QED
    BY <2>1, <1>0
<1>5. CASE Create
  <2>1. Same
    BY <1>5, ContainerAssumption DEF Same, Create, rowVars, Phase, Published
  <2> QED
    BY <2>1, <1>0
<1>6. CASE Save
  <2>1. Same
    BY <1>6 DEF Same, Save, Phase, Published
  <2> QED
    BY <2>1, <1>0
<1>7. CASE Poll
  <2>1. Same
    BY <1>7 DEF Same, Poll, rowVars, Phase, Published
  <2> QED
    BY <2>1, <1>0
<1>8. CASE Publish
  <2>1. Cardinality(Published)' = Cardinality(Published) + 1
    BY <1>8, OneMore DEF Publish
  <2>2. Phase = "calling" /\ Phase' = "sent" /\ UNCHANGED recorded
    BY <1>8, ContainerAssumption DEF Publish, Phase, rowVars
  <2> QED
    BY <2>1, <2>2 DEF Contract!Next, Contract!Send
<1>9. CASE Finish
  <2>1. UNCHANGED Published /\ Phase' = "idle"
    BY <1>9 DEF Finish, Published, Phase
  <2>2. CASE ok
    <3>1. Phase = "sent" /\ recorded' = TRUE
      BY <1>9, <2>2 DEF Finish, Phase
    <3> QED
      BY <2>1, <3>1 DEF Contract!Next, Contract!Record
  <2>3. CASE ~ok
    <3>1. Phase # "idle" /\ UNCHANGED recorded
      BY <1>9, <2>3 DEF Finish, Phase
    <3> QED
      BY <2>1, <3>1 DEF Contract!Next, Contract!Fail
  <2> QED
    BY <2>2, <2>3
<1>10. CASE Crash
  <2>1. UNCHANGED <<Published, recorded>> /\ Phase' = "idle" /\ Phase # "idle"
    BY <1>10 DEF Crash, Published, Phase, rowVars
  <2> QED
    BY <2>1 DEF Contract!Next, Contract!Fail
<1>11. ASSUME NEW c \in Containers, Process(c) PROVE [Contract!Next]_(Contract!vars)
  <2>1. Same
    BY <1>11, ContainerAssumption DEF Same, Process, rowVars, callVars, Phase, Published
  <2> QED
    BY <2>1, <1>0
<1>12. CASE UNCHANGED vars
  <2>1. Same
    BY <1>12 DEF Same, vars, rowVars, callVars, Phase, Published
  <2> QED
    BY <2>1, <1>0
<1> QED
  BY <1>1, <1>2, <1>3, <1>4, <1>5, <1>6, <1>7, <1>8, <1>9, <1>10, <1>11, <1>12
  DEF Next, Call

\* Taking up, renewing or creating containers, with crashes and lost answers:
\* a call puts one copy on the platform at most, and what is recorded is there.
THEOREM CallHonoured == Spec => OneCopyPerCall
<1>1. Init => CallInv
  BY InitCall
<1>2. CallInv /\ [Next]_vars => CallInv'
  BY StepCall
<1>3. Init => Contract!Init
  <2> SUFFICES ASSUME Init PROVE Contract!Init
    OBVIOUS
  <2>1. Published = {}
    BY DEF Init, Published
  <2> QED
    BY <2>1, FS_EmptySet DEF Init, Contract!Init, Phase
<1>4. CallInv /\ [Next]_vars => [Contract!Next]_(Contract!vars)
  BY StepContract
<1> QED
  BY <1>1, <1>2, <1>3, <1>4, PTL DEF Spec, OneCopyPerCall, Contract!Spec

\* [IG-3.4] as an invariant of any instance: a container is in the row before
\* Instagram waits for it.
THEOREM PersistedBeforeUse == Spec => []PersistedFirst
<1> DEFINE Inv == CallInv /\ PersistedFirst
<1>1. Init => Inv
  BY InitCall DEF Init, PersistedFirst
<1>2. Inv /\ [Next]_vars => Inv'
  <2> SUFFICES ASSUME Inv, [Next]_vars PROVE PersistedFirst'
    BY StepCall
  <2> USE DEF PersistedFirst, Goto
  <2>1. CASE Call
    BY <2>1 DEF Call, CallInv, TypeOK, CallFails, Check, PollOld, Create, Save, Poll,
                Publish, Finish, Take, Renew, rowVars
  <2>2. CASE Start
    BY <2>2 DEF Start, rowVars
  <2>3. CASE Crash
    BY <2>3 DEF Crash, rowVars
  <2>4. ASSUME NEW c \in Containers, Process(c) PROVE PersistedFirst'
    BY <2>4 DEF Process, rowVars, callVars
  <2>5. CASE UNCHANGED vars
    BY <2>5 DEF vars, rowVars, callVars
  <2> QED
    BY <2>1, <2>2, <2>3, <2>4, <2>5 DEF Next
<1> QED
  BY <1>1, <1>2, PTL DEF Spec

\* Every variable keeps its shape, and a call that polls or publishes has a
\* container in hand.
THEOREM CallTypes == Spec => []TypeOK
<1>1. CallInv => TypeOK
  BY DEF CallInv
<1> QED
  BY <1>1, InitCall, StepCall, PTL DEF Spec

-----------------------------------------------------------------------------
\* Instagram is not called again once its id is in the row, and a copy whose id
\* is neither there nor about to be was paid for.
CopiesInv ==
    /\ CallInv
    /\ kind = "instagram" =>
          /\ pc # "idle" => ~recorded
          /\ Cardinality(Published) <= crashes + lost + (IF recorded \/ ok THEN 1 ELSE 0)

LEMMA CopiesKeep == CopiesInv /\ [Next]_vars => CopiesInv'
<1> SUFFICES ASSUME CopiesInv, [Next]_vars PROVE CopiesInv'
  OBVIOUS
<1>0. CallInv'
  BY StepCall DEF CopiesInv
<1>k. UNCHANGED kind
  BY DEF Next, Call, Start, CallFails, Check, PollOld, Create, Save, Poll, Publish, Finish,
         Crash, Process, vars
<1> SUFFICES ASSUME kind = "instagram"
             PROVE  /\ pc' # "idle" => ~recorded'
                    /\ Cardinality(Published') <= crashes' + lost' +
                          (IF recorded' \/ ok' THEN 1 ELSE 0)
  BY <1>0, <1>k DEF CopiesInv
<1>n. /\ Cardinality(Published) \in Nat /\ crashes \in Nat /\ lost \in Nat
      /\ recorded \in BOOLEAN /\ ok \in BOOLEAN
  BY PublishedFinite, FS_CardinalityType, ContainerAssumption DEF CopiesInv, CallInv, TypeOK
\* Nothing that counts changes, or a call begins.
<1>1. ASSUME UNCHANGED <<Published, crashes, lost, recorded, ok>>, pc' # "idle" => ~recorded
      PROVE  /\ pc' # "idle" => ~recorded'
             /\ Cardinality(Published') <= crashes' + lost' +
                   (IF recorded' \/ ok' THEN 1 ELSE 0)
  BY <1>1 DEF CopiesInv
<1> USE DEF Goto, rowVars
<1>2. CASE Start
  BY <1>0, <1>1, <1>2 DEF Start, Published
<1>3. CASE CallFails \/ Check \/ PollOld \/ Save \/ Poll
  <2>1. pc # "idle" /\ UNCHANGED <<Published, crashes, lost, recorded, ok>>
    BY <1>3 DEF CallFails, Check, Take, Renew, PollOld, Save, Poll, Published
  <2> QED
    BY <1>0, <1>1, <2>1 DEF CopiesInv
<1>4. CASE Create
  <2>1. PICK c \in Containers : /\ meta[c] = "unborn"
                               /\ meta' = [meta EXCEPT ![c] = "IN_PROGRESS"]
    BY <1>4 DEF Create
  <2>2. Published' = Published
    BY <2>1 DEF Published, CopiesInv, CallInv, TypeOK
  <2>3. pc # "idle" /\ UNCHANGED <<crashes, lost, recorded, ok>>
    BY <1>4 DEF Create
  <2> QED
    BY <1>0, <1>1, <2>2, <2>3 DEF CopiesInv
<1>5. CASE Publish
  <2>1. Cardinality(Published)' = Cardinality(Published) + 1
    BY <1>5, OneMore DEF Publish, CopiesInv, CallInv, TypeOK
  <2>2. ~ok /\ ~recorded /\ UNCHANGED <<crashes, recorded>>
    BY <1>5 DEF Publish, CopiesInv, CallInv
  <2>3. (ok' /\ lost' = lost) \/ (lost' = lost + 1 /\ ~ok')
    BY <1>5, <2>2 DEF Publish
  <2> QED
    BY <1>0, <1>n, <2>1, <2>2, <2>3 DEF CopiesInv
<1>6. CASE Finish
  <2>1. UNCHANGED <<Published, crashes, lost>> /\ pc' = "idle"
    BY <1>6 DEF Finish, Published
  <2>2. recorded' = (recorded \/ ok)
    BY <1>6, Zenon DEF Finish
  <2>3. recorded \/ ok => recorded'
    BY <2>2, Zenon
  <2>4. Cardinality(Published) <= crashes + lost + (IF recorded \/ ok THEN 1 ELSE 0)
    BY DEF CopiesInv
  <2>5. CASE recorded \/ ok
    BY <1>0, <2>1, <2>3, <2>4, <2>5
  <2>6. CASE ~(recorded \/ ok)
    BY <1>0, <1>n, <2>1, <2>4, <2>6
  <2> QED
    BY <2>5, <2>6
<1>7. CASE Crash
  <2>1. UNCHANGED <<Published, lost, recorded>> /\ pc' = "idle" /\ crashes' = crashes + 1
    BY <1>7 DEF Crash, Published
  <2> QED
    BY <1>0, <1>n, <2>1 DEF CopiesInv
<1>8. ASSUME NEW c \in Containers, Process(c)
      PROVE  /\ pc' # "idle" => ~recorded'
             /\ Cardinality(Published') <= crashes' + lost' +
                   (IF recorded' \/ ok' THEN 1 ELSE 0)
  <2>1. Published' = Published /\ UNCHANGED <<pc, crashes, lost, recorded, ok>>
    BY <1>8 DEF Process, Published, callVars, CopiesInv, CallInv, TypeOK
  <2> QED
    BY <1>1, <2>1 DEF CopiesInv
<1>9. CASE UNCHANGED vars
  BY <1>0, <1>1, <1>9 DEF vars, callVars, Published, CopiesInv
<1> QED
  BY <1>0, <1>2, <1>3, <1>4, <1>5, <1>6, <1>7, <1>8, <1>9 DEF Next, Call

\* However often Instagram is called for a post, each extra copy was paid for by
\* a crash or a lost answer, for any containers and any number of faults.
THEOREM CopiesArePaidFor == Spec => []CopiesAreFaults
<1>1. Init => CopiesInv
  <2> SUFFICES ASSUME Init PROVE CopiesInv
    OBVIOUS
  <2>1. Published = {}
    BY DEF Init, Published
  <2>2. Cardinality(Published) = 0
    BY <2>1, FS_EmptySet
  <2> QED
    BY <2>2, InitCall DEF Init, CopiesInv
<1>2. CopiesInv => CopiesAreFaults
  <2> SUFFICES ASSUME CopiesInv, kind = "instagram"
               PROVE  Cardinality(Published) <= 1 + crashes + lost
    BY DEF CopiesAreFaults
  <2>1. Cardinality(Published) \in Nat /\ crashes \in Nat /\ lost \in Nat
    BY PublishedFinite, FS_CardinalityType, ContainerAssumption DEF CopiesInv, CallInv, TypeOK
  <2> QED
    BY <2>1 DEF CopiesInv
<1> QED
  BY <1>1, <1>2, CopiesKeep, PTL DEF Spec
=============================================================================
