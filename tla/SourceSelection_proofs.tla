----------------------- MODULE SourceSelection_proofs -----------------------
(***************************************************************************)
(* How many posts of a source are stored once the policy no longer allows  *)
(* it, for any sources, windows, limits and configuration.                 *)
(***************************************************************************)
EXTENDS SourceSelection, TLAPS, FiniteSetTheorems

GenStates == {Idle} \cup [at : {"reading"}, p : Params]
                    \cup [at : {"making"}, source : Sources]

LEMMA ParamsAreParams ==
    ASSUME config \in Params, NEW l
    PROVE  get_effective_query_params(l) \in Params
<1>1. ASSUME NEW p \in Params, NEW limit \in 0..MaxRest
      PROVE  Relax(p, limit) \in Params
  BY <1>1 DEF Relax, Params
<1> QED BY <1>1, SelectionAssumption DEF get_effective_query_params

-----------------------------------------------------------------------------
(* Types.                                                                  *)

LEMMA TypeStart == Init => TypeOK
  BY SelectionAssumption DEF Init, TypeOK, Sources, Dated, MaxLevel

LEMMA CountType ==
    ASSUME TypeOK, Count
    PROVE  excess' \in [Sources -> Nat]
  BY DEF TypeOK, Count

LEMMA GenerateType ==
    ASSUME TypeOK, Count, NEW g \in Generators, Generate(g)
    PROVE  TypeOK'
<1> USE DEF TypeOK
<1>1. excess' \in [Sources -> Nat]
  BY CountType
<1>2. gen \in [Generators -> GenStates]
  BY DEF GenStates
<1>3. CASE Begin(g)
  <2>1. get_effective_query_params(level) \in Params
    BY ParamsAreParams, SelectionAssumption
  <2>2. [at |-> "reading", p |-> get_effective_query_params(level)] \in GenStates
    BY <2>1 DEF GenStates
  <2>3. gen' \in [Generators -> GenStates]
    BY <1>2, <1>3, <2>2 DEF Begin
  <2> QED BY <1>1, <1>3, <2>3 DEF Begin, rowVars, postVars, pastVars, GenStates
<1>4. CASE Select(g)
  <2>1. \A s \in Sources : [at |-> "making", source |-> s] \in GenStates
    BY DEF GenStates
  <2>2. gen' \in [Generators -> GenStates]
    BY <1>2, <1>4, <2>1 DEF Select, Candidates
  <2> QED BY <1>1, <1>4, <2>2 DEF Select, rowVars, postVars, pastVars, GenStates
<1>5. CASE Abandon(g)
  <2>1. gen' \in [Generators -> GenStates]
    BY <1>2, <1>5 DEF Abandon, GenStates
  <2> QED BY <1>1, <1>5, <2>1 DEF Abandon, rowVars, postVars, pastVars, GenStates
<1>6. CASE Save(g)
  <2>1. gen' \in [Generators -> GenStates]
    BY <1>2, <1>6 DEF Save, GenStates
  <2>4. gen[g].source \in Sources
    BY <1>2, <1>6 DEF Save, GenStates, Idle
  <2>2. pending' \in [Sources -> Nat]
    BY <1>6, <2>4 DEF Save, OneMore
  <2>3. rest' \in [Dated -> 0..MaxRest] /\ quiet' \in [Dated -> 0..MaxRest]
    BY <1>6, SelectionAssumption DEF Save, UsedNow
  <2> QED BY <1>1, <1>6, <2>1, <2>2, <2>3 DEF Save, GenStates
<1> QED BY <1>3, <1>4, <1>5, <1>6 DEF Generate

LEMMA SettleType ==
    ASSUME TypeOK, Count, NEW s \in Sources, Settle(s)
    PROVE  TypeOK'
<1> USE DEF TypeOK
<1>1. excess' \in [Sources -> Nat]
  BY CountType
<1>2. CASE Reject(s)
  BY <1>1, <1>2 DEF Reject, OneLess
<1>3. CASE Drop(s)
  BY <1>1, <1>3 DEF Drop, OneLess, rowVars, pastVars
<1>4. CASE Accept(s)
  BY <1>1, <1>4 DEF Accept, OneLess, OneMore, rowVars, pastVars
<1>5. CASE Publish(s)
  BY <1>1, <1>5 DEF Publish, OneLess
<1> QED BY <1>2, <1>3, <1>4, <1>5 DEF Settle

LEMMA NewDayType ==
    ASSUME TypeOK, Count, NewDay
    PROVE  TypeOK'
<1>1. excess' \in [Sources -> Nat]
  BY CountType
<1> QED BY <1>1, SelectionAssumption DEF TypeOK, NewDay, Older, postVars

LEMMA LevelType ==
    ASSUME TypeOK, Count, Escalate \/ Reset
    PROVE  TypeOK'
<1>1. excess' \in [Sources -> Nat]
  BY CountType
<1> QED BY <1>1 DEF TypeOK, Escalate, Reset, MaxLevel, rowVars, postVars, pastVars

LEMMA TypeKeeps == TypeOK /\ [Next]_vars => TypeOK'
<1> SUFFICES ASSUME TypeOK, [Next]_vars PROVE TypeOK'
  OBVIOUS
<1>1. CASE UNCHANGED vars
  BY <1>1 DEF vars, rowVars, postVars, pastVars, TypeOK
<1>2. CASE Next
  BY <1>2, GenerateType, SettleType, NewDayType, LevelType DEF Next
<1> QED BY <1>1, <1>2

\* The types of the module hold for any constants.
THEOREM SelectionTypes == Spec => []TypeOK
  BY TypeStart, TypeKeeps, PTL DEF Spec

-----------------------------------------------------------------------------
(* The rows say what happened, and once a source is not permitted only the *)
(* generators that hold it, or that read parameters which still allow it,  *)
(* can store a post of it; nobody joins them.                              *)

Allows(g, s) ==
    /\ gen[g].at = "reading"
    /\ s \notin blocked
    /\ Fresh(gen[g].p, s, published, rest)

Holds(g, s) == gen[g].at = "making" /\ gen[g].source = s

Holders(s) == {g \in Generators : Allows(g, s) \/ Holds(g, s)}

RowsAreTrue ==
    rest = quiet /\ published = out /\ blocked = refused \ GallicaItems

Room(s) == excess[s] + Cardinality(Holders(s)) <= Cardinality(Generators)

Banned(s) == ~Permitted(s) => Room(s)

RepeatInv ==
    /\ TypeOK
    /\ RowsAreTrue
    /\ RepeatsBounded
    /\ \A s \in Sources : Banned(s)

\* Parameters that allow a source used more, or more recently, allow it used less.
LEMMA FreshMonotone ==
    ASSUME NEW p, NEW s, NEW used, NEW used2, NEW days, NEW days2,
           used \subseteq used2,
           s \in Dated => days[s] \in Nat /\ days2[s] \in Nat /\ days2[s] <= days[s],
           s \in Sources, p \in Params,
           Fresh(p, s, used2, days2)
    PROVE  Fresh(p, s, used, days)
<1>1. p.window \in Nat
  BY SelectionAssumption DEF Params
<1>2. CASE s \in GallicaItems \/ p.policy = "never"
  BY <1>2 DEF Fresh
<1>3. CASE s \notin GallicaItems /\ p.policy = "window"
  BY <1>1, <1>3 DEF Fresh, Sources
<1>4. CASE s \notin GallicaItems /\ p.policy \notin {"never", "window"}
  BY <1>4 DEF Fresh
<1> QED BY <1>2, <1>3, <1>4

LEMMA HoldersFinite ==
    ASSUME NEW s
    PROVE  /\ IsFiniteSet(Holders(s)) /\ Cardinality(Holders(s)) \in Nat
           /\ IsFiniteSet(Generators) /\ Cardinality(Generators) \in Nat
           /\ Cardinality(Holders(s)) <= Cardinality(Generators)
<1>1. IsFiniteSet(Generators)
  <2>1. IsFiniteSet({"job3"}) /\ IsFiniteSet({"bot"})
    BY FS_Singleton
  <2>2. IsFiniteSet({"job3"} \cup {"bot"})
    BY <2>1, FS_Union
  <2>3. Generators = {"job3"} \cup {"bot"}
    BY DEF Generators
  <2> QED BY <2>2, <2>3
<1>2. Holders(s) \subseteq Generators
  BY DEF Holders
<1> QED BY <1>1, <1>2, FS_Subset, FS_CardinalityType

LEMMA HoldersFiniteNext ==
    ASSUME NEW s
    PROVE  /\ IsFiniteSet(Holders(s)') /\ Cardinality(Holders(s)') \in Nat
           /\ Cardinality(Holders(s)') <= Cardinality(Generators)
<1>1. IsFiniteSet(Generators)
  BY HoldersFinite
<1>2. Holders(s)' \subseteq Generators
  BY DEF Holders
<1> QED BY <1>1, <1>2, FS_Subset, FS_CardinalityType

\* A step that stores no post of s, and adds no holder when s is not permitted.
LEMMA QuietStep ==
    ASSUME RepeatInv, Count, NEW s \in Sources,
           ~(pending'[s] > pending[s]),
           ~Permitted(s) => Holders(s)' \subseteq Holders(s)
    PROVE  Banned(s)' /\ excess'[s] <= Cardinality(Generators)
<1>1. excess[s] \in Nat /\ excess[s] <= Cardinality(Generators)
  BY DEF RepeatInv, RepeatsBounded, TypeOK
<1>2. CASE Permitted(s)
  <2>1. excess'[s] = 0
    BY <1>2 DEF Count
  <2> QED BY <2>1, HoldersFiniteNext, HoldersFinite DEF Banned, Room
<1>3. CASE ~Permitted(s)
  <2>1. excess'[s] = excess[s]
    BY <1>3 DEF Count
  <2>2. Room(s)
    BY <1>3 DEF RepeatInv, Banned
  <2>3. Cardinality(Holders(s)') <= Cardinality(Holders(s))
    BY <1>3, HoldersFinite, FS_Subset
  <2>4. excess'[s] + Cardinality(Holders(s)') <= Cardinality(Generators)
    BY <1>1, <2>1, <2>2, <2>3, HoldersFinite, HoldersFiniteNext DEF Room
  <2> QED BY <1>1, <2>1, <2>4 DEF Banned, Room
<1> QED BY <1>2, <1>3

\* A step in which one of the holders stores its post.
LEMMA StoreStep ==
    ASSUME RepeatInv, Count, NEW s \in Sources, NEW g \in Holders(s),
           Holders(s)' \subseteq Holders(s) \ {g}
    PROVE  Banned(s)' /\ excess'[s] <= Cardinality(Generators)
<1>1. excess[s] \in Nat
  BY DEF RepeatInv, TypeOK
<1>2. CASE Permitted(s)
  <2>1. excess'[s] = 0
    BY <1>2 DEF Count
  <2> QED BY <2>1, HoldersFiniteNext, HoldersFinite DEF Banned, Room
<1>3. CASE ~Permitted(s)
  <2>1. excess'[s] <= excess[s] + 1 /\ excess'[s] \in Nat
    BY <1>1, <1>3 DEF Count
  <2>2. Room(s)
    BY <1>3 DEF RepeatInv, Banned
  <2>3. /\ Cardinality(Holders(s) \ {g}) = Cardinality(Holders(s)) - 1
        /\ IsFiniteSet(Holders(s) \ {g})
    BY HoldersFinite, FS_RemoveElement
  <2>4. Cardinality(Holders(s)') <= Cardinality(Holders(s)) - 1
    BY <2>3, FS_Subset
  <2>5. excess'[s] + Cardinality(Holders(s)') <= Cardinality(Generators)
    BY <1>1, <2>1, <2>2, <2>4, HoldersFinite, HoldersFiniteNext DEF Room
  <2>6. excess'[s] <= Cardinality(Generators)
    BY <2>1, <2>5, HoldersFiniteNext, HoldersFinite
  <2> QED BY <2>5, <2>6 DEF Banned, Room
<1> QED BY <1>2, <1>3

-----------------------------------------------------------------------------
LEMMA HeldIsSource ==
    ASSUME TypeOK, NEW g \in Generators
    PROVE  /\ gen[g].at = "making" => gen[g].source \in Sources
           /\ gen[g].at = "reading" => gen[g].p \in Params
  BY DEF TypeOK, Idle

LEMMA GenerateRepeats ==
    ASSUME RepeatInv, Count, NEW g \in Generators, Generate(g), NEW s \in Sources
    PROVE  Banned(s)' /\ excess'[s] <= Cardinality(Generators)
<1>1. TypeOK /\ RowsAreTrue
  BY DEF RepeatInv
<1>2. CASE Begin(g)
  <2>1. pending' = pending
    BY <1>2 DEF Begin, postVars
  <2>2. UNCHANGED <<blocked, published, rest>>
    BY <1>2 DEF Begin, rowVars
  <2>3. \A h \in Generators \ {g} : gen'[h] = gen[h]
    BY <1>1, <1>2 DEF Begin, TypeOK
  <2>4. gen'[g] = [at |-> "reading", p |-> get_effective_query_params(level)]
    BY <1>1, <1>2 DEF Begin, TypeOK
  <2>5. ASSUME ~Permitted(s) PROVE g \notin Holders(s)'
    <3>1. ~Fresh(get_effective_query_params(level), s, out, quiet)
             \/ s \in refused \ GallicaItems
      BY <2>5 DEF Permitted
    <3>2. ~Fresh(get_effective_query_params(level), s, published, rest)
             \/ s \in blocked
      BY <3>1, <1>1 DEF RowsAreTrue
    <3>3. ~Allows(g, s)'
      <4>1. gen'[g].p = get_effective_query_params(level)
        BY <2>4
      <4>2. Allows(g, s)' => /\ s \notin blocked
                             /\ Fresh(gen'[g].p, s, published, rest)
        BY <2>2 DEF Allows
      <4> QED BY <3>2, <4>1, <4>2, Zenon
    <3>4. ~Holds(g, s)'
      BY <2>4 DEF Holds
    <3> QED BY <3>3, <3>4 DEF Holders
  <2>6. ASSUME NEW h \in Generators \ {g}, h \in Holders(s)' PROVE h \in Holders(s)
    BY <2>2, <2>3, <2>6 DEF Holders, Allows, Holds
  <2>7. ~Permitted(s) => Holders(s)' \subseteq Holders(s)
    BY <2>5, <2>6 DEF Holders
  <2>8. ~(pending'[s] > pending[s])
    BY <2>1, <1>1 DEF TypeOK
  <2> QED BY <2>7, <2>8, QuietStep
<1>3. CASE Select(g)
  <2>1. UNCHANGED <<blocked, published, rest, pending>>
    BY <1>3 DEF Select, rowVars, postVars
  <2>2. PICK c \in Candidates(gen[g].p) :
            gen' = [gen EXCEPT ![g] = [at |-> "making", source |-> c]]
    BY <1>3 DEF Select
  <2>3. gen'[g] = [at |-> "making", source |-> c]
        /\ \A h \in Generators \ {g} : gen'[h] = gen[h]
    BY <2>2, <1>1 DEF TypeOK
  <2>4. Allows(g, c)
    BY <2>2, <1>3 DEF Allows, Candidates, Select
  <2>5. ASSUME NEW h \in Holders(s)' PROVE h \in Holders(s)
    <3>1. CASE h = g
      <4>1. s = c
        BY <3>1, <2>3, <2>5 DEF Holders, Allows, Holds
      <4> QED BY <4>1, <3>1, <2>4 DEF Holders
    <3>2. CASE h # g
      BY <3>2, <2>1, <2>3, <2>5 DEF Holders, Allows, Holds
    <3> QED BY <3>1, <3>2
  <2>6. ~(pending'[s] > pending[s])
    BY <2>1, <1>1 DEF TypeOK
  <2> QED BY <2>5, <2>6, QuietStep
<1>4. CASE Abandon(g)
  <2>1. UNCHANGED <<blocked, published, rest, pending>>
    BY <1>4 DEF Abandon, rowVars, postVars
  <2>2. gen'[g] = Idle /\ \A h \in Generators \ {g} : gen'[h] = gen[h]
    BY <1>1, <1>4 DEF Abandon, TypeOK
  <2>3. ASSUME NEW h \in Holders(s)' PROVE h \in Holders(s)
    BY <2>1, <2>2, <2>3 DEF Holders, Allows, Holds, Idle
  <2>4. ~(pending'[s] > pending[s])
    BY <2>1, <1>1 DEF TypeOK
  <2> QED BY <2>3, <2>4, QuietStep
<1>5. CASE Save(g)
  <2>1. UNCHANGED <<blocked, published>>
    BY <1>5 DEF Save
  <2>2. gen'[g] = Idle /\ \A h \in Generators \ {g} : gen'[h] = gen[h]
    BY <1>1, <1>5 DEF Save, TypeOK
  <2>3. PICK c \in Sources : gen[g].at = "making" /\ gen[g].source = c
    BY <1>1, <1>5, HeldIsSource DEF Save
  <2>4. rest' = [d \in Dated |-> IF d = c THEN 0 ELSE rest[d]]
        /\ pending' = [pending EXCEPT ![c] = @ + 1]
    BY <1>5, <2>3 DEF Save, UsedNow, OneMore
  <2>5. ASSUME NEW h \in Holders(s)' PROVE h \in Holders(s) \ {g}
    <3>1. h # g /\ h \in Generators
      BY <2>2, <2>5 DEF Holders, Allows, Holds, Idle
    <3>2. gen'[h] = gen[h]
      BY <3>1, <2>2
    <3>3. CASE Holds(h, s)'
      BY <3>1, <3>2, <3>3 DEF Holders, Holds
    <3>4. CASE Allows(h, s)'
      <4>1. /\ gen[h].at = "reading" /\ s \notin blocked
            /\ Fresh(gen[h].p, s, published, rest')
        BY <3>2, <3>4, <2>1 DEF Allows
      <4>2. s \in Dated => rest[s] \in Nat /\ rest'[s] \in Nat /\ rest'[s] <= rest[s]
        BY <1>1, <2>4, SelectionAssumption DEF TypeOK
      <4>3. gen[h].p \in Params
        BY <4>1, <3>1, <1>1, HeldIsSource
      <4>4. Fresh(gen[h].p, s, published, rest)
        BY <4>1, <4>2, <4>3, FreshMonotone
      <4> QED BY <4>1, <4>4, <3>1 DEF Holders, Allows
    <3> QED BY <3>3, <3>4, <2>5 DEF Holders
  <2>6. CASE s = c
    <3>1. g \in Holders(s)
      BY <2>3, <2>6 DEF Holders, Holds
    <3> QED BY <3>1, <2>5, StoreStep
  <2>7. CASE s # c
    <3>1. ~(pending'[s] > pending[s])
      BY <2>4, <2>7, <1>1 DEF TypeOK
    <3>2. Holders(s)' \subseteq Holders(s)
      BY <2>5
    <3> QED BY <3>1, <3>2, QuietStep
  <2> QED BY <2>6, <2>7
<1> QED BY <1>2, <1>3, <1>4, <1>5 DEF Generate

\* The posts and the rows of a source move; no generator does.
LEMMA SettleRepeats ==
    ASSUME RepeatInv, Count, NEW t \in Sources, Settle(t), NEW s \in Sources
    PROVE  Banned(s)' /\ excess'[s] <= Cardinality(Generators)
<1>1. TypeOK
  BY DEF RepeatInv
<1>2. /\ gen' = gen /\ rest' = rest
      /\ blocked \subseteq blocked' /\ published \subseteq published'
  BY DEF Settle, Reject, Drop, Accept, Publish, rowVars
<1>3. ~(pending'[s] > pending[s])
  <2>1. pending' = pending \/ pending' = [pending EXCEPT ![t] = @ - 1]
    BY DEF Settle, Reject, Drop, Accept, Publish, OneLess
  <2>2. pending[s] \in Nat
    BY <1>1 DEF TypeOK
  <2> QED BY <2>1, <2>2, <1>1 DEF TypeOK
<1>4. ASSUME NEW h \in Holders(s)' PROVE h \in Holders(s)
  <2>1. h \in Generators
    BY <1>4 DEF Holders
  <2>2. CASE Holds(h, s)'
    BY <2>1, <2>2, <1>2 DEF Holders, Holds
  <2>3. CASE Allows(h, s)'
    <3>1. /\ gen[h].at = "reading" /\ s \notin blocked
          /\ Fresh(gen[h].p, s, published', rest)
      BY <2>3, <1>2 DEF Allows
    <3>2. gen[h].p \in Params
      BY <3>1, <2>1, <1>1, HeldIsSource
    <3>3. s \in Dated => rest[s] \in Nat /\ rest[s] <= rest[s]
      BY <1>1, SelectionAssumption DEF TypeOK
    <3>4. Fresh(gen[h].p, s, published, rest)
      BY <3>1, <3>2, <3>3, <1>2, FreshMonotone
    <3> QED BY <3>1, <3>4, <2>1 DEF Holders, Allows
  <2> QED BY <2>2, <2>3, <1>4 DEF Holders
<1> QED BY <1>3, <1>4, QuietStep

LEMMA NewDayRepeats ==
    ASSUME RepeatInv, Count, NewDay, NEW s \in Sources
    PROVE  Banned(s)' /\ excess'[s] <= Cardinality(Generators)
<1>1. ~(pending'[s] > pending[s])
  BY DEF RepeatInv, TypeOK, NewDay, postVars
<1>2. Holders(s)' \subseteq Holders(s)
  BY DEF NewDay, Holders, Allows, Holds
<1> QED BY <1>1, <1>2, QuietStep

LEMMA LevelRepeats ==
    ASSUME RepeatInv, Count, Escalate \/ Reset, NEW s \in Sources
    PROVE  Banned(s)' /\ excess'[s] <= Cardinality(Generators)
<1>1. ~(pending'[s] > pending[s])
  BY DEF RepeatInv, TypeOK, Escalate, Reset, postVars
<1>2. Holders(s)' \subseteq Holders(s)
  BY DEF Escalate, Reset, Holders, Allows, Holds, rowVars
<1> QED BY <1>1, <1>2, QuietStep

LEMMA RowsStayTrue ==
    ASSUME TypeOK, RowsAreTrue, Next
    PROVE  RowsAreTrue'
<1>1. ASSUME NEW g \in Generators, Generate(g) PROVE RowsAreTrue'
  BY <1>1 DEF RowsAreTrue, Generate, Begin, Select, Abandon, Save, rowVars, pastVars
<1>2. ASSUME NEW s \in Sources, Settle(s) PROVE RowsAreTrue'
  <2>1. CASE Reject(s)
    BY <2>1 DEF RowsAreTrue, Reject
  <2>2. CASE ~Reject(s)
    BY <1>2, <2>2 DEF RowsAreTrue, Settle, Drop, Accept, Publish, rowVars, pastVars
  <2> QED BY <2>1, <2>2
<1>3. CASE NewDay
  BY <1>3 DEF RowsAreTrue, NewDay
<1>4. CASE Escalate \/ Reset
  BY <1>4 DEF RowsAreTrue, Escalate, Reset, rowVars, pastVars
<1> QED BY <1>1, <1>2, <1>3, <1>4 DEF Next

LEMMA RepeatStart == Init => RepeatInv
<1> SUFFICES ASSUME Init PROVE RepeatInv
  OBVIOUS
<1>1. TypeOK
  BY TypeStart
<1>2. RowsAreTrue
  BY DEF Init, RowsAreTrue
<1>3. ASSUME NEW s \in Sources PROVE Banned(s) /\ excess[s] <= Cardinality(Generators)
  <2>1. excess[s] = 0
    BY DEF Init
  <2> QED BY <2>1, HoldersFinite DEF Banned, Room
<1> QED BY <1>1, <1>2, <1>3 DEF RepeatInv, RepeatsBounded

LEMMA RepeatKeeps == RepeatInv /\ [Next]_vars => RepeatInv'
<1> SUFFICES ASSUME RepeatInv, [Next]_vars PROVE RepeatInv'
  OBVIOUS
<1>1. TypeOK'
  BY TypeKeeps DEF RepeatInv
<1>2. CASE Next
  <2>1. Count
    BY <1>2 DEF Next
  <2>2. ASSUME NEW s \in Sources
        PROVE  Banned(s)' /\ excess'[s] <= Cardinality(Generators)
    <3>1. \/ \E g \in Generators : Generate(g)
          \/ \E t \in Sources : Settle(t)
          \/ NewDay
          \/ Escalate \/ Reset
      BY <1>2 DEF Next
    <3> QED BY <2>1, <3>1, GenerateRepeats, SettleRepeats, NewDayRepeats, LevelRepeats
  <2>3. RowsAreTrue'
    BY <1>2, RowsStayTrue DEF RepeatInv
  <2> QED BY <1>1, <2>2, <2>3 DEF RepeatInv, RepeatsBounded
<1>3. CASE UNCHANGED vars
  <2>1. ASSUME NEW s \in Sources PROVE Banned(s)'
    <3>1. Permitted(s)' = Permitted(s)
      BY <1>3 DEF vars, pastVars, Permitted, Fresh, get_effective_query_params, Relax
    <3>2. Holders(s)' = Holders(s) /\ excess' = excess
      BY <1>3 DEF vars, rowVars, Holders, Allows, Holds
    <3> QED BY <3>1, <3>2 DEF RepeatInv, Banned, Room
  <2>2. RowsAreTrue'
    BY <1>3 DEF vars, rowVars, pastVars, RepeatInv, RowsAreTrue
  <2> QED BY <1>1, <1>3, <2>1, <2>2 DEF vars, RepeatInv, RepeatsBounded
<1> QED BY <1>2, <1>3

\* However the generators, the admin, the publications and the level are
\* interleaved, each generator stores one post at most of a source that the
\* policy no longer allows.
THEOREM RepeatsAreBounded == Spec => []RepeatsBounded
<1>1. RepeatInv => RepeatsBounded
  BY DEF RepeatInv
<1> QED BY RepeatStart, RepeatKeeps, <1>1, PTL DEF Spec

-----------------------------------------------------------------------------
(* Escalation.                                                             *)

LEMMA RelaxWeakens ==
    ASSUME NEW p \in Params, NEW limit \in 0..MaxRest, p.policy # "never",
           TypeOK, NEW s \in Sources, Fresh(p, s, published, rest)
    PROVE  Fresh(Relax(p, limit), s, published, rest)
<1>1. s \in Dated => rest[s] \in Nat
  BY SelectionAssumption DEF TypeOK
<1> QED BY <1>1, SelectionAssumption DEF Relax, Fresh, Params, Sources

LEMMA NextLevel ==
    ASSUME TypeOK, level \in 0..4, ~(config.policy = "never" /\ level = 2)
    PROVE  LET p == get_effective_query_params(level)
               q == get_effective_query_params(level + 1)
           IN  \/ q = p
               \/ p.policy # "never" /\ \E limit \in 0..MaxRest : q = Relax(p, limit)
<1> DEFINE three == Relax(config, LongWindow)
<1>1. config \in Params /\ LongWindow \in 0..MaxRest /\ ShortWindow \in 0..MaxRest
  BY SelectionAssumption DEF TypeOK
<1>2. CASE level \in {0, 1, 4}
  BY <1>2 DEF get_effective_query_params
<1>3. CASE level = 2
  BY <1>1, <1>3 DEF get_effective_query_params
<1>4. CASE level = 3
  <2>1. three.policy # "never"
    BY <1>1 DEF Relax, Params
  <2>2. /\ get_effective_query_params(level) = three
        /\ get_effective_query_params(level + 1) = Relax(three, ShortWindow)
    BY <1>4 DEF get_effective_query_params
  <2> QED BY <1>1, <2>1, <2>2
<1> QED BY <1>2, <1>3, <1>4

\* A level never takes a source away, but for the third under "never".
THEOREM LevelsRelax == Spec => EscalationRelaxes
<1> DEFINE P(l) == get_effective_query_params(l)
<1>1. ASSUME TypeOK, [Next]_vars, level' > level, ~(config.policy = "never" /\ level = 2)
      PROVE  Candidates(P(level)) \subseteq Candidates(P(level))'
  <2>1. level \in 0..5
    BY <1>1 DEF TypeOK, MaxLevel
  <2>2. level' = level => FALSE
    BY <1>1, <2>1
  <2>3. Escalate
    <3>1. ASSUME NEW g \in Generators, Generate(g) PROVE level' = level
      BY <3>1 DEF Generate, Begin, Select, Abandon, Save
    <3>2. ASSUME NEW s \in Sources, Settle(s) PROVE level' = level
      BY <3>2 DEF Settle, Reject, Drop, Accept, Publish
    <3>3. NewDay => level' = level
      BY DEF NewDay
    <3>4. ~Reset
      BY <1>1, <2>1 DEF Reset
    <3>5. UNCHANGED vars => level' = level
      BY DEF vars
    <3> QED BY <1>1, <2>2, <3>1, <3>2, <3>3, <3>4, <3>5 DEF Next
  <2>4. level \in 0..4 /\ level' = level + 1
    BY <2>1, <2>3 DEF Escalate, MaxLevel
  <2>5. UNCHANGED <<config, blocked, published, rest, collected>>
    BY <2>3 DEF Escalate, rowVars
  <2>6. P(level) \in Params
    BY <1>1, ParamsAreParams, SelectionAssumption DEF TypeOK
  <2>7. \A s \in Sources : Fresh(P(level), s, published, rest)
                                => Fresh(P(level + 1), s, published, rest)
    <3> SUFFICES ASSUME NEW s \in Sources, Fresh(P(level), s, published, rest)
                 PROVE  Fresh(P(level + 1), s, published, rest)
      OBVIOUS
    <3>1. CASE P(level + 1) = P(level)
      BY <3>1
    <3>2. CASE P(level).policy # "never"
               /\ \E limit \in 0..MaxRest : P(level + 1) = Relax(P(level), limit)
      BY <1>1, <2>6, <3>2, RelaxWeakens
    <3> QED BY <1>1, <2>4, <3>1, <3>2, NextLevel
  <2>8. P(level)' = P(level + 1)
    BY <2>4, <2>5 DEF get_effective_query_params, Relax
  <2>9. Candidates(P(level))' =
           {s \in Sources \ blocked : /\ Fresh(P(level + 1), s, published, rest)
                                      /\ s \in Articles => collected[s] >= MinDelay}
    BY <2>5, <2>8 DEF Candidates, Fresh
  <2> QED BY <2>7, <2>9 DEF Candidates
<1> QED BY <1>1, SelectionTypes, PTL DEF Spec, EscalationRelaxes
=============================================================================
