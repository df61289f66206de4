-------------------------- MODULE PostCopies_proofs --------------------------
(***************************************************************************)
(* What the copies of a post on the platforms, its stored ids and its      *)
(* stored errors say of each other; which transitions its status takes,    *)
(* from what the coroutines remember of it; and that none is left half     *)
(* way: for any posts, platforms and faults.                               *)
(***************************************************************************)
EXTENDS PostLifecycle_proofs

-----------------------------------------------------------------------------
(* The copies.  What a coroutine is told by the platforms is in its hands  *)
(* until one commit stores it: the bound on the copies, the refusal to     *)
(* call a platform twice and the meaning of the stored ids all rest on     *)
(* what it holds, and on nobody else holding the same post.                *)

Calling == {"platforms", "single"}

\* What a coroutine knows of the calls it makes: a platform is asked once, not
\* when its id is stored, and what it accepted exists.
CallsInv(o) ==
    /\ run[o].todo \cup run[o].ok \cup run[o].bad # {} => run[o].pc \in Calling
    /\ run[o].todo \cap (run[o].ok \cup run[o].bad) = {} /\ run[o].ok \cap run[o].bad = {}
    /\ run[o].pc \in {"quota", "upload", "ready", "platforms"} =>
         ids[run[o].post] \cap Feed = {}
    /\ run[o].pc = "platforms" =>
         /\ run[o].mem = "publishing"
         /\ Feed \subseteq run[o].todo \cup run[o].ok \cup run[o].bad
    /\ run[o].pc = "single" =>
         ids[run[o].post] \cap Feed \cap (run[o].todo \cup run[o].ok \cup run[o].bad) = {}
    /\ \A f \in run[o].ok : live[run[o].post][f] > 0

\* The answer of f about p is known: stored, or in the hands of a coroutine.
Known(p, f) == f \in ids[p] \/ \E o \in Owners : run[o].post = p /\ f \in run[o].ok

RowsInv(p) ==
    /\ \A f \in ids[p] : live[p][f] > 0
    /\ ids[p] \cap Feed # {} => status[p] \in {"published", "expired", "rejected", "skipped"}
    /\ status[p] = "published" /\ Feed # {} => ids[p] \cap Feed # {}
    /\ ids[p] \cap errs[p] \cap Feed = {}
    /\ \A f \in Feed : live[p][f] <= (IF Known(p, f) THEN 1 ELSE 0) + crashes + lost + timeouts[p]

\* Recovery publishes posts without an id, each once.
RecoverInv ==
    mode = "republish" =>
        /\ run["boot"].pc \in {"idle", "platforms"}
        /\ \A p \in recovering :
             /\ ids[p] \cap Feed = {}
             /\ run["boot"].pc = "platforms" => run["boot"].post # p

CopiesInv ==
    /\ \A o \in Owners : CallsInv(o)
    /\ \A p \in Posts : RowsInv(p)
    /\ RecoverInv

LEMMA CallingSteps == /\ Calling \subseteq Publishing /\ "idle" \notin Calling
                      /\ Calling \cap {"quota", "upload", "ready"} = {}
  BY DEF Calling, Publishing

\* A step that stores no answer, counts nothing and has no answers in hand.
LEMMA QuietStep ==
  ASSUME TypeOK, CopiesInv, NEW o \in Owners, NEW t, run' = [run EXCEPT ![o] = t],
         run[o].pc \notin Calling, t.pc \notin Calling,
         t.todo = {}, t.ok = {}, t.bad = {},
         t.pc \in {"quota", "upload", "ready"} => ids[t.post] \cap Feed = {},
         mode # "republish",
         UNCHANGED <<ids, errs, live, crashes, lost, timeouts, mode>>,
         \A p \in Posts : \/ status'[p] = status[p]
                          \/ /\ status'[p] # "published"
                             /\ ids[p] \cap Feed = {} \/ status'[p] \in {"expired", "rejected", "skipped"}
  PROVE  CopiesInv'
<1>1. run'[o] = t /\ (\A q \in Owners \ {o} : run'[q] = run[q])
  BY DEF TypeOK
<1>2. run[o].ok = {}
  BY DEF CopiesInv, CallsInv
<1>3. ASSUME NEW q \in Owners PROVE CallsInv(q)'
  <2>1. CASE q = o
    BY <1>1, <2>1 DEF CallsInv, Calling
  <2>2. CASE q # o
    BY <1>1, <2>2 DEF CopiesInv, CallsInv
  <2> QED
    BY <2>1, <2>2
<1>4. ASSUME NEW p \in Posts PROVE RowsInv(p)'
  <2>1. \A f \in Feed : Known(p, f) => Known(p, f)'
    BY <1>1, <1>2 DEF Known
  <2>2. \A f \in Feed : live'[p][f] <= (IF Known(p, f)' THEN 1 ELSE 0) + crashes' + lost' + timeouts'[p]
    <3> SUFFICES ASSUME NEW f \in Feed
                 PROVE  live'[p][f] <= (IF Known(p, f)' THEN 1 ELSE 0) + crashes' + lost' + timeouts'[p]
      OBVIOUS
    <3>1. live[p][f] <= (IF Known(p, f) THEN 1 ELSE 0) + crashes + lost + timeouts[p]
      BY DEF CopiesInv, RowsInv
    <3>2. live[p][f] \in Nat /\ crashes \in Nat /\ lost \in Nat /\ timeouts[p] \in Nat
      BY LifecycleAssumption DEF TypeOK, Feed
    <3> QED
      BY <2>1, <3>1, <3>2
  <2> QED
    BY <2>2, <1>4 DEF CopiesInv, RowsInv
<1>5. RecoverInv'
  BY DEF RecoverInv
<1> QED
  BY <1>3, <1>4, <1>5 DEF CopiesInv

\* A free coroutine, or one that does something else than recovery's calls,
\* runs when recovery is not publishing.
LEMMA Elsewhere ==
  ASSUME PublisherInv, CopiesInv, NEW o \in Owners,
         (run[o].pc # "idle" /\ run[o].pc # "platforms") \/ mode = "up"
  PROVE  mode # "republish"
BY DEF PublisherInv, RunsAlone, CopiesInv, RecoverInv

\* A coroutine without answers in hand that stops, or moves to another step.
LEMMA QuietStop ==
  ASSUME TypeOK, PublisherInv, CopiesInv, NEW o \in Owners, Done(o),
         run[o].pc \notin Calling, run[o].pc # "idle",
         UNCHANGED <<ids, errs, live, crashes, lost, timeouts, mode>>,
         \A p \in Posts : \/ status'[p] = status[p]
                          \/ /\ status'[p] # "published"
                             /\ ids[p] \cap Feed = {} \/ status'[p] \in {"expired", "rejected", "skipped"}
  PROVE  CopiesInv'
<1>1. /\ Idle.pc = "idle" /\ Idle.todo = {} /\ Idle.ok = {} /\ Idle.bad = {}
      /\ Idle.pc \notin Calling \cup {"quota", "upload", "ready"}
  BY DEF Idle, Calling
<1>2. mode # "republish"
  BY Elsewhere DEF Calling
<1>3. run' = [run EXCEPT ![o] = Idle]
  BY DEF Done
<1> HIDE DEF Idle
<1> QED
  BY <1>1, <1>2, <1>3, QuietStep

LEMMA QuietGoes ==
  ASSUME TypeOK, PublisherInv, CopiesInv, NEW o \in Owners, NEW s, Goto(o, s),
         run[o].pc \notin Calling, run[o].pc # "idle" \/ mode = "up", s \notin Calling,
         s \in {"quota", "upload", "ready"} => ids[run[o].post] \cap Feed = {},
         UNCHANGED <<status, ids, errs, live, crashes, lost, timeouts, mode>>
  PROVE  CopiesInv'
<1> DEFINE t == [run[o] EXCEPT !.pc = s]
<1>1. run[o] \in Tasks
  BY DEF TypeOK
<1>2. run[o].todo = {} /\ run[o].ok = {} /\ run[o].bad = {}
  BY DEF CopiesInv, CallsInv
<1>3. t.pc = s /\ t.post = run[o].post /\ t.todo = {} /\ t.ok = {} /\ t.bad = {}
  BY <1>1, <1>2 DEF Tasks
<1>4. run' = [run EXCEPT ![o] = t]
  BY DEF Goto
<1>5. mode # "republish"
  BY Elsewhere DEF Calling
<1> HIDE DEF t
<1> QED
  BY <1>3, <1>4, <1>5, QuietStep

\* /retry and JOB-7 take posts that no feed platform has.
LEMMA LockCopies ==
  ASSUME TypeOK, PublisherInv, CopiesInv, NEW o \in {"bot", "job7"},
         run[o].pc \in {"retry", "lock"}, NEW from \in {"error", "queued"}, Lock(o, from)
  PROVE  CopiesInv'
<1> USE DEF rowVars, jobVars, worldVars, faultVars
<1> DEFINE p == run[o].post
           t == [run[o] EXCEPT !.pc = "upload", !.mem = "publishing", !.img = image[p]]
<1>0. o \in Owners /\ run[o].pc \notin Calling /\ run[o].pc # "idle"
  BY DEF Owners, Calling
<1>1. CASE status[p] = from
  <2>1. p \in Posts /\ run[o] \in Tasks
    BY <1>0 DEF TypeOK
  <2>2. run' = [run EXCEPT ![o] = t] /\ status' = [status EXCEPT ![p] = "publishing"]
        /\ UNCHANGED <<ids, errs, live, crashes, lost, timeouts, mode>>
    BY <1>1 DEF Lock
  <2>3. run[o].todo = {} /\ run[o].ok = {} /\ run[o].bad = {}
    BY <1>0 DEF CopiesInv, CallsInv
  <2>4. t.pc = "upload" /\ t.post = p /\ t.todo = {} /\ t.ok = {} /\ t.bad = {}
    BY <2>1, <2>3 DEF Tasks
  <2> HIDE DEF t
  <2>5. ids[p] \cap Feed = {}
    BY <1>1, <2>1 DEF CopiesInv, RowsInv
  <2>6. mode # "republish"
    BY <1>0, Elsewhere DEF Calling
  <2>7. \A x \in Posts : status'[x] = status[x] \/ (status'[x] # "published" /\ ids[x] \cap Feed = {})
    BY <2>1, <2>2, <2>5 DEF TypeOK
  <2>8. t.pc \notin Calling
    BY <2>4 DEF Calling
  <2> QED
    BY <1>0, <2>2, <2>4, <2>5, <2>6, <2>7, <2>8, QuietStep
<1>2. CASE status[p] # from
  BY <1>0, <1>2, QuietStop DEF Lock
<1> QED
  BY <1>1, <1>2

LEMMA GenerateCopies ==
  ASSUME TypeOK, PublisherInv, CopiesInv, NEW o \in Owners, Generate(o)
  PROVE  CopiesInv'
<1> USE DEF rowVars, jobVars, worldVars, faultVars
<1>1. CASE GenStart(o)
  <2>1. /\ Goto(o, "generating") /\ run[o].pc \notin Calling
        /\ run[o].pc # "idle" \/ mode = "up"
        /\ UNCHANGED <<status, ids, errs, live, crashes, lost, timeouts, mode>>
    BY <1>1 DEF GenStart, Free, Busy, At, Calling
  <2>2. "generating" \notin Calling \cup {"quota", "upload", "ready"}
    BY DEF Calling
  <2> QED
    BY <2>1, <2>2, QuietGoes
<1>2. CASE GenEmpty(o)
  BY <1>2, QuietStop DEF GenEmpty, At, Calling
<1>3. CASE GenInsert(o)
  <2>1. PICK p \in Rows("absent") :
          /\ status' = [status EXCEPT ![p] = "pending_approval"]
          /\ run' = [run EXCEPT ![o] =
               [Idle EXCEPT !.pc = IF o = "job3" /\ AutoPublish THEN "quota" ELSE "sending",
                            !.post = p, !.mem = "pending_approval", !.img = TRUE]]
    BY <1>3 DEF GenInsert
  <2> DEFINE t == [Idle EXCEPT !.pc = IF o = "job3" /\ AutoPublish THEN "quota" ELSE "sending",
                               !.post = p, !.mem = "pending_approval", !.img = TRUE]
  <2>2. /\ t.pc \in {"quota", "sending"} /\ t.post = p /\ run' = [run EXCEPT ![o] = t]
        /\ t.todo = {} /\ t.ok = {} /\ t.bad = {}
    BY <2>1 DEF Idle
  <2> HIDE DEF t
  <2>3. p \in Posts /\ status[p] = "absent" /\ run[o].pc = "generating"
        /\ UNCHANGED <<ids, errs, live, crashes, lost, timeouts, mode>>
    BY <1>3, <2>1 DEF Rows, GenInsert, At
  <2>4. ids[p] \cap Feed = {}
    BY <2>3 DEF CopiesInv, RowsInv
  <2>5. \A x \in Posts : status'[x] = status[x] \/ (status'[x] # "published" /\ ids[x] \cap Feed = {})
    BY <2>1, <2>3, <2>4 DEF TypeOK
  <2>6. mode # "republish" /\ run[o].pc \notin Calling /\ t.pc \notin Calling
    BY <2>2, <2>3, Elsewhere DEF Calling
  <2> QED
    BY <2>2, <2>3, <2>4, <2>5, <2>6, QuietStep
<1>4. CASE Send(o)
  <2>1. /\ run[o].pc = "sending" /\ run[o].pc \notin Calling
        /\ UNCHANGED <<status, ids, errs, live, crashes, lost, timeouts, mode>>
    BY <1>4 DEF Send, At, Calling
  <2>2. "recording" \notin Calling \cup {"quota", "upload", "ready"}
    BY DEF Calling
  <2> QED
    BY <1>4, <2>1, <2>2, QuietStop, QuietGoes DEF Send
<1>5. CASE Record(o)
  BY <1>5, QuietStop DEF Record, At, Calling
<1> QED
  BY <1>1, <1>2, <1>3, <1>4, <1>5 DEF Generate


\* One answer: the platform had no copy that somebody knows of.
LEMMA PlatformCopies ==
  ASSUME TypeOK, PublisherInv, CopiesInv, NEW o \in Owners, NEW f \in Platforms, Platform(o, f)
  PROVE  CopiesInv'
<1> USE DEF rowVars, jobVars, worldVars, faultVars
<1> DEFINE p == run[o].post
           todo == run[o].todo \ {f}
           good == [run[o] EXCEPT !.todo = todo, !.ok = run[o].ok \cup {f}]
           fail == [run[o] EXCEPT !.todo = todo, !.bad = run[o].bad \cup {f}]
<1>0. run[o] \in Tasks /\ f \in run[o].todo /\ run[o].pc \in Calling /\ p \in Posts
      /\ live \in [Posts -> [Platforms -> Nat]] /\ crashes \in Nat /\ lost \in Nat
      /\ timeouts \in [Posts -> Nat] /\ f \notin run[o].ok \cup run[o].bad
  <2>1. run[o] \in Tasks /\ f \in run[o].todo
    BY DEF TypeOK, Platform
  <2>2. run[o].pc \in Calling /\ f \notin run[o].ok \cup run[o].bad
    BY <2>1 DEF CopiesInv, CallsInv
  <2>3. p \in Posts
    BY <2>2 DEF TypeOK, Calling
  <2> QED
    BY <2>1, <2>2, <2>3, LifecycleAssumption DEF TypeOK
<1>1. PICK t \in {good, fail} :
        /\ run' = [run EXCEPT ![o] = t]
        /\ \/ live' = [live EXCEPT ![p][f] = @ + 1] /\ (t = good \/ lost' = lost + 1)
           \/ t = fail /\ UNCHANGED live
        /\ lost' \in {lost, lost + 1}
        /\ UNCHANGED <<status, ids, errs, crashes, timeouts, mode, recovering>>
  BY DEF Platform
<1>2. /\ t.pc = run[o].pc /\ t.post = p /\ t.mem = run[o].mem /\ t.todo = run[o].todo \ {f}
      /\ \/ t.ok = run[o].ok \cup {f} /\ t.bad = run[o].bad /\ t = good
         \/ t.ok = run[o].ok /\ t.bad = run[o].bad \cup {f} /\ t = fail
  BY <1>0, <1>1 DEF Tasks
<1>3. t.ok # run[o].ok => live' = [live EXCEPT ![p][f] = @ + 1]
  <2>1. good.ok = run[o].ok \cup {f} /\ fail.ok = run[o].ok
    BY <1>0 DEF Tasks
  <2> QED
    BY <1>0, <1>1, <2>1
<1>4. live' = [live EXCEPT ![p][f] = @ + 1] => f \in t.ok \/ lost' = lost + 1
  <2>1. good.ok = run[o].ok \cup {f}
    BY <1>0 DEF Tasks
  <2>2. [live EXCEPT ![p][f] = @ + 1] # live
    <3>1. live[p] \in [Platforms -> Nat] /\ live[p][f] \in Nat
      BY <1>0
    <3>2. [live EXCEPT ![p][f] = @ + 1][p][f] = live[p][f] + 1
      BY <1>0, <3>1
    <3> QED
      BY <3>1, <3>2
  <2> HIDE DEF good, fail
  <2> QED
    BY <1>1, <2>1, <2>2
<1>5. live' = live \/ live' = [live EXCEPT ![p][f] = @ + 1]
  BY <1>1
<1> HIDE DEF good, fail
<1>6. run'[o] = t /\ (\A q \in Owners \ {o} : run'[q] = run[q])
  BY <1>1 DEF TypeOK
<1>7. \A x \in Posts, g \in Platforms :
        /\ live'[x][g] \in Nat /\ live'[x][g] >= live[x][g]
        /\ <<x, g>> # <<p, f>> => live'[x][g] = live[x][g]
  BY <1>0, <1>5
<1>8. ASSUME NEW q \in Owners \ {o}, run[q].ok # {} \/ run[q].todo # {}
      PROVE  run[q].post # p /\ run[q].post \in Posts
  <2>1. run[q].pc \in Calling
    BY <1>8 DEF CopiesInv, CallsInv
  <2>2. OnIt(q) /\ Held(o)
    BY <1>0, <2>1, CallingSteps DEF OnIt, Held
  <2> QED
    BY <2>1, <2>2 DEF PublisherInv, Exclusive, TypeOK, Calling
<1>9. ASSUME NEW q \in Owners PROVE CallsInv(q)'
  <2>1. CASE q = o
    <3>1. CallsInv(o)
      BY DEF CopiesInv
    <3>2. \A g \in t.ok : live'[p][g] > 0
      <4>1. \A g \in run[o].ok : live'[p][g] > 0
        BY <1>0, <1>7, <3>1 DEF CallsInv, Tasks
      <4>2. t.ok # run[o].ok => live'[p][f] > 0
        BY <1>0, <1>3
      <4> QED
        BY <1>2, <4>1, <4>2
    <3> QED
      BY <1>0, <1>1, <1>2, <1>6, <2>1, <3>1, <3>2 DEF CallsInv
  <2>2. CASE q # o
    <3>1. CallsInv(q)
      BY DEF CopiesInv
    <3>2. \A g \in run[q].ok : live'[run[q].post][g] > 0
      BY <1>7, <1>8, <2>2, <3>1 DEF CallsInv, TypeOK, Tasks
    <3> QED
      BY <1>1, <1>6, <2>2, <3>1, <3>2 DEF CallsInv
  <2> QED
    BY <2>1, <2>2
<1>10. ASSUME NEW x \in Posts PROVE RowsInv(x)'
  <2>1. RowsInv(x)
    BY DEF CopiesInv
  <2>2. ASSUME NEW g \in Feed
        PROVE  live'[x][g] <= (IF Known(x, g)' THEN 1 ELSE 0) + crashes' + lost' + timeouts'[x]
    <3>1. live[x][g] <= (IF Known(x, g) THEN 1 ELSE 0) + crashes + lost + timeouts[x] /\ g \in Platforms
      BY <2>1 DEF RowsInv, Feed
    <3>2. Known(x, g) => Known(x, g)'
      BY <1>1, <1>2, <1>6 DEF Known
    <3>3. CASE x = p /\ g = f /\ live' = [live EXCEPT ![p][f] = @ + 1]
      <4>1. ~Known(x, g)
        <5>1. f \notin ids[p]
          BY <1>0, <2>2, <3>3 DEF CopiesInv, CallsInv, Calling
        <5>2. \A q \in Owners : run[q].post = p => f \notin run[q].ok
          BY <1>0, <1>8
        <5> QED
          BY <3>3, <5>1, <5>2 DEF Known
      <4>2. live'[x][g] = live[x][g] + 1
        BY <1>0, <3>3
      <4>3. Known(x, g)' \/ lost' = lost + 1
        BY <1>2, <1>4, <1>6, <3>3 DEF Known
      <4> QED
        BY <1>0, <1>1, <3>1, <4>1, <4>2, <4>3
    <3>4. CASE live'[x][g] = live[x][g]
      BY <1>0, <1>1, <3>1, <3>2, <3>4
    <3> QED
      BY <1>5, <1>7, <3>1, <3>3, <3>4
  <2>3. \A g \in ids'[x] : live'[x][g] > 0
    BY <1>0, <1>1, <1>7, <2>1 DEF RowsInv, TypeOK
  <2> QED
    BY <1>1, <2>1, <2>2, <2>3 DEF RowsInv
<1>11. RecoverInv'
  <2>1. run'["boot"].pc = run["boot"].pc /\ run'["boot"].post = run["boot"].post
    BY <1>2, <1>6 DEF Owners
  <2> QED
    BY <1>1, <2>1 DEF CopiesInv, RecoverInv
<1> QED
  BY <1>9, <1>10, <1>11 DEF CopiesInv

\* The one commit that stores the answers and lets the post go.
LEMMA StoreCopies ==
  ASSUME TypeOK, PublisherInv, CopiesInv, NEW o \in Owners, run[o].pc \in Calling,
         ids'  = [ids EXCEPT ![run[o].post] = @ \cup run[o].ok],
         errs' = [errs EXCEPT ![run[o].post] = (@ \ run[o].ok) \cup run[o].bad],
         Done(o), UNCHANGED <<live, crashes, lost, timeouts, mode, recovering>>,
         \A x \in Posts : x # run[o].post => status'[x] = status[x],
         ids'[run[o].post] \cap Feed # {} =>
            status'[run[o].post] \in {"published", "expired", "rejected", "skipped"},
         status'[run[o].post] = "published" /\ Feed # {} => ids'[run[o].post] \cap Feed # {}
  PROVE  CopiesInv'
<1> DEFINE p == run[o].post
<1>0. p \in Posts /\ run'[o] = Idle /\ (\A q \in Owners \ {o} : run'[q] = run[q])
      /\ ids \in [Posts -> SUBSET Platforms] /\ errs \in [Posts -> SUBSET Platforms]
  BY DEF TypeOK, Calling, Done
<1>1. CallsInv(o)
  BY DEF CopiesInv
<1>2. ASSUME NEW q \in Owners PROVE CallsInv(q)'
  <2>1. CASE q = o
    BY <1>0, <2>1 DEF CallsInv, Idle, Calling
  <2>2. CASE q # o
    <3>1. run[q].pc \in Publishing => run[q].post # p
      <4>1. Held(o)
        BY CallingSteps DEF Held
      <4> QED
        BY <2>2, <4>1 DEF PublisherInv, Exclusive, OnIt
    <3>2. run[q].pc \in Publishing => ids'[run[q].post] = ids[run[q].post]
      BY <1>0, <3>1 DEF TypeOK, Publishing
    <3>3. CallsInv(q)
      BY DEF CopiesInv
    <3> QED
      BY <1>0, <2>2, <3>2, <3>3 DEF CallsInv, Publishing
  <2> QED
    BY <2>1, <2>2
<1>3. ASSUME NEW x \in Posts PROVE RowsInv(x)'
  <2>1. RowsInv(x)
    BY DEF CopiesInv
  <2>2. ASSUME NEW g \in Feed
        PROVE  live'[x][g] <= (IF Known(x, g)' THEN 1 ELSE 0) + crashes' + lost' + timeouts'[x]
    <3>1. live[x][g] <= (IF Known(x, g) THEN 1 ELSE 0) + crashes + lost + timeouts[x]
      BY <2>1 DEF RowsInv
    <3>2. Known(x, g) => Known(x, g)'
      BY <1>0 DEF Known
    <3>3. live[x][g] \in Nat /\ crashes \in Nat /\ lost \in Nat /\ timeouts[x] \in Nat
      BY LifecycleAssumption DEF TypeOK, Feed
    <3> QED
      BY <3>1, <3>2, <3>3
  <2>3. CASE x = p
    <3>1. ids'[x] = ids[x] \cup run[o].ok /\ errs'[x] = (errs[x] \ run[o].ok) \cup run[o].bad
      BY <1>0, <2>3
    <3>2. ids'[x] \cap errs'[x] \cap Feed = {}
      <4>1. ids[x] \cap run[o].bad \cap Feed = {} /\ run[o].ok \cap run[o].bad = {}
        BY <1>1, <2>3 DEF CallsInv, Calling
      <4> QED
        BY <2>1, <3>1, <4>1 DEF RowsInv
    <3>3. \A g \in ids'[x] : live'[x][g] > 0
      BY <1>1, <2>1, <2>3, <3>1 DEF RowsInv, CallsInv
    <3> QED
      BY <2>2, <2>3, <3>2, <3>3 DEF RowsInv
  <2>4. CASE x # p
    <3>1. ids'[x] = ids[x] /\ errs'[x] = errs[x] /\ status'[x] = status[x]
      BY <1>0, <2>4
    <3> QED
      BY <2>1, <2>2, <3>1 DEF RowsInv
  <2> QED
    BY <2>3, <2>4
<1>4. RecoverInv'
  <2> SUFFICES ASSUME mode' = "republish"
      PROVE /\ run'["boot"].pc \in {"idle", "platforms"}
            /\ \A x \in recovering' :
                 /\ ids'[x] \cap Feed = {}
                 /\ run'["boot"].pc = "platforms" => run'["boot"].post # x
    BY DEF RecoverInv
  <2>1. o = "boot"
    BY CallingSteps DEF PublisherInv, RunsAlone
  <2>2. \A x \in recovering : ids[x] \cap Feed = {} /\ p # x /\ x \in Posts
    BY <2>1, CallingSteps DEF CopiesInv, RecoverInv, TypeOK
  <2>3. \A x \in recovering : ids'[x] = ids[x]
    BY <1>0, <2>2
  <2>4. Idle.pc = "idle"
    BY DEF Idle
  <2> QED
    BY <1>0, <2>1, <2>2, <2>3, <2>4
<1> QED
  BY <1>2, <1>3, <1>4 DEF CopiesInv

LEMMA PublishCopies ==
  ASSUME TypeOK, PublisherInv, CopiesInv, NEW o \in Owners, Publish(o)
  PROVE  CopiesInv'
<1> USE DEF rowVars, jobVars, worldVars, faultVars
<1> DEFINE p == run[o].post
<1>0. status \in [Posts -> Statuses] /\ run[o] \in Tasks
  BY DEF TypeOK
<1>a. ASSUME run[o].pc \in {"quota", "upload", "ready"}
      PROVE  /\ p \in Posts /\ ids[p] \cap Feed = {} /\ run[o].pc \notin Calling
             /\ run[o].todo = {} /\ run[o].ok = {} /\ run[o].bad = {} /\ mode # "republish"
  <2>1. run[o].pc \notin Calling
    BY <1>a DEF Calling
  <2>2. p \in Posts
    BY <1>a DEF TypeOK
  <2>3. mode # "republish"
    BY <1>a, Elsewhere
  <2> QED
    BY <1>a, <2>1, <2>2, <2>3 DEF CopiesInv, CallsInv
\* A write on a post that no feed platform has.
<1>b. ASSUME run[o].pc \in {"quota", "upload", "ready"}, Done(o),
             UNCHANGED <<ids, errs, live, crashes, lost, timeouts, mode>>,
             \/ UNCHANGED status
             \/ \E s \in {"queued", "error"} : status' = [status EXCEPT ![p] = s]
      PROVE  CopiesInv'
  <2>1. \A x \in Posts : status'[x] = status[x] \/ (status'[x] # "published" /\ ids[x] \cap Feed = {})
    BY <1>0, <1>a, <1>b
  <2>2. run[o].pc \notin Calling /\ run[o].pc # "idle"
    BY <1>b DEF Calling
  <2> HIDE DEF p
  <2> QED
    BY <1>b, <2>1, <2>2, QuietStop
<1>1. CASE Quota(o)
  <2>1. run[o].pc = "quota" /\ UNCHANGED <<ids, errs, live, crashes, lost, timeouts, mode>>
    BY <1>1 DEF Quota, At
  <2>2. CASE Goto(o, "upload") /\ UNCHANGED status
    <3>1. "upload" \notin Calling
      BY DEF Calling
    <3> QED
      BY <2>1, <2>2, <3>1, <1>a, QuietGoes
  <2>3. CASE Done(o) /\ (UNCHANGED status \/ status' = [status EXCEPT ![p] = "queued"])
    BY <2>1, <2>3, <1>b
  <2> QED
    BY <1>1, <2>2, <2>3 DEF Quota, Flush
<1>2. CASE UploadOk(o)
  <2> DEFINE m == IF o = "job3" THEN status[p] ELSE run[o].mem
             t == [run[o] EXCEPT !.pc = "ready", !.mem = m]
  <2>1. /\ run' = [run EXCEPT ![o] = t] /\ run[o].pc = "upload"
        /\ UNCHANGED <<status, ids, errs, live, crashes, lost, timeouts, mode>>
    BY <1>2 DEF UploadOk, At
  <2>2. t.pc = "ready" /\ t.post = p /\ t.todo = {} /\ t.ok = {} /\ t.bad = {}
    BY <1>0, <1>a, <2>1 DEF Tasks
  <2>3. t.pc \notin Calling
    BY <2>2 DEF Calling
  <2> HIDE DEF t, p
  <2> QED
    BY <2>1, <2>2, <2>3, <1>a, QuietStep DEF p
<1>3. ASSUME Abort(o), run[o].pc \in {"upload", "ready"} PROVE CopiesInv'
  BY <1>3, <1>b DEF Abort, Flush
<1>4. CASE UploadFail(o) \/ PublishRefused(o)
  BY <1>3, <1>4 DEF UploadFail, PublishRefused, At
<1>5. CASE PublishStart(o)
  <2> DEFINE t == [run[o] EXCEPT !.pc = "platforms", !.mem = "publishing", !.todo = Platforms]
  <2>1. /\ run' = [run EXCEPT ![o] = t] /\ run[o].pc = "ready"
        /\ UNCHANGED <<ids, errs, live, crashes, lost, timeouts, mode>>
        /\ UNCHANGED status \/ status' = [status EXCEPT ![p] = "publishing"]
    BY <1>5 DEF PublishStart, At, Flush
  <2>2. t.pc = "platforms" /\ t.post = p /\ t.mem = "publishing"
        /\ t.todo = Platforms /\ t.ok = {} /\ t.bad = {}
    BY <1>0, <1>a, <2>1 DEF Tasks
  <2> HIDE DEF t
  <2>3. run'[o] = t /\ (\A q \in Owners \ {o} : run'[q] = run[q])
    BY <2>1 DEF TypeOK
  <2>4. ids[p] \cap Feed = {} /\ p \in Posts /\ run[o].ok = {} /\ mode # "republish"
    BY <1>a, <2>1
  <2>5. ASSUME NEW q \in Owners PROVE CallsInv(q)'
    <3>1. CASE q = o
      BY <2>1, <2>2, <2>3, <2>4, <3>1 DEF CallsInv, Calling, Feed
    <3>2. CASE q # o
      BY <2>1, <2>3, <3>2 DEF CopiesInv, CallsInv
    <3> QED
      BY <3>1, <3>2
  <2>6. ASSUME NEW x \in Posts PROVE RowsInv(x)'
    <3>1. \A f \in Feed : Known(x, f)' <=> Known(x, f)
      BY <2>1, <2>2, <2>3, <2>4 DEF Known
    <3>2. RowsInv(x)
      BY DEF CopiesInv
    <3>3. status'[x] = status[x] \/ (status'[x] = "publishing" /\ ids[x] \cap Feed = {})
      BY <1>0, <2>1, <2>4
    <3> QED
      BY <2>1, <3>1, <3>2, <3>3 DEF RowsInv
  <2>7. RecoverInv'
    BY <2>1, <2>4 DEF RecoverInv
  <2> QED
    BY <2>5, <2>6, <2>7 DEF CopiesInv
<1>6. CASE PublishEnd(o)
  <2> DEFINE called == run[o].ok \cup run[o].bad
             s == IF run[o].ok \cap Feed # {} \/ called \cap Feed = {} THEN "published" ELSE "error"
  <2>1. /\ run[o].pc = "platforms" /\ run[o].todo = {} /\ Flush(o, p, s) /\ Done(o)
        /\ ids'  = [ids EXCEPT ![p] = @ \cup run[o].ok]
        /\ errs' = [errs EXCEPT ![p] = (@ \ run[o].ok) \cup run[o].bad]
        /\ UNCHANGED <<live, crashes, lost, timeouts, mode, recovering>>
    BY <1>6 DEF PublishEnd, At
  <2>2. p \in Posts /\ run[o].pc \in Calling
    BY <2>1 DEF TypeOK, Calling
  <2>3. ids[p] \cap Feed = {} /\ run[o].mem = "publishing" /\ Feed \subseteq called
    BY <2>1 DEF CopiesInv, CallsInv
  <2>4. status' = [status EXCEPT ![p] = s]
    BY <2>1, <2>3 DEF Flush
  <2>5. ids'[p] = ids[p] \cup run[o].ok /\ status'[p] = s
    BY <1>0, <2>1, <2>2, <2>4 DEF TypeOK
  <2>6. ids'[p] \cap Feed # {} => s = "published"
    BY <2>3, <2>5
  <2>7. s = "published" /\ Feed # {} => ids'[p] \cap Feed # {}
    BY <2>3, <2>5
  <2>8. \A x \in Posts : x # p => status'[x] = status[x]
    BY <1>0, <2>4
  <2> HIDE DEF s
  <2> QED
    BY <2>1, <2>2, <2>5, <2>6, <2>7, <2>8, StoreCopies
<1> QED
  BY <1>1, <1>2, <1>4, <1>5, <1>6, PlatformCopies DEF Publish


LEMMA HandlerCopies ==
  ASSUME TypeOK, PublisherInv, CopiesInv, Handler
  PROVE  CopiesInv'
<1> USE DEF rowVars, jobVars, worldVars, faultVars
<1> DEFINE p == run["bot"].post
<1>0. "bot" \in Owners /\ status \in [Posts -> Statuses] /\ run["bot"] \in Tasks
  BY DEF TypeOK, Owners
<1>1. CASE GenRefused
  BY <1>0, <1>1, QuietStop DEF GenRefused, At, Calling
<1>2. CASE ApproveLock
  <2> DEFINE t == [run["bot"] EXCEPT !.pc = "quota", !.mem = "approved"]
  <2>1. run["bot"].pc = "approve" /\ run["bot"].pc \notin Calling
        /\ UNCHANGED <<ids, errs, live, crashes, lost, timeouts, mode>>
    BY <1>2 DEF ApproveLock, At, Calling
  <2>2. \A x \in Posts : status'[x] = status[x] \/ (status'[x] # "published" /\ ids[x] \cap Feed = {})
    BY <1>0, <1>2 DEF ApproveLock, CopiesInv, RowsInv
  <2>3. CASE Done("bot")
    BY <1>0, <2>1, <2>2, <2>3, QuietStop
  <2>4. CASE run' = [run EXCEPT !["bot"] = t] /\ status[p] = "pending_approval"
    <3>1. run["bot"].todo = {} /\ run["bot"].ok = {} /\ run["bot"].bad = {}
      BY <1>0, <2>1 DEF CopiesInv, CallsInv
    <3>2. t.pc = "quota" /\ t.post = p /\ t.todo = {} /\ t.ok = {} /\ t.bad = {}
      BY <1>0, <3>1 DEF Tasks
    <3>3. p \in Posts
      BY <1>0, <2>1 DEF TypeOK
    <3>4. ids[p] \cap Feed = {} /\ t.pc \notin Calling
      BY <2>4, <3>2, <3>3 DEF CopiesInv, RowsInv, Calling
    <3>5. mode # "republish"
      BY <1>0, <2>1, Elsewhere
    <3> HIDE DEF t
    <3> QED
      BY <1>0, <2>1, <2>2, <2>4, <3>2, <3>4, <3>5, QuietStep
  <2> QED
    BY <1>2, <2>3, <2>4 DEF ApproveLock
<1>3. CASE QueueCount
  <2>1. /\ run["bot"].pc = "queue" /\ run["bot"].pc \notin Calling
        /\ UNCHANGED <<status, ids, errs, live, crashes, lost, timeouts, mode>>
    BY <1>3 DEF QueueCount, At, Calling
  <2>2. "queue_lock" \notin Calling \cup {"quota", "upload", "ready"}
    BY DEF Calling
  <2> QED
    BY <1>0, <1>3, <2>1, <2>2, QuietStop, QuietGoes DEF QueueCount
<1>4. CASE QueueLock
  <2>1. \A x \in Posts : status'[x] = status[x] \/ (status'[x] # "published" /\ ids[x] \cap Feed = {})
    BY <1>0, <1>4 DEF QueueLock, CopiesInv, RowsInv
  <2> QED
    BY <1>0, <1>4, <2>1, QuietStop DEF QueueLock, At, Calling
<1>5. CASE RejectWrite
  <2>1. \A x \in Posts : status'[x] = status[x] \/ status'[x] = "rejected"
    BY <1>0, <1>5 DEF RejectWrite, Flush
  <2> QED
    BY <1>0, <1>5, <2>1, QuietStop DEF RejectWrite, At, Calling
<1>6. CASE SkipWrite
  <2> DEFINE t == [Idle EXCEPT !.pc = "replace"]
  <2>1. t.pc = "replace" /\ t.todo = {} /\ t.ok = {} /\ t.bad = {} /\ run' = [run EXCEPT !["bot"] = t]
    BY <1>6 DEF SkipWrite, Idle
  <2> HIDE DEF t
  <2>2. \A x \in Posts : status'[x] = status[x] \/ status'[x] = "skipped"
    BY <1>0, <1>6 DEF SkipWrite, Flush
  <2>3. run["bot"].pc = "skip" /\ UNCHANGED <<ids, errs, live, crashes, lost, timeouts, mode>>
    BY <1>6 DEF SkipWrite, At
  <2>4. mode # "republish" /\ run["bot"].pc \notin Calling /\ t.pc \notin Calling
    BY <1>0, <2>1, <2>3, Elsewhere DEF Calling
  <2> QED
    BY <1>0, <2>1, <2>2, <2>3, <2>4, QuietStep
<1>7. CASE RetryLock
  BY <1>7, LockCopies DEF RetryLock, At
<1>8. CASE SingleEnd
  <2>1. /\ run["bot"].pc = "single" /\ Done("bot")
        /\ ids'  = [ids EXCEPT ![p] = @ \cup run["bot"].ok]
        /\ errs' = [errs EXCEPT ![p] = (@ \ run["bot"].ok) \cup run["bot"].bad]
        /\ UNCHANGED <<status, live, crashes, lost, timeouts, mode, recovering>>
    BY <1>8 DEF SingleEnd, At
  <2>2. run["bot"].pc \in Calling /\ p \in Posts
    BY <1>0, <2>1 DEF TypeOK, Calling
  <2>3. status[p] \in {"published", "expired"}
    BY <1>0, <2>1 DEF PublisherInv, HeldStatus, Held, Publishing
  <2>4. status[p] = "published" /\ Feed # {} => ids'[p] \cap Feed # {}
    BY <2>1, <2>2 DEF CopiesInv, RowsInv, TypeOK
  <2> HIDE DEF p
  <2> QED
    BY <1>0, <2>1, <2>2, <2>3, <2>4, StoreCopies DEF p
<1> QED
  BY <1>1, <1>2, <1>3, <1>4, <1>5, <1>6, <1>7, <1>8 DEF Handler

\* /retry_ig and /retry_fb call a platform that has an error, hence no id.
LEMMA AdminCopies ==
  ASSUME TypeOK, PublisherInv, CopiesInv, Admin
  PROVE  CopiesInv'
<1> USE DEF rowVars, jobVars, worldVars, faultVars
<1>0. "bot" \in Owners
  BY DEF Owners
<1>a. ASSUME NEW t, run' = [run EXCEPT !["bot"] = t], Free("bot"),
             t.pc \in Buttons \cup {"sending", "retry"}, t.todo = {}, t.ok = {}, t.bad = {},
             UNCHANGED <<status, ids, errs, live, crashes, lost, timeouts, mode>>
      PROVE  CopiesInv'
  <2>1. mode # "republish" /\ run["bot"].pc \notin Calling
    BY <1>a DEF Free, Busy, Calling
  <2>2. t.pc \notin Calling \cup {"quota", "upload", "ready"}
    BY <1>a DEF Calling, Buttons
  <2> QED
    BY <1>0, <1>a, <2>1, <2>2, QuietStep
<1>1. ASSUME NEW p \in Posts, NEW b \in Buttons, Press(p, b) PROVE CopiesInv'
  <2> DEFINE t == [Idle EXCEPT !.pc = b, !.post = p, !.mem = status[p], !.img = image[p]]
  <2>1. t.pc = b /\ t.todo = {} /\ t.ok = {} /\ t.bad = {}
    BY DEF Idle
  <2>2. /\ run' = [run EXCEPT !["bot"] = t] /\ Free("bot")
        /\ UNCHANGED <<status, ids, errs, live, crashes, lost, timeouts, mode>>
    BY <1>1 DEF Press
  <2> HIDE DEF t
  <2> QED
    BY <2>1, <2>2, <1>a
<1>2. ASSUME NEW p \in Posts, EditCaption(p) PROVE CopiesInv'
  <2> DEFINE t == [Idle EXCEPT !.pc = "sending", !.post = p, !.mem = status[p], !.img = image[p]]
  <2>1. t.pc = "sending" /\ t.todo = {} /\ t.ok = {} /\ t.bad = {}
    BY DEF Idle
  <2>2. /\ run' = [run EXCEPT !["bot"] = t] /\ Free("bot")
        /\ UNCHANGED <<status, ids, errs, live, crashes, lost, timeouts, mode>>
    BY <1>2 DEF EditCaption
  <2> HIDE DEF t
  <2> QED
    BY <2>1, <2>2, <1>a
<1>3. ASSUME NEW p \in Posts, Retry(p) PROVE CopiesInv'
  <2> DEFINE t == [Idle EXCEPT !.pc = "retry", !.post = p]
  <2>1. t.pc = "retry" /\ t.todo = {} /\ t.ok = {} /\ t.bad = {}
    BY DEF Idle
  <2>2. /\ run' = [run EXCEPT !["bot"] = t] /\ Free("bot")
        /\ UNCHANGED <<status, ids, errs, live, crashes, lost, timeouts, mode>>
    BY <1>3 DEF Retry
  <2> HIDE DEF t
  <2> QED
    BY <2>1, <2>2, <1>a
<1>4. ASSUME NEW p \in Posts, NEW f \in Platforms, RetryPlatform(p, f) PROVE CopiesInv'
  <2> DEFINE t == [Idle EXCEPT !.pc = "single", !.post = p, !.mem = "published",
                               !.img = image[p], !.todo = {f}]
  <2>1. t.pc = "single" /\ t.post = p /\ t.todo = {f} /\ t.ok = {} /\ t.bad = {}
    BY DEF Idle
  <2>2. /\ run' = [run EXCEPT !["bot"] = t] /\ Free("bot")
        /\ f \in errs[p] \cap Feed /\ errs' = [errs EXCEPT ![p] = @ \ {f}]
        /\ UNCHANGED <<status, ids, live, crashes, lost, timeouts, mode>>
    BY <1>4 DEF RetryPlatform
  <2> HIDE DEF t
  <2>3. run'["bot"] = t /\ (\A q \in Owners \ {"bot"} : run'[q] = run[q])
    BY <1>0, <2>2 DEF TypeOK
  <2>4. mode = "up" /\ run["bot"].pc = "idle"
    BY <2>2 DEF Free, Busy
  <2>5. run["bot"].ok = {}
    BY <1>0, <2>4, CallingSteps DEF CopiesInv, CallsInv
  <2>6. f \notin ids[p]
    BY <2>2 DEF CopiesInv, RowsInv
  <2>7. ASSUME NEW q \in Owners PROVE CallsInv(q)'
    <3>1. CASE q = "bot"
      BY <2>1, <2>2, <2>3, <2>6, <3>1 DEF CallsInv, Calling
    <3>2. CASE q # "bot"
      BY <2>2, <2>3, <3>2 DEF CopiesInv, CallsInv
    <3> QED
      BY <3>1, <3>2
  <2>8. ASSUME NEW x \in Posts PROVE RowsInv(x)'
    <3>1. \A g \in Feed : Known(x, g)' <=> Known(x, g)
      BY <2>1, <2>2, <2>3, <2>5 DEF Known
    <3>2. errs'[x] \subseteq errs[x]
      BY <2>2 DEF TypeOK
    <3>3. RowsInv(x)
      BY DEF CopiesInv
    <3> QED
      BY <2>2, <3>1, <3>2, <3>3 DEF RowsInv
  <2>9. RecoverInv'
    BY <2>2, <2>4 DEF RecoverInv
  <2> QED
    BY <2>7, <2>8, <2>9 DEF CopiesInv
<1> QED
  BY <1>1, <1>2, <1>3, <1>4 DEF Admin

\* A step that only changes what nothing here depends on.
LEMMA CopiesUntouched ==
  ASSUME CopiesInv, UNCHANGED <<status, ids, errs, run, live, crashes, lost, timeouts>>,
         (mode' = mode /\ recovering' = recovering) \/ mode' # "republish"
  PROVE  CopiesInv'
<1>1. \A o \in Owners : CallsInv(o)'
  BY DEF CopiesInv, CallsInv
<1>2. \A p \in Posts : RowsInv(p)'
  BY DEF CopiesInv, RowsInv, Known
<1>3. RecoverInv'
  BY DEF CopiesInv, RecoverInv
<1> QED
  BY <1>1, <1>2, <1>3 DEF CopiesInv

LEMMA JobsCopies ==
  ASSUME TypeOK, PublisherInv, CopiesInv, Jobs
  PROVE  CopiesInv'
<1> USE DEF rowVars, jobVars, worldVars, faultVars
<1>1. CASE QueueSelect \/ ExpireSelect \/ SweepSelect \/ SweepWrite
  BY <1>1, CopiesUntouched DEF QueueSelect, ExpireSelect, SweepSelect, SweepWrite
<1>2. CASE QueueNext
  <2>1. CASE UNCHANGED run
    BY <1>2, <2>1, CopiesUntouched DEF QueueNext
  <2>2. ASSUME NEW p \in queue,
               run' = [run EXCEPT !["job7"] = [Idle EXCEPT !.pc = "lock", !.post = p]]
        PROVE  CopiesInv'
    <3> DEFINE t == [Idle EXCEPT !.pc = "lock", !.post = p]
    <3>1. t.pc = "lock" /\ t.todo = {} /\ t.ok = {} /\ t.bad = {} /\ run' = [run EXCEPT !["job7"] = t]
      BY <2>2 DEF Idle
    <3> HIDE DEF t
    <3>2. /\ mode # "republish" /\ run["job7"].pc \notin Calling /\ "job7" \in Owners
          /\ UNCHANGED <<status, ids, errs, live, crashes, lost, timeouts, mode>>
      BY <1>2 DEF QueueNext, Free, Busy, Calling, Owners
    <3>3. t.pc \notin Calling \cup {"quota", "upload", "ready"}
      BY <3>1 DEF Calling
    <3> QED
      BY <3>1, <3>2, <3>3, QuietStep
  <2> QED
    BY <1>2, <2>1, <2>2 DEF QueueNext
<1>3. CASE DequeueLock
  BY <1>3, LockCopies DEF DequeueLock, At
<1>4. CASE ExpireWrite
  <2>1. \A p \in Posts : status'[p] \in {status[p], "expired"}
    BY <1>4 DEF ExpireWrite
  <2>2. UNCHANGED <<ids, errs, run, live, crashes, lost, timeouts, mode, recovering>>
    BY <1>4 DEF ExpireWrite
  <2>3. \A o \in Owners : CallsInv(o)'
    BY <2>2 DEF CopiesInv, CallsInv
  <2>4. \A p \in Posts : RowsInv(p)'
    BY <2>1, <2>2 DEF CopiesInv, RowsInv, Known
  <2>5. RecoverInv'
    BY <2>2 DEF CopiesInv, RecoverInv
  <2> QED
    BY <2>3, <2>4, <2>5 DEF CopiesInv
<1> QED
  BY <1>1, <1>2, <1>3, <1>4 DEF Jobs

\* What recovery selects has no id on a feed platform: the row that a crash
\* left in the middle of a publication had nothing stored.
LEMMA RecoveryCopies ==
  ASSUME TypeOK, PublisherInv, CopiesInv, Recovery
  PROVE  CopiesInv'
<1> USE DEF rowVars, jobVars, worldVars, faultVars
<1>0. "boot" \in Owners /\ status \in [Posts -> Statuses]
  BY DEF TypeOK, Owners
<1>1. CASE Restart
  <2>1. /\ mode = "down" /\ UNCHANGED <<ids, errs, run, live, crashes, lost, timeouts>>
        /\ recovering' = {p \in Posts : status[p] \in {"publishing", "approved"} /\ url[p]}
        /\ \A p \in Posts : status'[p] = IF status[p] = "publishing" THEN "approved" ELSE status[p]
    BY <1>1 DEF Restart
  <2>2. \A o \in Owners : CallsInv(o)'
    BY <2>1 DEF CopiesInv, CallsInv
  <2>3. \A p \in Posts : RowsInv(p)'
    BY <2>1 DEF CopiesInv, RowsInv, Known
  <2>4. \A o \in Owners : run[o].pc = "idle"
    BY <2>1 DEF PublisherInv, RunsAlone
  <2>5. \A p \in recovering' : ids[p] \cap Feed = {} /\ p \in Posts
    BY <2>1 DEF CopiesInv, RowsInv
  <2>6. RecoverInv'
    BY <1>0, <2>1, <2>4, <2>5 DEF RecoverInv
  <2> QED
    BY <2>2, <2>3, <2>6 DEF CopiesInv
<1>2. CASE ResendSelect \/ Ready
  BY <1>2, CopiesUntouched DEF ResendSelect, Ready
<1>3. ASSUME NEW p \in Posts, Republish(p) PROVE CopiesInv'
  <2> DEFINE t == [Idle EXCEPT !.pc = "platforms", !.post = p, !.mem = "publishing",
                               !.img = image[p], !.todo = Platforms \ ids[p]]
  <2>0. t.pc = "platforms" /\ t.post = p /\ t.mem = "publishing"
        /\ t.todo = Platforms \ ids[p] /\ t.ok = {} /\ t.bad = {}
    BY DEF Idle
  <2>1. /\ mode = "republish" /\ run["boot"].pc = "idle" /\ p \in recovering
        /\ recovering' = recovering \ {p}
        /\ UNCHANGED <<ids, errs, live, crashes, lost, timeouts, mode>>
    BY <1>3 DEF Republish, Busy
  <2>2. ids[p] \cap Feed = {} /\ ids[p] \subseteq Platforms
    BY <2>1 DEF CopiesInv, RecoverInv, TypeOK
  <2>3. ~({"instagram", "facebook"} \subseteq ids[p])
    BY <2>2 DEF Feed
  <2>4. \/ UNCHANGED <<status, run>>
        \/ /\ status' = [status EXCEPT ![p] = "publishing"]
           /\ run' = [run EXCEPT !["boot"] = t]
    BY <1>3, <2>3 DEF Republish
  <2> HIDE DEF t
  <2>5. CASE UNCHANGED <<status, run>>
    <3>1. \A o \in Owners : CallsInv(o)'
      BY <2>1, <2>5 DEF CopiesInv, CallsInv
    <3>2. \A x \in Posts : RowsInv(x)'
      BY <2>1, <2>5 DEF CopiesInv, RowsInv, Known
    <3>3. RecoverInv'
      BY <2>1, <2>5 DEF CopiesInv, RecoverInv
    <3> QED
      BY <3>1, <3>2, <3>3 DEF CopiesInv
  <2>6. CASE status' = [status EXCEPT ![p] = "publishing"] /\ run' = [run EXCEPT !["boot"] = t]
    <3>1. run'["boot"] = t /\ (\A q \in Owners \ {"boot"} : run'[q] = run[q])
      BY <1>0, <2>6 DEF TypeOK
    <3>2. run["boot"].ok = {}
      BY <1>0, <2>1, CallingSteps DEF CopiesInv, CallsInv
    <3>3. ASSUME NEW q \in Owners PROVE CallsInv(q)'
      <4>1. CASE q = "boot"
        BY <2>0, <2>1, <2>2, <3>1, <4>1 DEF CallsInv, Calling, Feed
      <4>2. CASE q # "boot"
        BY <2>1, <3>1, <4>2 DEF CopiesInv, CallsInv
      <4> QED
        BY <4>1, <4>2
    <3>4. ASSUME NEW x \in Posts PROVE RowsInv(x)'
      <4>1. \A g \in Feed : Known(x, g)' <=> Known(x, g)
        BY <2>0, <2>1, <3>1, <3>2 DEF Known
      <4>2. RowsInv(x)
        BY DEF CopiesInv
      <4>3. status'[x] = status[x] \/ (status'[x] = "publishing" /\ ids[x] \cap Feed = {})
        BY <1>0, <2>2, <2>6
      <4> QED
        BY <2>1, <4>1, <4>2, <4>3 DEF RowsInv
    <3>5. RecoverInv'
      BY <2>0, <2>1, <3>1 DEF CopiesInv, RecoverInv
    <3> QED
      BY <3>3, <3>4, <3>5 DEF CopiesInv
  <2> QED
    BY <2>4, <2>5, <2>6
<1>4. ASSUME NEW p \in Posts, Resend(p) PROVE CopiesInv'
  <2> DEFINE t == [Idle EXCEPT !.pc = "sending", !.post = p, !.mem = status[p], !.img = image[p]]
  <2>1. t.pc = "sending" /\ t.todo = {} /\ t.ok = {} /\ t.bad = {}
    BY DEF Idle
  <2>2. /\ run' = [run EXCEPT !["boot"] = t] /\ mode # "republish" /\ run["boot"].pc \notin Calling
        /\ UNCHANGED <<status, ids, errs, live, crashes, lost, timeouts, mode>>
    BY <1>4 DEF Resend, Busy, Calling
  <2> HIDE DEF t
  <2>3. t.pc \notin Calling \cup {"quota", "upload", "ready"}
    BY <2>1 DEF Calling
  <2> QED
    BY <1>0, <2>1, <2>2, <2>3, QuietStep
<1> QED
  BY <1>1, <1>2, <1>3, <1>4 DEF Recovery

\* A crash loses at most one answer of each platform about each post.
LEMMA CrashCopies ==
  ASSUME TypeOK, CopiesInv, Crash
  PROVE  CopiesInv'
<1> USE DEF rowVars, worldVars
<1>1. /\ \A o \in Owners : run'[o] = Idle
      /\ crashes' = crashes + 1 /\ mode' = "down"
      /\ UNCHANGED <<status, ids, errs, live, lost, timeouts>>
  BY DEF Crash
<1>2. ASSUME NEW o \in Owners PROVE CallsInv(o)'
  BY <1>1 DEF CallsInv, Idle, Calling
<1>3. ASSUME NEW p \in Posts PROVE RowsInv(p)'
  <2>1. RowsInv(p)
    BY DEF CopiesInv
  <2>2. ASSUME NEW f \in Feed
        PROVE  live[p][f] <= (IF Known(p, f)' THEN 1 ELSE 0) + crashes' + lost' + timeouts'[p]
    <3>1. live[p][f] <= (IF Known(p, f) THEN 1 ELSE 0) + crashes + lost + timeouts[p]
      BY <2>1 DEF RowsInv
    <3>2. live[p][f] \in Nat /\ crashes \in Nat /\ lost \in Nat /\ timeouts[p] \in Nat
      BY LifecycleAssumption DEF TypeOK, Feed
    <3> QED
      BY <1>1, <3>1, <3>2
  <2> QED
    BY <1>1, <2>1, <2>2 DEF RowsInv
<1>4. RecoverInv'
  BY <1>1 DEF RecoverInv
<1> QED
  BY <1>2, <1>3, <1>4 DEF CopiesInv

\* A write that finds the database locked loses what the platforms answered
\* about the post that it was about.
LEMMA LockTimeoutCopies ==
  ASSUME TypeOK, CopiesInv, NEW o \in Owners, LockTimeout(o)
  PROVE  CopiesInv'
<1> USE DEF rowVars, worldVars
<1> DEFINE p == run[o].post
<1>1. /\ p \in Posts /\ timeouts \in [Posts -> Nat] /\ crashes \in Nat /\ lost \in Nat
      /\ run[o].pc # "idle" /\ run \in [Owners -> Tasks]
  BY LifecycleAssumption DEF TypeOK, LockTimeout, Writing, At
<1>2. /\ timeouts' = [timeouts EXCEPT ![p] = @ + 1] /\ run' = [run EXCEPT ![o] = Idle]
      /\ UNCHANGED <<status, ids, errs, live, crashes, lost, mode, recovering>>
  BY DEF LockTimeout, Done
<1>3. /\ Idle.pc = "idle" /\ Idle.todo = {} /\ Idle.ok = {} /\ Idle.bad = {}
      /\ "idle" \notin Calling \cup {"quota", "upload", "ready"}
  BY DEF Idle, Calling
<1> HIDE DEF Idle
<1>4. run'[o] = Idle /\ \A q \in Owners \ {o} : run'[q] = run[q]
  BY <1>1, <1>2
<1>5. ASSUME NEW q \in Owners PROVE CallsInv(q)'
  <2>1. CASE q = o
    BY <1>3, <1>4, <2>1 DEF CallsInv, Calling
  <2>2. CASE q # o
    BY <1>2, <1>4, <2>2 DEF CopiesInv, CallsInv
  <2> QED
    BY <2>1, <2>2
<1>6. ASSUME NEW x \in Posts PROVE RowsInv(x)'
  <2>1. RowsInv(x)
    BY DEF CopiesInv
  <2>2. ASSUME NEW g \in Feed
        PROVE  live[x][g] <= (IF Known(x, g)' THEN 1 ELSE 0) + crashes' + lost' + timeouts'[x]
    <3>1. live[x][g] <= (IF Known(x, g) THEN 1 ELSE 0) + crashes + lost + timeouts[x]
      BY <2>1 DEF RowsInv
    <3>2. live[x][g] \in Nat
      BY DEF TypeOK, Feed
    <3>3. CASE x = p
      <4>1. timeouts'[x] = timeouts[x] + 1
        BY <1>1, <1>2, <3>3
      <4> QED
        BY <1>1, <1>2, <3>1, <3>2, <4>1
    <3>4. CASE x # p
      <4>1. timeouts'[x] = timeouts[x]
        BY <1>1, <1>2, <3>4
      <4>2. Known(x, g) => Known(x, g)'
        BY <1>2, <1>4, <3>4 DEF Known
      <4> QED
        BY <1>1, <1>2, <3>1, <3>2, <4>1, <4>2
    <3> QED
      BY <3>3, <3>4
  <2> QED
    BY <1>2, <2>1, <2>2 DEF RowsInv
<1>7. RecoverInv'
  <2>1. run'["boot"] = run["boot"] \/ run'["boot"].pc = "idle"
    BY <1>3, <1>4 DEF Owners
  <2> QED
    BY <1>2, <2>1 DEF CopiesInv, RecoverInv
<1> QED
  BY <1>5, <1>6, <1>7 DEF CopiesInv

LEMMA ContentionCopies ==
  ASSUME TypeOK, CopiesInv, Contention
  PROVE  CopiesInv'
<1>1. ASSUME NEW p \in Posts, RepublishTimeout(p) PROVE CopiesInv'
  <2>1. UNCHANGED <<status, ids, errs, run, live, crashes, lost, mode>> /\ recovering' \subseteq recovering
        /\ timeouts' = [timeouts EXCEPT ![p] = @ + 1]
    BY <1>1 DEF RepublishTimeout, rowVars, worldVars
  <2>2. ASSUME NEW x \in Posts PROVE RowsInv(x)'
    <3>1. RowsInv(x) /\ UNCHANGED <<status, ids, errs, live, crashes, lost>>
      BY <2>1 DEF CopiesInv
    <3>2. ASSUME NEW g \in Feed PROVE Known(x, g)' = Known(x, g)
      BY <2>1 DEF Known
    <3>3. /\ timeouts[x] \in Nat /\ timeouts'[x] \in {timeouts[x], timeouts[x] + 1}
          /\ crashes \in Nat /\ lost \in Nat
      BY <2>1, LifecycleAssumption DEF TypeOK
    <3>4. \A g \in Feed : live[x][g] \in Nat
      BY DEF TypeOK, Feed
    <3>5. \A g \in Feed :
            live'[x][g] <= (IF Known(x, g)' THEN 1 ELSE 0) + crashes' + lost' + timeouts'[x]
      BY <3>1, <3>2, <3>3, <3>4 DEF RowsInv
    <3> QED
      BY <3>1, <3>5 DEF RowsInv
  <2>3. \A o \in Owners : CallsInv(o)'
    BY <2>1 DEF CopiesInv, CallsInv
  <2>4. RecoverInv'
    BY <2>1 DEF CopiesInv, RecoverInv
  <2> QED
    BY <2>2, <2>3, <2>4 DEF CopiesInv
<1>2. CASE ExpireTimeout
  BY <1>2, CopiesUntouched DEF ExpireTimeout, rowVars, worldVars, faultVars
<1> QED
  BY <1>1, <1>2, LockTimeoutCopies DEF Contention

LEMMA NextCopies == TypeOK /\ PublisherInv /\ CopiesInv /\ [Next]_vars => CopiesInv'
<1> SUFFICES ASSUME TypeOK, PublisherInv, CopiesInv, [Next]_vars PROVE CopiesInv'
  OBVIOUS
<1>1. CASE Environment
  <2>1. CASE Suspend \/ Lift \/ \E p \in Posts : Age(p)
    BY <2>1, CopiesUntouched DEF Suspend, Lift, Age, rowVars, jobVars, worldVars, faultVars
  <2> QED
    BY <1>1, <2>1, CrashCopies DEF Environment
<1>2. CASE UNCHANGED vars
  BY <1>2, CopiesUntouched DEF vars, rowVars, jobVars, worldVars, faultVars
<1> QED
  BY <1>1, <1>2, GenerateCopies, PublishCopies, HandlerCopies, AdminCopies,
     JobsCopies, RecoveryCopies, ContentionCopies DEF Next

LEMMA InitCopies == Init => CopiesInv
<1> SUFFICES ASSUME Init PROVE CopiesInv
  OBVIOUS
<1>1. \A o \in Owners : CallsInv(o)
  BY DEF Init, CallsInv, Idle, Calling
<1>2. \A p \in Posts : RowsInv(p)
  BY DEF Init, RowsInv, Feed
<1>3. RecoverInv
  BY DEF Init, RecoverInv
<1> QED
  BY <1>1, <1>2, <1>3 DEF CopiesInv

\* Only the answer of a platform adds a copy.
LEMMA OnlyPlatformsCopy ==
  ASSUME [Next]_vars,
         \A o \in Owners, f \in Platforms : ~Platform(o, f)
  PROVE  UNCHANGED live
<1> USE DEF rowVars, jobVars, worldVars, faultVars
<1>1. ASSUME NEW o \in Owners, Generate(o) PROVE UNCHANGED live
  BY <1>1 DEF Generate, GenStart, GenEmpty, GenInsert, Send, Record
<1>2. ASSUME NEW o \in Owners, Publish(o) PROVE UNCHANGED live
  BY <1>2 DEF Publish, Quota, UploadOk, UploadFail, PublishRefused, PublishStart, PublishEnd, Abort
<1>3. CASE Handler
  BY <1>3 DEF Handler, GenRefused, ApproveLock, QueueCount, QueueLock, RejectWrite, SkipWrite,
              RetryLock, Lock, SingleEnd
<1>4. CASE Admin
  BY <1>4 DEF Admin, Press, EditCaption, Retry, RetryPlatform
<1>5. CASE Jobs
  BY <1>5 DEF Jobs, QueueSelect, QueueNext, DequeueLock, Lock, ExpireSelect, ExpireWrite,
              SweepSelect, SweepWrite
<1>6. CASE Recovery
  BY <1>6 DEF Recovery, Restart, ResendSelect, Ready, Republish, Resend
<1>7. CASE Environment
  BY <1>7 DEF Environment, Crash, Suspend, Lift, Age
<1>8. CASE UNCHANGED vars
  BY <1>8 DEF vars
<1>9. CASE Contention
  BY <1>9, Contended
<1> QED
  BY <1>1, <1>2, <1>3, <1>4, <1>5, <1>6, <1>7, <1>8, <1>9 DEF Next

LEMMA CopiesAlways == Spec => [](TypeOK /\ PublisherInv /\ CopiesInv)
  BY InitTypeOK, NextTypeOK, InitPublisher, NextPublisher, InitCopies, NextCopies, PTL DEF Spec

\* A copy on a feed platform is repeated only when a crash, a lost answer or a
\* locked database kept the first one from being stored.
THEOREM CopiesBounded == Spec => []AtMostOnce
<1>1. TypeOK /\ CopiesInv => AtMostOnce
  <2> SUFFICES ASSUME TypeOK, CopiesInv, NEW p \in Posts, NEW f \in Feed
               PROVE  live[p][f] <= 1 + crashes + lost + timeouts[p]
    BY DEF AtMostOnce
  <2>1. live[p][f] <= (IF Known(p, f) THEN 1 ELSE 0) + crashes + lost + timeouts[p]
    BY DEF CopiesInv, RowsInv
  <2>2. live[p][f] \in Nat /\ crashes \in Nat /\ lost \in Nat /\ timeouts[p] \in Nat
    BY LifecycleAssumption DEF TypeOK, Feed
  <2> QED
    BY <2>1, <2>2
<1> QED
  BY <1>1, CopiesAlways, PTL

\* A stored id stands for a copy, and 'published' for one on a feed platform.
THEOREM RecordsHonest == Spec => []RecordsAreReal
<1>1. CopiesInv => RecordsAreReal
  BY DEF CopiesInv, RowsInv, RecordsAreReal, Feed
<1> QED
  BY <1>1, CopiesAlways, PTL

\* [SC-4] Recovery, /retry, /retry_ig and /retry_fb never call a feed platform
\* whose id is stored.
THEOREM NeverRepeated == Spec => RecordedOnce
<1>1. ASSUME TypeOK, CopiesInv, [Next]_vars, NEW p \in Posts, NEW f \in Feed, f \in ids[p]
      PROVE  live'[p][f] = live[p][f]
  <2>1. CASE \E o \in Owners, g \in Platforms : Platform(o, g)
    <3>1. PICK o \in Owners, g \in Platforms : Platform(o, g)
      BY <2>1
    <3>2. g \in run[o].todo /\ run[o].pc \in Calling
      BY <1>1, <3>1 DEF Platform, CopiesInv, CallsInv
    <3>3. ~(run[o].post = p /\ g = f)
      BY <1>1, <3>2 DEF CopiesInv, CallsInv, Calling
    <3>4. live' = live \/ live' = [live EXCEPT ![run[o].post][g] = @ + 1]
      BY <3>1 DEF Platform
    <3>5. run[o].post \in Posts /\ live \in [Posts -> [Platforms -> Nat]] /\ f \in Platforms
      BY <1>1, <3>2 DEF TypeOK, Calling, Feed
    <3> QED
      BY <3>3, <3>4, <3>5
  <2>2. CASE \A o \in Owners, g \in Platforms : ~Platform(o, g)
    BY <1>1, <2>2, OnlyPlatformsCopy
  <2> QED
    BY <2>1, <2>2
<1>2. TypeOK /\ CopiesInv /\ [Next]_vars
        => [\A p \in Posts : \A f \in Feed : f \in ids[p] => live'[p][f] = live[p][f]]_vars
  BY <1>1
<1> QED
  BY <1>2, CopiesAlways, PTL DEF Spec, RecordedOnce

-----------------------------------------------------------------------------
(* What /retry_ig and /retry_fb find.                                      *)

\* The platforms of a command under way on p: their error is erased already.
Retrying(p) ==
    IF At("bot", "single") /\ run["bot"].post = p
      THEN run["bot"].todo \cup run["bot"].ok \cup run["bot"].bad ELSE {}

\* Until a crash or a locked database, a feed platform that a published post
\* misses is in error or is being tried again.
RetryInv ==
    crashes = 0 =>
        \A p \in Posts :
            status[p] = "published" /\ timeouts[p] = 0 => Feed \subseteq ids[p] \cup errs[p] \cup Retrying(p)

\* Steps that publish nothing, store nothing and do not disturb such a command.
LEMMA RetryUntouched ==
  ASSUME RetryInv, UNCHANGED <<ids, errs, timeouts>>, crashes' = 0 => crashes = 0,
         \A p \in Posts : status'[p] = "published" => status[p] = "published",
         run["bot"].pc = "single" => run'["bot"] = run["bot"]
  PROVE  RetryInv'
BY DEF RetryInv, Retrying, At

LEMMA OthersMove ==
  ASSUME TypeOK, NEW o \in Owners, o # "bot" \/ run["bot"].pc # "single",
         Done(o) \/ \E t : run' = [run EXCEPT ![o] = t]
  PROVE  run["bot"].pc = "single" => run'["bot"] = run["bot"]
BY DEF TypeOK, Done, Owners

LEMMA PublishRetry ==
  ASSUME TypeOK, CopiesInv, RetryInv, NEW o \in Owners, Publish(o)
  PROVE  RetryInv'
<1> USE DEF rowVars, jobVars, worldVars, faultVars
<1>0. status \in [Posts -> Statuses] /\ run[o] \in Tasks
  BY DEF TypeOK
<1>a. ASSUME UNCHANGED <<ids, errs, crashes, timeouts>>, run[o].pc # "single",
             Done(o) \/ \E t : run' = [run EXCEPT ![o] = t],
             UNCHANGED status \/ \E s \in {"queued", "error", "publishing"} : status' = [status EXCEPT ![run[o].post] = s]
      PROVE  RetryInv'
  <2>1. \A p \in Posts : status'[p] = "published" => status[p] = "published"
    BY <1>0, <1>a
  <2>2. run["bot"].pc = "single" => run'["bot"] = run["bot"]
    BY <1>a, OthersMove
  <2> QED
    BY <1>a, <2>1, <2>2, RetryUntouched
<1>1. CASE Quota(o)
  BY <1>1, <1>a DEF Quota, At, Goto, Flush
<1>2. CASE UploadOk(o)
  BY <1>2, <1>a DEF UploadOk, At
<1>3. CASE UploadFail(o) \/ PublishRefused(o)
  BY <1>3, <1>a DEF UploadFail, PublishRefused, Abort, At, Flush
<1>4. CASE PublishStart(o)
  BY <1>4, <1>a DEF PublishStart, At, Flush
<1>5. CASE PublishEnd(o)
  <2> DEFINE p == run[o].post
             s == IF run[o].ok \cap Feed # {} \/ (run[o].ok \cup run[o].bad) \cap Feed = {}
                    THEN "published" ELSE "error"
  <2>1. /\ run[o].pc = "platforms" /\ run[o].todo = {} /\ Flush(o, p, s) /\ Done(o)
        /\ ids'  = [ids EXCEPT ![p] = @ \cup run[o].ok]
        /\ errs' = [errs EXCEPT ![p] = (@ \ run[o].ok) \cup run[o].bad]
        /\ UNCHANGED <<crashes, timeouts>>
    BY <1>5 DEF PublishEnd, At
  <2>2. Feed \subseteq run[o].ok \cup run[o].bad
    BY <2>1 DEF CopiesInv, CallsInv
  <2>3. ids \in [Posts -> SUBSET Platforms] /\ errs \in [Posts -> SUBSET Platforms] /\ p \in Posts
    BY <2>1 DEF TypeOK
  <2>4. Feed \subseteq ids'[p] \cup errs'[p]
    BY <2>1, <2>2, <2>3
  <2>5. run["bot"].pc = "single" => run'["bot"] = run["bot"]
    BY <2>1, OthersMove
  <2>6. \A x \in Posts : x # p => ids'[x] = ids[x] /\ errs'[x] = errs[x] /\ status'[x] = status[x]
    BY <1>0, <2>1, <2>3 DEF Flush
  <2> HIDE DEF p
  <2> QED
    BY <2>1, <2>4, <2>5, <2>6 DEF RetryInv, Retrying, At
<1>6. ASSUME NEW f \in Platforms, Platform(o, f) PROVE RetryInv'
  <2>1. UNCHANGED <<status, ids, errs, crashes, timeouts>> /\ f \in run[o].todo
    BY <1>6 DEF Platform
  <2>2. PICK t : /\ run' = [run EXCEPT ![o] = t]
                 /\ t.pc = run[o].pc /\ t.post = run[o].post
                 /\ t.todo \cup t.ok \cup t.bad = run[o].todo \cup run[o].ok \cup run[o].bad
    <3> DEFINE todo == run[o].todo \ {f}
               good == [run[o] EXCEPT !.todo = todo, !.ok = run[o].ok \cup {f}]
               fail == [run[o] EXCEPT !.todo = todo, !.bad = run[o].bad \cup {f}]
    <3>1. run' = [run EXCEPT ![o] = good] \/ run' = [run EXCEPT ![o] = fail]
      BY <1>6 DEF Platform
    <3>2. /\ good.pc = run[o].pc /\ good.post = run[o].post
          /\ good.todo \cup good.ok \cup good.bad = run[o].todo \cup run[o].ok \cup run[o].bad
          /\ fail.pc = run[o].pc /\ fail.post = run[o].post
          /\ fail.todo \cup fail.ok \cup fail.bad = run[o].todo \cup run[o].ok \cup run[o].bad
      BY <1>0, <2>1 DEF Tasks
    <3> HIDE DEF good, fail
    <3> QED
      BY <3>1, <3>2
  <2>3. /\ run'["bot"].pc = run["bot"].pc /\ run'["bot"].post = run["bot"].post
        /\ run'["bot"].todo \cup run'["bot"].ok \cup run'["bot"].bad
             = run["bot"].todo \cup run["bot"].ok \cup run["bot"].bad
    BY <2>2 DEF TypeOK, Owners
  <2> QED
    BY <2>1, <2>3 DEF RetryInv, Retrying, At
<1> QED
  BY <1>1, <1>2, <1>3, <1>4, <1>5, <1>6 DEF Publish

LEMMA NextRetry == TypeOK /\ CopiesInv /\ RetryInv /\ [Next]_vars => RetryInv'
<1> SUFFICES ASSUME TypeOK, CopiesInv, RetryInv, [Next]_vars PROVE RetryInv'
  OBVIOUS
<1> USE DEF rowVars, jobVars, worldVars, faultVars
<1>0. status \in [Posts -> Statuses] /\ "bot" \in Owners /\ "job7" \in Owners /\ "boot" \in Owners
  BY DEF TypeOK, Owners
\* A coroutine without a command of that kind moves, and publishes nothing.
<1>a. ASSUME UNCHANGED <<ids, errs, crashes, timeouts>>, NEW o \in Owners,
             o # "bot" \/ run["bot"].pc # "single",
             Done(o) \/ \E t : run' = [run EXCEPT ![o] = t],
             \/ UNCHANGED status
             \/ \E p, s : s # "published" /\ status' = [status EXCEPT ![p] = s]
      PROVE  RetryInv'
  <2>1. \A p \in Posts : status'[p] = "published" => status[p] = "published"
    BY <1>0, <1>a
  <2>2. run["bot"].pc = "single" => run'["bot"] = run["bot"]
    BY <1>a, OthersMove
  <2> QED
    BY <1>a, <2>1, <2>2, RetryUntouched
<1>b. ASSUME NEW o \in {"bot", "job7"}, run[o].pc # "single", NEW from, Lock(o, from)
      PROVE  RetryInv'
  BY <1>0, <1>a, <1>b DEF Lock
<1>1. ASSUME NEW o \in Owners, Generate(o) PROVE RetryInv'
  <2>1. CASE GenStart(o)
    BY <2>1, <1>a DEF GenStart, Free, Busy, At, Goto
  <2>2. CASE GenEmpty(o) \/ Record(o)
    BY <2>2, <1>a DEF GenEmpty, Record, At
  <2>3. CASE GenInsert(o)
    <3>1. /\ \E t : run' = [run EXCEPT ![o] = t]
          /\ \E p : status' = [status EXCEPT ![p] = "pending_approval"]
          /\ run[o].pc # "single" /\ UNCHANGED <<ids, errs, crashes, timeouts>>
      BY <2>3 DEF GenInsert, At
    <3> QED
      BY <3>1, <1>a
  <2>4. CASE Send(o)
    BY <2>4, <1>a DEF Send, At, Goto
  <2> QED
    BY <1>1, <2>1, <2>2, <2>3, <2>4 DEF Generate
<1>2. CASE Handler
  <2>1. CASE GenRefused
    BY <1>0, <2>1, <1>a DEF GenRefused, At
  <2>2. CASE ApproveLock
    <3>1. /\ Done("bot") \/ \E t : run' = [run EXCEPT !["bot"] = t]
          /\ UNCHANGED status \/ status' = [status EXCEPT ![run["bot"].post] = "approved"]
          /\ run["bot"].pc # "single" /\ UNCHANGED <<ids, errs, crashes, timeouts>>
      BY <2>2 DEF ApproveLock, At
    <3> QED
      BY <1>0, <3>1, <1>a
  <2>3. CASE QueueCount
    BY <1>0, <2>3, <1>a DEF QueueCount, At, Goto
  <2>4. CASE QueueLock
    <3>1. UNCHANGED status \/ status' = [status EXCEPT ![run["bot"].post] = "queued"]
      BY <2>4 DEF QueueLock
    <3> QED
      BY <1>0, <2>4, <3>1, <1>a DEF QueueLock, At
  <2>5. CASE RejectWrite
    BY <1>0, <2>5, <1>a DEF RejectWrite, At, Flush
  <2>6. CASE SkipWrite
    BY <1>0, <2>6, <1>a DEF SkipWrite, At, Flush
  <2>7. CASE RetryLock
    BY <2>7, <1>b DEF RetryLock, At
  <2>8. CASE SingleEnd
    <3> DEFINE p == run["bot"].post
    <3>1. /\ run["bot"].pc = "single" /\ run["bot"].todo = {} /\ p \in Posts
          /\ ids \in [Posts -> SUBSET Platforms] /\ errs \in [Posts -> SUBSET Platforms]
      BY <1>0, <2>8 DEF SingleEnd, At, TypeOK
    <3>2. /\ ids'  = [ids EXCEPT ![p] = @ \cup run["bot"].ok]
          /\ errs' = [errs EXCEPT ![p] = (@ \ run["bot"].ok) \cup run["bot"].bad]
          /\ UNCHANGED <<status, crashes, timeouts>>
      BY <2>8 DEF SingleEnd
    <3>3. ASSUME NEW x \in Posts
          PROVE  ids[x] \cup errs[x] \cup Retrying(x) \subseteq ids'[x] \cup errs'[x]
      <4>1. CASE x = p
        BY <3>1, <3>2, <4>1 DEF Retrying, At
      <4>2. CASE x # p
        BY <3>1, <3>2, <4>2 DEF Retrying
      <4> QED
        BY <4>1, <4>2
    <3> QED
      BY <3>2, <3>3 DEF RetryInv
  <2> QED
    BY <1>2, <2>1, <2>2, <2>3, <2>4, <2>5, <2>6, <2>7, <2>8 DEF Handler
<1>3. CASE Admin
  <2>1. ASSUME NEW p \in Posts, NEW b \in Buttons, Press(p, b) PROVE RetryInv'
    BY <1>0, <2>1, <1>a DEF Press, Free, Busy
  <2>2. ASSUME NEW p \in Posts, EditCaption(p) \/ Retry(p) PROVE RetryInv'
    BY <1>0, <2>2, <1>a DEF EditCaption, Retry, Free, Busy
  <2>3. ASSUME NEW p \in Posts, NEW f \in Platforms, RetryPlatform(p, f) PROVE RetryInv'
    <3> DEFINE t == [Idle EXCEPT !.pc = "single", !.post = p, !.mem = "published",
                                 !.img = image[p], !.todo = {f}]
    <3>1. t.pc = "single" /\ t.post = p /\ t.todo = {f}
      BY DEF Idle
    <3>2. /\ run' = [run EXCEPT !["bot"] = t] /\ run["bot"].pc = "idle"
          /\ errs' = [errs EXCEPT ![p] = @ \ {f}] /\ UNCHANGED <<status, ids, crashes, timeouts>>
      BY <2>3 DEF RetryPlatform, Free, Busy
    <3> HIDE DEF t
    <3>3. run'["bot"] = t
      BY <1>0, <3>2 DEF TypeOK
    <3>4. ASSUME NEW x \in Posts
          PROVE  errs[x] \cup Retrying(x) \subseteq errs'[x] \cup Retrying(x)'
      <4>1. CASE x = p
        BY <3>1, <3>2, <3>3, <4>1 DEF Retrying, At, TypeOK
      <4>2. CASE x # p
        BY <3>1, <3>2, <3>3, <4>2 DEF Retrying, At, TypeOK
      <4> QED
        BY <4>1, <4>2
    <3> QED
      BY <3>2, <3>4 DEF RetryInv
  <2> QED
    BY <1>3, <2>1, <2>2, <2>3 DEF Admin
<1>4. CASE Jobs
  <2>1. CASE QueueSelect \/ ExpireSelect \/ SweepSelect \/ SweepWrite \/ ExpireWrite
    BY <2>1, RetryUntouched DEF QueueSelect, ExpireSelect, SweepSelect, SweepWrite, ExpireWrite
  <2>2. CASE QueueNext
    <3>1. CASE UNCHANGED run
      BY <2>2, <3>1, RetryUntouched DEF QueueNext
    <3>2. CASE \E t : run' = [run EXCEPT !["job7"] = t]
      BY <1>0, <2>2, <3>2, <1>a DEF QueueNext
    <3> QED
      BY <2>2, <3>1, <3>2 DEF QueueNext
  <2>3. CASE DequeueLock
    BY <2>3, <1>b DEF DequeueLock, At
  <2> QED
    BY <1>4, <2>1, <2>2, <2>3 DEF Jobs
<1>5. CASE Recovery
  <2>1. CASE Restart \/ ResendSelect \/ Ready
    BY <2>1, RetryUntouched DEF Restart, ResendSelect, Ready
  <2>2. ASSUME NEW p \in Posts, Republish(p) PROVE RetryInv'
    <3>1. ids[p] \cap Feed = {} /\ ids[p] \subseteq Platforms
      BY <2>2 DEF Republish, CopiesInv, RecoverInv, TypeOK
    <3>2. ~({"instagram", "facebook"} \subseteq ids[p])
      BY <3>1 DEF Feed
    <3>3. CASE UNCHANGED <<status, run>>
      BY <2>2, <3>3, RetryUntouched DEF Republish
    <3>4. CASE /\ status' = [status EXCEPT ![p] = "publishing"]
               /\ \E t : run' = [run EXCEPT !["boot"] = t]
      BY <1>0, <2>2, <3>4, <1>a DEF Republish
    <3> QED
      BY <2>2, <3>2, <3>3, <3>4 DEF Republish
  <2>3. ASSUME NEW p \in Posts, Resend(p) PROVE RetryInv'
    BY <1>0, <2>3, <1>a DEF Resend
  <2> QED
    BY <1>5, <2>1, <2>2, <2>3 DEF Recovery
<1>6. CASE Environment
  <2>1. CASE Crash
    <3>1. crashes' # 0
      BY <2>1 DEF Crash, TypeOK
    <3> QED
      BY <3>1 DEF RetryInv
  <2>2. CASE Suspend \/ Lift \/ \E p \in Posts : Age(p)
    BY <2>2, RetryUntouched DEF Suspend, Lift, Age
  <2> QED
    BY <1>6, <2>1, <2>2 DEF Environment
<1>7. CASE UNCHANGED vars
  BY <1>7, RetryUntouched DEF vars
<1>8. CASE Contention
  <2>1. ASSUME NEW o \in Owners, LockTimeout(o) PROVE RetryInv'
    <3>1. /\ run' = [run EXCEPT ![o] = Idle] /\ UNCHANGED <<status, ids, errs, crashes>>
          /\ timeouts' = [timeouts EXCEPT ![run[o].post] = @ + 1]
      BY <2>1 DEF LockTimeout, Done
    <3>2. /\ run \in [Owners -> Tasks] /\ timeouts \in [Posts -> Nat] /\ run[o].post \in Posts
      BY <2>1, LifecycleAssumption DEF TypeOK, LockTimeout, Writing, At
    <3>3. ASSUME NEW x \in Posts, timeouts'[x] = 0
          PROVE  timeouts[x] = 0 /\ x # run[o].post
      BY <3>1, <3>2, <3>3
    <3>4. \A q \in Owners \ {o} : run'[q] = run[q]
      BY <3>1, <3>2
    <3>5. ASSUME NEW x \in Posts, x # run[o].post PROVE Retrying(x) \subseteq Retrying(x)'
      BY <1>0, <3>4, <3>5 DEF Retrying, At
    <3> QED
      BY <3>1, <3>3, <3>5 DEF RetryInv
  <2>2. ASSUME NEW p \in Posts, RepublishTimeout(p) PROVE RetryInv'
    <3>1. /\ UNCHANGED <<status, ids, errs, run, crashes>>
          /\ timeouts' = [timeouts EXCEPT ![p] = @ + 1]
      BY <2>2 DEF RepublishTimeout
    <3>2. timeouts \in [Posts -> Nat]
      BY LifecycleAssumption DEF TypeOK
    <3>3. \A x \in Posts : timeouts'[x] = 0 => timeouts[x] = 0
      BY <3>1, <3>2
    <3> QED
      BY <3>1, <3>3 DEF RetryInv, Retrying, At
  <2>3. CASE ExpireTimeout
    BY <2>3, RetryUntouched DEF ExpireTimeout
  <2> QED
    BY <1>8, <2>1, <2>2, <2>3 DEF Contention
<1> QED
  BY <1>1, <1>2, <1>3, <1>4, <1>5, <1>6, <1>7, <1>8, PublishRetry DEF Next

\* Until a crash, when nothing runs, a published post that misses a feed
\* platform has the error that /retry_ig and /retry_fb look for, unless a write
\* about it found the database locked.
THEOREM RetryFinds == Spec => []Retriable
<1>1. Init => RetryInv
  BY DEF Init, RetryInv
<1>2. RetryInv => Retriable
  BY DEF RetryInv, Retriable, Retrying, AtRest, Busy, At, Rows, Owners
<1> QED
  BY <1>1, <1>2, NextRetry, CopiesAlways, PTL DEF Spec

-----------------------------------------------------------------------------
(* The snapshots.  A coroutine writes the status it wants over whatever    *)
(* the row contains: that the result is a transition of the documented     *)
(* graph depends on the status it has in memory being that of the row.     *)

\* On the way to the platforms with the whole post, as /retry_ig is not.
Carrying == {"quota", "upload", "ready", "platforms"}
Carries(o) == run[o].pc \in Carrying

\* The statuses that a snapshot can have on that way.
Memories(o) == CASE o = "bot"  -> {"approved", "publishing"}
                 [] o = "job3" -> {"pending_approval", "publishing", "expired"}
                 [] OTHER      -> {"publishing"}

\* A snapshot is the status of the row, unless JOB-4 has written over it.
SnapshotInv(o) == Carries(o) =>
    /\ status[run[o].post] \in {run[o].mem, "expired"}
    /\ run[o].mem \in Memories(o)
    /\ run[o].pc = "quota" => run[o].mem \in {"approved", "pending_approval"}
    /\ run[o].pc = "platforms" => run[o].mem = "publishing"

\* JOB-4 does not run before recovery has ended, and recovery publishes posts
\* that nobody has written since its restart.
ApprovedInv ==
    /\ mode # "up" => expiring = {}
    /\ mode = "republish" => \A p \in recovering : status[p] = "approved"

GraphInv == (\A o \in Owners : SnapshotInv(o)) /\ ApprovedInv

\* What a snapshot taken before JOB-4 can write over "expired".
Revivals == {"queued", "publishing", "published", "error", "rejected", "skipped"}

\* Every change of a status is in the graph, but for JOB-4 and such a snapshot.
Moved(p) ==
    \/ status'[p] = status[p]
    \/ <<status[p], status'[p]>> \in Moves
    \/ status[p] = "expired" /\ status'[p] \in Revivals
    \/ status'[p] = "expired" /\ p \in expiring

LEMMA CarryingSteps == /\ Carrying \subseteq Publishing /\ "idle" \notin Carrying
                       /\ \A s \in Steps \ Carrying : s \in Deciding \cup {"idle", "generating", "sending",
                            "recording", "replace", "retry", "lock", "single"}
  BY DEF Carrying, Publishing, Steps, Deciding

\* What o has in hand does not disturb those who carry another post.
LEMMA OthersCarry ==
  ASSUME TypeOK, PublisherInv, NEW o \in Owners, NEW q \in Owners \ {o}, Carries(q),
         NEW x, (OnIt(o) /\ x = run[o].post) \/ status[x] \in {"absent", "error", "queued"}
  PROVE  run[q].post # x /\ run[q].post \in Posts
<1>1. OnIt(q) /\ Held(q)
  BY DEF Carries, OnIt, Held, Carrying, Publishing
<1>2. run[q].post \in Posts
  BY DEF TypeOK, Carries, Carrying
<1>3. CASE OnIt(o) /\ x = run[o].post
  BY <1>1, <1>2, <1>3 DEF PublisherInv, Exclusive
<1>4. CASE status[x] \in {"absent", "error", "queued"}
  BY <1>1, <1>2, <1>4, NobodyOn
<1> QED
  BY <1>3, <1>4

\* A coroutine moves, and writes at most the row x that nobody else carries.
LEMMA SnapMoves ==
  ASSUME TypeOK, PublisherInv, GraphInv, NEW o \in Owners, NEW t, run' = [run EXCEPT ![o] = t],
         UNCHANGED <<mode, recovering, expiring>>,
         \/ UNCHANGED status
         \/ \E x \in Posts : \E s :
               /\ status' = [status EXCEPT ![x] = s]
               /\ (OnIt(o) /\ x = run[o].post) \/ status[x] \in {"absent", "error", "queued"}
               /\ mode = "republish" => x \notin recovering,
         t.pc \in Carrying => SnapshotInv(o)'
  PROVE  GraphInv'
<1>1. run'[o] = t /\ (\A q \in Owners \ {o} : run'[q] = run[q]) /\ status \in [Posts -> Statuses]
  BY DEF TypeOK
<1>2. SnapshotInv(o)'
  BY <1>1 DEF SnapshotInv, Carries
<1>3. ASSUME NEW q \in Owners \ {o} PROVE SnapshotInv(q)'
  <2> SUFFICES ASSUME Carries(q) PROVE SnapshotInv(q)'
    BY <1>1 DEF SnapshotInv, Carries
  <2>1. status'[run[q].post] = status[run[q].post]
    BY <1>1, OthersCarry
  <2> QED
    BY <1>1, <2>1 DEF GraphInv, SnapshotInv, Carries, Memories
<1>4. ApprovedInv'
  <2>1. mode = "republish" => \A p \in recovering : status'[p] = status[p]
    BY <1>1 DEF TypeOK
  <2> QED
    BY <2>1 DEF GraphInv, ApprovedInv
<1> QED
  BY <1>2, <1>3, <1>4 DEF GraphInv

LEMMA SnapStops ==
  ASSUME TypeOK, PublisherInv, GraphInv, NEW o \in Owners, Done(o),
         UNCHANGED <<mode, recovering, expiring>>,
         \/ UNCHANGED status
         \/ \E s : /\ status' = [status EXCEPT ![run[o].post] = s]
                   /\ OnIt(o) /\ (mode = "republish" => run[o].post \notin recovering)
  PROVE  GraphInv'
<1>1. Idle.pc = "idle" /\ run' = [run EXCEPT ![o] = Idle]
  BY DEF Idle, Done
<1>2. OnIt(o) => run[o].post \in Posts
  BY DEF TypeOK, OnIt, Publishing, Deciding
<1> HIDE DEF Idle
<1> QED
  BY <1>1, <1>2, SnapMoves, CarryingSteps

LEMMA SnapGoes ==
  ASSUME TypeOK, PublisherInv, GraphInv, NEW o \in Owners, NEW s, Goto(o, s), s \notin Carrying,
         UNCHANGED <<status, mode, recovering, expiring>>
  PROVE  GraphInv'
<1> DEFINE t == [run[o] EXCEPT !.pc = s]
<1>1. t.pc = s /\ run' = [run EXCEPT ![o] = t]
  BY DEF TypeOK, Tasks, Goto
<1> HIDE DEF t
<1> QED
  BY <1>1, SnapMoves

\* Outside recovery nobody else writes what recovery is about to publish.
LEMMA NotRecovering ==
  ASSUME PublisherInv, CopiesInv, NEW o \in Owners, run[o].pc # "idle", mode = "republish"
  PROVE  o = "boot" /\ run[o].pc = "platforms" /\ run[o].post \notin recovering
BY DEF PublisherInv, RunsAlone, CopiesInv, RecoverInv

LEMMA GenerateSnapshots ==
  ASSUME TypeOK, PublisherInv, CopiesInv, GraphInv, NEW o \in Owners, Generate(o)
  PROVE  GraphInv' /\ \A p \in Posts : Moved(p)
<1> USE DEF rowVars, jobVars, worldVars, faultVars
<1>1. CASE GenStart(o)
  BY <1>1, SnapGoes DEF GenStart, Moved, Carrying
<1>2. CASE GenEmpty(o) \/ Record(o)
  BY <1>2, SnapStops DEF GenEmpty, Record, Moved
<1>3. CASE GenInsert(o)
  <2>1. PICK p \in Rows("absent") :
          /\ status' = [status EXCEPT ![p] = "pending_approval"]
          /\ run' = [run EXCEPT ![o] =
               [Idle EXCEPT !.pc = IF o = "job3" /\ AutoPublish THEN "quota" ELSE "sending",
                            !.post = p, !.mem = "pending_approval", !.img = TRUE]]
    BY <1>3 DEF GenInsert
  <2> DEFINE t == [Idle EXCEPT !.pc = IF o = "job3" /\ AutoPublish THEN "quota" ELSE "sending",
                               !.post = p, !.mem = "pending_approval", !.img = TRUE]
  <2>2. /\ t.pc \in {"quota", "sending"} /\ t.post = p /\ t.mem = "pending_approval"
        /\ run' = [run EXCEPT ![o] = t] /\ (t.pc = "quota" => o = "job3")
    BY <2>1 DEF Idle
  <2> HIDE DEF t
  <2>3. p \in Posts /\ status[p] = "absent" /\ run[o].pc = "generating"
        /\ UNCHANGED <<mode, recovering, expiring>>
    BY <1>3, <2>1 DEF Rows, GenInsert, At
  <2>4. mode # "republish"
    BY <2>3, NotRecovering
  <2>a. run'[o] = t /\ status'[p] = "pending_approval"
    BY <2>1, <2>2, <2>3 DEF TypeOK
  <2>5. t.pc \in Carrying => SnapshotInv(o)'
    BY <2>2, <2>a DEF SnapshotInv, Carries, Memories, Carrying
  <2>6. GraphInv'
    BY <2>1, <2>2, <2>3, <2>4, <2>5, SnapMoves
  <2>7. \A x \in Posts : Moved(x)
    BY <2>1, <2>3 DEF Moved, Moves, TypeOK
  <2> QED
    BY <2>6, <2>7
<1>4. CASE Send(o)
  BY <1>4, SnapGoes, SnapStops DEF Send, Moved, Carrying
<1> QED
  BY <1>1, <1>2, <1>3, <1>4 DEF Generate

\* /retry and JOB-7.
LEMMA LockSnapshots ==
  ASSUME TypeOK, PublisherInv, CopiesInv, GraphInv, NEW o \in {"bot", "job7"},
         run[o].pc \in {"retry", "lock"}, NEW from \in {"error", "queued"}, Lock(o, from)
  PROVE  GraphInv' /\ \A p \in Posts : Moved(p)
<1> USE DEF rowVars, jobVars, worldVars, faultVars
<1> DEFINE p == run[o].post
           t == [run[o] EXCEPT !.pc = "upload", !.mem = "publishing", !.img = image[p]]
<1>0. o \in Owners /\ run[o].pc # "idle" /\ o # "job3"
  BY DEF Owners
<1>1. CASE status[p] = from
  <2>1. p \in Posts /\ run[o] \in Tasks
    BY <1>0 DEF TypeOK
  <2>2. run' = [run EXCEPT ![o] = t] /\ status' = [status EXCEPT ![p] = "publishing"]
        /\ UNCHANGED <<mode, recovering, expiring>>
    BY <1>1 DEF Lock
  <2>3. t.pc = "upload" /\ t.post = p /\ t.mem = "publishing"
    BY <2>1 DEF Tasks
  <2> HIDE DEF t
  <2>4. SnapshotInv(o)'
    BY <1>0, <2>1, <2>2, <2>3 DEF SnapshotInv, Carries, Memories, TypeOK
  <2>5. mode # "republish"
    BY <1>0, NotRecovering DEF Owners
  <2>6. GraphInv'
    BY <1>0, <1>1, <2>1, <2>2, <2>4, <2>5, SnapMoves
  <2>7. \A x \in Posts : Moved(x)
    BY <1>1, <2>1, <2>2 DEF Moved, Moves, TypeOK
  <2> QED
    BY <2>6, <2>7
<1>2. CASE status[p] # from
  BY <1>0, <1>2, SnapStops DEF Lock, Moved
<1> QED
  BY <1>1, <1>2

\* A flush of the status of the post in hand.
LEMMA FlushMoves ==
  ASSUME TypeOK, GraphInv, NEW o \in Owners, Carries(o), NEW s \in Revivals, Flush(o, run[o].post, s),
         run[o].mem # s => <<run[o].mem, s>> \in Moves
  PROVE  /\ \A p \in Posts : Moved(p)
         /\ run[o].post \in Posts
         /\ status'[run[o].post] \in {s, "expired"}
         /\ UNCHANGED status \/ status' = [status EXCEPT ![run[o].post] = s]
<1> DEFINE p == run[o].post
<1>1. p \in Posts /\ status[p] \in {run[o].mem, "expired"} /\ status \in [Posts -> Statuses]
  BY DEF TypeOK, Carries, Carrying, GraphInv, SnapshotInv
<1>2. UNCHANGED status \/ status' = [status EXCEPT ![run[o].post] = s]
  BY DEF Flush
<1>3. \A x \in Posts : Moved(x)
  BY <1>1 DEF Flush, Moved
<1>4. status'[p] \in {s, "expired"}
  BY <1>1 DEF Flush
<1> QED
  BY <1>1, <1>2, <1>3, <1>4

LEMMA PublishSnapshots ==
  ASSUME TypeOK, PublisherInv, CopiesInv, GraphInv, NEW o \in Owners, Publish(o)
  PROVE  GraphInv' /\ \A p \in Posts : Moved(p)
<1> USE DEF rowVars, jobVars, worldVars, faultVars
<1> DEFINE p == run[o].post
<1>0. run[o] \in Tasks /\ status \in [Posts -> Statuses] /\ (Carries(o) => p \in Posts)
  BY DEF TypeOK, Carries, Carrying
<1>a. Carries(o) => OnIt(o) /\ (mode = "republish" => p \notin recovering)
  BY NotRecovering, CarryingSteps DEF Carries, OnIt
\* The statuses that a flush can meet, by whose snapshot it is.
<1>b. ASSUME Carries(o) PROVE SnapshotInv(o)
  BY DEF GraphInv
<1>1. CASE Quota(o)
  <2>1. Carries(o) /\ run[o].pc = "quota" /\ UNCHANGED <<mode, recovering, expiring>>
    BY <1>1 DEF Quota, At, Carries, Carrying
  <2>2. CASE Goto(o, "upload") /\ UNCHANGED status
    <3> DEFINE t == [run[o] EXCEPT !.pc = "upload"]
    <3>1. t.pc = "upload" /\ t.post = p /\ t.mem = run[o].mem /\ run' = [run EXCEPT ![o] = t]
      BY <1>0, <2>2 DEF Tasks, Goto
    <3> HIDE DEF t
    <3>2. SnapshotInv(o)'
      BY <1>b, <2>1, <2>2, <3>1 DEF SnapshotInv, Carries, Memories, TypeOK
    <3> QED
      BY <2>1, <2>2, <3>1, <3>2, SnapMoves DEF Moved
  <2>3. CASE o = "bot" /\ Flush(o, p, "queued") /\ Done(o)
    <3>1. <<run[o].mem, "queued">> \in Moves
      BY <1>b, <2>1, <2>3 DEF SnapshotInv, Memories, Moves
    <3>2. /\ \A x \in Posts : Moved(x)
          /\ UNCHANGED status \/ status' = [status EXCEPT ![p] = "queued"]
      BY <2>1, <2>3, <3>1, FlushMoves DEF Revivals
    <3> QED
      BY <1>a, <2>1, <2>3, <3>2, SnapStops
  <2>4. CASE UNCHANGED status /\ Done(o)
    BY <2>1, <2>4, SnapStops DEF Moved
  <2> QED
    BY <1>1, <2>2, <2>3, <2>4 DEF Quota
<1>2. CASE UploadOk(o)
  <2> DEFINE t == [run[o] EXCEPT !.pc = "ready", !.mem = IF o = "job3" THEN status[p] ELSE run[o].mem]
  <2>1. /\ Carries(o) /\ run' = [run EXCEPT ![o] = t] /\ UNCHANGED <<status, mode, recovering, expiring>>
    BY <1>2 DEF UploadOk, At, Carries, Carrying
  <2>2. t.pc = "ready" /\ t.post = p /\ t.mem = IF o = "job3" THEN status[p] ELSE run[o].mem
    BY <1>0 DEF Tasks
  <2> HIDE DEF t
  <2>3. SnapshotInv(o)'
    BY <1>b, <2>1, <2>2 DEF SnapshotInv, Carries, Memories, TypeOK
  <2> QED
    BY <2>1, <2>2, <2>3, SnapMoves DEF Moved
<1>3. CASE UploadFail(o) \/ PublishRefused(o)
  <2>1. Carries(o) /\ run[o].pc \in {"upload", "ready"} /\ Abort(o) /\ UNCHANGED <<mode, recovering, expiring>>
    BY <1>3 DEF UploadFail, PublishRefused, Abort, At, Carries, Carrying
  <2>2. CASE o = "job7"
    <3>1. run[o].mem = "publishing"
      BY <1>b, <2>1, <2>2 DEF SnapshotInv, Memories
    <3>2. /\ \A x \in Posts : Moved(x)
          /\ UNCHANGED status \/ status' = [status EXCEPT ![p] = "error"]
      BY <2>1, <2>2, <3>1, FlushMoves DEF Revivals, Moves, Abort
    <3> QED
      BY <1>a, <2>1, <3>2, SnapStops DEF Abort
  <2>3. CASE o # "job7"
    BY <2>1, <2>3, SnapStops DEF Abort, Moved
  <2> QED
    BY <2>2, <2>3
<1>4. CASE PublishStart(o)
  <2> DEFINE t == [run[o] EXCEPT !.pc = "platforms", !.mem = "publishing", !.todo = Platforms]
  <2>1. /\ Carries(o) /\ run[o].pc = "ready" /\ Flush(o, p, "publishing")
        /\ run' = [run EXCEPT ![o] = t] /\ UNCHANGED <<mode, recovering, expiring>>
    BY <1>4 DEF PublishStart, At, Carries, Carrying
  <2>2. t.pc = "platforms" /\ t.post = p /\ t.mem = "publishing"
    BY <1>0 DEF Tasks
  <2> HIDE DEF t
  <2>3. run[o].mem \in Memories(o)
    BY <1>b, <2>1 DEF SnapshotInv
  <2>4. run[o].mem \notin {"publishing", "expired"} => <<run[o].mem, "publishing">> \in Moves
    BY <2>3 DEF Memories, Moves
  \* A snapshot that JOB-3 loaded after JOB-4 is flushed over an expired row.
  <2>5. \A x \in Posts : Moved(x)
    BY <1>0, <1>b, <2>1, <2>4 DEF Flush, Moved, SnapshotInv, Revivals
  <2>6. status'[p] \in {"publishing", "expired"}
    BY <1>0, <1>b, <2>1 DEF Flush, SnapshotInv
  <2>7. SnapshotInv(o)'
    BY <2>1, <2>2, <2>6 DEF SnapshotInv, Carries, Memories, TypeOK
  <2>8. UNCHANGED status \/ status' = [status EXCEPT ![p] = "publishing"]
    BY <2>1 DEF Flush
  <2> QED
    BY <1>0, <1>a, <2>1, <2>2, <2>5, <2>7, <2>8, SnapMoves
<1>5. CASE PublishEnd(o)
  <2>1. PICK s \in {"published", "error"} :
          /\ run[o].pc = "platforms" /\ Flush(o, p, s) /\ Done(o)
          /\ UNCHANGED <<mode, recovering, expiring>>
    BY <1>5 DEF PublishEnd, At
  <2>2. Carries(o) /\ run[o].mem = "publishing"
    BY <1>b, <2>1 DEF SnapshotInv, Carries, Carrying
  <2>3. /\ \A x \in Posts : Moved(x)
        /\ UNCHANGED status \/ status' = [status EXCEPT ![p] = s]
    BY <2>1, <2>2, FlushMoves DEF Revivals, Moves
  <2> QED
    BY <1>a, <2>1, <2>2, <2>3, SnapStops
<1>6. ASSUME NEW f \in Platforms, Platform(o, f)
      PROVE  GraphInv' /\ \A x \in Posts : Moved(x)
  <2>1. UNCHANGED <<status, mode, recovering, expiring>> /\ f \in run[o].todo
    BY <1>6 DEF Platform
  <2>2. PICK t : /\ run' = [run EXCEPT ![o] = t]
                 /\ t.pc = run[o].pc /\ t.post = run[o].post /\ t.mem = run[o].mem
    <3> DEFINE todo == run[o].todo \ {f}
               good == [run[o] EXCEPT !.todo = todo, !.ok = run[o].ok \cup {f}]
               fail == [run[o] EXCEPT !.todo = todo, !.bad = run[o].bad \cup {f}]
    <3>1. run' = [run EXCEPT ![o] = good] \/ run' = [run EXCEPT ![o] = fail]
      BY <1>6 DEF Platform
    <3>2. /\ good.pc = run[o].pc /\ good.post = run[o].post /\ good.mem = run[o].mem
          /\ fail.pc = run[o].pc /\ fail.post = run[o].post /\ fail.mem = run[o].mem
      BY <1>0 DEF Tasks
    <3> HIDE DEF good, fail
    <3> QED
      BY <3>1, <3>2
  <2>3. SnapshotInv(o)'
    BY <1>b, <2>1, <2>2 DEF SnapshotInv, Carries, Memories, TypeOK
  <2> QED
    BY <2>1, <2>2, <2>3, SnapMoves DEF Moved
<1> QED
  BY <1>1, <1>2, <1>3, <1>4, <1>5, <1>6 DEF Publish

LEMMA HandlerSnapshots ==
  ASSUME TypeOK, PublisherInv, CopiesInv, GraphInv, Handler
  PROVE  GraphInv' /\ \A p \in Posts : Moved(p)
<1> USE DEF rowVars, jobVars, worldVars, faultVars
<1> DEFINE p == run["bot"].post
<1>0. "bot" \in Owners /\ "bot" # "job3" /\ run["bot"] \in Tasks /\ status \in [Posts -> Statuses]
  BY DEF TypeOK, Owners
\* A button is being answered: its post is there, and at worst expired.
<1>a. ASSUME run["bot"].pc \in Deciding
      PROVE  /\ p \in Posts /\ OnIt("bot") /\ (mode = "republish" => p \notin recovering)
             /\ status[p] \in {"pending_approval", "expired"}
  BY <1>0, <1>a, NotRecovering DEF TypeOK, OnIt, Deciding, PublisherInv, DecideStatus
<1>1. CASE GenRefused
  BY <1>0, <1>1, SnapStops DEF GenRefused, Moved
<1>2. CASE ApproveLock
  <2>1. run["bot"].pc = "approve" /\ "approve" \in Deciding /\ UNCHANGED <<mode, recovering, expiring>>
    BY <1>2 DEF ApproveLock, At, Deciding
  <2>2. CASE status[p] = "pending_approval" /\ image[p]
    <3> DEFINE t == [run["bot"] EXCEPT !.pc = "quota", !.mem = "approved"]
    <3>1. run' = [run EXCEPT !["bot"] = t] /\ status' = [status EXCEPT ![p] = "approved"]
      BY <1>2, <2>2 DEF ApproveLock
    <3>2. t.pc = "quota" /\ t.post = p /\ t.mem = "approved"
      BY <1>0 DEF Tasks
    <3> HIDE DEF t
    <3>3. run'["bot"] = t /\ status'[p] = "approved"
      BY <1>0, <1>a, <2>1, <3>1 DEF TypeOK
    <3>4. SnapshotInv("bot")'
      BY <3>2, <3>3 DEF SnapshotInv, Memories
    <3>5. \A x \in Posts : Moved(x)
      BY <1>0, <2>2, <3>1 DEF Moved, Moves
    <3> QED
      BY <1>0, <1>a, <2>1, <3>1, <3>4, <3>5, SnapMoves
  <2>3. CASE status[p] = "pending_approval" /\ ~image[p]
    <3>1. Done("bot") /\ status' = [status EXCEPT ![p] = "approved"]
      BY <1>2, <2>3 DEF ApproveLock
    <3>2. \A x \in Posts : Moved(x)
      BY <1>0, <2>3, <3>1 DEF Moved, Moves
    <3> QED
      BY <1>0, <1>a, <2>1, <3>1, <3>2, SnapStops
  <2>4. CASE status[p] # "pending_approval"
    BY <1>0, <1>2, <2>1, <2>4, SnapStops DEF ApproveLock, Moved
  <2> QED
    BY <2>2, <2>3, <2>4
<1>3. CASE QueueCount
  BY <1>0, <1>3, SnapStops, SnapGoes DEF QueueCount, Moved, Carrying
<1>4. CASE QueueLock
  <2>1. run["bot"].pc = "queue_lock" /\ "queue_lock" \in Deciding /\ UNCHANGED <<mode, recovering, expiring>>
        /\ Done("bot")
    BY <1>4 DEF QueueLock, At, Deciding
  <2>2. CASE status[p] = "pending_approval" /\ status' = [status EXCEPT ![p] = "queued"]
    <3>1. \A x \in Posts : Moved(x)
      BY <1>0, <2>2 DEF Moved, Moves
    <3> QED
      BY <1>0, <1>a, <2>1, <2>2, <3>1, SnapStops
  <2>3. CASE UNCHANGED status
    BY <1>0, <2>1, <2>3, SnapStops DEF Moved
  <2> QED
    BY <1>4, <2>2, <2>3 DEF QueueLock
\* A refusal writes over a pending row, or an expired one.
<1>5. CASE RejectWrite
  <2>1. run["bot"].pc = "reject" /\ "reject" \in Deciding /\ UNCHANGED <<mode, recovering, expiring>>
        /\ Done("bot") /\ (UNCHANGED status \/ status' = [status EXCEPT ![p] = "rejected"])
    BY <1>5 DEF RejectWrite, At, Deciding, Flush
  <2>2. \A x \in Posts : Moved(x)
    BY <1>0, <1>a, <2>1 DEF Moved, Moves, Revivals
  <2> QED
    BY <1>0, <1>a, <2>1, <2>2, SnapStops
<1>6. CASE SkipWrite
  <2> DEFINE t == [Idle EXCEPT !.pc = "replace"]
  <2>1. run["bot"].pc = "skip" /\ "skip" \in Deciding /\ UNCHANGED <<mode, recovering, expiring>>
        /\ run' = [run EXCEPT !["bot"] = t]
        /\ (UNCHANGED status \/ status' = [status EXCEPT ![p] = "skipped"])
    BY <1>6 DEF SkipWrite, At, Deciding, Flush
  <2>2. \A x \in Posts : Moved(x)
    BY <1>0, <1>a, <2>1 DEF Moved, Moves, Revivals
  <2>3. t.pc \notin Carrying
    BY DEF Idle, Carrying
  <2> HIDE DEF t
  <2> QED
    BY <1>0, <1>a, <2>1, <2>2, <2>3, SnapMoves
<1>7. CASE RetryLock
  BY <1>0, <1>7, LockSnapshots DEF RetryLock, At
<1>8. CASE SingleEnd
  BY <1>0, <1>8, SnapStops DEF SingleEnd, Moved
<1> QED
  BY <1>1, <1>2, <1>3, <1>4, <1>5, <1>6, <1>7, <1>8 DEF Handler

LEMMA AdminSnapshots ==
  ASSUME TypeOK, PublisherInv, GraphInv, Admin
  PROVE  GraphInv' /\ UNCHANGED status
<1> USE DEF rowVars, jobVars, worldVars, faultVars
<1>0. "bot" \in Owners
  BY DEF Owners
<1>1. PICK t : run' = [run EXCEPT !["bot"] = t] /\ t.pc \notin Carrying
               /\ UNCHANGED <<status, mode, recovering, expiring>>
  BY DEF Admin, Press, EditCaption, Retry, RetryPlatform, Idle, Carrying, Buttons
<1> QED
  BY <1>0, <1>1, SnapMoves

\* Steps of no coroutine that only let posts expire.
LEMMA SnapQuiet ==
  ASSUME TypeOK, GraphInv, UNCHANGED run,
         \A p \in Posts : status'[p] \in {status[p], "expired"},
         mode' # "up" => expiring' = {},
         mode' = "republish" => mode = "republish" /\ UNCHANGED <<status, recovering>>
  PROVE  GraphInv'
<1>1. ASSUME NEW o \in Owners PROVE SnapshotInv(o)'
  <2>1. Carries(o) => run[o].post \in Posts
    BY DEF TypeOK, Carries, Carrying
  <2> QED
    BY <2>1 DEF GraphInv, SnapshotInv, Carries, Memories
<1>2. ApprovedInv'
  BY DEF GraphInv, ApprovedInv
<1> QED
  BY <1>1, <1>2 DEF GraphInv

LEMMA JobsSnapshots ==
  ASSUME TypeOK, PublisherInv, CopiesInv, GraphInv, Jobs
  PROVE  GraphInv' /\ \A p \in Posts : Moved(p)
<1> USE DEF rowVars, jobVars, worldVars, faultVars
<1>0. "job7" \in Owners /\ "job7" # "job3" /\ (mode # "up" => expiring = {})
  BY DEF Owners, GraphInv, ApprovedInv
<1>1. CASE QueueSelect \/ SweepSelect \/ SweepWrite \/ ExpireSelect
  <2>1. UNCHANGED <<run, status, mode, recovering>> /\ (mode # "up" => expiring' = {})
    BY <1>0, <1>1 DEF QueueSelect, SweepSelect, SweepWrite, ExpireSelect, Free
  <2> QED
    BY <2>1, SnapQuiet DEF Moved
<1>2. CASE QueueNext
  <2> DEFINE t(p) == [Idle EXCEPT !.pc = "lock", !.post = p]
  <2>a. \A p : t(p).pc \notin Carrying
    BY DEF Idle, Carrying
  <2>b. UNCHANGED <<status, mode, recovering, expiring>>
        /\ (UNCHANGED run \/ \E p : run' = [run EXCEPT !["job7"] = t(p)])
    BY <1>2 DEF QueueNext
  <2> HIDE DEF t
  <2>1. UNCHANGED <<status, mode, recovering, expiring>>
        /\ (UNCHANGED run \/ \E u : run' = [run EXCEPT !["job7"] = u] /\ u.pc \notin Carrying)
    BY <2>a, <2>b
  <2>2. CASE UNCHANGED run
    BY <1>0, <2>1, <2>2, SnapQuiet DEF Moved
  <2>3. CASE \E u : run' = [run EXCEPT !["job7"] = u] /\ u.pc \notin Carrying
    BY <1>0, <2>1, <2>3, SnapMoves DEF Moved
  <2> QED
    BY <2>1, <2>2, <2>3
<1>3. CASE DequeueLock
  BY <1>0, <1>3, LockSnapshots DEF DequeueLock, At
<1>4. CASE ExpireWrite
  <2>1. /\ \A p \in Posts : status'[p] = status[p] \/ (status'[p] = "expired" /\ p \in expiring)
        /\ mode = "up" /\ UNCHANGED <<run, mode>>
    BY <1>0, <1>4 DEF ExpireWrite
  <2> QED
    BY <2>1, SnapQuiet DEF Moved
<1> QED
  BY <1>1, <1>2, <1>3, <1>4 DEF Jobs

LEMMA RecoverySnapshots ==
  ASSUME TypeOK, PublisherInv, CopiesInv, GraphInv, Recovery
  PROVE  GraphInv' /\ \A p \in Posts : Moved(p)
<1> USE DEF rowVars, jobVars, worldVars, faultVars
<1>0. "boot" \in Owners /\ (mode # "up" => expiring = {}) /\ status \in [Posts -> Statuses]
      /\ recovering \subseteq Posts
  BY DEF Owners, GraphInv, ApprovedInv, TypeOK
<1>1. CASE Restart
  <2>1. \A o \in Owners : run'[o].pc = "idle"
    BY <1>1 DEF Restart, PublisherInv, RunsAlone
  <2>2. \A p \in Posts : status'[p] = IF status[p] = "publishing" THEN "approved" ELSE status[p]
    BY <1>1 DEF Restart
  <2>3. ApprovedInv'
    BY <1>0, <1>1, <2>2 DEF Restart, ApprovedInv
  <2>4. \A p \in Posts : Moved(p)
    BY <2>2 DEF Moved, Moves
  <2> QED
    BY <2>1, <2>3, <2>4 DEF GraphInv, SnapshotInv, Carries, Carrying
<1>2. CASE ResendSelect \/ Ready
  <2>1. UNCHANGED <<run, status, expiring>> /\ mode' # "republish" /\ mode # "up"
    BY <1>2 DEF ResendSelect, Ready
  <2> QED
    BY <1>0, <2>1, SnapQuiet DEF Moved
\* Nobody else runs, and the post leaves the list.
<1>3. ASSUME NEW p \in Posts, Republish(p) PROVE GraphInv' /\ \A x \in Posts : Moved(x)
  <2> DEFINE t == [Idle EXCEPT !.pc = "platforms", !.post = p, !.mem = "publishing",
                               !.img = image[p], !.todo = Platforms \ ids[p]]
  <2>1. /\ mode = "republish" /\ p \in recovering /\ recovering' = recovering \ {p}
        /\ UNCHANGED <<mode, expiring>> /\ run["boot"].pc = "idle"
        /\ \/ UNCHANGED <<status, run>>
           \/ UNCHANGED run /\ status' = [status EXCEPT ![p] = "published"]
           \/ status' = [status EXCEPT ![p] = "publishing"] /\ run' = [run EXCEPT !["boot"] = t]
    BY <1>3 DEF Republish, Busy
  <2>2. t.pc = "platforms" /\ t.post = p /\ t.mem = "publishing"
    BY DEF Idle
  <2> HIDE DEF t
  <2>3. \A o \in Owners : run[o].pc = "idle"
    BY <2>1 DEF PublisherInv, RunsAlone
  <2>4. status[p] = "approved"
    BY <2>1 DEF GraphInv, ApprovedInv
  <2>5. ApprovedInv'
    BY <1>0, <2>1 DEF GraphInv, ApprovedInv
  <2>6. \A x \in Posts : Moved(x)
    BY <1>0, <2>1, <2>4 DEF Moved, Moves
  <2>7. ASSUME NEW o \in Owners PROVE SnapshotInv(o)'
    <3>1. CASE UNCHANGED run
      BY <2>3, <3>1 DEF SnapshotInv, Carries, Carrying
    <3>2. CASE status' = [status EXCEPT ![p] = "publishing"] /\ run' = [run EXCEPT !["boot"] = t]
      <4>1. run'["boot"] = t /\ (o # "boot" => run'[o] = run[o]) /\ status'[p] = "publishing"
        BY <1>0, <3>2 DEF TypeOK
      <4>2. CASE o = "boot"
        BY <2>2, <4>1, <4>2 DEF SnapshotInv, Memories
      <4>3. CASE o # "boot"
        BY <2>3, <4>1, <4>3 DEF SnapshotInv, Carries, Carrying
      <4> QED
        BY <4>2, <4>3
    <3> QED
      BY <2>1, <3>1, <3>2
  <2> QED
    BY <2>5, <2>6, <2>7 DEF GraphInv
<1>4. ASSUME NEW p \in Posts, Resend(p) PROVE GraphInv' /\ \A x \in Posts : Moved(x)
  <2> DEFINE t == [Idle EXCEPT !.pc = "sending", !.post = p, !.mem = status[p], !.img = image[p]]
  <2>1. run' = [run EXCEPT !["boot"] = t] /\ t.pc \notin Carrying
    BY <1>4 DEF Resend, Idle, Carrying
  <2> HIDE DEF t
  <2>2. UNCHANGED <<status, mode, expiring>> /\ mode = "resend"
    BY <1>4 DEF Resend
  <2>3. run'["boot"] = t /\ \A o \in Owners \ {"boot"} : run'[o] = run[o]
    BY <1>0, <2>1 DEF TypeOK
  <2>4. ASSUME NEW o \in Owners PROVE SnapshotInv(o)'
    BY <2>1, <2>2, <2>3 DEF GraphInv, SnapshotInv, Carries, Memories
  <2>5. ApprovedInv'
    BY <1>0, <2>2 DEF ApprovedInv
  <2> QED
    BY <2>2, <2>4, <2>5 DEF GraphInv, Moved
<1> QED
  BY <1>1, <1>2, <1>3, <1>4 DEF Recovery

LEMMA EnvironmentSnapshots ==
  ASSUME TypeOK, GraphInv, Environment
  PROVE  GraphInv' /\ UNCHANGED status
<1> USE DEF rowVars, jobVars, worldVars, faultVars
<1>1. CASE Crash
  <2>1. \A o \in Owners : run'[o].pc = "idle"
    BY <1>1 DEF Crash, Idle
  <2>2. expiring' = {} /\ mode' = "down" /\ UNCHANGED status
    BY <1>1 DEF Crash
  <2> QED
    BY <2>1, <2>2 DEF GraphInv, SnapshotInv, ApprovedInv, Carries, Carrying
<1>2. CASE Suspend \/ Lift \/ \E p \in Posts : Age(p)
  <2>1. UNCHANGED <<run, status, mode, recovering, expiring>>
    BY <1>2 DEF Suspend, Lift, Age
  <2> QED
    BY <2>1, SnapQuiet DEF GraphInv, ApprovedInv
<1> QED
  BY <1>1, <1>2 DEF Environment

\* A coroutine that a locked database stops, or a list that gets shorter.
LEMMA ContentionSnapshots ==
  ASSUME TypeOK, PublisherInv, GraphInv, Contention
  PROVE  GraphInv' /\ UNCHANGED status
<1>1. UNCHANGED <<status, mode>> /\ recovering' \subseteq recovering /\ expiring' \subseteq expiring
  BY Contended DEF rowVars
<1>2. ASSUME NEW o \in Owners PROVE SnapshotInv(o)'
  <2>1. run'[o] = run[o] \/ run'[o] = Idle
    BY Contended DEF TypeOK, Done
  <2>2. Idle.pc \notin Carrying
    BY DEF Idle, Carrying
  <2> QED
    BY <1>1, <2>1, <2>2 DEF GraphInv, SnapshotInv, Carries, Memories
<1>3. ApprovedInv'
  BY <1>1 DEF GraphInv, ApprovedInv
<1> QED
  BY <1>1, <1>2, <1>3 DEF GraphInv

LEMMA NextSnapshots ==
  TypeOK /\ PublisherInv /\ CopiesInv /\ GraphInv /\ [Next]_vars
    => GraphInv' /\ \A p \in Posts : Moved(p)
<1> SUFFICES ASSUME TypeOK, PublisherInv, CopiesInv, GraphInv, [Next]_vars
             PROVE  GraphInv' /\ \A p \in Posts : Moved(p)
  OBVIOUS
<1>1. CASE UNCHANGED vars
  <2>1. UNCHANGED <<run, status, mode, recovering, expiring>>
    BY <1>1 DEF vars, rowVars, jobVars, faultVars
  <2> QED
    BY <2>1, SnapQuiet DEF GraphInv, ApprovedInv, Moved
<1>2. UNCHANGED status => \A p \in Posts : Moved(p)
  BY DEF Moved
<1> QED
  BY <1>1, <1>2, GenerateSnapshots, PublishSnapshots, HandlerSnapshots, AdminSnapshots, JobsSnapshots,
     RecoverySnapshots, ContentionSnapshots, EnvironmentSnapshots DEF Next

LEMMA SnapshotsAlways == Spec => [](TypeOK /\ PublisherInv /\ CopiesInv /\ GraphInv)
<1>1. Init => GraphInv
  BY DEF Init, GraphInv, SnapshotInv, ApprovedInv, Carries, Carrying, Idle
<1> QED
  BY <1>1, CopiesAlways, NextSnapshots, PTL DEF Spec

\* Whatever the races, the crashes and the faults, every status change is a
\* transition of the documented graph, an expiry by JOB-4 of a post of its
\* selection, or the write of a snapshot that was taken before it.
THEOREM GraphOrExpiry == Spec => [][\A p \in Posts : Moved(p)]_vars
<1>1. TypeOK /\ PublisherInv /\ CopiesInv /\ GraphInv /\ [Next]_vars => [\A p \in Posts : Moved(p)]_vars
  BY NextSnapshots
<1> QED
  BY <1>1, SnapshotsAlways, PTL DEF Spec

\* No post is old enough for JOB-4.
Recent == expiring = {} /\ \A p \in Posts : status[p] # "expired"

LEMMA NextRecent ==
  ASSUME MaxAge = 0, TypeOK, TypeOK', \A p \in Posts : Moved(p), Recent, [Next]_vars
  PROVE  Recent'
<1> USE DEF rowVars, jobVars, worldVars, faultVars
<1>1. \A p \in Posts : age[p] = 0
  BY DEF TypeOK
<1>2. expiring' = {}
  <2>1. ~ ExpireSelect
    BY <1>1 DEF ExpireSelect, Rows
  <2>2. ASSUME NEW o \in Owners, Generate(o) \/ Publish(o) PROVE UNCHANGED expiring
    BY <2>2 DEF Generate, GenStart, GenEmpty, GenInsert, Send, Record, Publish, Quota, UploadOk, UploadFail,
                PublishRefused, Abort, PublishStart, PublishEnd, Platform
  <2>3. Handler \/ Admin \/ Recovery => UNCHANGED expiring
    BY DEF Handler, GenRefused, ApproveLock, QueueCount, QueueLock, RejectWrite, SkipWrite, RetryLock, Lock,
           SingleEnd, Admin, Press, EditCaption, Retry, RetryPlatform, Recovery, Restart, ResendSelect,
           Ready, Republish, Resend
  <2>4. Jobs => UNCHANGED expiring \/ expiring' = {}
    BY <2>1 DEF Jobs, QueueSelect, QueueNext, DequeueLock, Lock, ExpireWrite, SweepSelect, SweepWrite
  <2>5. Environment \/ UNCHANGED vars => UNCHANGED expiring \/ expiring' = {}
    BY DEF Environment, Crash, Suspend, Lift, Age, vars
  <2>6. Contention => expiring' \subseteq expiring
    BY Contended
  <2> QED
    BY <2>2, <2>3, <2>4, <2>5, <2>6 DEF Next, Recent
<1>3. \A p \in Posts : status'[p] # "expired"
  BY DEF Recent, Moved, Moves
<1> QED
  BY <1>2, <1>3 DEF Recent

\* As long as no post is old enough for JOB-4, every status change is a
\* transition of the documented graph.
THEOREM GraphKept == ASSUME MaxAge = 0 PROVE Spec => StatusGraph
<1>1. Init => Recent
  BY DEF Init, Recent
<1>2. TypeOK /\ TypeOK' /\ PublisherInv /\ CopiesInv /\ GraphInv /\ Recent /\ [Next]_vars
        => Recent' /\ [\A p \in Posts : status'[p] # status[p] => <<status[p], status'[p]>> \in Moves]_vars
  <2> SUFFICES ASSUME TypeOK, TypeOK', PublisherInv, CopiesInv, GraphInv, Recent, [Next]_vars
               PROVE  /\ Recent'
                      /\ \A p \in Posts : status'[p] # status[p] => <<status[p], status'[p]>> \in Moves
    OBVIOUS
  <2>1. \A p \in Posts : Moved(p)
    BY NextSnapshots
  <2>2. Recent'
    BY <2>1, NextRecent
  <2>3. \A p \in Posts : status'[p] # status[p] => <<status[p], status'[p]>> \in Moves
    BY <2>1 DEF Moved, Recent
  <2> QED
    BY <2>2, <2>3
<1> QED
  BY <1>1, <1>2, SnapshotsAlways, PTL DEF Spec, StatusGraph

-----------------------------------------------------------------------------
(* Nothing is left half way.                                               *)

\* The statuses that no job and no command picks up.
HalfWay == {"approved", "publishing"}

\* Nothing is suspended and every row has its image.
CalmInv ==
    /\ ~suspended /\ sweeping = {}
    /\ \A p \in Posts : status[p] # "absent" => image[p]
    /\ \A p \in expiring : status[p] # "absent"

\* Until a crash or a locked database, somebody carries every post that is half way.
CarriedInv ==
    crashes = 0 =>
        /\ mode = "up"
        /\ \A p \in Posts : status[p] \in HalfWay /\ timeouts[p] = 0 => \E o \in Owners : Carries(o) /\ run[o].post = p

LEMMA NextCalm ==
  ASSUME ~CanSuspend, MaxAge <= 1, TypeOK, TypeOK', \A p \in Posts : Moved(p), CalmInv, [Next]_vars
  PROVE  CalmInv'
<1> USE DEF rowVars, jobVars, worldVars, faultVars
<1>0. \A p \in Posts : age[p] \in Nat /\ age[p] <= 1
  BY LifecycleAssumption DEF TypeOK
<1>1. /\ ~suspended' /\ sweeping' = {} /\ (\A p \in Posts : image[p] => image'[p])
      /\ \A p \in expiring' : p \in expiring \/ status[p] = "pending_approval"
  <2> DEFINE P == /\ ~suspended' /\ sweeping' = {} /\ (\A p \in Posts : image[p] => image'[p])
                  /\ \A p \in expiring' : p \in expiring \/ status[p] = "pending_approval"
  <2>k. UNCHANGED <<suspended, sweeping, expiring, image>> => P
    BY DEF CalmInv
  <2>1. ASSUME NEW o \in Owners, GenInsert(o) PROVE P
    BY <2>1 DEF GenInsert, CalmInv, TypeOK
  <2>2. ASSUME NEW o \in Owners, Generate(o), ~GenInsert(o) PROVE P
    BY <2>2, <2>k DEF Generate, GenStart, GenEmpty, Send, Record
  <2>3. ASSUME NEW o \in Owners, Publish(o) PROVE P
    BY <2>3, <2>k DEF Publish, Quota, UploadOk, UploadFail, PublishRefused, Abort, PublishStart, PublishEnd, Platform
  <2>4. Handler \/ Admin \/ Recovery => P
    BY <2>k DEF Handler, GenRefused, ApproveLock, QueueCount, QueueLock, RejectWrite, SkipWrite, RetryLock, Lock,
           SingleEnd, Admin, Press, EditCaption, Retry, RetryPlatform, Recovery, Restart, ResendSelect,
           Ready, Republish, Resend
  <2>5. ASSUME Jobs PROVE P
    <3>1. ~SweepSelect /\ ~SweepWrite
      BY <1>0 DEF SweepSelect, SweepWrite, CalmInv
    <3>2. QueueSelect \/ QueueNext \/ DequeueLock => UNCHANGED <<suspended, sweeping, expiring, image>>
      BY DEF QueueSelect, QueueNext, DequeueLock, Lock
    <3>3. ExpireSelect \/ ExpireWrite => P
      BY DEF ExpireSelect, ExpireWrite, CalmInv, Rows
    <3> QED
      BY <2>5, <2>k, <3>1, <3>2, <3>3 DEF Jobs
  <2>6. Environment => P
    BY DEF Environment, Crash, Suspend, Lift, Age, CalmInv
  <2>7. UNCHANGED vars => P
    BY <2>k DEF vars
  <2>c. Contention => P
    BY Contended DEF CalmInv
  <2> HIDE DEF P
  <2>8. ASSUME NEW o \in Owners, Generate(o) \/ Publish(o) PROVE P
    BY <2>1, <2>2, <2>3, <2>8
  <2>9. Next \/ UNCHANGED vars
    OBVIOUS
  <2>10. P
    BY <2>4, <2>5, <2>6, <2>7, <2>c, <2>8, <2>9 DEF Next
  <2> QED
    BY <2>10 DEF P
<1>2. \A p \in Posts : status[p] # "absent" => status'[p] # "absent"
  BY DEF Moved, Moves, Revivals
\* The rows that appear are inserted with their image.
<1>3. ASSUME NEW p \in Posts, status[p] = "absent", status'[p] # "absent" PROVE image'[p]
  <2>1. status'[p] = "pending_approval"
    BY <1>3 DEF Moved, Moves, CalmInv
  <2>2. p \in Waiting' /\ p \notin Waiting
    BY <1>3, <2>1 DEF Waiting, Rows
  <2>3. ~ UNCHANGED vars
    BY <1>3 DEF vars
  <2>4. PICK o \in Owners : GenInsert(o)
    BY <2>2, <2>3, NoMoreWaiting
  <2> QED
    BY <1>3, <2>4 DEF GenInsert, TypeOK, Rows
<1>4. \A p \in Posts : status'[p] # "absent" => image'[p]
  BY <1>1, <1>3 DEF CalmInv
<1>5. \A p \in expiring' : status'[p] # "absent"
  BY <1>1, <1>2 DEF CalmInv, TypeOK
<1> QED
  BY <1>1, <1>4, <1>5 DEF CalmInv

\* A coroutine moves: the post it carried is not left half way, and the one it
\* brings half way it carries.
LEMMA CarrierMoves ==
  ASSUME TypeOK, CarriedInv, NEW o \in Owners, NEW t, run' = [run EXCEPT ![o] = t],
         UNCHANGED <<crashes, timeouts, mode>>,
         \A p \in Posts : status'[p] \in HalfWay =>
            \/ t.pc \in Carrying /\ t.post = p
            \/ status[p] \in HalfWay /\ ~(Carries(o) /\ run[o].post = p)
  PROVE  CarriedInv'
<1>1. run'[o] = t /\ \A q \in Owners \ {o} : run'[q] = run[q]
  BY DEF TypeOK
<1> QED
  BY <1>1 DEF CarriedInv, Carries

\* It carried nothing, and brings nothing half way.
LEMMA CarriesNot ==
  ASSUME TypeOK, CarriedInv, NEW o \in Owners, Done(o) \/ \E t : run' = [run EXCEPT ![o] = t],
         run[o].pc \notin Carrying, UNCHANGED <<crashes, timeouts, mode>>,
         \A p \in Posts : status'[p] \in HalfWay => status[p] \in HalfWay
  PROVE  CarriedInv'
BY CarrierMoves DEF Carries, Done

\* Nobody moves.
LEMMA CarriedStill ==
  ASSUME CarriedInv, UNCHANGED <<run, crashes, timeouts, mode>>,
         \A p \in Posts : status'[p] \in HalfWay => status[p] \in HalfWay
  PROVE  CarriedInv'
BY DEF CarriedInv, Carries

LEMMA LockCarried ==
  ASSUME TypeOK, CarriedInv, NEW o \in {"bot", "job7"}, run[o].pc \in {"retry", "lock"}, NEW from, Lock(o, from)
  PROVE  CarriedInv'
<1> USE DEF rowVars, jobVars, worldVars, faultVars
<1> DEFINE p == run[o].post
           t == [run[o] EXCEPT !.pc = "upload", !.mem = "publishing", !.img = image[p]]
<1>0. o \in Owners /\ run[o].pc \notin Carrying
  BY DEF Owners, Carrying
<1>1. CASE status[p] = from
  <2>1. p \in Posts /\ run[o] \in Tasks
    BY <1>0 DEF TypeOK
  <2>2. run' = [run EXCEPT ![o] = t] /\ status' = [status EXCEPT ![p] = "publishing"]
        /\ UNCHANGED <<crashes, timeouts, mode>>
    BY <1>1 DEF Lock
  <2>3. t.pc \in Carrying /\ t.post = p
    BY <2>1 DEF Tasks, Carrying
  <2> HIDE DEF t
  <2>4. \A x \in Posts : x # p => status'[x] = status[x]
    BY <2>2 DEF TypeOK
  <2> QED
    BY <1>0, <2>2, <2>3, <2>4, CarrierMoves DEF Carries
<1>2. CASE status[p] # from
  BY <1>0, <1>2, CarriesNot DEF Lock
<1> QED
  BY <1>1, <1>2

\* A publication under way goes on, or ends with a status of its own.
LEMMA PublishCarried ==
  ASSUME ~UploadsFail, TypeOK, PublisherInv, GraphInv, CalmInv, CarriedInv,
         NEW o \in Owners, Publish(o)
  PROVE  CarriedInv'
<1> USE DEF rowVars, jobVars, worldVars, faultVars
<1> DEFINE p == run[o].post
<1>0. run[o] \in Tasks /\ status \in [Posts -> Statuses]
  BY DEF TypeOK
<1>a. ASSUME Carries(o)
      PROVE  /\ p \in Posts /\ status[p] # "absent" /\ SnapshotInv(o)
             /\ status[p] \in {run[o].mem, "expired"} /\ run[o].mem \in Memories(o)
  <2>1. p \in Posts /\ SnapshotInv(o)
    BY <1>a DEF TypeOK, Carries, Carrying, GraphInv
  <2>2. status[p] # "absent"
    BY <1>a, CarryingSteps DEF PublisherInv, HeldStatus, Held, Carries
  <2> QED
    BY <1>a, <2>1, <2>2 DEF SnapshotInv
\* It keeps its post.
<1>b. ASSUME Carries(o), NEW t, run' = [run EXCEPT ![o] = t], t.pc \in Carrying, t.post = p,
             UNCHANGED <<crashes, timeouts, mode>>, UNCHANGED status \/ \E s : status' = [status EXCEPT ![p] = s]
      PROVE  CarriedInv'
  <2>1. \A x \in Posts : x # p => status'[x] = status[x]
    BY <1>0, <1>b
  <2> HIDE DEF p
  <2> QED
    BY <1>b, <2>1, CarrierMoves DEF p
\* It leaves its post, in another status.
<1>c. ASSUME Carries(o), Done(o), UNCHANGED <<crashes, timeouts, mode>>, status'[p] \notin HalfWay,
             UNCHANGED status \/ \E s : status' = [status EXCEPT ![p] = s]
      PROVE  CarriedInv'
  <2>1. \A x \in Posts : x # p => status'[x] = status[x]
    BY <1>0, <1>c
  <2> HIDE DEF p
  <2> QED
    BY <1>c, <2>1, CarrierMoves DEF Done, p
<1>1. CASE Quota(o)
  <2>1. Carries(o) /\ run[o].pc = "quota" /\ UNCHANGED <<crashes, timeouts, mode>>
    BY <1>1 DEF Quota, At, Carries, Carrying
  <2>2. CASE Goto(o, "upload") /\ UNCHANGED status
    <3> DEFINE t == [run[o] EXCEPT !.pc = "upload"]
    <3>1. t.pc \in Carrying /\ t.post = p /\ run' = [run EXCEPT ![o] = t]
      BY <1>0, <2>2 DEF Tasks, Goto, Carrying
    <3> HIDE DEF t
    <3> QED
      BY <1>b, <2>1, <2>2, <3>1
  <2>3. CASE o = "bot" /\ Flush(o, p, "queued") /\ Done(o)
    <3>1. run[o].mem = "approved"
      BY <1>a, <2>1, <2>3 DEF SnapshotInv, Memories
    <3>2. status' = [status EXCEPT ![p] = "queued"]
      BY <2>3, <3>1 DEF Flush
    <3>3. status'[p] \notin HalfWay
      BY <1>0, <1>a, <2>1, <3>2 DEF HalfWay
    <3> QED
      BY <1>c, <2>1, <2>3, <3>2, <3>3
  <2>4. CASE o # "bot" /\ UNCHANGED status /\ Done(o)
    <3>1. status[p] \notin HalfWay
      BY <1>a, <2>1, <2>4 DEF SnapshotInv, Memories, HalfWay
    <3> QED
      BY <1>c, <2>1, <2>4, <3>1
  <2> QED
    BY <1>1, <2>2, <2>3, <2>4 DEF Quota
<1>2. CASE UploadOk(o)
  <2> DEFINE t == [run[o] EXCEPT !.pc = "ready", !.mem = IF o = "job3" THEN status[p] ELSE run[o].mem]
  <2>1. /\ Carries(o) /\ run' = [run EXCEPT ![o] = t] /\ UNCHANGED <<status, crashes, timeouts, mode>>
    BY <1>2 DEF UploadOk, At, Carries, Carrying
  <2>2. t.pc \in Carrying /\ t.post = p
    BY <1>0 DEF Tasks, Carrying
  <2> HIDE DEF t
  <2> QED
    BY <1>b, <2>1, <2>2
<1>3. ~UploadFail(o)
  BY <1>a DEF UploadFail, At, Carries, Carrying, CalmInv
<1>4. ~PublishRefused(o)
  BY DEF PublishRefused, CalmInv
<1>5. CASE PublishStart(o)
  <2> DEFINE t == [run[o] EXCEPT !.pc = "platforms", !.mem = "publishing", !.todo = Platforms]
  <2>1. /\ Carries(o) /\ run' = [run EXCEPT ![o] = t] /\ UNCHANGED <<crashes, timeouts, mode>>
        /\ UNCHANGED status \/ status' = [status EXCEPT ![p] = "publishing"]
    BY <1>5 DEF PublishStart, At, Carries, Carrying, Flush
  <2>2. t.pc \in Carrying /\ t.post = p
    BY <1>0 DEF Tasks, Carrying
  <2> HIDE DEF t
  <2> QED
    BY <1>b, <2>1, <2>2
<1>6. CASE PublishEnd(o)
  <2>1. PICK s \in {"published", "error"} :
          /\ run[o].pc = "platforms" /\ Flush(o, p, s) /\ Done(o) /\ UNCHANGED <<crashes, timeouts, mode>>
    BY <1>6 DEF PublishEnd, At
  <2>2. Carries(o) /\ run[o].mem = "publishing"
    BY <1>a, <2>1 DEF SnapshotInv, Carries, Carrying
  <2>3. status' = [status EXCEPT ![p] = s]
    BY <2>1, <2>2 DEF Flush
  <2>4. status'[p] \notin HalfWay
    BY <1>0, <1>a, <2>2, <2>3 DEF HalfWay
  <2> QED
    BY <1>c, <2>1, <2>2, <2>3, <2>4
<1>7. ASSUME NEW f \in Platforms, Platform(o, f) PROVE CarriedInv'
  <2>1. UNCHANGED <<status, crashes, timeouts, mode>>
    BY <1>7 DEF Platform
  <2>2. PICK t : run' = [run EXCEPT ![o] = t] /\ t.pc = run[o].pc /\ t.post = run[o].post
    <3> DEFINE todo == run[o].todo \ {f}
               good == [run[o] EXCEPT !.todo = todo, !.ok = run[o].ok \cup {f}]
               fail == [run[o] EXCEPT !.todo = todo, !.bad = run[o].bad \cup {f}]
    <3>1. run' = [run EXCEPT ![o] = good] \/ run' = [run EXCEPT ![o] = fail]
      BY <1>7 DEF Platform
    <3>2. good.pc = run[o].pc /\ good.post = run[o].post /\ fail.pc = run[o].pc /\ fail.post = run[o].post
      BY <1>0 DEF Tasks
    <3> HIDE DEF good, fail
    <3> QED
      BY <3>1, <3>2
  <2>3. run'[o] = t /\ \A q \in Owners \ {o} : run'[q] = run[q]
    BY <2>2 DEF TypeOK
  <2>4. \A q \in Owners : (Carries(q) => Carries(q)') /\ run'[q].post = run[q].post
    BY <2>2, <2>3 DEF Carries
  <2> QED
    BY <2>1, <2>4 DEF CarriedInv
<1> QED
  BY <1>1, <1>2, <1>3, <1>4, <1>5, <1>6, <1>7 DEF Publish

LEMMA NextCarried ==
  ASSUME ~UploadsFail, TypeOK, PublisherInv, GraphInv, CalmInv, CarriedInv, [Next]_vars
  PROVE  CarriedInv'
<1> USE DEF rowVars, jobVars, worldVars, faultVars
<1>0. "bot" \in Owners /\ "job7" \in Owners /\ status \in [Posts -> Statuses] /\ run["bot"] \in Tasks
  BY DEF TypeOK, Owners
<1>a. ASSUME NEW s, s \notin HalfWay, NEW x, status' = status \/ status' = [status EXCEPT ![x] = s]
      PROVE  \A p \in Posts : status'[p] \in HalfWay => status[p] \in HalfWay
  BY <1>0, <1>a
<1>1. ASSUME NEW o \in Owners, Generate(o) PROVE CarriedInv'
  <2>1. run[o].pc \notin Carrying /\ UNCHANGED <<crashes, timeouts, mode>>
    BY <1>1 DEF Generate, GenStart, GenEmpty, GenInsert, Send, Record, At, Free, Busy, Carrying
  <2>2. Done(o) \/ \E t : run' = [run EXCEPT ![o] = t]
    BY <1>1 DEF Generate, GenStart, GenEmpty, GenInsert, Send, Record, Goto
  <2>3. \E x : status' = status \/ status' = [status EXCEPT ![x] = "pending_approval"]
    BY <1>1 DEF Generate, GenStart, GenEmpty, GenInsert, Send, Record
  <2>4. \A p \in Posts : status'[p] \in HalfWay => status[p] \in HalfWay
    BY <1>a, <2>3 DEF HalfWay
  <2> QED
    BY <2>1, <2>2, <2>4, CarriesNot
<1>2. CASE Handler
  <2> DEFINE p == run["bot"].post
  <2>1. CASE ApproveLock
    <3>1. run["bot"].pc = "approve" /\ run["bot"].pc \notin Carrying /\ p \in Posts
          /\ UNCHANGED <<crashes, timeouts, mode>>
      BY <1>0, <2>1 DEF ApproveLock, At, Carrying, TypeOK
    <3>2. CASE status[p] = "pending_approval"
      <4> DEFINE t == [run["bot"] EXCEPT !.pc = "quota", !.mem = "approved"]
      <4>1. image[p]
        BY <3>1, <3>2 DEF CalmInv
      <4>2. run' = [run EXCEPT !["bot"] = t] /\ status' = [status EXCEPT ![p] = "approved"]
        BY <2>1, <3>2, <4>1 DEF ApproveLock
      <4>3. t.pc \in Carrying /\ t.post = p
        BY <1>0 DEF Tasks, Carrying
      <4> HIDE DEF t
      <4>4. \A x \in Posts : x # p => status'[x] = status[x]
        BY <1>0, <4>2
      <4>5. \A x \in Posts : status'[x] \in HalfWay =>
               \/ t.pc \in Carrying /\ t.post = x
               \/ status[x] \in HalfWay /\ ~(Carries("bot") /\ run["bot"].post = x)
        BY <3>1, <4>3, <4>4 DEF Carries
      <4> QED
        BY <1>0, <3>1, <4>2, <4>5, CarrierMoves
    <3>3. CASE status[p] # "pending_approval"
      BY <1>0, <2>1, <3>1, <3>3, CarriesNot DEF ApproveLock
    <3> QED
      BY <3>2, <3>3
  <2>2. CASE RetryLock
    BY <2>2, LockCarried DEF RetryLock, At
  <2>3. CASE GenRefused \/ QueueCount \/ QueueLock \/ RejectWrite \/ SkipWrite \/ SingleEnd
    <3>1. run["bot"].pc \notin Carrying /\ UNCHANGED <<crashes, timeouts, mode>>
      BY <2>3 DEF GenRefused, QueueCount, QueueLock, RejectWrite, SkipWrite, SingleEnd, At, Carrying
    <3>2. Done("bot") \/ \E t : run' = [run EXCEPT !["bot"] = t]
      BY <2>3 DEF GenRefused, QueueCount, QueueLock, RejectWrite, SkipWrite, SingleEnd, Goto
    <3>3. \E s \in {"queued", "rejected", "skipped"} : status' = status \/ status' = [status EXCEPT ![p] = s]
      BY <2>3 DEF GenRefused, QueueCount, QueueLock, RejectWrite, SkipWrite, SingleEnd, Flush
    <3>4. \A x \in Posts : status'[x] \in HalfWay => status[x] \in HalfWay
      BY <1>a, <3>3 DEF HalfWay
    <3> QED
      BY <1>0, <3>1, <3>2, <3>4, CarriesNot
  <2> QED
    BY <1>2, <2>1, <2>2, <2>3 DEF Handler
<1>3. CASE Admin
  <2>1. run["bot"].pc = "idle" /\ UNCHANGED <<status, crashes, timeouts, mode>>
        /\ \E t : run' = [run EXCEPT !["bot"] = t]
    BY <1>3 DEF Admin, Press, EditCaption, Retry, RetryPlatform, Free, Busy
  <2> QED
    BY <1>0, <2>1, CarriesNot, CarryingSteps DEF Carrying
<1>4. CASE Jobs
  <2>1. CASE DequeueLock
    BY <2>1, LockCarried DEF DequeueLock, At
  <2>2. CASE QueueNext
    <3>1. run["job7"].pc \notin Carrying /\ UNCHANGED <<status, crashes, timeouts, mode>>
          /\ (UNCHANGED run \/ \E t : run' = [run EXCEPT !["job7"] = t])
      BY <2>2 DEF QueueNext, Free, Busy, Carrying
    <3> QED
      BY <1>0, <3>1, CarriesNot, CarriedStill
  <2>3. CASE QueueSelect \/ ExpireSelect \/ SweepSelect \/ SweepWrite
    BY <2>3, CarriedStill DEF QueueSelect, ExpireSelect, SweepSelect, SweepWrite
  <2>4. CASE ExpireWrite
    <3>1. \A p \in Posts : status'[p] \in HalfWay => status[p] \in HalfWay
      BY <2>4 DEF ExpireWrite, HalfWay
    <3> QED
      BY <2>4, <3>1, CarriedStill DEF ExpireWrite
  <2> QED
    BY <1>4, <2>1, <2>2, <2>3, <2>4 DEF Jobs
\* There is a recovery only after a crash.
<1>5. CASE Recovery
  <2>1. mode # "up" /\ crashes' = crashes
    BY <1>5 DEF Recovery, Restart, ResendSelect, Ready, Republish, Resend
  <2> QED
    BY <2>1 DEF CarriedInv
<1>6. CASE Environment
  <2>1. CASE Crash
    <3>1. crashes' # 0
      BY <2>1 DEF Crash, TypeOK
    <3> QED
      BY <3>1 DEF CarriedInv
  <2>2. CASE Suspend \/ Lift \/ \E p \in Posts : Age(p)
    BY <2>2, CarriedStill DEF Suspend, Lift, Age
  <2> QED
    BY <1>6, <2>1, <2>2 DEF Environment
<1>7. CASE UNCHANGED vars
  BY <1>7, CarriedStill DEF vars
<1>8. CASE Contention
  <2>1. ASSUME NEW o \in Owners, LockTimeout(o) PROVE CarriedInv'
    <3>1. /\ run' = [run EXCEPT ![o] = Idle] /\ UNCHANGED <<status, crashes, mode>>
          /\ timeouts' = [timeouts EXCEPT ![run[o].post] = @ + 1]
      BY <2>1 DEF LockTimeout, Done
    <3>2. /\ run \in [Owners -> Tasks] /\ timeouts \in [Posts -> Nat] /\ run[o].post \in Posts
      BY <2>1, LifecycleAssumption DEF TypeOK, LockTimeout, Writing, At
    <3>3. ASSUME NEW x \in Posts, timeouts'[x] = 0
          PROVE  timeouts[x] = 0 /\ x # run[o].post
      BY <3>1, <3>2, <3>3
    <3>4. \A q \in Owners \ {o} : run'[q] = run[q]
      BY <3>1, <3>2
    <3>5. ASSUME NEW x \in Posts, x # run[o].post, \E q \in Owners : Carries(q) /\ run[q].post = x
          PROVE  \E q \in Owners : Carries(q)' /\ run'[q].post = x
      BY <3>4, <3>5 DEF Carries
    <3> QED
      BY <3>1, <3>3, <3>5 DEF CarriedInv
  <2>2. ASSUME NEW p \in Posts, RepublishTimeout(p) PROVE CarriedInv'
    <3>1. mode # "up" /\ crashes' = crashes
      BY <2>2 DEF RepublishTimeout
    <3> QED
      BY <3>1 DEF CarriedInv
  <2>3. CASE ExpireTimeout
    BY <2>3, CarriedStill DEF ExpireTimeout
  <2> QED
    BY <1>8, <2>1, <2>2, <2>3 DEF Contention
<1> QED
  BY <1>1, <1>2, <1>3, <1>4, <1>5, <1>6, <1>7, <1>8, PublishCarried DEF Next

\* Until a crash, as long as uploads succeed, nothing is suspended and JOB-6 has
\* no file to remove, a post left half way when nothing runs is one about which a
\* write (of the row, or of the daily counter) found the database locked,
\* whatever the answers of the platforms and of the daily limit.
THEOREM NothingLeft ==
  ASSUME ~UploadsFail, ~CanSuspend, MaxAge <= 1
  PROVE  Spec => []NothingStranded
<1>1. Init => CalmInv /\ CarriedInv
  BY DEF Init, CalmInv, CarriedInv, HalfWay
<1>2. TypeOK /\ TypeOK' /\ PublisherInv /\ CopiesInv /\ GraphInv /\ CalmInv /\ CarriedInv /\ [Next]_vars
        => CalmInv' /\ CarriedInv'
  BY NextSnapshots, NextCalm, NextCarried
<1>3. TypeOK /\ CarriedInv => NothingStranded
  <2> SUFFICES ASSUME TypeOK, CarriedInv, AtRest, crashes = 0, NEW p \in Posts, status[p] \in HalfWay
               PROVE  timeouts[p] > 0
    BY DEF NothingStranded, Rows, HalfWay
  <2>1. timeouts[p] # 0
    BY DEF CarriedInv, AtRest, Busy, Carries, Carrying
  <2> QED
    BY <2>1, LifecycleAssumption DEF TypeOK
<1> QED
  BY <1>1, <1>2, <1>3, SnapshotsAlways, PTL DEF Spec
==============================================================================
