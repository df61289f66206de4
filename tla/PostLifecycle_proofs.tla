------------------------ MODULE PostLifecycle_proofs ------------------------
(***************************************************************************)
(* What holds of PostLifecycle, whatever the posts, platforms and bounds:  *)
(* the types, the bound on pending posts, the mutual exclusion of those    *)
(* that publish a post, and the contract of an approval.                   *)
(***************************************************************************)
EXTENDS PostLifecycle, TLAPS, FiniteSetTheorems

\* A coroutine with nothing to do carries an empty task.
LEMMA IdleTask == Idle \in Tasks
  BY DEF Idle, Tasks, Steps, Statuses

\* The initial table is empty and every coroutine is idle.
LEMMA InitTypeOK == Init => TypeOK
<1> SUFFICES ASSUME Init PROVE TypeOK
  OBVIOUS
<1> USE LifecycleAssumption DEF Init
<1>1. run \in [Owners -> Tasks]
  BY IdleTask
<1>2. /\ crashes \in 0..MaxCrashes /\ lost \in 0..MaxLost
      /\ age \in [Posts -> 0..MaxAge] /\ timeouts \in [Posts -> 0..MaxTimeouts]
  OBVIOUS
<1>3. live \in [Posts -> [Platforms -> Nat]]
  OBVIOUS
<1>4. \A o \in Owners : run[o].pc = "idle"
  BY DEF Idle
<1> QED
  BY <1>1, <1>2, <1>3, <1>4 DEF TypeOK, Statuses

\* The part of the types that concerns what the coroutines carry.
HandsTyped ==
    /\ run \in [Owners -> Tasks]
    /\ \A o \in Owners : run[o].pc \notin {"idle", "generating", "replace"} => run[o].post \in Posts

LEMMA Handed ==
  ASSUME HandsTyped, NEW o \in Owners, NEW t \in Tasks, t.post \in Posts,
         run' = [run EXCEPT ![o] = t]
  PROVE  HandsTyped'
BY DEF HandsTyped

LEMMA DoneHands ==
  ASSUME HandsTyped, NEW o \in Owners, Done(o)
  PROVE  HandsTyped'
BY IdleTask DEF HandsTyped, Done, Idle

LEMMA GotoHands ==
  ASSUME HandsTyped, NEW o \in Owners, NEW s \in Steps, run[o].post \in Posts, Goto(o, s)
  PROVE  HandsTyped'
BY DEF HandsTyped, Goto, Tasks

\* The conditional UPDATE hands over the post that the coroutine already names.
LEMMA LockHands ==
  ASSUME HandsTyped, image \in [Posts -> BOOLEAN],
         NEW o \in Owners, run[o].post \in Posts, NEW from, Lock(o, from)
  PROVE  HandsTyped'
<1>1. CASE status[run[o].post] = from
  <2> DEFINE t == [run[o] EXCEPT !.pc = "upload", !.mem = "publishing",
                                 !.img = image[run[o].post]]
  <2>1. run' = [run EXCEPT ![o] = t]
    BY <1>1 DEF Lock
  <2>2. run[o] \in Tasks
    BY DEF HandsTyped
  <2>3. t \in Tasks /\ t.post = run[o].post
    BY <2>2 DEF Tasks, Steps, Statuses
  <2> QED
    BY <2>1, <2>3, Handed
<1>2. CASE status[run[o].post] # from
  BY <1>2, DoneHands DEF Lock
<1> QED
  BY <1>1, <1>2

LEMMA UploadHands ==
  ASSUME HandsTyped, status \in [Posts -> Statuses], NEW o \in Owners, UploadOk(o)
  PROVE  HandsTyped'
<1> DEFINE m == IF o = "job3" THEN status[run[o].post] ELSE run[o].mem
           t == [run[o] EXCEPT !.pc = "ready", !.mem = m]
<1>1. run[o] \in Tasks /\ run[o].post \in Posts
  BY DEF HandsTyped, UploadOk, At
<1>2. m \in Statuses
  BY <1>1 DEF Tasks
<1>3. run' = [run EXCEPT ![o] = t]
  BY DEF UploadOk
<1>4. t \in Tasks /\ t.post = run[o].post
  <2> HIDE DEF m
  <2> QED
    BY <1>1, <1>2 DEF Tasks, Steps
<1> HIDE DEF t
<1> QED
  BY <1>1, <1>3, <1>4, Handed

LEMMA StartHands ==
  ASSUME HandsTyped, NEW o \in Owners, PublishStart(o)
  PROVE  HandsTyped'
<1> DEFINE t == [run[o] EXCEPT !.pc = "platforms", !.mem = "publishing", !.todo = Platforms]
<1>1. run[o] \in Tasks /\ run[o].post \in Posts
  BY DEF HandsTyped, PublishStart, At
<1>2. run' = [run EXCEPT ![o] = t]
  BY DEF PublishStart
<1>3. t \in Tasks /\ t.post = run[o].post
  BY <1>1 DEF Tasks, Steps, Statuses
<1> HIDE DEF t
<1> QED
  BY <1>1, <1>2, <1>3, Handed

LEMMA PlatformHands ==
  ASSUME HandsTyped, NEW o \in Owners, NEW f \in Platforms, Platform(o, f)
  PROVE  HandsTyped'
<1> DEFINE todo == run[o].todo \ {f}
           good == [run[o] EXCEPT !.todo = todo, !.ok = run[o].ok \cup {f}]
           fail == [run[o] EXCEPT !.todo = todo, !.bad = run[o].bad \cup {f}]
<1>1. run[o] \in Tasks
  BY DEF HandsTyped
<1>2. run' = [run EXCEPT ![o] = good] \/ run' = [run EXCEPT ![o] = fail]
  BY DEF Platform
<1>3. /\ good \in Tasks /\ good.post = run[o].post /\ good.pc = run[o].pc
      /\ fail \in Tasks /\ fail.post = run[o].post /\ fail.pc = run[o].pc
  BY <1>1 DEF Tasks
<1> HIDE DEF good, fail
<1> QED
  BY <1>2, <1>3 DEF HandsTyped

\* A write that finds the database locked changes no row.  At most it stops one
\* coroutine, or shortens what a job or recovery has left to do.
LEMMA Contended ==
  ASSUME Contention
  PROVE  /\ UNCHANGED <<rowVars, worldVars, sweeping, suspended, mode, crashes, lost>>
         /\ expiring' \subseteq expiring /\ queue' \subseteq queue
         /\ recovering' \subseteq recovering
         /\ \/ UNCHANGED run
            \/ UNCHANGED recovering /\ \E o \in Owners : Writing(o) /\ Done(o)
<1>1. ASSUME NEW o \in Owners, LockTimeout(o)
      PROVE  /\ UNCHANGED <<rowVars, worldVars, expiring, sweeping, recovering,
                            suspended, mode, crashes, lost>>
             /\ queue' \subseteq queue /\ Writing(o) /\ Done(o)
  BY <1>1 DEF LockTimeout
<1>2. ASSUME NEW p \in Posts, RepublishTimeout(p)
      PROVE  /\ UNCHANGED <<rowVars, worldVars, expiring, sweeping, queue,
                            suspended, mode, crashes, lost, run>>
             /\ recovering' \subseteq recovering
  BY <1>2 DEF RepublishTimeout
<1>3. CASE ExpireTimeout
  BY <1>3 DEF ExpireTimeout, faultVars
<1> QED
  BY <1>1, <1>2, <1>3 DEF Contention

\* Each post counts its own.
LEMMA TimeoutsCounted ==
  ASSUME timeouts \in [Posts -> 0..MaxTimeouts], MaxTimeouts \in Nat, Contention
  PROVE  timeouts' \in [Posts -> 0..MaxTimeouts]
<1>a. ASSUME NEW p, timeouts[p] < MaxTimeouts, timeouts' = [timeouts EXCEPT ![p] = @ + 1]
      PROVE  timeouts' \in [Posts -> 0..MaxTimeouts]
  <2>1. ASSUME NEW q \in Posts PROVE timeouts'[q] \in 0..MaxTimeouts
    <3>1. CASE q = p
      BY <1>a, <3>1
    <3>2. CASE q # p
      BY <1>a, <3>2
    <3> QED
      BY <3>1, <3>2
  <2> QED
    BY <1>a, <2>1
<1>1. ASSUME NEW o \in Owners, LockTimeout(o) PROVE timeouts' \in [Posts -> 0..MaxTimeouts]
  BY <1>1, <1>a DEF LockTimeout
<1>2. ASSUME NEW p \in Posts, RepublishTimeout(p) PROVE timeouts' \in [Posts -> 0..MaxTimeouts]
  BY <1>2, <1>a DEF RepublishTimeout
<1>3. CASE ExpireTimeout
  BY <1>3 DEF ExpireTimeout, faultVars
<1> QED
  BY <1>1, <1>2, <1>3 DEF Contention

\* Every hand-over gives a coroutine a well-formed task.
LEMMA NextHands == TypeOK /\ [Next]_vars => HandsTyped'
<1> SUFFICES ASSUME TypeOK, [Next]_vars PROVE HandsTyped'
  OBVIOUS
<1>a. /\ status \in [Posts -> Statuses] /\ image \in [Posts -> BOOLEAN]
      /\ ids \in [Posts -> SUBSET Platforms] /\ errs \in [Posts -> SUBSET Platforms]
      /\ queue \subseteq Posts
      /\ HandsTyped
  BY DEF TypeOK, HandsTyped
<1> HIDE DEF TypeOK
<1> USE <1>a, IdleTask DEF HandsTyped, Tasks, Steps, Statuses, Owners, jobVars, Idle
<1>1. ASSUME NEW o \in Owners, Generate(o) PROVE HandsTyped'
  <2>1. CASE GenStart(o)
    BY <2>1 DEF GenStart, Goto
  <2>2. CASE GenEmpty(o)
    BY <2>2 DEF GenEmpty, Done
  <2>3. CASE GenInsert(o)
    <3>1. PICK p \in Posts, s \in {"quota", "sending"} :
            run' = [run EXCEPT ![o] = [Idle EXCEPT !.pc = s, !.post = p,
                                          !.mem = "pending_approval", !.img = TRUE]]
      BY <2>3 DEF GenInsert, Rows
    <3> QED
      BY <3>1
  <2>4. CASE Send(o)
    BY <2>4, DoneHands, GotoHands DEF Send, At
  <2>5. CASE Record(o)
    BY <2>5 DEF Record, Done, At
  <2> QED
    BY <1>1, <2>1, <2>2, <2>3, <2>4, <2>5 DEF Generate
<1>2. ASSUME NEW o \in Owners, Publish(o) PROVE HandsTyped'
  <2>1. CASE Quota(o)
    BY <2>1, DoneHands, GotoHands DEF Quota, At
  <2>2. CASE UploadOk(o)
    BY <2>2, UploadHands
  <2>3. CASE UploadFail(o)
    BY <2>3 DEF UploadFail, Abort, Done, At
  <2>4. CASE PublishRefused(o)
    BY <2>4 DEF PublishRefused, Abort, Done, At
  <2>5. CASE PublishStart(o)
    BY <2>5, StartHands
  <2>6. CASE PublishEnd(o)
    BY <2>6 DEF PublishEnd, Done, At
  <2>7. ASSUME NEW f \in Platforms, Platform(o, f) PROVE HandsTyped'
    BY <2>7, PlatformHands
  <2> QED
    BY <1>2, <2>1, <2>2, <2>3, <2>4, <2>5, <2>6, <2>7 DEF Publish
<1>3. CASE Handler
  <2>1. CASE GenRefused
    BY <2>1 DEF GenRefused, Done
  <2>2. CASE ApproveLock
    <3>1. CASE Done("bot")
      BY <3>1, DoneHands
    <3>2. CASE run' = [run EXCEPT !["bot"] = [@ EXCEPT !.pc = "quota", !.mem = "approved"]]
      BY <2>2, <3>2 DEF ApproveLock, At
    <3> QED
      BY <2>2, <3>1, <3>2 DEF ApproveLock
  <2>3. CASE QueueCount
    BY <2>3, DoneHands, GotoHands DEF QueueCount, At
  <2>4. CASE QueueLock
    BY <2>4 DEF QueueLock, Done, At
  <2>5. CASE RejectWrite
    BY <2>5 DEF RejectWrite, Done, At
  <2>6. CASE SkipWrite
    BY <2>6 DEF SkipWrite, At, Idle
  <2>7. CASE RetryLock
    BY <2>7, LockHands DEF RetryLock, At
  <2>8. CASE SingleEnd
    BY <2>8 DEF SingleEnd, Done, At
  <2> QED
    BY <1>3, <2>1, <2>2, <2>3, <2>4, <2>5, <2>6, <2>7, <2>8 DEF Handler
<1>4. CASE Admin
  <2>1. ASSUME NEW p \in Posts, NEW b \in Buttons, Press(p, b) PROVE HandsTyped'
    BY <2>1 DEF Press, Buttons, Idle
  <2>2. ASSUME NEW p \in Posts, EditCaption(p) PROVE HandsTyped'
    BY <2>2 DEF EditCaption, Idle
  <2>3. ASSUME NEW p \in Posts, Retry(p) PROVE HandsTyped'
    BY <2>3 DEF Retry, Idle
  <2>4. ASSUME NEW p \in Posts, NEW f \in Platforms, RetryPlatform(p, f) PROVE HandsTyped'
    <3> DEFINE t == [Idle EXCEPT !.pc = "single", !.post = p, !.mem = "published",
                                 !.img = image[p], !.todo = {f}]
    <3>1. run' = [run EXCEPT !["bot"] = t]
      BY <2>4 DEF RetryPlatform
    <3>2. t \in Tasks /\ t.post \in Posts
      OBVIOUS
    <3> HIDE DEF t
    <3> QED
      BY <3>1, <3>2, Handed
  <2> QED
    BY <1>4, <2>1, <2>2, <2>3, <2>4 DEF Admin
<1>5. CASE Jobs
  <2>1. CASE QueueSelect
    BY <2>1 DEF QueueSelect
  <2>2. CASE QueueNext
    <3>1. CASE UNCHANGED run
      BY <3>1
    <3>2. ASSUME NEW p \in Posts,
                 run' = [run EXCEPT !["job7"] = [Idle EXCEPT !.pc = "lock", !.post = p]]
          PROVE  HandsTyped'
      BY <3>2
    <3> QED
      BY <2>2, <3>1, <3>2 DEF QueueNext
  <2>3. CASE DequeueLock
    BY <2>3, LockHands DEF DequeueLock, At
  <2>4. CASE ExpireSelect
    BY <2>4 DEF ExpireSelect
  <2>5. CASE ExpireWrite
    BY <2>5 DEF ExpireWrite
  <2>6. CASE SweepSelect
    BY <2>6 DEF SweepSelect
  <2>7. CASE SweepWrite
    BY <2>7 DEF SweepWrite
  <2> QED
    BY <1>5, <2>1, <2>2, <2>3, <2>4, <2>5, <2>6, <2>7 DEF Jobs
<1>6. CASE Recovery
  <2>1. CASE Restart
    BY <2>1 DEF Restart
  <2>2. CASE ResendSelect
    BY <2>2 DEF ResendSelect
  <2>3. CASE Ready
    BY <2>3 DEF Ready
  <2>4. ASSUME NEW p \in Posts, Republish(p) PROVE HandsTyped'
    <3>1. CASE UNCHANGED run
      BY <3>1
    <3>2. CASE run' = [run EXCEPT !["boot"] =
                 [Idle EXCEPT !.pc = "platforms", !.post = p, !.mem = "publishing",
                              !.img = image[p], !.todo = Platforms \ ids[p]]]
      BY <3>2
    <3> QED
      BY <2>4, <3>1, <3>2 DEF Republish
  <2>5. ASSUME NEW p \in Posts, Resend(p) PROVE HandsTyped'
    BY <2>5 DEF Resend, Idle
  <2> QED
    BY <1>6, <2>1, <2>2, <2>3, <2>4, <2>5 DEF Recovery
<1>7. CASE Environment
  <2>1. CASE Crash
    BY <2>1 DEF Crash
  <2>2. CASE Suspend
    BY <2>2 DEF Suspend
  <2>3. CASE Lift
    BY <2>3 DEF Lift
  <2>4. ASSUME NEW p \in Posts, Age(p) PROVE HandsTyped'
    BY <2>4 DEF Age
  <2> QED
    BY <1>7, <2>1, <2>2, <2>3, <2>4 DEF Environment
<1>8. CASE UNCHANGED vars
  BY <1>8 DEF vars
<1>9. CASE Contention
  BY <1>9, Contended, DoneHands
<1> QED
  BY <1>1, <1>2, <1>3, <1>4, <1>5, <1>6, <1>7, <1>8, <1>9 DEF Next

\* The copies and the lost answers stay counters.
LEMMA PlatformWorld ==
  ASSUME live \in [Posts -> [Platforms -> Nat]], lost \in 0..MaxLost, MaxLost \in Nat,
         NEW o, NEW f \in Platforms, Platform(o, f)
  PROVE  live' \in [Posts -> [Platforms -> Nat]] /\ lost' \in 0..MaxLost
<1>1. ASSUME UNCHANGED live
      PROVE  live' \in [Posts -> [Platforms -> Nat]]
  BY <1>1
<1>2. ASSUME live' = [live EXCEPT ![run[o].post][f] = @ + 1]
      PROVE  live' \in [Posts -> [Platforms -> Nat]]
  <2>1. ASSUME NEW p \in Posts
        PROVE  live'[p] \in [Platforms -> Nat]
    <3>1. CASE p = run[o].post
      BY <1>2, <3>1
    <3>2. CASE p # run[o].post
      BY <1>2, <3>2
    <3> QED
      BY <3>1, <3>2
  <2>2. live' = [p \in Posts |-> live'[p]]
    BY <1>2
  <2> QED
    BY <2>1, <2>2
<1>3. lost' \in 0..MaxLost
  BY DEF Platform
<1> QED
  BY <1>1, <1>2, <1>3 DEF Platform

\* An accepted post is approved or queued.
LEMMA AnswerTyped ==
  ASSUME status \in [Posts -> Statuses], consented \subseteq Posts, NEW p \in Posts,
         \/ UNCHANGED <<status, consented>>
         \/ /\ \E s \in {"approved", "queued"} : status' = [status EXCEPT ![p] = s]
            /\ consented' = consented \cup {p}
  PROVE  status' \in [Posts -> Statuses] /\ consented' \subseteq Posts
BY DEF Statuses

\* Every step of every handler, job, recovery phase and fault keeps the types.
LEMMA NextTypeOK == TypeOK /\ [Next]_vars => TypeOK'
<1> SUFFICES ASSUME TypeOK, [Next]_vars PROVE TypeOK'
  OBVIOUS
<1>0. HandsTyped'
  BY NextHands
<1> USE <1>0, LifecycleAssumption DEF TypeOK, HandsTyped, rowVars, jobVars, worldVars, faultVars
<1>1. ASSUME NEW o \in Owners, Generate(o) PROVE TypeOK'
  <2>1. CASE GenStart(o)
    BY <2>1 DEF GenStart
  <2>2. CASE GenEmpty(o)
    BY <2>2 DEF GenEmpty
  <2>3. CASE GenInsert(o)
    BY <2>3 DEF GenInsert, Rows, Statuses
  <2>4. CASE Send(o)
    BY <2>4 DEF Send, At
  <2>5. CASE Record(o)
    BY <2>5 DEF Record
  <2> QED
    BY <1>1, <2>1, <2>2, <2>3, <2>4, <2>5 DEF Generate
<1>2. ASSUME NEW o \in Owners, Publish(o) PROVE TypeOK'
  <2>1. CASE Quota(o)
    BY <2>1 DEF Quota, Flush, Statuses
  <2>2. CASE UploadOk(o)
    BY <2>2 DEF UploadOk
  <2>3. CASE UploadFail(o)
    BY <2>3 DEF UploadFail, Abort, Flush, Statuses
  <2>4. CASE PublishRefused(o)
    BY <2>4 DEF PublishRefused, Abort, Flush, Statuses
  <2>5. CASE PublishStart(o)
    BY <2>5 DEF PublishStart, Flush, Statuses
  <2>6. CASE PublishEnd(o)
    <3>1. run[o].ok \subseteq Platforms /\ run[o].bad \subseteq Platforms
      BY DEF Tasks
    <3> QED
      BY <2>6, <3>1 DEF PublishEnd, Flush, Statuses
  <2>7. ASSUME NEW f \in Platforms, Platform(o, f) PROVE TypeOK'
    BY <2>7, PlatformWorld DEF Platform
  <2> QED
    BY <1>2, <2>1, <2>2, <2>3, <2>4, <2>5, <2>6, <2>7 DEF Publish
<1>3. CASE Handler
  <2> USE DEF Owners
  <2>1. CASE GenRefused
    BY <2>1 DEF GenRefused
  <2>2. CASE ApproveLock
    <3>1. status' \in [Posts -> Statuses] /\ consented' \subseteq Posts
      BY <2>2, AnswerTyped DEF ApproveLock, At
    <3> QED
      BY <2>2, <3>1 DEF ApproveLock
  <2>3. CASE QueueCount
    BY <2>3 DEF QueueCount
  <2>4. CASE QueueLock
    <3>1. status' \in [Posts -> Statuses] /\ consented' \subseteq Posts
      BY <2>4, AnswerTyped DEF QueueLock, At
    <3> QED
      BY <2>4, <3>1 DEF QueueLock
  <2>5. CASE RejectWrite
    BY <2>5 DEF RejectWrite, Flush, Statuses
  <2>6. CASE SkipWrite
    BY <2>6 DEF SkipWrite, Flush, Statuses
  <2>7. CASE RetryLock
    BY <2>7 DEF RetryLock, Lock, Statuses
  <2>8. CASE SingleEnd
    <3>1. run["bot"].ok \subseteq Platforms /\ run["bot"].bad \subseteq Platforms
      BY DEF Tasks
    <3> QED
      BY <2>8, <3>1 DEF SingleEnd, Statuses
  <2> QED
    BY <1>3, <2>1, <2>2, <2>3, <2>4, <2>5, <2>6, <2>7, <2>8 DEF Handler
<1>4. CASE Admin
  <2> USE DEF Owners
  <2>1. ASSUME NEW p \in Posts, NEW b \in Buttons, Press(p, b) PROVE TypeOK'
    BY <2>1 DEF Press, Buttons, Statuses
  <2>2. ASSUME NEW p \in Posts, EditCaption(p) PROVE TypeOK'
    BY <2>2 DEF EditCaption, Statuses
  <2>3. ASSUME NEW p \in Posts, Retry(p) PROVE TypeOK'
    BY <2>3 DEF Retry, Statuses
  <2>4. ASSUME NEW p \in Posts, NEW f \in Platforms, RetryPlatform(p, f) PROVE TypeOK'
    BY <2>4 DEF RetryPlatform, Statuses
  <2> QED
    BY <1>4, <2>1, <2>2, <2>3, <2>4 DEF Admin
<1>5. CASE Jobs
  <2> USE DEF Owners
  <2>1. CASE QueueSelect
    BY <2>1 DEF QueueSelect, Rows
  <2>2. CASE QueueNext
    BY <2>2 DEF QueueNext
  <2>3. CASE DequeueLock
    BY <2>3 DEF DequeueLock, Lock, Statuses
  <2>4. CASE ExpireSelect
    BY <2>4 DEF ExpireSelect, Rows
  <2>5. CASE ExpireWrite
    BY <2>5 DEF ExpireWrite, Statuses
  <2>6. CASE SweepSelect
    BY <2>6 DEF SweepSelect
  <2>7. CASE SweepWrite
    BY <2>7 DEF SweepWrite
  <2> QED
    BY <1>5, <2>1, <2>2, <2>3, <2>4, <2>5, <2>6, <2>7 DEF Jobs
<1>6. CASE Recovery
  <2> USE DEF Owners
  <2>1. CASE Restart
    BY <2>1 DEF Restart, Statuses
  <2>2. CASE ResendSelect
    BY <2>2 DEF ResendSelect, Rows
  <2>3. CASE Ready
    BY <2>3 DEF Ready
  <2>4. ASSUME NEW p \in Posts, Republish(p) PROVE TypeOK'
    BY <2>4 DEF Republish, Statuses
  <2>5. ASSUME NEW p \in Posts, Resend(p) PROVE TypeOK'
    BY <2>5 DEF Resend, Statuses
  <2> QED
    BY <1>6, <2>1, <2>2, <2>3, <2>4, <2>5 DEF Recovery
<1>7. CASE Environment
  <2>1. CASE Crash
    BY <2>1 DEF Crash
  <2>2. CASE Suspend
    BY <2>2 DEF Suspend
  <2>3. CASE Lift
    BY <2>3 DEF Lift
  <2>4. ASSUME NEW p \in Posts, Age(p) PROVE TypeOK'
    BY <2>4 DEF Age
  <2> QED
    BY <1>7, <2>1, <2>2, <2>3, <2>4 DEF Environment
<1>8. CASE UNCHANGED vars
  BY <1>8 DEF vars
<1>9. CASE Contention
  BY <1>9, Contended, TimeoutsCounted
<1> QED
  BY <1>1, <1>2, <1>3, <1>4, <1>5, <1>6, <1>7, <1>8, <1>9 DEF Next

\* The types, and with them the CHECK constraint on posts.status, hold in
\* every reachable state.
THEOREM TypeCorrect == Spec => []TypeOK
  BY InitTypeOK, NextTypeOK, PTL DEF Spec

-----------------------------------------------------------------------------
(* max_pending_posts is exceeded by one post at most, whatever its value.  *)

Waiting    == Rows("pending_approval")
Generating == {o \in Owners : At(o, "generating")}

\* Only the bot and JOB-3 generate, hence the "one at most".
PendingInv ==
    /\ Cardinality(Waiting) + Cardinality(Generating) <= MaxPending + 1
    /\ Generating \subseteq {"bot", "job3"}

LEMMA Counted ==
  ASSUME TypeOK
  PROVE  /\ IsFiniteSet(Waiting) /\ IsFiniteSet(Generating)
         /\ Cardinality(Waiting) \in Nat /\ Cardinality(Generating) \in Nat
<1>1. IsFiniteSet(Owners)
  <2>1. IsFiniteSet({"bot"})
    BY FS_Singleton
  <2>2. IsFiniteSet({"bot"} \cup {"job3"})
    BY <2>1, FS_AddElement
  <2>3. IsFiniteSet(({"bot"} \cup {"job3"}) \cup {"job7"})
    BY <2>2, FS_AddElement
  <2>4. IsFiniteSet((({"bot"} \cup {"job3"}) \cup {"job7"}) \cup {"boot"})
    BY <2>3, FS_AddElement
  <2>5. Owners = (({"bot"} \cup {"job3"}) \cup {"job7"}) \cup {"boot"}
    BY DEF Owners
  <2> QED
    BY <2>4, <2>5
<1>2. IsFiniteSet(Waiting) /\ IsFiniteSet(Generating)
  <2>1. Waiting \subseteq Posts /\ Generating \subseteq Owners
    BY DEF Waiting, Generating, Rows
  <2> QED
    BY <1>1, <2>1, FS_Subset, LifecycleAssumption
<1> QED
  BY <1>2, FS_CardinalityType

\* Two coroutines at most.
LEMMA AtMostTwo == ASSUME NEW S \in SUBSET {"bot", "job3"}
                   PROVE  IsFiniteSet(S) /\ Cardinality(S) <= 2
<1>1. IsFiniteSet({"bot"}) /\ Cardinality({"bot"}) = 1
  BY FS_Singleton
<1>2. IsFiniteSet({"bot", "job3"}) /\ Cardinality({"bot", "job3"}) = 2
  <2>1. {"bot", "job3"} = {"bot"} \cup {"job3"} /\ "job3" \notin {"bot"}
    OBVIOUS
  <2> QED
    BY <1>1, <2>1, FS_AddElement
<1> QED
  BY <1>2, FS_Subset, FS_CardinalityType

LEMMA InitPending == Init => PendingInv
<1> SUFFICES ASSUME Init PROVE PendingInv
  OBVIOUS
<1>1. Waiting = {} /\ Generating = {}
  BY DEF Init, Waiting, Generating, Rows, At, Idle
<1> QED
  BY <1>1, FS_EmptySet, LifecycleAssumption DEF PendingInv

\* A step that neither starts a generation nor ends one with a post.
LEMMA FewerPending ==
  ASSUME TypeOK, PendingInv, Waiting' \subseteq Waiting, Generating' \subseteq Generating
  PROVE  PendingInv'
<1>1. /\ Cardinality(Waiting') <= Cardinality(Waiting)
      /\ Cardinality(Generating') <= Cardinality(Generating)
      /\ Cardinality(Waiting') \in Nat /\ Cardinality(Generating') \in Nat
  BY Counted, FS_Subset, FS_CardinalityType
<1> QED
  BY <1>1, Counted, LifecycleAssumption DEF PendingInv

\* The count was below the maximum when it was read, and two coroutines at most
\* can have read it.
LEMMA StartPending ==
  ASSUME TypeOK, PendingInv, NEW o \in Owners, GenStart(o)
  PROVE  PendingInv'
<1>1. Waiting' = Waiting /\ Cardinality(Waiting) < MaxPending
  BY DEF GenStart, Waiting, Rows, rowVars
<1>2. Generating' \subseteq {"bot", "job3"}
  <2>1. \A q \in Owners : q # o => run'[q] = run[q]
    BY DEF GenStart, Goto, TypeOK
  <2> QED
    BY <2>1 DEF GenStart, PendingInv, Generating, At
<1>3. Cardinality(Generating') <= 2 /\ Cardinality(Generating') \in Nat
  BY <1>2, AtMostTwo, FS_CardinalityType
<1> QED
  BY <1>1, <1>2, <1>3, Counted, LifecycleAssumption DEF PendingInv

\* One generation less, one pending post more.
LEMMA InsertPending ==
  ASSUME TypeOK, PendingInv, NEW o \in Owners, GenInsert(o)
  PROVE  PendingInv'
<1>1. PICK p \in Rows("absent"), s \in {"quota", "sending"} :
        /\ status' = [status EXCEPT ![p] = "pending_approval"]
        /\ run' = [run EXCEPT ![o] = [Idle EXCEPT !.pc = s, !.post = p,
                                         !.mem = "pending_approval", !.img = TRUE]]
  BY DEF GenInsert
<1>0. run'[o].pc # "generating"
  BY <1>1 DEF TypeOK, Idle
<1>2. \A q \in Owners \ {o} : run'[q] = run[q]
  BY <1>1 DEF TypeOK
<1>3. o \in Generating /\ Generating' = Generating \ {o}
  BY <1>0, <1>2 DEF GenInsert, Generating, At
<1>4. p \notin Waiting /\ Waiting' = Waiting \cup {p}
  BY <1>1 DEF Waiting, Rows, TypeOK
<1>5. Cardinality(Generating') = Cardinality(Generating) - 1
  BY <1>3, Counted, FS_RemoveElement
<1>6. Cardinality(Waiting') = Cardinality(Waiting) + 1
  BY <1>4, Counted, FS_AddElement
<1> QED
  BY <1>3, <1>5, <1>6, Counted, LifecycleAssumption DEF PendingInv

\* A write that is not an insertion leaves no more posts pending.
LEMMA Answered ==
  ASSUME TypeOK, NEW p, NEW s, s # "pending_approval",
         status' = status \/ status' = [status EXCEPT ![p] = s]
  PROVE  Waiting' \subseteq Waiting
BY DEF Waiting, Rows, TypeOK

\* Only GenInsert makes a post pending.
LEMMA NoMoreWaiting ==
  ASSUME TypeOK, Next, \A o \in Owners : ~GenInsert(o)
  PROVE  Waiting' \subseteq Waiting
<1> USE DEF rowVars
<1>k. UNCHANGED status => Waiting' \subseteq Waiting
  BY DEF Waiting, Rows
<1>f. ASSUME NEW o, NEW p, NEW s, s # "pending_approval", Flush(o, p, s)
      PROVE  Waiting' \subseteq Waiting
  BY <1>f, Answered DEF Flush
<1>a. ASSUME NEW o, Abort(o) PROVE Waiting' \subseteq Waiting
  BY <1>a, <1>f, <1>k DEF Abort
<1>l. ASSUME NEW o, NEW from, Lock(o, from) PROVE Waiting' \subseteq Waiting
  BY <1>l, <1>k, Answered DEF Lock
<1>1. ASSUME NEW o \in Owners, Generate(o) PROVE Waiting' \subseteq Waiting
  BY <1>1, <1>k DEF Generate, GenStart, GenEmpty, Send, Record
<1>2. ASSUME NEW o \in Owners, Publish(o) PROVE Waiting' \subseteq Waiting
  <2>1. CASE Quota(o)
    BY <2>1, <1>f, <1>k DEF Quota
  <2>2. CASE UploadOk(o) \/ \E f \in Platforms : Platform(o, f)
    BY <2>2, <1>k DEF UploadOk, Platform
  <2>3. CASE UploadFail(o) \/ PublishRefused(o)
    BY <2>3, <1>a DEF UploadFail, PublishRefused
  <2>4. CASE PublishStart(o)
    BY <2>4, <1>f DEF PublishStart
  <2>5. CASE PublishEnd(o)
    BY <2>5, <1>f DEF PublishEnd
  <2> QED
    BY <1>2, <2>1, <2>2, <2>3, <2>4, <2>5 DEF Publish
<1>3. CASE Handler
  <2>1. CASE GenRefused \/ QueueCount \/ SingleEnd
    BY <2>1, <1>k DEF GenRefused, QueueCount, SingleEnd
  <2>2. CASE ApproveLock \/ QueueLock
    BY <2>2, <1>k, Answered DEF ApproveLock, QueueLock
  <2>3. CASE RejectWrite \/ SkipWrite
    BY <2>3, <1>f DEF RejectWrite, SkipWrite
  <2>4. CASE RetryLock
    BY <2>4, <1>l DEF RetryLock
  <2> QED
    BY <1>3, <2>1, <2>2, <2>3, <2>4 DEF Handler
<1>4. CASE Admin
  BY <1>4, <1>k DEF Admin, Press, EditCaption, Retry, RetryPlatform
<1>5. CASE Jobs
  <2>1. CASE DequeueLock
    BY <2>1, <1>l DEF DequeueLock
  <2>2. CASE ExpireWrite
    BY <2>2 DEF ExpireWrite, Waiting, Rows
  <2> QED
    BY <1>5, <1>k, <2>1, <2>2
    DEF Jobs, QueueSelect, QueueNext, ExpireSelect, SweepSelect, SweepWrite
<1>6. CASE Recovery
  <2>1. CASE Restart
    BY <2>1 DEF Restart, Waiting, Rows
  <2>2. ASSUME NEW p \in Posts, Republish(p) PROVE Waiting' \subseteq Waiting
    BY <2>2, <1>k, Answered DEF Republish
  <2> QED
    BY <1>6, <1>k, <2>1, <2>2 DEF Recovery, ResendSelect, Ready, Resend
<1>7. CASE Environment
  BY <1>7, <1>k DEF Environment, Crash, Suspend, Lift, Age
<1>8. CASE Contention
  BY <1>8, <1>k, Contended
<1> QED
  BY <1>1, <1>2, <1>3, <1>4, <1>5, <1>6, <1>7, <1>8 DEF Next

\* Only GenStart starts a generation.
LEMMA NoMoreGenerating ==
  ASSUME TypeOK, Next, \A o \in Owners : ~GenStart(o)
  PROVE  Generating' \subseteq Generating
<1> USE DEF Owners
<1>0. run \in [Owners -> Tasks]
  BY DEF TypeOK
<1>k. UNCHANGED run => Generating' \subseteq Generating
  BY DEF Generating, At
<1>t. ASSUME NEW o \in Owners, NEW t, run' = [run EXCEPT ![o] = t],
             t.pc # "generating" \/ t.pc = run[o].pc
      PROVE  Generating' \subseteq Generating
  BY <1>0, <1>t DEF Generating, At
<1>d. ASSUME NEW o \in Owners, Done(o) PROVE Generating' \subseteq Generating
  BY <1>d, <1>t DEF Done, Idle
<1>g. ASSUME NEW o \in Owners, NEW s, s # "generating", Goto(o, s)
      PROVE  Generating' \subseteq Generating
  BY <1>0, <1>g DEF Goto, Tasks, Generating, At
<1>l. ASSUME NEW o \in Owners, NEW from, Lock(o, from) PROVE Generating' \subseteq Generating
  <2> DEFINE t == [run[o] EXCEPT !.pc = "upload", !.mem = "publishing",
                                 !.img = image[run[o].post]]
  <2>1. t.pc = "upload"
    BY <1>0 DEF Tasks
  <2>2. Done(o) \/ run' = [run EXCEPT ![o] = t]
    BY <1>l DEF Lock
  <2> HIDE DEF t
  <2> QED
    BY <2>1, <2>2, <1>d, <1>t
<1>1. ASSUME NEW o \in Owners, Generate(o) PROVE Generating' \subseteq Generating
  <2>1. CASE GenInsert(o)
    <3>1. PICK p \in Posts, s \in {"quota", "sending"} :
            run' = [run EXCEPT ![o] = [Idle EXCEPT !.pc = s, !.post = p,
                                          !.mem = "pending_approval", !.img = TRUE]]
      BY <2>1 DEF GenInsert, Rows
    <3> QED
      BY <3>1, <1>t DEF Idle
  <2>2. CASE GenEmpty(o) \/ Send(o) \/ Record(o)
    BY <2>2, <1>d, <1>g DEF GenEmpty, Send, Record
  <2> QED
    BY <1>1, <2>1, <2>2 DEF Generate
<1>2. ASSUME NEW o \in Owners, Publish(o) PROVE Generating' \subseteq Generating
  <2>1. CASE Quota(o)
    BY <2>1, <1>d, <1>g DEF Quota
  <2>2. CASE UploadOk(o)
    <3> DEFINE m == IF o = "job3" THEN status[run[o].post] ELSE run[o].mem
               t == [run[o] EXCEPT !.pc = "ready", !.mem = m]
    <3>1. run' = [run EXCEPT ![o] = t]
      BY <2>2 DEF UploadOk
    <3>2. t.pc = "ready"
      <4> HIDE DEF m
      <4> QED
        BY <1>0 DEF Tasks
    <3> HIDE DEF t
    <3> QED
      BY <3>1, <3>2, <1>t
  <2>3. CASE UploadFail(o) \/ PublishRefused(o) \/ PublishEnd(o)
    BY <2>3, <1>d DEF UploadFail, PublishRefused, Abort, PublishEnd
  <2>4. CASE PublishStart(o)
    <3> DEFINE t == [run[o] EXCEPT !.pc = "platforms", !.mem = "publishing", !.todo = Platforms]
    <3>1. run' = [run EXCEPT ![o] = t] /\ t.pc = "platforms"
      BY <2>4, <1>0 DEF PublishStart, Tasks
    <3> HIDE DEF t
    <3> QED
      BY <3>1, <1>t
  <2>5. ASSUME NEW f \in Platforms, Platform(o, f) PROVE Generating' \subseteq Generating
    <3> DEFINE todo == run[o].todo \ {f}
               good == [run[o] EXCEPT !.todo = todo, !.ok = run[o].ok \cup {f}]
               fail == [run[o] EXCEPT !.todo = todo, !.bad = run[o].bad \cup {f}]
    <3>1. run' = [run EXCEPT ![o] = good] \/ run' = [run EXCEPT ![o] = fail]
      BY <2>5 DEF Platform
    <3>2. good.pc = run[o].pc /\ fail.pc = run[o].pc
      BY <1>0 DEF Tasks
    <3> HIDE DEF good, fail
    <3> QED
      BY <3>1, <3>2, <1>t
  <2> QED
    BY <1>2, <2>1, <2>2, <2>3, <2>4, <2>5 DEF Publish
<1>3. CASE Handler
  <2>1. CASE GenRefused \/ QueueCount \/ QueueLock \/ RejectWrite \/ SingleEnd
    BY <2>1, <1>d, <1>g DEF GenRefused, QueueCount, QueueLock, RejectWrite, SingleEnd
  <2>2. CASE ApproveLock
    <3> DEFINE t == [run["bot"] EXCEPT !.pc = "quota", !.mem = "approved"]
    <3>1. Done("bot") \/ run' = [run EXCEPT !["bot"] = t]
      BY <2>2 DEF ApproveLock
    <3>2. t.pc = "quota"
      BY <1>0 DEF Tasks
    <3> HIDE DEF t
    <3> QED
      BY <3>1, <3>2, <1>d, <1>t
  <2>3. CASE SkipWrite
    BY <2>3, <1>t DEF SkipWrite, Idle
  <2>4. CASE RetryLock
    BY <2>4, <1>l DEF RetryLock
  <2> QED
    BY <1>3, <2>1, <2>2, <2>3, <2>4 DEF Handler
<1>4. CASE Admin
  <2>1. ASSUME NEW p \in Posts, NEW b \in Buttons, Press(p, b)
        PROVE  Generating' \subseteq Generating
    BY <2>1, <1>t DEF Press, Buttons, Idle
  <2>2. ASSUME NEW p \in Posts, EditCaption(p) \/ Retry(p)
        PROVE  Generating' \subseteq Generating
    BY <2>2, <1>t DEF EditCaption, Retry, Idle
  <2>3. ASSUME NEW p \in Posts, NEW f \in Platforms, RetryPlatform(p, f)
        PROVE  Generating' \subseteq Generating
    BY <2>3, <1>t DEF RetryPlatform, Idle
  <2> QED
    BY <1>4, <2>1, <2>2, <2>3 DEF Admin
<1>5. CASE Jobs
  <2>1. CASE QueueNext
    BY <2>1, <1>k, <1>t DEF QueueNext, Idle
  <2>2. CASE DequeueLock
    BY <2>2, <1>l DEF DequeueLock
  <2> QED
    BY <1>5, <1>k, <2>1, <2>2
    DEF Jobs, QueueSelect, ExpireSelect, ExpireWrite, SweepSelect, SweepWrite
<1>6. CASE Recovery
  <2>1. ASSUME NEW p \in Posts, Republish(p) \/ Resend(p)
        PROVE  Generating' \subseteq Generating
    BY <2>1, <1>k, <1>t DEF Republish, Resend, Idle
  <2> QED
    BY <1>6, <1>k, <2>1 DEF Recovery, Restart, ResendSelect, Ready
<1>7. CASE Environment
  <2>1. CASE Crash
    BY <2>1 DEF Crash, Idle, Generating, At
  <2> QED
    BY <1>7, <1>k, <2>1 DEF Environment, Suspend, Lift, Age
<1>8. CASE Contention
  BY <1>8, <1>k, <1>d, Contended
<1> QED
  BY <1>1, <1>2, <1>3, <1>4, <1>5, <1>6, <1>7, <1>8 DEF Next

LEMMA NextPending == TypeOK /\ PendingInv /\ [Next]_vars => PendingInv'
<1> SUFFICES ASSUME TypeOK, PendingInv, [Next]_vars PROVE PendingInv'
  OBVIOUS
<1>1. ASSUME NEW o \in Owners, GenStart(o) PROVE PendingInv'
  BY <1>1, StartPending
<1>2. ASSUME NEW o \in Owners, GenInsert(o) PROVE PendingInv'
  BY <1>2, InsertPending
<1>3. CASE Next /\ \A o \in Owners : ~GenStart(o) /\ ~GenInsert(o)
  BY <1>3, NoMoreWaiting, NoMoreGenerating, FewerPending
<1>4. CASE UNCHANGED vars
  <2>1. Waiting' = Waiting /\ Generating' = Generating
    BY <1>4 DEF vars, rowVars, Waiting, Rows, Generating, At
  <2> QED
    BY <2>1 DEF PendingInv
<1> QED
  BY <1>1, <1>2, <1>3, <1>4

\* Whatever the interleaving of /force, handle_skip and JOB-3, the pending posts
\* and the generations under way exceed max_pending_posts by one at most.
THEOREM PendingBounded == Spec => []PendingBound
<1>1. TypeOK /\ PendingInv => PendingBound
  BY DEF PendingInv, PendingBound, Waiting, Generating
<1> QED
  BY <1>1, TypeCorrect, InitPending, NextPending, PTL DEF Spec

-----------------------------------------------------------------------------
(* One publisher.  OnePublisher is not inductive: that two coroutines stay *)
(* apart depends on what the one that is about to take a post has read and *)
(* on the status that the one in charge has left in the row.               *)

\* The handlers of the buttons, between their look at the post and their write.
Deciding == {"approve", "queue", "queue_lock", "reject", "skip"}
Held(o)  == run[o].pc \in Publishing
OnIt(o)  == run[o].pc \in Publishing \cup Deciding

\* Whoever publishes a post has it for itself: no handler is deciding about it.
Exclusive ==
    \A o, q \in Owners : o # q /\ Held(o) /\ OnIt(q) => run[o].post # run[q].post

\* What the row of a post in somebody's charge can say.
HeldStatus(o) == Held(o) =>
    \/ run[o].pc # "single" /\ status[run[o].post] \in {"approved", "publishing", "expired"}
    \/ o = "job3" /\ run[o].pc # "single" /\ status[run[o].post] = "pending_approval"
    \/ o = "bot" /\ run[o].pc = "single" /\ status[run[o].post] \in {"published", "expired"}

\* Only the bot decides, about a post that can only expire meanwhile.
DecideStatus(o) == run[o].pc \in Deciding =>
    /\ o = "bot"
    /\ status[run[o].post] \in {"pending_approval", "expired"}

\* No admin has, or is about to have, the buttons of a post JOB-3 publishes.
Unasked ==
    Held("job3") =>
        /\ run["job3"].post \notin keyboards
        /\ \A q \in Owners \ {"job3"} :
             run[q].pc = "sending" => run[q].post # run["job3"].post

\* What is shown, sent or recovered is a row of the table.
Asked ==
    /\ \A p \in keyboards \cup recovering : status[p] # "absent"
    /\ \A o \in Owners : run[o].pc = "sending" => status[run[o].post] # "absent"

\* Recovery runs alone, and before the rest.
RunsAlone ==
    /\ mode # "up" => \A o \in Owners \ {"boot"} : run[o].pc = "idle"
    /\ mode \in {"up", "down"} => run["boot"].pc = "idle"

PublisherInv ==
    /\ Exclusive
    /\ \A o \in Owners : HeldStatus(o) /\ DecideStatus(o)
    /\ Unasked /\ Asked /\ RunsAlone

\* A coroutine moves on: those that stay where they are notice nothing but an
\* expiry, and the post it takes in charge is nobody else's.
LEMMA OwnerMoves ==
  ASSUME HandsTyped, PublisherInv, NEW o \in Owners, NEW t, run' = [run EXCEPT ![o] = t],
         \A q \in Owners \ {o} :
            /\ OnIt(q) => status'[run[q].post] \in {status[run[q].post], "expired"}
            /\ OnIt(q) /\ t.pc \in Publishing => run[q].post # t.post
            /\ Held(q) /\ t.pc \in Deciding => run[q].post # t.post,
         HeldStatus(o)', DecideStatus(o)', Unasked', Asked', RunsAlone'
  PROVE  PublisherInv'
<1>1. run'[o] = t /\ \A q \in Owners \ {o} : run'[q] = run[q]
  BY DEF HandsTyped
<1>2. Exclusive'
  BY <1>1 DEF PublisherInv, Exclusive, Held, OnIt
<1>3. ASSUME NEW q \in Owners \ {o} PROVE HeldStatus(q)' /\ DecideStatus(q)'
  BY <1>1, <1>3 DEF PublisherInv, HeldStatus, DecideStatus, Held, OnIt
<1> QED
  BY <1>2, <1>3 DEF PublisherInv

\* A coroutine goes on with the post it has, or leaves it.
LEMMA OwnerKeeps ==
  ASSUME TypeOK, PublisherInv, NEW o \in Owners, NEW t, run' = [run EXCEPT ![o] = t],
         UNCHANGED <<keyboards, mode>>, recovering' \subseteq recovering,
         t.pc \in Publishing => Held(o) /\ t.post = run[o].post,
         t.pc \in Deciding => run[o].pc \in Deciding /\ t.post = run[o].post,
         t.pc # "sending",
         t.pc # "idle" => run[o].pc # "idle" \/ (mode = "up" /\ o # "boot"),
         \/ UNCHANGED status
         \/ /\ OnIt(o)
            /\ \E s \in Statuses \ {"absent"} : status' = [status EXCEPT ![run[o].post] = s],
         HeldStatus(o)', DecideStatus(o)'
  PROVE  PublisherInv'
<1>0. HandsTyped /\ status \in [Posts -> Statuses] /\ keyboards \subseteq Posts /\ recovering \subseteq Posts
  BY DEF TypeOK, HandsTyped
<1>1. run'[o] = t /\ \A q \in Owners \ {o} : run'[q] = run[q]
  BY <1>0 DEF HandsTyped
<1>2. ASSUME NEW q \in Owners \ {o}, OnIt(q)
      PROVE  status'[run[q].post] = status[run[q].post]
  <2>1. OnIt(o) => run[o].post # run[q].post
    BY <1>2 DEF PublisherInv, Exclusive, DecideStatus, Held, OnIt
  <2>2. run[q].post \in Posts
    BY <1>0, <1>2 DEF HandsTyped, OnIt, Publishing, Deciding
  <2> QED
    BY <1>0, <2>1, <2>2
<1>3. \A q \in Owners \ {o} :
         /\ OnIt(q) => status'[run[q].post] \in {status[run[q].post], "expired"}
         /\ OnIt(q) /\ t.pc \in Publishing => run[q].post # t.post
         /\ Held(q) /\ t.pc \in Deciding => run[q].post # t.post
  BY <1>2 DEF PublisherInv, Exclusive, Held, OnIt
<1>4. \A p \in Posts : status[p] # "absent" => status'[p] # "absent"
  BY <1>0
<1>5. Unasked'
  <2> SUFFICES ASSUME Held("job3")' PROVE
        /\ run'["job3"].post \notin keyboards'
        /\ \A q \in Owners \ {"job3"} : run'[q].pc = "sending" => run'[q].post # run'["job3"].post
    BY DEF Unasked
  <2>1. "job3" \in Owners
    BY DEF Owners
  <2>2. Held("job3") /\ run'["job3"].post = run["job3"].post
    BY <1>1, <2>1 DEF Held
  <2>3. \A q \in Owners : run'[q].pc = "sending" => run'[q] = run[q]
    BY <1>1
  <2> QED
    BY <2>2, <2>3 DEF PublisherInv, Unasked
<1>6. Asked'
  <2>1. \A p \in keyboards' \cup recovering' : status'[p] # "absent"
    BY <1>0, <1>4 DEF PublisherInv, Asked
  <2>2. \A q \in Owners : run'[q].pc = "sending" => status'[run'[q].post] # "absent"
    BY <1>0, <1>1, <1>4 DEF PublisherInv, Asked, HandsTyped
  <2> QED
    BY <2>1, <2>2 DEF Asked
<1>7. RunsAlone'
  BY <1>1 DEF PublisherInv, RunsAlone, Owners
<1> QED
  BY <1>0, <1>3, <1>5, <1>6, <1>7, OwnerMoves

\* A coroutine that is finished leaves its post, after a last write or none.
LEMMA OwnerStops ==
  ASSUME TypeOK, PublisherInv, NEW o \in Owners, Done(o),
         UNCHANGED <<keyboards, mode, recovering>>,
         \/ UNCHANGED status
         \/ /\ OnIt(o)
            /\ \E s \in Statuses \ {"absent"} : status' = [status EXCEPT ![run[o].post] = s]
  PROVE  PublisherInv'
<1>1. run'[o] = Idle
  BY DEF TypeOK, Done
<1>2. HeldStatus(o)' /\ DecideStatus(o)'
  BY <1>1 DEF HeldStatus, DecideStatus, Held, Idle, Publishing, Deciding
<1>3. Idle.pc = "idle" /\ "idle" \notin Publishing \cup Deciding
  BY DEF Idle, Publishing, Deciding
<1> HIDE DEF Idle
<1> QED
  BY <1>2, <1>3, OwnerKeeps DEF Done

\* Nobody is in charge of a row that is not there yet, in error or queued.
LEMMA NobodyOn ==
  ASSUME PublisherInv, NEW p, NEW q \in Owners, OnIt(q),
         status[p] \in {"absent", "error", "queued"}
  PROVE  run[q].post # p
BY DEF PublisherInv, HeldStatus, DecideStatus, OnIt, Held

\* /retry and JOB-7 take a row that nobody has.
LEMMA LockTakes ==
  ASSUME TypeOK, PublisherInv, NEW o \in {"bot", "job7"}, run[o].pc \in {"retry", "lock"},
         NEW from \in {"error", "queued"}, Lock(o, from)
  PROVE  PublisherInv'
<1> USE DEF rowVars, jobVars, worldVars, faultVars
<1> DEFINE p == run[o].post
           t == [run[o] EXCEPT !.pc = "upload", !.mem = "publishing", !.img = image[p]]
<1>1. CASE status[p] = from
  <2>0. o \in Owners
    BY DEF Owners
  <2>1. p \in Posts /\ run[o] \in Tasks /\ status \in [Posts -> Statuses]
        /\ keyboards \subseteq Posts /\ recovering \subseteq Posts /\ HandsTyped
    BY <2>0 DEF TypeOK, HandsTyped
  <2>2. run' = [run EXCEPT ![o] = t] /\ status' = [status EXCEPT ![p] = "publishing"]
        /\ UNCHANGED <<keyboards, mode, recovering>>
    BY <1>1 DEF Lock
  <2>3. t.pc = "upload" /\ t.post = p
    BY <2>1 DEF Tasks
  <2> HIDE DEF t
  <2>4. run'[o] = t /\ (\A q \in Owners \ {o} : run'[q] = run[q])
    BY <2>0, <2>1, <2>2 DEF HandsTyped
  <2>5. ASSUME NEW q \in Owners \ {o}, OnIt(q)
        PROVE  run[q].post # p /\ run[q].post \in Posts
    <3>1. run[q].post # p
      <4> HIDE DEF p
      <4> QED
        BY <1>1, <2>5, NobodyOn
    <3>2. run[q].post \in Posts
      BY <2>1, <2>5 DEF HandsTyped, OnIt, Publishing, Deciding
    <3> QED
      BY <3>1, <3>2
  <2>6. HeldStatus(o)' /\ DecideStatus(o)'
    BY <2>1, <2>2, <2>3, <2>4 DEF HeldStatus, DecideStatus, Deciding
  <2>7. Unasked'
    BY <2>2, <2>3, <2>4 DEF PublisherInv, Unasked, Held, Owners
  <2>8. Asked'
    BY <2>1, <2>2, <2>3, <2>4 DEF PublisherInv, Asked, HandsTyped
  <2>9. RunsAlone'
    BY <2>2, <2>4 DEF PublisherInv, RunsAlone, Owners
  <2> QED
    BY <2>0, <2>1, <2>2, <2>3, <2>5, <2>6, <2>7, <2>8, <2>9, OwnerMoves DEF Deciding
<1>2. CASE status[p] # from
  BY <1>2, OwnerStops DEF Lock, Owners
<1> QED
  BY <1>1, <1>2

\* The steps of a generation keep JOB-3's own posts off the screens.
LEMMA GeneratePublisher ==
  ASSUME TypeOK, PublisherInv, NEW o \in Owners, Generate(o)
  PROVE  PublisherInv'
<1> USE DEF rowVars, jobVars, worldVars, faultVars
<1>0. /\ status \in [Posts -> Statuses] /\ keyboards \subseteq Posts /\ recovering \subseteq Posts
      /\ HandsTyped
  BY DEF TypeOK, HandsTyped
<1>1. CASE GenStart(o)
  <2> DEFINE t == [run[o] EXCEPT !.pc = "generating"]
  <2>1. run' = [run EXCEPT ![o] = t] /\ UNCHANGED <<status, keyboards, mode, recovering>>
    BY <1>1 DEF GenStart, Goto
  <2>2. t.pc = "generating" /\ run'[o] = t
    BY <1>0, <2>1 DEF HandsTyped, Tasks
  <2>3. run[o].pc # "idle" \/ (mode = "up" /\ o # "boot")
    BY <1>1 DEF GenStart, Free, Busy, At
  <2>4. HeldStatus(o)' /\ DecideStatus(o)'
    BY <2>2 DEF HeldStatus, DecideStatus, Held, Publishing, Deciding
  <2>5. t.pc \notin Publishing \cup Deciding \cup {"sending"}
    BY <2>2 DEF Publishing, Deciding
  <2> HIDE DEF t
  <2> QED
    BY <2>1, <2>3, <2>4, <2>5, OwnerKeeps
<1>2. CASE GenEmpty(o)
  BY <1>2, OwnerStops DEF GenEmpty
<1>3. CASE GenInsert(o)
  <2>1. PICK p \in Rows("absent") :
          /\ status' = [status EXCEPT ![p] = "pending_approval"]
          /\ run' = [run EXCEPT ![o] =
               [Idle EXCEPT !.pc = IF o = "job3" /\ AutoPublish THEN "quota" ELSE "sending",
                            !.post = p, !.mem = "pending_approval", !.img = TRUE]]
    BY <1>3 DEF GenInsert
  <2> DEFINE t == [Idle EXCEPT !.pc = IF o = "job3" /\ AutoPublish THEN "quota" ELSE "sending",
                               !.post = p, !.mem = "pending_approval", !.img = TRUE]
  <2>2. /\ t.pc = "sending" \/ (o = "job3" /\ t.pc = "quota")
        /\ t.post = p
        /\ run' = [run EXCEPT ![o] = t]
    BY <2>1 DEF Idle
  <2> HIDE DEF t
  <2>3. p \in Posts /\ status[p] = "absent" /\ UNCHANGED <<keyboards, mode, recovering>>
    BY <1>3, <2>1 DEF Rows, GenInsert
  <2>4. run'[o] = t /\ (\A q \in Owners \ {o} : run'[q] = run[q])
    BY <1>0, <2>2 DEF HandsTyped
  <2>5. run[o].pc = "generating"
    BY <1>3 DEF GenInsert, At
  <2>6. ASSUME NEW q \in Owners, OnIt(q)
        PROVE  run[q].post # p /\ status'[run[q].post] = status[run[q].post]
    <3>1. run[q].post # p
      BY <2>3, <2>6, NobodyOn
    <3>2. run[q].post \in Posts
      BY <1>0, <2>6 DEF HandsTyped, OnIt, Publishing, Deciding
    <3> QED
      BY <1>0, <2>1, <3>1, <3>2
  <2>7. HeldStatus(o)' /\ DecideStatus(o)'
    BY <1>0, <2>1, <2>2, <2>3, <2>4 DEF HeldStatus, DecideStatus, Deciding, Held, Publishing
  <2>8. p \notin keyboards \cup recovering /\ \A q \in Owners : run[q].pc = "sending" => run[q].post # p
    BY <2>3 DEF PublisherInv, Asked
  <2>9. Unasked'
    <3>1. CASE o = "job3"
      BY <3>1, <2>2, <2>3, <2>4, <2>8 DEF Unasked
    <3>2. CASE o # "job3"
      <4>1. "job3" \in Owners /\ run'["job3"] = run["job3"]
        BY <3>2, <2>4 DEF Owners
      <4> QED
        BY <4>1, <2>2, <2>3, <2>4, <2>6 DEF PublisherInv, Unasked, Held, OnIt
    <3> QED
      BY <3>1, <3>2
  <2>10. Asked'
    BY <1>0, <2>1, <2>2, <2>3, <2>4 DEF PublisherInv, Asked, HandsTyped
  <2>11. RunsAlone'
    BY <2>3, <2>4, <2>5 DEF PublisherInv, RunsAlone, Owners
  <2> QED
    BY <1>0, <2>2, <2>6, <2>7, <2>9, <2>10, <2>11, OwnerMoves DEF Held, OnIt
<1>4. CASE Send(o)
  <2>1. CASE Done(o) /\ UNCHANGED keyboards
    BY <2>1, <1>4, OwnerStops DEF Send
  <2>2. CASE keyboards' = keyboards \cup {run[o].post} /\ Goto(o, "recording")
    <3> DEFINE t == [run[o] EXCEPT !.pc = "recording"]
    <3>1. run' = [run EXCEPT ![o] = t] /\ UNCHANGED <<status, mode, recovering>>
      BY <1>4, <2>2 DEF Send, Goto
    <3>2. t.pc = "recording" /\ run'[o] = t /\ (\A q \in Owners \ {o} : run'[q] = run[q])
      BY <1>0, <3>1 DEF HandsTyped, Tasks
    <3> HIDE DEF t
    <3>3. run[o].pc = "sending"
      BY <1>4 DEF Send, At
    <3>4. HeldStatus(o)' /\ DecideStatus(o)'
      BY <3>2 DEF HeldStatus, DecideStatus, Held, Publishing, Deciding
    <3>5. Unasked'
      <4> SUFFICES ASSUME Held("job3")' PROVE
            /\ run'["job3"].post \notin keyboards'
            /\ \A q \in Owners \ {"job3"} : run'[q].pc = "sending" => run'[q].post # run'["job3"].post
        BY DEF Unasked
      <4>1. o # "job3" /\ run'["job3"] = run["job3"]
        BY <3>2 DEF Held, Publishing, Owners
      <4> QED
        BY <2>2, <3>2, <3>3, <4>1 DEF PublisherInv, Unasked, Held
    <3>6. Asked'
      BY <2>2, <3>1, <3>2, <3>3 DEF PublisherInv, Asked
    <3>7. RunsAlone'
      BY <3>1, <3>2, <3>3 DEF PublisherInv, RunsAlone, Owners
    <3>8. t.pc \notin Publishing \cup Deciding
      BY <3>2 DEF Publishing, Deciding
    <3> QED
      BY <1>0, <3>1, <3>4, <3>5, <3>6, <3>7, <3>8, OwnerMoves
  <2> QED
    BY <1>4, <2>1, <2>2 DEF Send
<1>5. CASE Record(o)
  BY <1>5, OwnerStops DEF Record
<1> QED
  BY <1>1, <1>2, <1>3, <1>4, <1>5 DEF Generate

\* The steps of a publication only touch the post in hand.
LEMMA PublishPublisher ==
  ASSUME TypeOK, PublisherInv, NEW o \in Owners, Publish(o)
  PROVE  PublisherInv'
<1> USE DEF rowVars, jobVars, worldVars, faultVars
<1>0. status \in [Posts -> Statuses] /\ HandsTyped /\ run[o] \in Tasks
  BY DEF TypeOK, HandsTyped
<1> DEFINE p == run[o].post
\* The coroutine stays in charge of its post.
<1>a. ASSUME NEW t, run' = [run EXCEPT ![o] = t], t.pc \in Publishing, t.post = p,
             t.pc = "single" => run[o].pc = "single",
             Held(o), UNCHANGED <<keyboards, mode, recovering>>,
             \/ UNCHANGED status /\ run[o].pc # "single"
             \/ UNCHANGED status /\ t.pc = run[o].pc
             \/ status' = [status EXCEPT ![p] = "publishing"] /\ t.pc # "single"
      PROVE  PublisherInv'
  <2>1. run'[o] = t /\ p \in Posts
    BY <1>0, <1>a DEF HandsTyped, Held, Publishing
  <2>2. HeldStatus(o) /\ OnIt(o)
    BY <1>a DEF PublisherInv, Held, OnIt
  <2>3. HeldStatus(o)'
    BY <1>0, <1>a, <2>1, <2>2 DEF HeldStatus, Held
  <2>4. DecideStatus(o)'
    BY <1>a, <2>1 DEF DecideStatus, Publishing, Deciding
  <2>5. t.pc \notin Deciding \cup {"sending"} /\ run[o].pc # "idle"
    BY <1>a DEF Held, Publishing, Deciding
  <2>6. "publishing" \in Statuses \ {"absent"}
    BY DEF Statuses
  <2> QED
    BY <1>a, <2>2, <2>3, <2>4, <2>5, <2>6, OwnerKeeps
<1>1. CASE Quota(o)
  <2>1. Held(o) /\ OnIt(o) /\ run[o].pc = "quota"
    BY <1>1 DEF Quota, At, Held, OnIt, Publishing
  <2>2. CASE Goto(o, "upload") /\ UNCHANGED status
    <3> DEFINE t == [run[o] EXCEPT !.pc = "upload"]
    <3>1. t.pc = "upload" /\ t.post = p /\ run' = [run EXCEPT ![o] = t] /\ t.pc \in Publishing
      BY <1>0, <2>2 DEF Goto, Tasks, Publishing
    <3> HIDE DEF t, p
    <3> QED
      BY <1>1, <2>1, <2>2, <3>1, <1>a DEF Quota
  <2>3. CASE Done(o)
    BY <1>1, <2>1, <2>3, OwnerStops DEF Quota, Flush, Statuses
  <2> QED
    BY <1>1, <2>2, <2>3 DEF Quota
<1>2. CASE UploadOk(o)
  <2> DEFINE m == IF o = "job3" THEN status[p] ELSE run[o].mem
             t == [run[o] EXCEPT !.pc = "ready", !.mem = m]
  <2>1. run' = [run EXCEPT ![o] = t] /\ run[o].pc = "upload" /\ UNCHANGED <<status, keyboards, mode, recovering>>
    BY <1>2 DEF UploadOk, At
  <2>2. t.pc = "ready" /\ t.post = p
    BY <1>0 DEF Tasks
  <2>3. Held(o) /\ t.pc \in Publishing
    BY <2>1, <2>2 DEF Held, Publishing
  <2> HIDE DEF t, p
  <2> QED
    BY <2>1, <2>2, <2>3, <1>a
<1>3. ASSUME Abort(o), OnIt(o) PROVE PublisherInv'
  BY <1>3, OwnerStops DEF Abort, Flush, Statuses
<1>4. CASE UploadFail(o) \/ PublishRefused(o)
  BY <1>3, <1>4 DEF UploadFail, PublishRefused, At, OnIt, Publishing
<1>5. CASE PublishStart(o)
  <2> DEFINE t == [run[o] EXCEPT !.pc = "platforms", !.mem = "publishing", !.todo = Platforms]
  <2>1. /\ run' = [run EXCEPT ![o] = t] /\ run[o].pc = "ready"
        /\ UNCHANGED <<keyboards, mode, recovering>>
        /\ UNCHANGED status \/ status' = [status EXCEPT ![p] = "publishing"]
    BY <1>5 DEF PublishStart, At, Flush
  <2>2. t.pc = "platforms" /\ t.post = p
    BY <1>0 DEF Tasks
  <2>3. Held(o) /\ t.pc \in Publishing
    BY <2>1, <2>2 DEF Held, Publishing
  <2> HIDE DEF t, p
  <2> QED
    BY <2>1, <2>2, <2>3, <1>a
<1>6. CASE PublishEnd(o)
  <2>1. OnIt(o) /\ Done(o) /\ UNCHANGED <<keyboards, mode, recovering>>
    BY <1>6 DEF PublishEnd, At, OnIt, Publishing
  <2>2. \/ UNCHANGED status
        \/ \E s \in Statuses \ {"absent"} : status' = [status EXCEPT ![p] = s]
    BY <1>6 DEF PublishEnd, Flush, Statuses
  <2> QED
    BY <2>1, <2>2, OwnerStops
<1>7. ASSUME NEW f \in Platforms, Platform(o, f) PROVE PublisherInv'
  <2>1. PICK t : /\ run' = [run EXCEPT ![o] = t]
                 /\ t.pc = run[o].pc /\ t.post = run[o].post
    <3> DEFINE todo == run[o].todo \ {f}
               good == [run[o] EXCEPT !.todo = todo, !.ok = run[o].ok \cup {f}]
               fail == [run[o] EXCEPT !.todo = todo, !.bad = run[o].bad \cup {f}]
    <3>1. run' = [run EXCEPT ![o] = good] \/ run' = [run EXCEPT ![o] = fail]
      BY <1>7 DEF Platform
    <3>2. /\ good.pc = run[o].pc /\ good.post = run[o].post
          /\ fail.pc = run[o].pc /\ fail.post = run[o].post
      BY <1>0 DEF Tasks
    <3> HIDE DEF good, fail
    <3> QED
      BY <3>1, <3>2
  <2>2. UNCHANGED <<status, keyboards, mode, recovering>> /\ run[o].pc # "idle"
    BY <1>7 DEF Platform, Busy
  <2>3. run'[o] = t /\ (\A q \in Owners \ {o} : run'[q] = run[q])
    BY <1>0, <2>1 DEF HandsTyped
  <2>4. PublisherInv'
    BY <2>1, <2>2, <2>3 DEF PublisherInv, Exclusive, HeldStatus, DecideStatus, Unasked, Asked,
                            RunsAlone, Held, OnIt, Owners
  <2> QED
    BY <2>4
<1> QED
  BY <1>1, <1>2, <1>4, <1>5, <1>6, <1>7 DEF Publish

\* The handlers of the buttons write with their post in hand; /retry locks it.
LEMMA HandlerPublisher ==
  ASSUME TypeOK, PublisherInv, Handler
  PROVE  PublisherInv'
<1> USE DEF rowVars, jobVars, worldVars, faultVars
<1>0. status \in [Posts -> Statuses] /\ HandsTyped /\ "bot" \in Owners /\ run["bot"] \in Tasks
      /\ keyboards \subseteq Posts /\ recovering \subseteq Posts
  BY DEF TypeOK, HandsTyped, Owners
<1>1. CASE GenRefused
  BY <1>0, <1>1, OwnerStops DEF GenRefused
<1>2. CASE ApproveLock
  <2> DEFINE p == run["bot"].post
             t == [run["bot"] EXCEPT !.pc = "quota", !.mem = "approved"]
  <2>1. CASE Done("bot")
    <3>1. OnIt("bot")
      BY <1>2 DEF ApproveLock, At, OnIt, Deciding
    <3> QED
      BY <1>0, <1>2, <2>1, <3>1, OwnerStops DEF ApproveLock, Statuses
  <2>2. CASE run' = [run EXCEPT !["bot"] = t] /\ status' = [status EXCEPT ![p] = "approved"]
    <3>1. t.pc = "quota" /\ t.post = p
      BY <1>0 DEF Tasks
    <3> HIDE DEF t
    <3>2. run'["bot"] = t /\ (\A q \in Owners \ {"bot"} : run'[q] = run[q])
      BY <1>0, <2>2 DEF HandsTyped
    <3>3. run["bot"].pc = "approve" /\ UNCHANGED <<keyboards, mode, recovering>>
      BY <1>2 DEF ApproveLock, At
    <3>4. p \in Posts /\ OnIt("bot")
      BY <1>0, <3>3 DEF HandsTyped, OnIt, Deciding
    <3>5. ASSUME NEW q \in Owners \ {"bot"}, OnIt(q)
          PROVE  run[q].post # p /\ run[q].post \in Posts /\ Held(q)
      <4>1. Held(q)
        BY <3>5 DEF PublisherInv, DecideStatus, OnIt, Held
      <4> QED
        BY <1>0, <3>4, <3>5, <4>1 DEF PublisherInv, Exclusive, HandsTyped, Held, Publishing
    <3>6. HeldStatus("bot")' /\ DecideStatus("bot")'
      BY <1>0, <2>2, <3>1, <3>2, <3>4 DEF HeldStatus, DecideStatus, Deciding
    <3>7. Unasked'
      BY <3>1, <3>2, <3>3 DEF PublisherInv, Unasked, Held, Owners
    <3>8. Asked'
      BY <1>0, <2>2, <3>1, <3>2, <3>3 DEF PublisherInv, Asked, HandsTyped
    <3>9. RunsAlone'
      BY <3>2, <3>3 DEF PublisherInv, RunsAlone, Owners
    <3> QED
      BY <1>0, <2>2, <3>1, <3>5, <3>6, <3>7, <3>8, <3>9, OwnerMoves DEF Deciding, Held, OnIt
  <2> QED
    BY <1>2, <2>1, <2>2 DEF ApproveLock
<1>3. CASE QueueCount
  <2>1. CASE Done("bot")
    BY <1>0, <1>3, <2>1, OwnerStops DEF QueueCount
  <2>2. CASE Goto("bot", "queue_lock")
    <3> DEFINE t == [run["bot"] EXCEPT !.pc = "queue_lock"]
    <3>1. t.pc = "queue_lock" /\ t.post = run["bot"].post /\ run' = [run EXCEPT !["bot"] = t]
      BY <1>0, <2>2 DEF Goto, Tasks
    <3> HIDE DEF t
    <3>2. run["bot"].pc = "queue" /\ UNCHANGED <<status, keyboards, mode, recovering>>
      BY <1>3 DEF QueueCount, At
    <3>3. run'["bot"] = t
      BY <1>0, <3>1 DEF HandsTyped
    <3>4. HeldStatus("bot")' /\ DecideStatus("bot")'
      BY <1>0, <3>1, <3>2, <3>3 DEF PublisherInv, HeldStatus, DecideStatus, Held, Publishing, Deciding
    <3>5. t.pc \notin Publishing /\ run["bot"].pc \in Deciding
      BY <3>1, <3>2 DEF Publishing, Deciding
    <3> QED
      BY <1>0, <3>1, <3>2, <3>4, <3>5, OwnerKeeps
  <2> QED
    BY <1>3, <2>1, <2>2 DEF QueueCount
<1>4. CASE QueueLock
  <2>1. OnIt("bot")
    BY <1>4 DEF QueueLock, At, OnIt, Deciding
  <2> QED
    BY <1>0, <1>4, <2>1, OwnerStops DEF QueueLock, Statuses
<1>5. CASE RejectWrite
  <2>1. OnIt("bot")
    BY <1>5 DEF RejectWrite, At, OnIt, Deciding
  <2> QED
    BY <1>0, <1>5, <2>1, OwnerStops DEF RejectWrite, Flush, Statuses
<1>6. CASE SkipWrite
  <2> DEFINE t == [Idle EXCEPT !.pc = "replace"]
  <2>1. t.pc = "replace" /\ run' = [run EXCEPT !["bot"] = t]
    BY <1>6 DEF SkipWrite, Idle
  <2> HIDE DEF t
  <2>2. run["bot"].pc = "skip" /\ OnIt("bot") /\ UNCHANGED <<keyboards, mode, recovering>>
    BY <1>6 DEF SkipWrite, At, OnIt, Deciding
  <2>3. UNCHANGED status \/ status' = [status EXCEPT ![run["bot"].post] = "skipped"]
    BY <1>6 DEF SkipWrite, Flush
  <2>4. run'["bot"] = t
    BY <1>0, <2>1 DEF HandsTyped
  <2>5. HeldStatus("bot")' /\ DecideStatus("bot")'
    BY <2>1, <2>4 DEF HeldStatus, DecideStatus, Held, Publishing, Deciding
  <2>6. t.pc \notin Publishing \cup Deciding \cup {"sending"} /\ "skipped" \in Statuses \ {"absent"}
    BY <2>1 DEF Publishing, Deciding, Statuses
  <2> QED
    BY <1>0, <2>1, <2>2, <2>3, <2>5, <2>6, OwnerKeeps
<1>7. CASE RetryLock
  BY <1>7, LockTakes DEF RetryLock, At
<1>8. CASE SingleEnd
  BY <1>0, <1>8, OwnerStops DEF SingleEnd
<1> QED
  BY <1>1, <1>2, <1>3, <1>4, <1>5, <1>6, <1>7, <1>8 DEF Handler

\* A press reaches a pending post that nobody publishes, a command a failed one.
LEMMA AdminPublisher ==
  ASSUME TypeOK, PublisherInv, Admin
  PROVE  PublisherInv'
<1> USE DEF rowVars, jobVars, worldVars, faultVars
<1>0. status \in [Posts -> Statuses] /\ HandsTyped /\ "bot" \in Owners
      /\ keyboards \subseteq Posts /\ recovering \subseteq Posts
  BY DEF TypeOK, HandsTyped, Owners
\* What the four have in common: the free bot takes p and writes no status.
<1>a. ASSUME NEW p \in Posts, NEW t, run' = [run EXCEPT !["bot"] = t], t.post = p, Free("bot"),
             UNCHANGED <<status, keyboards, mode, recovering>>,
             t.pc \in Deciding => status[p] = "pending_approval" /\ p \in keyboards,
             t.pc \in Publishing => t.pc = "single" /\ status[p] = "published",
             t.pc = "sending" => p \in keyboards
      PROVE  PublisherInv'
  <2>1. run'["bot"] = t /\ (\A q \in Owners \ {"bot"} : run'[q] = run[q])
    BY <1>0, <1>a DEF HandsTyped
  <2>2. mode = "up" /\ run["bot"].pc = "idle"
    BY <1>a DEF Free, Busy
  <2>3. ASSUME NEW q \in Owners \ {"bot"}, OnIt(q)
        PROVE  Held(q) /\ (t.pc \in Publishing \cup Deciding => run[q].post # p)
    <3>1. Held(q)
      BY <2>3 DEF PublisherInv, DecideStatus, OnIt, Held
    <3>2. CASE t.pc \in Publishing
      BY <1>a, <2>3, <3>1, <3>2 DEF PublisherInv, HeldStatus
    <3>3. CASE t.pc \in Deciding
      BY <1>a, <2>3, <3>1, <3>3 DEF PublisherInv, HeldStatus, Unasked
    <3> QED
      BY <3>1, <3>2, <3>3
  <2>4. HeldStatus("bot")' /\ DecideStatus("bot")'
    BY <1>a, <2>1 DEF HeldStatus, DecideStatus, Held
  <2>5. Unasked'
    <3>1. "job3" \in Owners /\ run'["job3"] = run["job3"]
      BY <2>1 DEF Owners
    <3> QED
      BY <1>a, <2>1, <3>1 DEF PublisherInv, Unasked, Held
  <2>6. Asked'
    BY <1>a, <2>1 DEF PublisherInv, Asked
  <2>7. RunsAlone'
    BY <1>a, <2>1, <2>2 DEF PublisherInv, RunsAlone, Owners
  <2>8. \A q \in Owners \ {"bot"} :
           /\ OnIt(q) => status'[run[q].post] \in {status[run[q].post], "expired"}
           /\ OnIt(q) /\ t.pc \in Publishing => run[q].post # t.post
           /\ Held(q) /\ t.pc \in Deciding => run[q].post # t.post
    BY <1>a, <2>3 DEF Held, OnIt
  <2> QED
    BY <1>0, <1>a, <2>4, <2>5, <2>6, <2>7, <2>8, OwnerMoves
<1>1. ASSUME NEW p \in Posts, NEW b \in Buttons, Press(p, b) PROVE PublisherInv'
  <2> DEFINE t == [Idle EXCEPT !.pc = b, !.post = p, !.mem = status[p], !.img = image[p]]
  <2>1. t.pc = b /\ t.post = p /\ b \notin Publishing \cup {"sending"}
    BY <1>1 DEF Idle, Buttons, Publishing
  <2>2. /\ run' = [run EXCEPT !["bot"] = t] /\ Free("bot")
        /\ status[p] = "pending_approval" /\ p \in keyboards
        /\ UNCHANGED <<status, keyboards, mode, recovering>>
    BY <1>1 DEF Press
  <2> HIDE DEF t
  <2> QED
    BY <2>1, <2>2, <1>a
<1>2. ASSUME NEW p \in Posts, EditCaption(p) PROVE PublisherInv'
  <2> DEFINE t == [Idle EXCEPT !.pc = "sending", !.post = p, !.mem = status[p], !.img = image[p]]
  <2>1. t.pc = "sending" /\ t.post = p /\ "sending" \notin Publishing \cup Deciding
    BY DEF Idle, Publishing, Deciding
  <2>2. /\ run' = [run EXCEPT !["bot"] = t] /\ Free("bot") /\ p \in keyboards
        /\ UNCHANGED <<status, keyboards, mode, recovering>>
    BY <1>2 DEF EditCaption
  <2> HIDE DEF t
  <2> QED
    BY <2>1, <2>2, <1>a
<1>3. ASSUME NEW p \in Posts, Retry(p) PROVE PublisherInv'
  <2> DEFINE t == [Idle EXCEPT !.pc = "retry", !.post = p]
  <2>1. t.pc = "retry" /\ t.post = p /\ "retry" \notin Publishing \cup Deciding \cup {"sending"}
    BY DEF Idle, Publishing, Deciding
  <2>2. /\ run' = [run EXCEPT !["bot"] = t] /\ Free("bot")
        /\ UNCHANGED <<status, keyboards, mode, recovering>>
    BY <1>3 DEF Retry
  <2> HIDE DEF t
  <2> QED
    BY <2>1, <2>2, <1>a
<1>4. ASSUME NEW p \in Posts, NEW f \in Platforms, RetryPlatform(p, f) PROVE PublisherInv'
  <2> DEFINE t == [Idle EXCEPT !.pc = "single", !.post = p, !.mem = "published",
                               !.img = image[p], !.todo = {f}]
  <2>1. t.pc = "single" /\ t.post = p /\ "single" \notin Deciding \cup {"sending"}
    BY DEF Idle, Deciding
  <2>2. /\ run' = [run EXCEPT !["bot"] = t] /\ Free("bot") /\ status[p] = "published"
        /\ UNCHANGED <<status, keyboards, mode, recovering>>
    BY <1>4 DEF RetryPlatform
  <2> HIDE DEF t
  <2> QED
    BY <2>1, <2>2, <1>a
<1> QED
  BY <1>1, <1>2, <1>3, <1>4 DEF Admin

\* JOB-7 takes queued rows; JOB-4 writes no status but 'expired'.
LEMMA JobsPublisher ==
  ASSUME TypeOK, PublisherInv, Jobs
  PROVE  PublisherInv'
<1> USE DEF rowVars, jobVars, worldVars, faultVars
<1>0. status \in [Posts -> Statuses] /\ HandsTyped /\ "job7" \in Owners
      /\ keyboards \subseteq Posts /\ recovering \subseteq Posts
  BY DEF TypeOK, HandsTyped, Owners
<1>a. ASSUME UNCHANGED <<status, run, keyboards, mode, recovering>> PROVE PublisherInv'
  BY <1>a DEF PublisherInv, Exclusive, HeldStatus, DecideStatus, Unasked, Asked, RunsAlone, Held, OnIt
<1>1. CASE QueueSelect \/ ExpireSelect \/ SweepSelect \/ SweepWrite
  BY <1>1, <1>a DEF QueueSelect, ExpireSelect, SweepSelect, SweepWrite
<1>2. CASE QueueNext
  <2>1. CASE UNCHANGED run
    BY <1>2, <2>1, <1>a DEF QueueNext
  <2>2. ASSUME NEW p \in queue,
               run' = [run EXCEPT !["job7"] = [Idle EXCEPT !.pc = "lock", !.post = p]]
        PROVE  PublisherInv'
    <3> DEFINE t == [Idle EXCEPT !.pc = "lock", !.post = p]
    <3>1. t.pc = "lock" /\ run' = [run EXCEPT !["job7"] = t]
      BY <2>2 DEF Idle
    <3> HIDE DEF t
    <3>2. run'["job7"] = t
      BY <1>0, <3>1 DEF HandsTyped
    <3>3. mode = "up" /\ UNCHANGED <<status, keyboards, mode, recovering>>
      BY <1>2 DEF QueueNext, Free
    <3>4. HeldStatus("job7")' /\ DecideStatus("job7")'
      BY <3>1, <3>2 DEF HeldStatus, DecideStatus, Held, Publishing, Deciding
    <3>5. t.pc \notin Publishing \cup Deciding \cup {"sending"}
      BY <3>1 DEF Publishing, Deciding
    <3> QED
      BY <1>0, <3>1, <3>3, <3>4, <3>5, OwnerKeeps
  <2> QED
    BY <1>2, <2>1, <2>2 DEF QueueNext
<1>3. CASE DequeueLock
  BY <1>3, LockTakes DEF DequeueLock, At
<1>4. CASE ExpireWrite
  <2>1. \A p \in Posts : status'[p] \in {status[p], "expired"}
    BY <1>4 DEF ExpireWrite
  <2>2. UNCHANGED <<run, keyboards, mode, recovering>>
    BY <1>4 DEF ExpireWrite
  <2>3. Exclusive' /\ Unasked' /\ RunsAlone'
    BY <2>2 DEF PublisherInv, Exclusive, Unasked, RunsAlone, Held, OnIt
  <2>4. Asked'
    BY <1>0, <2>1, <2>2 DEF PublisherInv, Asked, HandsTyped
  <2>5. ASSUME NEW o \in Owners PROVE HeldStatus(o)' /\ DecideStatus(o)'
    <3>1. OnIt(o) => run[o].post \in Posts
      BY <1>0 DEF HandsTyped, OnIt, Publishing, Deciding
    <3> QED
      BY <2>1, <2>2, <3>1 DEF PublisherInv, HeldStatus, DecideStatus, Held, OnIt
  <2> QED
    BY <2>3, <2>4, <2>5 DEF PublisherInv
<1> QED
  BY <1>1, <1>2, <1>3, <1>4 DEF Jobs

\* Recovery finds nobody at work and takes one post at a time.
LEMMA RecoveryPublisher ==
  ASSUME TypeOK, PublisherInv, Recovery
  PROVE  PublisherInv'
<1> USE DEF rowVars, jobVars, worldVars, faultVars
<1>0. status \in [Posts -> Statuses] /\ HandsTyped /\ "boot" \in Owners
      /\ keyboards \subseteq Posts /\ recovering \subseteq Posts
  BY DEF TypeOK, HandsTyped, Owners
\* Once a process is starting, whatever the coroutine of recovery does ...
<1>a. ASSUME mode # "up", UNCHANGED keyboards,
             \A q \in Owners \ {"boot"} : run'[q] = run[q],
             \A p \in Posts : status[p] # "absent" => status'[p] # "absent",
             \A p \in recovering' : status[p] # "absent" /\ p \in Posts,
             run'["boot"].pc \notin Deciding, HeldStatus("boot")',
             run'["boot"].pc = "sending" => status'[run'["boot"].post] # "absent",
             mode' \in {"republish", "resend"} \/ (mode' = "up" /\ run'["boot"].pc = "idle")
      PROVE  PublisherInv'
  <2>1. \A q \in Owners \ {"boot"} : run'[q].pc = "idle"
    BY <1>a DEF PublisherInv, RunsAlone
  <2>2. \A q \in Owners \ {"boot"} : ~Held(q)' /\ ~OnIt(q)' /\ run'[q].pc # "sending"
    BY <2>1 DEF Held, OnIt, Publishing, Deciding
  <2>3. Exclusive'
    BY <2>2 DEF Exclusive, Held, OnIt
  <2>4. \A q \in Owners : HeldStatus(q)' /\ DecideStatus(q)'
    BY <1>a, <2>2 DEF HeldStatus, DecideStatus, Held, OnIt
  <2>5. Unasked'
    BY <2>2 DEF Unasked, Owners
  <2>6. Asked'
    BY <1>0, <1>a, <2>2 DEF PublisherInv, Asked
  <2>7. RunsAlone'
    BY <1>a, <2>1 DEF RunsAlone
  <2> QED
    BY <2>3, <2>4, <2>5, <2>6, <2>7 DEF PublisherInv
<1>b. "idle" \notin Publishing \cup Deciding \cup {"sending"}
  BY DEF Publishing, Deciding
<1>1. CASE Restart
  <2>1. run["boot"].pc = "idle" /\ mode = "down" /\ UNCHANGED <<run, keyboards>> /\ mode' = "republish"
    BY <1>1 DEF Restart, PublisherInv, RunsAlone
  <2>2. \A p \in Posts : status[p] # "absent" => status'[p] # "absent"
    BY <1>1 DEF Restart
  <2>3. \A p \in recovering' : status[p] # "absent" /\ p \in Posts
    BY <1>1 DEF Restart
  <2> QED
    BY <2>1, <2>2, <2>3, <1>a, <1>b DEF HeldStatus, Held
<1>2. CASE ResendSelect
  <2>1. run["boot"].pc = "idle" /\ mode = "republish" /\ UNCHANGED <<run, keyboards, status>> /\ mode' = "resend"
    BY <1>2 DEF ResendSelect, Busy
  <2>2. \A p \in recovering' : status[p] # "absent" /\ p \in Posts
    BY <1>2 DEF ResendSelect, Rows
  <2> QED
    BY <2>1, <2>2, <1>a, <1>b DEF HeldStatus, Held
<1>3. CASE Ready
  <2>1. run["boot"].pc = "idle" /\ mode = "resend" /\ mode' = "up"
        /\ UNCHANGED <<run, keyboards, status, recovering>>
    BY <1>3 DEF Ready, Busy
  <2>2. \A p \in recovering' : status[p] # "absent" /\ p \in Posts
    BY <1>0, <2>1 DEF PublisherInv, Asked
  <2> QED
    BY <2>1, <2>2, <1>a, <1>b DEF HeldStatus, Held
<1>4. ASSUME NEW p \in Posts, Republish(p) PROVE PublisherInv'
  <2> DEFINE t == [Idle EXCEPT !.pc = "platforms", !.post = p, !.mem = "publishing",
                               !.img = image[p], !.todo = Platforms \ ids[p]]
  <2>0. t.pc = "platforms" /\ t.post = p
    BY DEF Idle
  <2>1. run["boot"].pc = "idle" /\ mode = "republish" /\ mode' = mode /\ UNCHANGED keyboards
    BY <1>4 DEF Republish, Busy
  <2>2. \/ UNCHANGED run /\ (UNCHANGED status \/ status' = [status EXCEPT ![p] = "published"])
        \/ /\ status' = [status EXCEPT ![p] = "publishing"]
           /\ run' = [run EXCEPT !["boot"] = t]
    BY <1>4 DEF Republish
  <2> HIDE DEF t
  <2>3. \A q \in Posts : status[q] # "absent" => status'[q] # "absent"
    BY <1>0, <2>2
  <2>4. \A q \in recovering' : status[q] # "absent" /\ q \in Posts
    BY <1>0, <1>4 DEF Republish, PublisherInv, Asked
  <2>5. \A q \in Owners \ {"boot"} : run'[q] = run[q]
    BY <1>0, <2>2 DEF HandsTyped
  <2>6. run'["boot"].pc = "idle" \/ (run'["boot"] = t /\ status'[p] = "publishing")
    BY <1>0, <2>1, <2>2 DEF HandsTyped
  <2>7. /\ run'["boot"].pc \notin Deciding \cup {"sending"}
        /\ HeldStatus("boot")'
    BY <2>0, <2>6 DEF HeldStatus, Held, Publishing, Deciding
  <2> QED
    BY <2>1, <2>3, <2>4, <2>5, <2>7, <1>a
<1>5. ASSUME NEW p \in Posts, Resend(p) PROVE PublisherInv'
  <2> DEFINE t == [Idle EXCEPT !.pc = "sending", !.post = p, !.mem = status[p], !.img = image[p]]
  <2>0. t.pc = "sending" /\ t.post = p
    BY DEF Idle
  <2>1. /\ mode = "resend" /\ mode' = mode /\ UNCHANGED <<keyboards, status>>
        /\ run' = [run EXCEPT !["boot"] = t] /\ p \in recovering
    BY <1>5 DEF Resend
  <2> HIDE DEF t
  <2>2. \A q \in recovering' : status[q] # "absent" /\ q \in Posts
    BY <1>0, <1>5 DEF Resend, PublisherInv, Asked
  <2>3. run'["boot"] = t /\ \A q \in Owners \ {"boot"} : run'[q] = run[q]
    BY <1>0, <2>1 DEF HandsTyped
  <2>4. run'["boot"].pc \notin Deciding /\ HeldStatus("boot")'
    BY <2>0, <2>3 DEF HeldStatus, Held, Publishing, Deciding
  <2>5. status'[run'["boot"].post] # "absent"
    BY <2>0, <2>1, <2>3 DEF PublisherInv, Asked
  <2> QED
    BY <2>1, <2>2, <2>3, <2>4, <2>5, <1>a
<1> QED
  BY <1>1, <1>2, <1>3, <1>4, <1>5 DEF Recovery

LEMMA NextPublisher == TypeOK /\ PublisherInv /\ [Next]_vars => PublisherInv'
<1> SUFFICES ASSUME TypeOK, PublisherInv, [Next]_vars PROVE PublisherInv'
  OBVIOUS
<1> USE DEF rowVars, jobVars, worldVars, faultVars
<1>a. ASSUME UNCHANGED <<status, run, keyboards, mode>>, recovering' \subseteq recovering
      PROVE  PublisherInv'
  BY <1>a DEF PublisherInv, Exclusive, HeldStatus, DecideStatus, Unasked, Asked, RunsAlone, Held, OnIt
<1>1. CASE Environment
  <2>1. CASE Crash
    <3>1. /\ \A o \in Owners : run'[o] = Idle
          /\ recovering' = {} /\ mode' = "down" /\ UNCHANGED <<status, keyboards>>
      BY <2>1 DEF Crash
    <3>2. Idle.pc = "idle" /\ "idle" \notin Publishing \cup Deciding \cup {"sending"}
      BY DEF Idle, Publishing, Deciding
    <3>3. \A o \in Owners : ~Held(o)' /\ ~OnIt(o)' /\ run'[o].pc \notin Deciding
      BY <3>1, <3>2 DEF Held, OnIt
    <3>4. Exclusive' /\ Unasked' /\ \A o \in Owners : HeldStatus(o)' /\ DecideStatus(o)'
      BY <3>3 DEF Exclusive, Unasked, HeldStatus, DecideStatus, Held, OnIt, Owners
    <3>5. Asked' /\ RunsAlone'
      BY <3>1, <3>2 DEF PublisherInv, Asked, RunsAlone, Owners
    <3> QED
      BY <3>4, <3>5 DEF PublisherInv
  <2>2. CASE Suspend \/ Lift \/ \E p \in Posts : Age(p)
    BY <2>2, <1>a DEF Suspend, Lift, Age
  <2> QED
    BY <1>1, <2>1, <2>2 DEF Environment
<1>2. CASE UNCHANGED vars
  BY <1>2, <1>a DEF vars
<1>3. CASE Contention
  BY <1>3, <1>a, Contended, OwnerStops
<1> QED
  BY <1>1, <1>2, <1>3, GeneratePublisher, PublishPublisher, HandlerPublisher, AdminPublisher,
     JobsPublisher, RecoveryPublisher DEF Next

LEMMA InitPublisher == Init => PublisherInv
<1> SUFFICES ASSUME Init PROVE PublisherInv
  OBVIOUS
<1>1. \A o \in Owners : run[o].pc = "idle"
  BY DEF Init, Idle
<1>2. "idle" \notin Publishing \cup Deciding \cup {"sending"}
  BY DEF Publishing, Deciding
<1>3. \A o \in Owners : ~Held(o) /\ ~OnIt(o) /\ run[o].pc \notin Deciding \cup {"sending"}
  BY <1>1, <1>2 DEF Held, OnIt
<1>4. Exclusive /\ Unasked /\ \A o \in Owners : HeldStatus(o) /\ DecideStatus(o)
  BY <1>3 DEF Exclusive, Unasked, HeldStatus, DecideStatus, Owners
<1>5. Asked /\ RunsAlone
  BY <1>1, <1>3 DEF Init, Asked, RunsAlone, Owners
<1> QED
  BY <1>4, <1>5 DEF PublisherInv

\* Whatever the races, crashes and restarts, at most one of handle_approve,
\* /retry, /retry_ig and /retry_fb, JOB-3, JOB-7 and recover_pending_posts is
\* publishing a given post.
THEOREM OneAtATime == Spec => []OnePublisher
<1>1. PublisherInv => OnePublisher
  BY DEF PublisherInv, Exclusive, OnePublisher, Held, OnIt
<1> QED
  BY <1>1, InitTypeOK, NextTypeOK, InitPublisher, NextPublisher, PTL DEF Spec

-----------------------------------------------------------------------------
(* The contract.  Without auto_publish the lifecycle implements            *)
(* PublicationContract: the invariant that relates the table to what the   *)
(* admins accepted.                                                        *)

Accepted == {"approved", "queued", "publishing", "published", "error"}
Unanswered == {"absent", "pending_approval", "rejected", "skipped"}
Refusing == {"reject", "skip"}

\* The statuses on the way to publication belong to accepted posts, and the
\* ones that need no acceptance to posts that nobody accepted.
ConsentRows ==
    \A p \in Posts :
        /\ status[p] \in Accepted => p \in consented
        /\ status[p] \in Unanswered => p \notin consented

\* What one coroutine may be doing to its post.  Only the bot refuses, so no
\* acceptance can slip between the two halves of a refusal.
ConsentHand(o) ==
    /\ run[o].pc \in Publishing => run[o].post \in consented
    /\ run[o].pc \in Refusing =>
         /\ o = "bot"
         /\ run[o].post \notin consented
         /\ status[run[o].post] # "absent"
    /\ run[o].pc \notin {"platforms", "single"} => run[o].todo = {}

\* The lists of JOB-4 and of recovery.
ConsentLists ==
    /\ \A p \in expiring : status[p] # "absent"
    /\ mode = "republish" => recovering \subseteq consented

\* Why a copy only ever follows an acceptance.
ConsentInv ==
    /\ ConsentRows
    /\ \A o \in Owners : ConsentHand(o)
    /\ ConsentLists

\* The initial table is empty and nobody does anything.
LEMMA InitConsent == Init => ConsentInv
  BY DEF Init, ConsentInv, ConsentRows, ConsentHand, ConsentLists, Idle, Publishing,
         Refusing, Accepted, Owners

-----------------------------------------------------------------------------
(* What the ways of handing over do to the coroutines.                     *)

\* Only o changes what it does.
Only(o) == \A q \in Owners \ {o} : run'[q] = run[q]

LEMMA GotoEffect ==
  ASSUME run \in [Owners -> Tasks], NEW o \in Owners, NEW s, Goto(o, s)
  PROVE  /\ Only(o) /\ run'[o].pc = s
         /\ run'[o].post = run[o].post /\ run'[o].todo = run[o].todo
BY DEF Goto, Only, Tasks

LEMMA DoneEffect ==
  ASSUME run \in [Owners -> Tasks], NEW o \in Owners, Done(o)
  PROVE  Only(o) /\ run'[o].pc = "idle" /\ run'[o].todo = {}
BY DEF Done, Only, Idle

\* A coroutine that takes a post up starts from an empty task.
LEMMA TakeEffect ==
  ASSUME run \in [Owners -> Tasks], NEW o \in Owners, NEW t, run' = [run EXCEPT ![o] = t]
  PROVE  Only(o) /\ run'[o] = t
BY DEF Only

-----------------------------------------------------------------------------
(* What a step does to the table of posts, whichever coroutine takes it.   *)

Forward ==
    \E p \in consented : \E s \in Accepted :
        status' = [status EXCEPT ![p] = s] /\ UNCHANGED consented
Proposed ==
    \E p \in Posts :
        /\ status[p] = "absent" /\ status' = [status EXCEPT ![p] = "pending_approval"]
        /\ UNCHANGED consented
Approved ==
    \E p \in Posts : \E s \in {"approved", "queued"} :
        /\ status[p] = "pending_approval" /\ status' = [status EXCEPT ![p] = s]
        /\ consented' = consented \cup {p}
Refused ==
    \E p \in Posts \ consented : \E s \in {"rejected", "skipped"} :
        /\ status[p] # "absent" /\ status' = [status EXCEPT ![p] = s]
        /\ UNCHANGED consented
Expired ==
    /\ status' = [p \in Posts |-> IF p \in expiring THEN "expired" ELSE status[p]]
    /\ UNCHANGED consented
Reopened ==
    /\ status' = [p \in Posts |-> IF status[p] = "publishing" THEN "approved" ELSE status[p]]
    /\ UNCHANGED consented

TableStep ==
    \/ UNCHANGED <<status, consented>>
    \/ Forward \/ Proposed \/ Approved \/ Refused \/ Expired \/ Reopened

\* The flush of a snapshot of an accepted post.
LEMMA FlushForward ==
  ASSUME NEW o \in Owners, NEW p \in consented, NEW s \in Accepted,
         Flush(o, p, s), UNCHANGED consented
  PROVE  TableStep
BY DEF Flush, TableStep, Forward

LEMMA NextTable == ASSUME TypeOK, ConsentInv, Next PROVE TableStep
<1> USE DEF worldVars
<1>0. /\ status \in [Posts -> Statuses]
      /\ \A o \in Owners : ConsentHand(o)
      /\ \A p \in Posts : status[p] \in Accepted => p \in consented
      /\ \A o \in Owners : run[o].pc \notin {"idle", "generating", "replace"} => run[o].post \in Posts
  BY DEF TypeOK, ConsentInv, ConsentRows
<1>a. ASSUME NEW o \in Owners, run[o].pc \in Publishing PROVE run[o].post \in consented
  BY <1>0, <1>a DEF ConsentHand
<1>b. ASSUME NEW o \in Owners, Abort(o), run[o].pc \in Publishing PROVE TableStep
  BY <1>a, <1>b, FlushForward DEF Abort, Accepted, TableStep
<1>c. ASSUME NEW o \in Owners, NEW s \in Accepted, run[o].post \in Posts, Lock(o, s) PROVE TableStep
  BY <1>0, <1>c DEF Lock, TableStep, Forward, Accepted
<1>1. ASSUME NEW o \in Owners, Generate(o) PROVE TableStep
  BY <1>1 DEF Generate, GenStart, GenEmpty, GenInsert, Send, Record, Rows, rowVars,
             TableStep, Proposed
<1>2. ASSUME NEW o \in Owners, Publish(o) PROVE TableStep
  <2>1. CASE Quota(o)
    BY <2>1, <1>a, FlushForward DEF Quota, At, Publishing, Accepted, TableStep
  <2>2. CASE UploadOk(o)
    BY <2>2 DEF UploadOk, TableStep
  <2>3. CASE UploadFail(o)
    BY <2>3, <1>b DEF UploadFail, At, Publishing
  <2>4. CASE PublishRefused(o)
    BY <2>4, <1>b DEF PublishRefused, At, Publishing
  <2>5. CASE PublishStart(o)
    BY <2>5, <1>a, FlushForward DEF PublishStart, At, Publishing, Accepted
  <2>6. CASE PublishEnd(o)
    BY <2>6, <1>a, FlushForward DEF PublishEnd, At, Publishing, Accepted
  <2>7. ASSUME NEW f \in Platforms, Platform(o, f) PROVE TableStep
    BY <2>7 DEF Platform, rowVars, TableStep
  <2> QED
    BY <1>2, <2>1, <2>2, <2>3, <2>4, <2>5, <2>6, <2>7 DEF Publish
<1>3. CASE Handler
  <2>1. CASE GenRefused \/ QueueCount \/ SingleEnd
    BY <2>1 DEF GenRefused, QueueCount, SingleEnd, rowVars, TableStep
  <2>2. CASE ApproveLock
    BY <2>2, <1>0 DEF ApproveLock, At, Owners, TableStep, Approved
  <2>3. CASE QueueLock
    BY <2>3, <1>0 DEF QueueLock, At, Owners, TableStep, Approved
  <2>4. CASE RejectWrite
    BY <2>4, <1>0 DEF RejectWrite, At, Owners, Flush, ConsentHand, Refusing, TableStep, Refused
  <2>5. CASE SkipWrite
    BY <2>5, <1>0 DEF SkipWrite, At, Owners, Flush, ConsentHand, Refusing, TableStep, Refused
  <2>6. CASE RetryLock
    BY <2>6, <1>0, <1>c DEF RetryLock, At, Owners, Accepted
  <2> QED
    BY <1>3, <2>1, <2>2, <2>3, <2>4, <2>5, <2>6 DEF Handler
<1>4. CASE Admin
  BY <1>4 DEF Admin, Press, EditCaption, Retry, RetryPlatform, rowVars, TableStep
<1>5. CASE Jobs
  <2>1. CASE DequeueLock
    BY <2>1, <1>0, <1>c DEF DequeueLock, At, Owners, Accepted
  <2>2. CASE ExpireWrite
    BY <2>2 DEF ExpireWrite, TableStep, Expired
  <2>3. CASE QueueSelect \/ QueueNext \/ ExpireSelect \/ SweepSelect \/ SweepWrite
    BY <2>3 DEF QueueSelect, QueueNext, ExpireSelect, SweepSelect, SweepWrite, rowVars, TableStep
  <2> QED
    BY <1>5, <2>1, <2>2, <2>3 DEF Jobs
<1>6. CASE Recovery
  <2>1. CASE Restart
    BY <2>1 DEF Restart, TableStep, Reopened
  <2>2. CASE ResendSelect \/ Ready \/ \E p \in Posts : Resend(p)
    BY <2>2 DEF ResendSelect, Ready, Resend, rowVars, TableStep
  <2>3. ASSUME NEW p \in Posts, Republish(p) PROVE TableStep
    <3>1. p \in consented
      BY <2>3 DEF Republish, ConsentInv, ConsentLists
    <3> QED
      BY <2>3, <3>1 DEF Republish, TableStep, Forward, Accepted
  <2> QED
    BY <1>6, <2>1, <2>2, <2>3 DEF Recovery
<1>7. CASE Environment
  BY <1>7 DEF Environment, Crash, Suspend, Lift, Age, rowVars, TableStep
<1>8. CASE Contention
  BY <1>8, Contended DEF rowVars, TableStep
<1> QED
  BY <1>1, <1>2, <1>3, <1>4, <1>5, <1>6, <1>7, <1>8 DEF Next

-----------------------------------------------------------------------------
(* The invariant is inductive: rows, coroutines, lists.                    *)

LEMMA TableRows ==
  ASSUME TypeOK, ConsentInv, TableStep
  PROVE  /\ ConsentRows' /\ consented \subseteq consented'
         /\ \A p \in Posts : status'[p] = "absent" => status[p] = "absent"
<1> USE DEF Accepted, Unanswered
<1>0. ConsentRows /\ status \in [Posts -> Statuses] /\ consented \subseteq Posts
  BY DEF TypeOK, ConsentInv
<1>1. CASE UNCHANGED <<status, consented>>
  BY <1>0, <1>1 DEF ConsentRows
<1>2. CASE Forward
  BY <1>0, <1>2 DEF ConsentRows, Forward
<1>3. CASE Proposed
  BY <1>0, <1>3 DEF ConsentRows, Proposed
<1>4. CASE Approved
  BY <1>0, <1>4 DEF ConsentRows, Approved
<1>5. CASE Refused
  BY <1>0, <1>5 DEF ConsentRows, Refused
<1>6. CASE Expired
  BY <1>0, <1>6 DEF ConsentRows, Expired
<1>7. CASE Reopened
  BY <1>0, <1>7 DEF ConsentRows, Reopened
<1> QED
  BY <1>1, <1>2, <1>3, <1>4, <1>5, <1>6, <1>7 DEF TableStep

\* The others keep what they had: a refusal in progress is the bot's, and only
\* the bot accepts.
LEMMA HandsMoved ==
  ASSUME TypeOK, ConsentInv, TableStep, NEW o \in Owners, Only(o), ConsentHand(o)',
         o = "bot" \/ UNCHANGED consented
  PROVE  \A q \in Owners : ConsentHand(q)'
<1> SUFFICES ASSUME NEW q \in Owners, q # o PROVE ConsentHand(q)'
  OBVIOUS
<1>1. run'[q] = run[q] /\ ConsentHand(q)
  BY DEF Only, ConsentInv
<1>2. run[q].pc \in Refusing => run[q].post \in Posts
  BY DEF TypeOK, Refusing
<1>3. /\ consented \subseteq consented'
      /\ \A p \in Posts : status'[p] = "absent" => status[p] = "absent"
  BY TableRows
<1> QED
  BY <1>1, <1>2, <1>3 DEF ConsentHand

LEMMA HandsKept ==
  ASSUME TypeOK, ConsentInv, TableStep, UNCHANGED <<run, consented>>
  PROVE  \A q \in Owners : ConsentHand(q)'
<1>1. \A q \in Owners : run[q].pc \in Refusing => run[q].post \in Posts
  BY DEF TypeOK, Refusing
<1>2. \A p \in Posts : status'[p] = "absent" => status[p] = "absent"
  BY TableRows
<1> QED
  BY <1>1, <1>2 DEF ConsentHand, ConsentInv

\* A coroutine that is about to do something harmless.
LEMMA Harmless ==
  ASSUME NEW o \in Owners, run'[o].pc \notin Publishing \cup Refusing, run'[o].todo = {}
  PROVE  ConsentHand(o)'
BY DEF ConsentHand, Publishing

LEMMA NextHandsConsent ==
  ASSUME ~AutoPublish, TypeOK, ConsentInv, Next
  PROVE  \A q \in Owners : ConsentHand(q)'
<1> USE DEF worldVars
<1>0. /\ TableStep /\ run \in [Owners -> Tasks] /\ consented \subseteq consented'
      /\ \A o \in Owners : ConsentHand(o)
      /\ \A p \in Posts : status[p] \in Accepted => p \in consented
      /\ \A p \in Posts : status[p] \in Unanswered => p \notin consented
      /\ \A o \in Owners : run[o].pc \notin {"idle", "generating", "replace"} => run[o].post \in Posts
  BY NextTable, TableRows DEF TypeOK, ConsentInv, ConsentRows
<1>d. ASSUME NEW o \in Owners, Done(o), o = "bot" \/ UNCHANGED consented
      PROVE  \A q \in Owners : ConsentHand(q)'
  BY <1>d, <1>0, DoneEffect, Harmless, HandsMoved DEF Publishing, Refusing
<1>l. ASSUME NEW o \in Owners, NEW s \in Accepted, run[o].pc \in {"retry", "lock"}, Lock(o, s),
             UNCHANGED consented
      PROVE  \A q \in Owners : ConsentHand(q)'
  <2>1. CASE status[run[o].post] = s
    <3> DEFINE t == [run[o] EXCEPT !.pc = "upload", !.mem = "publishing",
                                   !.img = image[run[o].post]]
    <3>1. run' = [run EXCEPT ![o] = t]
      BY <1>l, <2>1 DEF Lock
    <3>2. t.pc = "upload" /\ t.post = run[o].post /\ t.todo = run[o].todo
      BY <1>0 DEF Tasks
    <3>3. run[o].post \in consented /\ run[o].todo = {}
      BY <1>0, <1>l, <2>1 DEF ConsentHand
    <3> HIDE DEF t
    <3>4. Only(o) /\ run'[o] = t
      BY <1>0, <3>1, TakeEffect
    <3>5. ConsentHand(o)'
      BY <1>0, <3>2, <3>3, <3>4 DEF ConsentHand, Refusing
    <3> QED
      BY <1>l, <1>0, <3>4, <3>5, HandsMoved
  <2>2. CASE status[run[o].post] # s
    BY <1>l, <2>2, <1>d DEF Lock
  <2> QED
    BY <2>1, <2>2
<1>1. ASSUME NEW o \in Owners, Generate(o) PROVE \A q \in Owners : ConsentHand(q)'
  <2>1. CASE GenStart(o)
    <3>1. UNCHANGED consented /\ Goto(o, "generating") /\ run[o].todo = {}
      BY <2>1, <1>0 DEF GenStart, Free, Busy, At, ConsentHand
    <3> QED
      BY <3>1, <1>0, GotoEffect, Harmless, HandsMoved DEF Publishing, Refusing
  <2>2. CASE GenEmpty(o)
    BY <2>2, <1>d DEF GenEmpty
  <2>3. CASE GenInsert(o)
    <3>1. PICK p \in Posts : run' = [run EXCEPT ![o] =
            [Idle EXCEPT !.pc = "sending", !.post = p, !.mem = "pending_approval", !.img = TRUE]]
      BY <2>3 DEF GenInsert, Rows
    <3> QED
      BY <2>3, <3>1, <1>0, TakeEffect, Harmless, HandsMoved DEF GenInsert, Idle, Publishing, Refusing
  <2>4. CASE Send(o)
    <3>1. CASE Goto(o, "recording")
      <4>1. run[o].todo = {}
        BY <2>4, <1>0 DEF Send, At, ConsentHand
      <4> QED
        BY <2>4, <3>1, <4>1, <1>0, GotoEffect, Harmless, HandsMoved
        DEF Send, Publishing, Refusing
    <3> QED
      BY <2>4, <3>1, <1>d DEF Send
  <2>5. CASE Record(o)
    BY <2>5, <1>d DEF Record
  <2> QED
    BY <1>1, <2>1, <2>2, <2>3, <2>4, <2>5 DEF Generate
<1>2. ASSUME NEW o \in Owners, Publish(o) PROVE \A q \in Owners : ConsentHand(q)'
  <2>a. ASSUME Abort(o) PROVE \A q \in Owners : ConsentHand(q)'
    BY <2>a, <1>d DEF Abort
  <2>1. CASE Quota(o)
    <3>1. CASE Goto(o, "upload")
      <4>1. run[o].todo = {} /\ run[o].post \in consented /\ UNCHANGED consented
        BY <2>1, <1>0 DEF Quota, At, ConsentHand, Publishing
      <4>2. Only(o) /\ ConsentHand(o)'
        BY <3>1, <4>1, <1>0, GotoEffect DEF ConsentHand, Refusing
      <4> QED
        BY <4>1, <4>2, <1>0, HandsMoved
    <3> QED
      BY <2>1, <3>1, <1>d DEF Quota
  <2>2. CASE UploadOk(o)
    <3> DEFINE m == IF o = "job3" THEN status[run[o].post] ELSE run[o].mem
               t == [run[o] EXCEPT !.pc = "ready", !.mem = m]
    <3>1. run' = [run EXCEPT ![o] = t]
      BY <2>2 DEF UploadOk
    <3>2. t.pc = "ready" /\ t.post = run[o].post /\ t.todo = run[o].todo
      <4> HIDE DEF m
      <4> QED
        BY <1>0 DEF Tasks
    <3>3. run[o].post \in consented /\ run[o].todo = {} /\ UNCHANGED consented
      BY <1>0, <2>2 DEF UploadOk, At, ConsentHand, Publishing
    <3> HIDE DEF t
    <3>4. Only(o) /\ ConsentHand(o)'
      BY <1>0, <3>1, <3>2, <3>3, TakeEffect DEF ConsentHand, Refusing
    <3> QED
      BY <1>0, <3>3, <3>4, HandsMoved
  <2>3. CASE UploadFail(o) \/ PublishRefused(o)
    BY <2>3, <2>a DEF UploadFail, PublishRefused
  <2>4. CASE PublishStart(o)
    <3> DEFINE t == [run[o] EXCEPT !.pc = "platforms", !.mem = "publishing", !.todo = Platforms]
    <3>1. run' = [run EXCEPT ![o] = t]
      BY <2>4 DEF PublishStart
    <3>2. t.pc = "platforms" /\ t.post = run[o].post
      BY <1>0 DEF Tasks
    <3>3. run[o].post \in consented /\ UNCHANGED consented
      BY <1>0, <2>4 DEF PublishStart, At, ConsentHand, Publishing
    <3> HIDE DEF t
    <3>4. Only(o) /\ ConsentHand(o)'
      BY <1>0, <3>1, <3>2, <3>3, TakeEffect DEF ConsentHand, Refusing
    <3> QED
      BY <1>0, <3>3, <3>4, HandsMoved
  <2>5. CASE PublishEnd(o)
    BY <2>5, <1>d DEF PublishEnd
  <2>6. ASSUME NEW f \in Platforms, Platform(o, f) PROVE \A q \in Owners : ConsentHand(q)'
    <3> DEFINE todo == run[o].todo \ {f}
               good == [run[o] EXCEPT !.todo = todo, !.ok = run[o].ok \cup {f}]
               fail == [run[o] EXCEPT !.todo = todo, !.bad = run[o].bad \cup {f}]
    <3>1. run' = [run EXCEPT ![o] = good] \/ run' = [run EXCEPT ![o] = fail]
      BY <2>6 DEF Platform
    <3>2. /\ good.pc = run[o].pc /\ good.post = run[o].post
          /\ fail.pc = run[o].pc /\ fail.post = run[o].post
      BY <1>0 DEF Tasks
    <3>3. UNCHANGED consented /\ run[o].pc \in {"platforms", "single"}
      BY <1>0, <2>6 DEF Platform, ConsentHand
    <3> HIDE DEF good, fail
    <3>4. Only(o) /\ run'[o].pc = run[o].pc /\ run'[o].post = run[o].post
      BY <1>0, <3>1, <3>2, TakeEffect
    <3>5. ConsentHand(o)'
      BY <1>0, <3>3, <3>4 DEF ConsentHand, Refusing, Publishing
    <3> QED
      BY <1>0, <3>3, <3>4, <3>5, HandsMoved
  <2> QED
    BY <1>2, <2>1, <2>2, <2>3, <2>4, <2>5, <2>6 DEF Publish
<1>3. CASE Handler
  <2> USE DEF Owners
  <2>1. CASE GenRefused \/ QueueLock \/ RejectWrite \/ SingleEnd
    BY <2>1, <1>d DEF GenRefused, QueueLock, RejectWrite, SingleEnd
  <2>2. CASE ApproveLock
    <3> DEFINE t == [run["bot"] EXCEPT !.pc = "quota", !.mem = "approved"]
    <3>1. CASE Done("bot")
      BY <3>1, <1>d
    <3>2. CASE /\ run' = [run EXCEPT !["bot"] = t]
               /\ consented' = consented \cup {run["bot"].post}
      <4>1. t.pc = "quota" /\ t.post = run["bot"].post /\ t.todo = run["bot"].todo
        BY <1>0 DEF Tasks
      <4>2. run["bot"].todo = {}
        BY <2>2, <1>0 DEF ApproveLock, At, ConsentHand
      <4> HIDE DEF t
      <4>3. Only("bot") /\ ConsentHand("bot")'
        BY <1>0, <3>2, <4>1, <4>2, TakeEffect DEF ConsentHand, Refusing
      <4> QED
        BY <1>0, <4>3, HandsMoved
    <3> QED
      BY <2>2, <3>1, <3>2 DEF ApproveLock
  <2>3. CASE QueueCount
    <3>1. run["bot"].todo = {} /\ UNCHANGED consented
      BY <2>3, <1>0 DEF QueueCount, At, ConsentHand
    <3>2. CASE Goto("bot", "queue_lock")
      BY <3>1, <3>2, <1>0, GotoEffect, Harmless, HandsMoved DEF Publishing, Refusing
    <3> QED
      BY <2>3, <3>2, <1>d DEF QueueCount
  <2>4. CASE SkipWrite
    BY <2>4, <1>0, TakeEffect, Harmless, HandsMoved DEF SkipWrite, Idle, Publishing, Refusing
  <2>5. CASE RetryLock
    BY <2>5, <1>l DEF RetryLock, Lock, At, Accepted
  <2> QED
    BY <1>3, <2>1, <2>2, <2>3, <2>4, <2>5 DEF Handler
<1>4. CASE Admin
  <2> USE DEF Owners
  <2>1. ASSUME NEW p \in Posts, NEW b \in Buttons, Press(p, b)
        PROVE  \A q \in Owners : ConsentHand(q)'
    <3>1. /\ Only("bot") /\ run'["bot"].pc = b /\ run'["bot"].post = p /\ run'["bot"].todo = {}
      BY <2>1, <1>0, TakeEffect DEF Press, Idle
    <3>2. /\ status[p] = "pending_approval" /\ UNCHANGED <<status, consented>>
          /\ p \notin consented
      BY <2>1, <1>0 DEF Press, rowVars, Unanswered
    <3>3. ConsentHand("bot")'
      BY <3>1, <3>2 DEF ConsentHand, Buttons, Publishing
    <3> QED
      BY <1>0, <3>1, <3>3, HandsMoved
  <2>2. ASSUME NEW p \in Posts, EditCaption(p) \/ Retry(p)
        PROVE  \A q \in Owners : ConsentHand(q)'
    <3>1. /\ Only("bot") /\ run'["bot"].pc \in {"sending", "retry"}
          /\ run'["bot"].todo = {}
      <4>1. CASE EditCaption(p)
        BY <4>1, <1>0, TakeEffect DEF EditCaption, Idle
      <4>2. CASE Retry(p)
        BY <4>2, <1>0, TakeEffect DEF Retry, Idle
      <4> QED
        BY <2>2, <4>1, <4>2
    <3> QED
      BY <3>1, <1>0, Harmless, HandsMoved DEF Publishing, Refusing
  <2>3. ASSUME NEW p \in Posts, NEW f \in Platforms, RetryPlatform(p, f)
        PROVE  \A q \in Owners : ConsentHand(q)'
    <3>1. Only("bot") /\ run'["bot"].pc = "single" /\ run'["bot"].post = p
      BY <2>3, <1>0, TakeEffect DEF RetryPlatform, Idle
    <3>2. UNCHANGED consented /\ p \in consented
      BY <2>3, <1>0 DEF RetryPlatform, Accepted
    <3>3. ConsentHand("bot")'
      BY <3>1, <3>2 DEF ConsentHand, Refusing
    <3> QED
      BY <1>0, <3>1, <3>3, HandsMoved
  <2> QED
    BY <1>4, <2>1, <2>2, <2>3 DEF Admin
<1>5. CASE Jobs
  <2> USE DEF Owners
  <2>1. CASE DequeueLock
    BY <2>1, <1>l DEF DequeueLock, Lock, At, Accepted
  <2>2. CASE QueueSelect \/ ExpireSelect \/ ExpireWrite \/ SweepSelect \/ SweepWrite
    BY <2>2, <1>0, HandsKept DEF QueueSelect, ExpireSelect, ExpireWrite, SweepSelect, SweepWrite
  <2>3. CASE QueueNext
    <3>1. CASE UNCHANGED run
      BY <2>3, <3>1, <1>0, HandsKept DEF QueueNext
    <3>2. ASSUME NEW p, run' = [run EXCEPT !["job7"] = [Idle EXCEPT !.pc = "lock", !.post = p]]
          PROVE  \A q \in Owners : ConsentHand(q)'
      BY <2>3, <3>2, <1>0, TakeEffect, Harmless, HandsMoved
      DEF QueueNext, Idle, Publishing, Refusing
    <3> QED
      BY <2>3, <3>1, <3>2 DEF QueueNext
  <2> QED
    BY <1>5, <2>1, <2>2, <2>3 DEF Jobs
<1>6. CASE Recovery
  <2> USE DEF Owners
  <2>1. CASE Restart \/ ResendSelect \/ Ready
    BY <2>1, <1>0, HandsKept DEF Restart, ResendSelect, Ready
  <2>2. ASSUME NEW p \in Posts, Resend(p) PROVE \A q \in Owners : ConsentHand(q)'
    BY <2>2, <1>0, TakeEffect, Harmless, HandsMoved DEF Resend, Idle, Publishing, Refusing
  <2>3. ASSUME NEW p \in Posts, Republish(p) PROVE \A q \in Owners : ConsentHand(q)'
    <3>1. p \in consented /\ UNCHANGED consented
      BY <2>3 DEF Republish, ConsentInv, ConsentLists
    <3>2. CASE UNCHANGED run
      BY <3>1, <3>2, <1>0, HandsKept
    <3>3. CASE run' = [run EXCEPT !["boot"] =
                 [Idle EXCEPT !.pc = "platforms", !.post = p, !.mem = "publishing",
                              !.img = image[p], !.todo = Platforms \ ids[p]]]
      <4>1. Only("boot") /\ run'["boot"].pc = "platforms" /\ run'["boot"].post = p
        BY <3>3, <1>0, TakeEffect DEF Idle
      <4>2. ConsentHand("boot")'
        BY <3>1, <4>1 DEF ConsentHand, Refusing
      <4> QED
        BY <1>0, <3>1, <4>1, <4>2, HandsMoved
    <3> QED
      BY <2>3, <3>2, <3>3 DEF Republish
  <2> QED
    BY <1>6, <2>1, <2>2, <2>3 DEF Recovery
<1>7. CASE Environment
  <2>1. CASE Crash
    BY <2>1 DEF Crash, Idle, ConsentHand, Publishing, Refusing
  <2>2. CASE Suspend \/ Lift \/ \E p \in Posts : Age(p)
    BY <2>2, <1>0, HandsKept DEF Suspend, Lift, Age
  <2> QED
    BY <1>7, <2>1, <2>2 DEF Environment
<1>8. CASE Contention
  BY <1>8, <1>0, <1>d, HandsKept, Contended
<1> QED
  BY <1>1, <1>2, <1>3, <1>4, <1>5, <1>6, <1>7, <1>8 DEF Next

\* The selection of JOB-4 holds rows that exist, the one of recovery accepted posts.
LEMMA NextLists ==
  ASSUME TypeOK, ConsentInv, Next
  PROVE  ConsentLists'
<1> USE DEF worldVars, jobVars, faultVars
<1>0. /\ consented \subseteq consented' /\ ConsentLists /\ expiring \subseteq Posts
      /\ \A p \in Posts : status'[p] = "absent" => status[p] = "absent"
      /\ \A p \in Posts : status[p] \in Accepted => p \in consented
  BY NextTable, TableRows DEF TypeOK, ConsentInv, ConsentRows
<1>k. ASSUME expiring' \subseteq expiring, UNCHANGED mode, recovering' \subseteq recovering
      PROVE  ConsentLists'
  BY <1>0, <1>k DEF ConsentLists
<1>1. ASSUME NEW o \in Owners, Generate(o) \/ Publish(o) PROVE ConsentLists'
  <2>1. CASE Generate(o)
    BY <2>1, <1>k DEF Generate, GenStart, GenEmpty, GenInsert, Send, Record
  <2>2. CASE Publish(o)
    BY <2>2, <1>k DEF Publish, Quota, UploadOk, UploadFail, PublishRefused, Abort, PublishStart,
                      PublishEnd, Platform
  <2> QED
    BY <1>1, <2>1, <2>2
<1>2. CASE Handler
  BY <1>2, <1>k DEF Handler, GenRefused, ApproveLock, QueueCount, QueueLock, RejectWrite,
                    SkipWrite, RetryLock, Lock, SingleEnd
<1>3. CASE Admin
  BY <1>3, <1>k DEF Admin, Press, EditCaption, Retry, RetryPlatform
<1>4. CASE Jobs
  <2>1. CASE ExpireSelect
    BY <2>1, <1>0 DEF ExpireSelect, Rows, rowVars, ConsentLists
  <2> QED
    BY <1>4, <2>1, <1>k DEF Jobs, QueueSelect, QueueNext, DequeueLock, Lock, ExpireWrite,
                            SweepSelect, SweepWrite
<1>5. CASE Recovery
  <2>1. CASE Restart
    BY <2>1, <1>0 DEF Restart, ConsentLists, Accepted
  <2>2. CASE ResendSelect \/ Ready
    BY <2>2, <1>0 DEF ResendSelect, Ready, rowVars, ConsentLists
  <2> QED
    BY <1>5, <2>1, <2>2, <1>k DEF Recovery, Republish, Resend
<1>6. CASE Environment
  BY <1>6, <1>0 DEF Environment, Crash, Suspend, Lift, Age, rowVars, ConsentLists
<1>7. CASE Contention
  BY <1>7, <1>k, Contended
<1> QED
  BY <1>1, <1>2, <1>3, <1>4, <1>5, <1>6, <1>7 DEF Next

LEMMA NextConsent == ~AutoPublish /\ TypeOK /\ ConsentInv /\ [Next]_vars => ConsentInv'
<1>1. ASSUME ~AutoPublish, TypeOK, ConsentInv, Next PROVE ConsentInv'
  BY <1>1, NextTable, TableRows, NextHandsConsent, NextLists DEF ConsentInv
<1>2. ASSUME ConsentInv, UNCHANGED vars PROVE ConsentInv'
  BY <1>2 DEF ConsentInv, ConsentRows, ConsentHand, ConsentLists,
              vars, rowVars, jobVars, worldVars, faultVars
<1> QED
  BY <1>1, <1>2

-----------------------------------------------------------------------------
(* Every step is a step of the contract, or none.                          *)

\* Copies appear while the table rests, and for a post in charge.
LEMMA CopiesFollow ==
  ASSUME TypeOK, ConsentInv, Next
  PROVE  \/ UNCHANGED live
         \/ /\ UNCHANGED <<status, consented>>
            /\ \E p \in consented : \E f \in Platforms : live' = [live EXCEPT ![p][f] = @ + 1]
<1>1. ASSUME NEW o \in Owners, NEW f \in Platforms, Platform(o, f), ~ UNCHANGED live
      PROVE  /\ UNCHANGED <<status, consented>>
             /\ \E p \in consented : live' = [live EXCEPT ![p][f] = @ + 1]
  <2>1. run[o].post \in consented
    BY <1>1 DEF Platform, ConsentInv, ConsentHand, Publishing
  <2> QED
    BY <1>1, <2>1 DEF Platform, rowVars
<1>2. ASSUME NEW o \in Owners, Generate(o) PROVE UNCHANGED live
  BY <1>2 DEF Generate, GenStart, GenEmpty, GenInsert, Send, Record, worldVars
<1>3. ASSUME NEW o \in Owners, Publish(o), \A f \in Platforms : ~Platform(o, f)
      PROVE  UNCHANGED live
  BY <1>3 DEF Publish, Quota, UploadOk, UploadFail, PublishRefused, Abort, PublishStart,
              PublishEnd, worldVars
<1>4. Handler => UNCHANGED live
  BY DEF Handler, GenRefused, ApproveLock, QueueCount, QueueLock, RejectWrite, SkipWrite,
         RetryLock, Lock, SingleEnd, worldVars
<1>5. Admin \/ Jobs => UNCHANGED live
  BY DEF Admin, Press, EditCaption, Retry, RetryPlatform, Jobs, QueueSelect, QueueNext,
         DequeueLock, Lock, ExpireSelect, ExpireWrite, SweepSelect, SweepWrite, worldVars
<1>6. Recovery \/ Environment => UNCHANGED live
  BY DEF Recovery, Restart, ResendSelect, Ready, Republish, Resend, Environment, Crash,
         Suspend, Lift, Age, worldVars
<1>7. Contention => UNCHANGED live
  BY Contended DEF worldVars
<1> QED
  BY <1>1, <1>2, <1>3, <1>4, <1>5, <1>6, <1>7 DEF Next

\* The table and the contract's ledger move together.
LEMMA TableContract ==
  ASSUME TypeOK, ConsentInv, TableStep, UNCHANGED live
  PROVE  [Contract!Next]_(Contract!vars)
<1> USE DEF Accepted, Unanswered
<1>0. /\ ConsentRows /\ status \in [Posts -> Statuses] /\ consented \subseteq Posts
      /\ expiring \subseteq Posts /\ \A p \in expiring : status[p] # "absent"
  BY DEF TypeOK, ConsentInv, ConsentLists
<1>s. ASSUME Verdict' = Verdict PROVE [Contract!Next]_(Contract!vars)
  BY <1>s DEF Contract!vars
<1>1. CASE UNCHANGED <<status, consented>>
  BY <1>1, <1>s DEF Verdict
<1>2. CASE Forward
  <2>1. Verdict' = Verdict
    BY <1>0, <1>2 DEF Forward, ConsentRows, Verdict
  <2> QED
    BY <2>1, <1>s
<1>3. CASE Proposed
  <2>1. PICK p \in Posts : /\ status[p] = "absent"
                           /\ status' = [status EXCEPT ![p] = "pending_approval"]
                           /\ UNCHANGED consented
    BY <1>3 DEF Proposed
  <2>2. Verdict[p] = "absent" /\ Verdict' = [Verdict EXCEPT ![p] = "open"]
    BY <1>0, <2>1 DEF ConsentRows, Verdict
  <2> QED
    BY <2>2 DEF Contract!Next, Contract!Propose, Contract!Decide
<1>4. CASE Approved
  <2>1. PICK p \in Posts, s \in {"approved", "queued"} :
          /\ status[p] = "pending_approval" /\ status' = [status EXCEPT ![p] = s]
          /\ consented' = consented \cup {p}
    BY <1>4 DEF Approved
  <2>2. Verdict[p] = "open" /\ Verdict' = [Verdict EXCEPT ![p] = "accepted"]
    BY <1>0, <2>1 DEF ConsentRows, Verdict
  <2> QED
    BY <2>2 DEF Contract!Next, Contract!Accept, Contract!Decide
<1>5. CASE Refused
  <2>1. PICK p \in Posts \ consented, s \in {"rejected", "skipped"} :
          /\ status[p] # "absent" /\ status' = [status EXCEPT ![p] = s]
          /\ UNCHANGED consented
    BY <1>5 DEF Refused
  <2>2. CASE status[p] = "pending_approval"
    <3> DEFINE S == {p}
    <3>1. S # {} /\ S \in SUBSET Posts /\ \A q \in S : Verdict[q] = "open"
      BY <1>0, <2>1, <2>2 DEF ConsentRows, Verdict
    <3>2. Verdict' = [q \in Posts |-> IF q \in S THEN "refused" ELSE Verdict[q]]
      BY <1>0, <2>1, <2>2 DEF Verdict
    <3> HIDE DEF S
    <3> QED
      BY <3>1, <3>2 DEF Contract!Next, Contract!Refuse
  <2>3. CASE status[p] # "pending_approval"
    <3>1. Verdict' = Verdict
      BY <1>0, <2>1, <2>3 DEF ConsentRows, Verdict
    <3> QED
      BY <3>1, <1>s
  <2> QED
    BY <2>2, <2>3
<1>6. CASE Expired
  <2> DEFINE S == {p \in expiring : Verdict[p] = "open"}
  <2>1. Verdict' = [q \in Posts |-> IF q \in S THEN "refused" ELSE Verdict[q]]
    BY <1>0, <1>6 DEF Expired, ConsentRows, Verdict
  <2>2. CASE S = {}
    <3>1. Verdict' = Verdict
      BY <2>1, <2>2 DEF Verdict
    <3> QED
      BY <3>1, <1>s
  <2>3. CASE S # {}
    <3>1. S \in SUBSET Posts /\ \A q \in S : Verdict[q] = "open"
      BY <1>0
    <3> HIDE DEF S
    <3> QED
      BY <2>1, <2>3, <3>1 DEF Contract!Next, Contract!Refuse
  <2> QED
    BY <2>2, <2>3
<1>7. CASE Reopened
  <2>1. Verdict' = Verdict
    BY <1>0, <1>7 DEF Reopened, ConsentRows, Verdict
  <2> QED
    BY <2>1, <1>s
<1> QED
  BY <1>1, <1>2, <1>3, <1>4, <1>5, <1>6, <1>7 DEF TableStep

LEMMA NextContract ==
  TypeOK /\ ConsentInv /\ [Next]_vars => [Contract!Next]_(Contract!vars)
<1>1. ASSUME TypeOK, ConsentInv, Next PROVE [Contract!Next]_(Contract!vars)
  <2>1. CASE UNCHANGED live
    BY <1>1, <2>1, NextTable, TableContract
  <2>2. ASSUME UNCHANGED <<status, consented>>, NEW p \in consented, NEW f \in Platforms,
               live' = [live EXCEPT ![p][f] = @ + 1]
        PROVE  [Contract!Next]_(Contract!vars)
    <3>1. p \in Posts /\ Verdict[p] = "accepted" /\ Verdict' = Verdict
      BY <1>1, <2>2 DEF TypeOK, ConsentInv, ConsentRows, Unanswered, Verdict
    <3> QED
      BY <2>2, <3>1 DEF Contract!Next, Contract!Copy
  <2> QED
    BY <1>1, <2>1, <2>2, CopiesFollow
<1>2. ASSUME UNCHANGED vars PROVE [Contract!Next]_(Contract!vars)
  BY <1>2 DEF vars, rowVars, worldVars, Contract!vars, Verdict
<1> QED
  BY <1>1, <1>2

LEMMA InitContract == Init => Contract!Init
  BY DEF Init, Contract!Init, Verdict

\* Unless auto_publish is set, the bot, the jobs, the retries and the recovery
\* together implement the approval contract.
THEOREM ContractHonoured == ASSUME ~AutoPublish PROVE Spec => HonoursContract
<1>1. TypeOK /\ ConsentInv /\ [Next]_vars => ConsentInv'
  BY NextConsent
<1>2. Spec => []TypeOK
  BY TypeCorrect
<1> QED
  BY <1>1, <1>2, InitConsent, InitContract, NextContract, PTL
  DEF Spec, HonoursContract, Contract!Spec
=============================================================================
