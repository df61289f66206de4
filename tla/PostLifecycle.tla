---------------------------- MODULE PostLifecycle ----------------------------
(***************************************************************************)
(* The life of a post, from generation to publication, as a table of rows  *)
(* shared by the coroutines of the bot process:                            *)
(*                                                                         *)
(*   "bot"   the Telegram handlers; updates are processed one at a time,   *)
(*           so the whole bot is one coroutine;                            *)
(*   "job3"  job_generate,  "job7"  job_publish_queued,                    *)
(*   "boot"  recover_pending_posts, which runs alone at start-up,          *)
(*   JOB-4   job_check_expired and JOB-6 job_cleanup.                      *)
(*                                                                         *)
(* One action is what a coroutine does between two awaits that matter.  A  *)
(* coroutine works on an ORM snapshot: run[o].mem is the status it has in  *)
(* memory, and flushing a changed attribute is an UPDATE ... WHERE id,     *)
(* whatever the row contains by then.  Only the raw UPDATE ... WHERE       *)
(* status = ... statements look at the row again.                          *)
(***************************************************************************)
EXTENDS Naturals, FiniteSets

CONSTANTS
    Posts,        \* rows that can be created
    None,         \* stands for "no post"
    Platforms,    \* platforms enabled in the configuration
    MaxPending,   \* scheduler.max_pending_posts
    MaxQueue,     \* scheduler.max_queue_size
    AutoPublish,  \* scheduler.auto_publish
    UploadsFail,  \* may an image upload fail?
    CanSuspend,   \* may JOB-5 suspend publications?
    MaxAge,       \* 0: posts stay recent; 1: they reach approval_timeout_hours;
                  \* 2: also image_retention_days
    MaxCrashes,   \* bound on the crashes of the process
    MaxLost,      \* bound on the Meta calls that succeed but report a failure
    MaxTimeouts,  \* bound, per post, on the writes that the database refuses
    MaxCopies     \* bound on the copies of a post on a platform (/retry has none)

Owners   == {"bot", "job3", "job7", "boot"}
Statuses == {"absent", "pending_approval", "approved", "queued", "publishing",
             "published", "rejected", "skipped", "error", "expired"}
AllPlatforms == {"instagram", "facebook", "threads"}
Feed     == Platforms \cap {"instagram", "facebook"}
Buttons  == {"approve", "queue", "reject", "skip"}

ASSUME LifecycleAssumption ==
    /\ IsFiniteSet(Posts) /\ None \notin Posts
    /\ Platforms \subseteq AllPlatforms
    /\ MaxPending \in Nat \ {0} /\ MaxQueue \in Nat \ {0}
    /\ AutoPublish \in BOOLEAN /\ UploadsFail \in BOOLEAN /\ CanSuspend \in BOOLEAN
    /\ MaxAge \in 0..2 /\ MaxCrashes \in Nat /\ MaxLost \in Nat /\ MaxCopies \in Nat
    /\ MaxTimeouts \in Nat

VARIABLES
    \* the table posts, one function per column
    status,       \* posts.status
    url,          \* image_public_url is set
    image,        \* image_path is set (and the file exists)
    ids,          \* platforms whose *_post_id is set
    errs,         \* platforms whose *_error is set
    msgs,         \* telegram_message_ids is not empty
    age,          \* created_at: 0 recent, 1 past the approval timeout, 2 past retention
    \* the rest of the process
    suspended,    \* scheduler_state.publications_suspended
    run,          \* what each coroutine is doing
    expiring,     \* rows selected by JOB-4 and not yet written
    sweeping,     \* rows selected by JOB-6 and not yet written
    queue,        \* post_ids left in JOB-7's loop
    recovering,   \* rows left in the current phase of recover_pending_posts
    mode,         \* "down", "republish", "resend" (recovery) or "up"
    \* the outside world and history
    keyboards,    \* posts whose approval buttons are on some admin's screen
    consented,    \* posts an admin approved or queued
    live,         \* number of copies of each post on each platform
    crashes, lost,
    timeouts      \* of each post, the writes that found the database locked

rowVars   == <<status, url, image, ids, errs, msgs, age>>
jobVars   == <<expiring, sweeping, queue, recovering>>
worldVars == <<keyboards, consented, live>>
faultVars == <<suspended, mode, crashes, lost, timeouts>>
vars      == <<rowVars, jobVars, worldVars, faultVars, run>>

Idle == [pc |-> "idle", post |-> None, mem |-> "absent", img |-> FALSE,
         todo |-> {}, ok |-> {}, bad |-> {}]

Rows(s) == {p \in Posts : status[p] = s}
Busy(o) == run[o].pc # "idle"
At(o, pc) == run[o].pc = pc
Free(o) == /\ mode = "up"
           /\ ~Busy(o)

\* What a coroutine does next.
Goto(o, pc) == run' = [run EXCEPT ![o].pc = pc]
Done(o)     == run' = [run EXCEPT ![o] = Idle]
\* The flush of an ORM snapshot: no UPDATE when the attribute did not change.
Flush(o, p, s) == status' = IF run[o].mem = s THEN status ELSE [status EXCEPT ![p] = s]

Init ==
    /\ status = [p \in Posts |-> "absent"]
    /\ url    = [p \in Posts |-> FALSE]
    /\ image  = [p \in Posts |-> FALSE]
    /\ ids    = [p \in Posts |-> {}]
    /\ errs   = [p \in Posts |-> {}]
    /\ msgs   = [p \in Posts |-> FALSE]
    /\ age    = [p \in Posts |-> 0]
    /\ suspended = FALSE /\ mode = "up" /\ crashes = 0 /\ lost = 0
    /\ run = [o \in Owners |-> Idle]
    /\ expiring = {} /\ sweeping = {} /\ queue = {} /\ recovering = {}
    /\ keyboards = {} /\ consented = {}
    /\ live = [p \in Posts |-> [f \in Platforms |-> 0]]
    /\ timeouts = [p \in Posts |-> 0]

-----------------------------------------------------------------------------
(* Generation: generate_post then send_approval_request, for /force, the   *)
(* replacement of a skipped post, and JOB-3.                               *)

\* Mutation: one pending post too many is tolerated.
GenStartOffByOne(o) ==
    /\ o \in {"bot", "job3"}
    /\ Free(o) \/ At(o, "replace")
    /\ Cardinality(Rows("pending_approval")) <= MaxPending
    /\ Goto(o, "generating")
    /\ UNCHANGED <<rowVars, jobVars, worldVars, faultVars>>

\* The count of pending posts is read before the (long) generation.
GenStart(o) ==
    /\ o \in {"bot", "job3"}
    /\ Free(o) \/ At(o, "replace")
    /\ Cardinality(Rows("pending_approval")) < MaxPending
    /\ Goto(o, "generating")
    /\ UNCHANGED <<rowVars, jobVars, worldVars, faultVars>>

\* handle_skip's generation finds max_pending_posts reached: no replacement.
GenRefused ==
    /\ At("bot", "replace")
    /\ Cardinality(Rows("pending_approval")) >= MaxPending
    /\ Done("bot")
    /\ UNCHANGED <<rowVars, jobVars, worldVars, faultVars>>

\* No source is available, or the generation raises.
GenEmpty(o) ==
    /\ At(o, "generating")
    /\ Done(o)
    /\ UNCHANGED <<rowVars, jobVars, worldVars, faultVars>>

\* Mutation: in auto_publish the admins get the buttons as well.
GenInsertAsksAnyway(o) ==
    /\ At(o, "generating")
    /\ \E p \in Rows("absent") :
         /\ status' = [status EXCEPT ![p] = "pending_approval"]
         /\ image'  = [image EXCEPT ![p] = TRUE]
         /\ run' = [run EXCEPT ![o] =
              [Idle EXCEPT !.pc = IF o = "job3" /\ AutoPublish THEN "quota" ELSE "sending",
                           !.post = p, !.mem = "pending_approval", !.img = TRUE]]
    /\ UNCHANGED <<url, ids, errs, msgs, age, jobVars, consented, live, faultVars>>
    /\ keyboards' = keyboards \cup {p \in Posts : status'[p] # status[p]}

GenInsert(o) ==
    /\ At(o, "generating")
    /\ \E p \in Rows("absent") :
         /\ status' = [status EXCEPT ![p] = "pending_approval"]
         /\ image'  = [image EXCEPT ![p] = TRUE]
         /\ run' = [run EXCEPT ![o] =
              [Idle EXCEPT !.pc = IF o = "job3" /\ AutoPublish THEN "quota" ELSE "sending",
                           !.post = p, !.mem = "pending_approval", !.img = TRUE]]
    /\ UNCHANGED <<url, ids, errs, msgs, age, jobVars, worldVars, faultVars>>

\* At least one admin receives the buttons, or every send fails.
Send(o) ==
    /\ At(o, "sending")
    /\ \/ /\ keyboards' = keyboards \cup {run[o].post}
          /\ Goto(o, "recording")
       \/ /\ Done(o)
          /\ UNCHANGED keyboards
    /\ UNCHANGED <<rowVars, jobVars, consented, live, faultVars>>

\* The message ids are committed.  JOB-3 hands over a post that its closed
\* session detached: the attribute is set but the new session flushes nothing.
Record(o) ==
    /\ At(o, "recording")
    /\ msgs' = IF o = "job3" THEN msgs ELSE [msgs EXCEPT ![run[o].post] = TRUE]
    /\ Done(o)
    /\ UNCHANGED <<status, url, image, ids, errs, age, jobVars, worldVars, faultVars>>

-----------------------------------------------------------------------------
(* The buttons.                                                            *)

\* Mutation: the handlers do not look at the status first.
PressAnyStatus(p, b) ==
    /\ Free("bot") /\ p \in keyboards /\ b \in Buttons
    /\ status[p] # "absent"
    /\ run' = [run EXCEPT !["bot"] =
         [Idle EXCEPT !.pc = b, !.post = p, !.mem = status[p], !.img = image[p]]]
    /\ UNCHANGED <<rowVars, jobVars, worldVars, faultVars>>

\* session.get(Post): every handler ignores a post that is not pending.
Press(p, b) ==
    /\ Free("bot") /\ p \in keyboards /\ b \in Buttons
    /\ status[p] = "pending_approval"
    /\ run' = [run EXCEPT !["bot"] =
         [Idle EXCEPT !.pc = b, !.post = p, !.mem = status[p], !.img = image[p]]]
    /\ UNCHANGED <<rowVars, jobVars, worldVars, faultVars>>

\* Mutation: the UPDATE of handle_approve has no condition on the status.
ApproveLockById ==
    LET p == run["bot"].post IN
    /\ At("bot", "approve")
    /\ IF status[p] # "absent"
         THEN /\ status' = [status EXCEPT ![p] = "approved"]
              /\ consented' = consented \cup {p}
              /\ IF image[p]
                   THEN run' = [run EXCEPT !["bot"] = [@ EXCEPT !.pc = "quota", !.mem = "approved"]]
                   ELSE Done("bot")
         ELSE /\ Done("bot")
              /\ UNCHANGED <<status, consented>>
    /\ UNCHANGED <<url, image, ids, errs, msgs, age, jobVars, keyboards, live, faultVars>>

\* handle_approve: UPDATE ... WHERE status = 'pending_approval', refresh, commit.
ApproveLock ==
    LET p == run["bot"].post IN
    /\ At("bot", "approve")
    /\ IF status[p] = "pending_approval"
         THEN /\ status' = [status EXCEPT ![p] = "approved"]
              /\ consented' = consented \cup {p}
              /\ IF image[p]
                   THEN run' = [run EXCEPT !["bot"] = [@ EXCEPT !.pc = "quota", !.mem = "approved"]]
                   ELSE Done("bot")
         ELSE /\ Done("bot")
              /\ UNCHANGED <<status, consented>>
    /\ UNCHANGED <<url, image, ids, errs, msgs, age, jobVars, keyboards, live, faultVars>>

\* handle_queue_it: the size of the queue, then the conditional UPDATE.
QueueCount ==
    /\ At("bot", "queue")
    /\ IF Cardinality(Rows("queued")) < MaxQueue
         THEN Goto("bot", "queue_lock")
         ELSE Done("bot")
    /\ UNCHANGED <<rowVars, jobVars, worldVars, faultVars>>

QueueLock ==
    LET p == run["bot"].post IN
    /\ At("bot", "queue_lock")
    /\ IF status[p] = "pending_approval"
         THEN /\ status' = [status EXCEPT ![p] = "queued"]
              /\ consented' = consented \cup {p}
         ELSE UNCHANGED <<status, consented>>
    /\ Done("bot")
    /\ UNCHANGED <<url, image, ids, errs, msgs, age, jobVars, keyboards, live, faultVars>>

\* handle_reject and handle_skip write through the ORM, without a condition.
RejectWrite ==
    /\ At("bot", "reject")
    /\ Flush("bot", run["bot"].post, "rejected")
    /\ Done("bot")
    /\ UNCHANGED <<url, image, ids, errs, msgs, age, jobVars, worldVars, faultVars>>

\* Mutation: handle_skip writes a status that the table does not allow.
SkipWriteUnknown ==
    /\ At("bot", "skip")
    /\ Flush("bot", run["bot"].post, "skip")
    /\ run' = [run EXCEPT !["bot"] = [Idle EXCEPT !.pc = "replace"]]
    /\ UNCHANGED <<url, image, ids, errs, msgs, age, jobVars, worldVars, faultVars>>

SkipWrite ==
    /\ At("bot", "skip")
    /\ Flush("bot", run["bot"].post, "skipped")
    /\ run' = [run EXCEPT !["bot"] = [Idle EXCEPT !.pc = "replace"]]
    /\ UNCHANGED <<url, image, ids, errs, msgs, age, jobVars, worldVars, faultVars>>

\* handle_new_caption does not look at the status: it clears the recorded
\* messages of whatever post the edited message was about and sends it again.
EditCaption(p) ==
    /\ Free("bot") /\ p \in keyboards
    /\ msgs' = [msgs EXCEPT ![p] = FALSE]
    /\ run' = [run EXCEPT !["bot"] =
         [Idle EXCEPT !.pc = "sending", !.post = p, !.mem = status[p], !.img = image[p]]]
    /\ UNCHANGED <<status, url, image, ids, errs, age, jobVars, worldVars, faultVars>>

-----------------------------------------------------------------------------
(* Commands.                                                               *)

Retry(p) ==
    /\ Free("bot") /\ status[p] = "error"
    /\ run' = [run EXCEPT !["bot"] = [Idle EXCEPT !.pc = "retry", !.post = p]]
    /\ UNCHANGED <<rowVars, jobVars, worldVars, faultVars>>

\* Conditional UPDATEs that hand a row to the coroutine: /retry and JOB-7.
Lock(o, from) ==
    LET p == run[o].post IN
    /\ IF status[p] = from
         THEN /\ status' = [status EXCEPT ![p] = "publishing"]
              /\ run' = [run EXCEPT ![o] =
                   [@ EXCEPT !.pc = "upload", !.mem = "publishing", !.img = image[p]]]
         ELSE /\ Done(o)
              /\ UNCHANGED status
    /\ UNCHANGED <<url, image, ids, errs, msgs, age, jobVars, worldVars, faultVars>>

RetryLock == At("bot", "retry") /\ Lock("bot", "error")

\* Mutation: the command does not require an error on the platform.
RetryPlatformAny(p, f) ==
    /\ Free("bot") /\ status[p] = "published"
    /\ f \in Feed
    /\ errs' = [errs EXCEPT ![p] = @ \ {f}]
    /\ run' = [run EXCEPT !["bot"] =
         [Idle EXCEPT !.pc = "single", !.post = p, !.mem = "published",
                      !.img = image[p], !.todo = {f}]]
    /\ UNCHANGED <<status, url, image, ids, msgs, age, jobVars, worldVars, faultVars>>

\* /retry_ig and /retry_fb clear the error and commit before they try.
RetryPlatform(p, f) ==
    /\ Free("bot") /\ status[p] = "published"
    /\ f \in errs[p] \cap Feed
    /\ errs' = [errs EXCEPT ![p] = @ \ {f}]
    /\ run' = [run EXCEPT !["bot"] =
         [Idle EXCEPT !.pc = "single", !.post = p, !.mem = "published",
                      !.img = image[p], !.todo = {f}]]
    /\ UNCHANGED <<status, url, image, ids, msgs, age, jobVars, worldVars, faultVars>>

-----------------------------------------------------------------------------
(* Publication, shared by handle_approve, /retry, JOB-3 (auto_publish),    *)
(* JOB-7 and recovery.                                                     *)

\* Mutation: handle_approve forgets to queue a post over the limit.
QuotaLeavesApproved(o) ==
    /\ At(o, "quota")
    /\ \/ /\ ~suspended
          /\ Goto(o, "upload")
          /\ UNCHANGED status
       \/ /\ UNCHANGED status
          /\ Done(o)
    /\ UNCHANGED <<url, image, ids, errs, msgs, age, jobVars, worldVars, faultVars>>

\* Mutation: handle_approve queues a post over the limit and publishes it too.
QuotaGoesOn(o) ==
    /\ At(o, "quota")
    /\ \/ /\ ~suspended
          /\ Goto(o, "upload")
          /\ UNCHANGED status
       \/ /\ IF o = "bot"
               THEN Flush(o, run[o].post, "queued") /\ Goto(o, "upload")
               ELSE Done(o) /\ UNCHANGED status
    /\ UNCHANGED <<url, image, ids, errs, msgs, age, jobVars, worldVars, faultVars>>

\* check_and_increment_daily_count.  Refused: an approved post is queued, the
\* auto-published one is left as it is.  When its BEGIN EXCLUSIVE is not granted
\* in time it raises, and the post stays approved: LockTimeout.
Quota(o) ==
    /\ At(o, "quota")
    /\ \/ /\ ~suspended
          /\ Goto(o, "upload")
          /\ UNCHANGED status
       \/ /\ IF o = "bot" THEN Flush(o, run[o].post, "queued") ELSE UNCHANGED status
          /\ Done(o)
    /\ UNCHANGED <<url, image, ids, errs, msgs, age, jobVars, worldVars, faultVars>>

\* upload_image, skipped when image_public_url is already there; it needs the
\* file.  JOB-3 loads the row again after the upload.
UploadOk(o) ==
    LET p == run[o].post IN
    /\ At(o, "upload")
    /\ url[p] \/ image[p]
    /\ url' = [url EXCEPT ![p] = TRUE]
    /\ run' = [run EXCEPT ![o] =
         [@ EXCEPT !.pc = "ready", !.mem = IF o = "job3" THEN status[p] ELSE run[o].mem]]
    /\ UNCHANGED <<status, image, ids, errs, msgs, age, jobVars, worldVars, faultVars>>

\* JOB-7 turns every exception into 'error'; handlers and JOB-3 leave the
\* status as it is.
Abort(o) ==
    /\ IF o = "job7" THEN Flush(o, run[o].post, "error") ELSE UNCHANGED status
    /\ Done(o)
    /\ UNCHANGED <<url, image, ids, errs, msgs, age, jobVars, worldVars, faultVars>>

UploadFail(o) ==
    /\ At(o, "upload")
    /\ ~url[run[o].post]
    /\ UploadsFail \/ ~image[run[o].post]
    /\ Abort(o)

\* publish_to_all_platforms: refused when suspended, else 'publishing'.
PublishRefused(o) ==
    /\ At(o, "ready") /\ suspended
    /\ Abort(o)

PublishStart(o) ==
    /\ At(o, "ready") /\ ~suspended
    /\ Flush(o, run[o].post, "publishing")
    /\ run' = [run EXCEPT ![o] =
         [@ EXCEPT !.pc = "platforms", !.mem = "publishing", !.todo = Platforms]]
    /\ UNCHANGED <<url, image, ids, errs, msgs, age, jobVars, worldVars, faultVars>>

\* One platform answers (asyncio.gather: in any order).  A lost answer is a
\* post that exists on the platform and an exception in the code.
Platform(o, f) ==
    LET p == run[o].post
        todo == run[o].todo \ {f}
        good == [run[o] EXCEPT !.todo = todo, !.ok = run[o].ok \cup {f}]
        fail == [run[o] EXCEPT !.todo = todo, !.bad = run[o].bad \cup {f}]
        sent == /\ live[p][f] < MaxCopies
                /\ live' = [live EXCEPT ![p][f] = @ + 1]
    IN
    /\ Busy(o) /\ f \in run[o].todo
    /\ \/ /\ f = "instagram" => run[o].img
          /\ sent
          /\ run' = [run EXCEPT ![o] = good]
          /\ UNCHANGED lost
       \/ /\ f = "instagram" => run[o].img
          /\ lost < MaxLost /\ lost' = lost + 1
          /\ sent
          /\ run' = [run EXCEPT ![o] = fail]
       \/ /\ run' = [run EXCEPT ![o] = fail]
          /\ UNCHANGED <<live, lost>>
    /\ UNCHANGED <<rowVars, jobVars, keyboards, consented, suspended, mode, crashes, timeouts>>

\* Mutation: Threads is enough to call the post published.
PublishEndAnyPlatform(o) ==
    LET p == run[o].post
        called == run[o].ok \cup run[o].bad
    IN
    /\ At(o, "platforms") /\ run[o].todo = {}
    /\ ids'  = [ids EXCEPT ![p] = @ \cup run[o].ok]
    /\ errs' = [errs EXCEPT ![p] = (@ \ run[o].ok) \cup run[o].bad]
    /\ Flush(o, p, IF run[o].ok # {} \/ called \cap Feed = {}
                     THEN "published" ELSE "error")
    /\ Done(o)
    /\ UNCHANGED <<url, image, msgs, age, jobVars, worldVars, faultVars>>

\* Mutation: success does not clear an earlier error.
PublishEndKeepsErrors(o) ==
    LET p == run[o].post
        called == run[o].ok \cup run[o].bad
    IN
    /\ At(o, "platforms") /\ run[o].todo = {}
    /\ ids'  = [ids EXCEPT ![p] = @ \cup run[o].ok]
    /\ errs' = [errs EXCEPT ![p] = @ \cup run[o].bad]
    /\ Flush(o, p, IF run[o].ok \cap Feed # {} \/ called \cap Feed = {}
                     THEN "published" ELSE "error")
    /\ Done(o)
    /\ UNCHANGED <<url, image, msgs, age, jobVars, worldVars, faultVars>>

\* The results are written in one commit; Threads never decides the status.
PublishEnd(o) ==
    LET p == run[o].post
        called == run[o].ok \cup run[o].bad
    IN
    /\ At(o, "platforms") /\ run[o].todo = {}
    /\ ids'  = [ids EXCEPT ![p] = @ \cup run[o].ok]
    /\ errs' = [errs EXCEPT ![p] = (@ \ run[o].ok) \cup run[o].bad]
    /\ Flush(o, p, IF run[o].ok \cap Feed # {} \/ called \cap Feed = {}
                     THEN "published" ELSE "error")
    /\ Done(o)
    /\ UNCHANGED <<url, image, msgs, age, jobVars, worldVars, faultVars>>

\* Mutation: a second failure is not written back.
SingleEndForgets ==
    LET p == run["bot"].post IN
    /\ At("bot", "single") /\ run["bot"].todo = {}
    /\ ids'  = [ids EXCEPT ![p] = @ \cup run["bot"].ok]
    /\ errs' = [errs EXCEPT ![p] = (@ \ run["bot"].ok) ]
    /\ Done("bot")
    /\ UNCHANGED <<status, url, image, msgs, age, jobVars, worldVars, faultVars>>

\* _retry_single_platform keeps the status.
SingleEnd ==
    LET p == run["bot"].post IN
    /\ At("bot", "single") /\ run["bot"].todo = {}
    /\ ids'  = [ids EXCEPT ![p] = @ \cup run["bot"].ok]
    /\ errs' = [errs EXCEPT ![p] = (@ \ run["bot"].ok) \cup run["bot"].bad]
    /\ Done("bot")
    /\ UNCHANGED <<status, url, image, msgs, age, jobVars, worldVars, faultVars>>

-----------------------------------------------------------------------------
(* JOB-7, JOB-4 and JOB-6.                                                 *)

\* Mutation: JOB-7 looks for approved posts.
QueueSelectApproved ==
    /\ Free("job7") /\ queue = {} /\ Rows("approved") # {}
    /\ queue' = Rows("approved")
    /\ UNCHANGED <<rowVars, expiring, sweeping, recovering, worldVars, faultVars, run>>

QueueSelect ==
    /\ Free("job7") /\ queue = {} /\ Rows("queued") # {}
    /\ queue' = Rows("queued")
    /\ UNCHANGED <<rowVars, expiring, sweeping, recovering, worldVars, faultVars, run>>

\* The quota is taken before the row is locked; when refused the loop ends.
QueueNext ==
    /\ Free("job7")
    /\ \E p \in queue :
         \/ /\ ~suspended
            /\ queue' = queue \ {p}
            /\ run' = [run EXCEPT !["job7"] = [Idle EXCEPT !.pc = "lock", !.post = p]]
         \/ /\ queue' = {}
            /\ UNCHANGED run
    /\ UNCHANGED <<rowVars, expiring, sweeping, recovering, worldVars, faultVars>>

DequeueLock == At("job7", "lock") /\ Lock("job7", "queued")

ExpireSelect ==
    /\ mode = "up" /\ expiring = {}
    /\ expiring' = {p \in Rows("pending_approval") : age[p] >= 1}
    /\ expiring' # {}
    /\ UNCHANGED <<rowVars, sweeping, queue, recovering, worldVars, faultVars, run>>

\* Mutation: JOB-4 does not commit.
ExpireWriteNoCommit ==
    /\ expiring # {}
    /\ status' = status
    /\ expiring' = {}
    /\ UNCHANGED <<url, image, ids, errs, msgs, age, sweeping, queue, recovering,
                   worldVars, faultVars, run>>

\* One commit for the whole selection, by id only.
ExpireWrite ==
    /\ expiring # {}
    /\ status' = [p \in Posts |-> IF p \in expiring THEN "expired" ELSE status[p]]
    /\ expiring' = {}
    /\ UNCHANGED <<url, image, ids, errs, msgs, age, sweeping, queue, recovering,
                   worldVars, faultVars, run>>

SweepSelect ==
    /\ mode = "up" /\ sweeping = {}
    /\ sweeping' = {p \in Posts : /\ status[p] \in {"published", "rejected", "expired", "skipped"}
                                  /\ image[p] /\ age[p] >= 2}
    /\ sweeping' # {}
    /\ UNCHANGED <<rowVars, expiring, queue, recovering, worldVars, faultVars, run>>

SweepWrite ==
    /\ sweeping # {}
    /\ image' = [p \in Posts |-> image[p] /\ p \notin sweeping]
    /\ sweeping' = {}
    /\ UNCHANGED <<status, url, ids, errs, msgs, age, expiring, queue, recovering,
                   worldVars, faultVars, run>>

-----------------------------------------------------------------------------
(* A write that waits more than busy_timeout for the lock of SQLite (JOB-1, *)
(* another job, the dashboard or the command line writes) raises.  Nothing  *)
(* of it is committed, and no handler catches the exception.                *)

\* What comes next is a statement that needs the lock.  What JOB-3 records is
\* never flushed; a snapshot that already says "publishing" is not written.
Writing(o) ==
    LET p == run[o].post IN
    \/ run[o].pc \in {"approve", "queue_lock", "reject", "skip", "retry", "lock", "quota"}
    \/ At(o, "recording") /\ o # "job3"
    \/ At(o, "upload") /\ ~url[p] /\ (image[p] \/ o = "job7")
    \/ At(o, "ready") /\ (run[o].mem # "publishing" \/ (o = "job7" /\ suspended))
    \/ run[o].pc \in {"platforms", "single"} /\ run[o].todo = {}

\* The coroutine stops there, what the platforms answered is forgotten.  JOB-7
\* gives up the rest of its loop: the commit of "error" in its except clause
\* finds a session that was not rolled back, and raises in turn.
LockTimeout(o) ==
    LET p == run[o].post IN
    /\ Writing(o) /\ timeouts[p] < MaxTimeouts
    /\ timeouts' = [timeouts EXCEPT ![p] = @ + 1]
    /\ Done(o)
    /\ queue' = IF o = "job7" THEN {} ELSE queue
    /\ UNCHANGED <<rowVars, expiring, sweeping, recovering, worldVars,
                   suspended, mode, crashes, lost>>

\* Recovery catches it, whatever it was doing, and goes on with the next post.
RepublishTimeout(p) ==
    /\ mode = "republish" /\ ~Busy("boot") /\ p \in recovering
    /\ ~suspended /\ ~({"instagram", "facebook"} \subseteq ids[p])
    /\ timeouts[p] < MaxTimeouts
    /\ timeouts' = [timeouts EXCEPT ![p] = @ + 1]
    /\ recovering' = recovering \ {p}
    /\ UNCHANGED <<rowVars, expiring, sweeping, queue, worldVars,
                   suspended, mode, crashes, lost, run>>

\* JOB-4 expires nothing this time.
ExpireTimeout ==
    /\ MaxTimeouts > 0 /\ expiring # {}
    /\ expiring' = {}
    /\ UNCHANGED <<rowVars, sweeping, queue, recovering, worldVars, faultVars, run>>

-----------------------------------------------------------------------------
(* Crash, restart and recover_pending_posts.                               *)

Crash ==
    /\ mode # "down" /\ crashes < MaxCrashes
    /\ crashes' = crashes + 1
    /\ mode' = "down"
    /\ run' = [o \in Owners |-> Idle]
    /\ expiring' = {} /\ sweeping' = {} /\ queue' = {} /\ recovering' = {}
    /\ UNCHANGED <<rowVars, worldVars, suspended, lost, timeouts>>

\* Mutation: interrupted publications are not published again.
RestartForgets ==
    /\ mode = "down"
    /\ mode' = "republish"
    /\ status' = [p \in Posts |-> IF status[p] = "publishing" THEN "approved" ELSE status[p]]
    /\ recovering' = {p \in Posts : status[p] = "approved" /\ url[p]}
    /\ UNCHANGED <<url, image, ids, errs, msgs, age, expiring, sweeping, queue,
                   worldVars, suspended, crashes, lost, timeouts, run>>

\* Steps 1 and 2: interrupted publications become 'approved'; those with an
\* uploaded image will be published again.
Restart ==
    /\ mode = "down"
    /\ mode' = "republish"
    /\ status' = [p \in Posts |-> IF status[p] = "publishing" THEN "approved" ELSE status[p]]
    /\ recovering' = {p \in Posts : status[p] \in {"publishing", "approved"} /\ url[p]}
    /\ UNCHANGED <<url, image, ids, errs, msgs, age, expiring, sweeping, queue,
                   worldVars, suspended, crashes, lost, timeouts, run>>

\* A post whose two feed ids are known is done; the others go to the platforms
\* that have no id yet.  A refusal (suspension) leaves the row 'approved'.
Republish(p) ==
    /\ mode = "republish" /\ ~Busy("boot") /\ p \in recovering
    /\ recovering' = recovering \ {p}
    /\ IF {"instagram", "facebook"} \subseteq ids[p]
         THEN /\ status' = [status EXCEPT ![p] = "published"]
              /\ UNCHANGED run
         ELSE IF suspended
           THEN UNCHANGED <<status, run>>
           ELSE /\ status' = [status EXCEPT ![p] = "publishing"]
                /\ run' = [run EXCEPT !["boot"] =
                     [Idle EXCEPT !.pc = "platforms", !.post = p, !.mem = "publishing",
                                  !.img = image[p], !.todo = Platforms \ ids[p]]]
    /\ UNCHANGED <<url, image, ids, errs, msgs, age, expiring, sweeping, queue,
                   worldVars, faultVars>>

ResendSelect ==
    /\ mode = "republish" /\ ~Busy("boot") /\ recovering = {}
    /\ mode' = "resend"
    /\ recovering' = {p \in Rows("pending_approval") : ~msgs[p]}
    /\ UNCHANGED <<rowVars, expiring, sweeping, queue, worldVars, suspended, crashes, lost, timeouts, run>>

Resend(p) ==
    /\ mode = "resend" /\ ~Busy("boot") /\ p \in recovering
    /\ recovering' = recovering \ {p}
    /\ run' = [run EXCEPT !["boot"] =
         [Idle EXCEPT !.pc = "sending", !.post = p, !.mem = status[p], !.img = image[p]]]
    /\ UNCHANGED <<rowVars, expiring, sweeping, queue, worldVars, faultVars>>

\* scheduler.start() and start_polling().
Ready ==
    /\ mode = "resend" /\ ~Busy("boot") /\ recovering = {}
    /\ mode' = "up"
    /\ UNCHANGED <<rowVars, jobVars, worldVars, suspended, crashes, lost, timeouts, run>>

-----------------------------------------------------------------------------
(* The environment.                                                        *)

\* JOB-5 suspends publications; `auth meta` (another process) lifts it.
Suspend ==
    /\ CanSuspend /\ mode = "up" /\ ~suspended
    /\ suspended' = TRUE
    /\ UNCHANGED <<rowVars, jobVars, worldVars, mode, crashes, lost, timeouts, run>>

Lift ==
    /\ suspended
    /\ suspended' = FALSE
    /\ UNCHANGED <<rowVars, jobVars, worldVars, mode, crashes, lost, timeouts, run>>

Age(p) ==
    /\ status[p] # "absent" /\ age[p] < MaxAge
    /\ age' = [age EXCEPT ![p] = @ + 1]
    /\ UNCHANGED <<status, url, image, ids, errs, msgs, jobVars, worldVars, faultVars, run>>

-----------------------------------------------------------------------------
Generate(o) == GenStart(o) \/ GenEmpty(o) \/ GenInsert(o) \/ Send(o) \/ Record(o)

Publish(o) ==
    \/ Quota(o) \/ UploadOk(o) \/ UploadFail(o)
    \/ PublishRefused(o) \/ PublishStart(o) \/ PublishEnd(o)
    \/ \E f \in Platforms : Platform(o, f)

Handler ==
    \/ GenRefused \/ ApproveLock \/ QueueCount \/ QueueLock
    \/ RejectWrite \/ SkipWrite \/ RetryLock \/ SingleEnd

Admin ==
    \E p \in Posts :
        \/ \E b \in Buttons : Press(p, b)
        \/ EditCaption(p) \/ Retry(p)
        \/ \E f \in Platforms : RetryPlatform(p, f)

Jobs ==
    \/ QueueSelect \/ QueueNext \/ DequeueLock
    \/ ExpireSelect \/ ExpireWrite \/ SweepSelect \/ SweepWrite

Recovery ==
    \/ Restart \/ ResendSelect \/ Ready
    \/ \E p \in Posts : Republish(p) \/ Resend(p)

Contention ==
    \/ \E o \in Owners : LockTimeout(o)
    \/ \E p \in Posts : RepublishTimeout(p)
    \/ ExpireTimeout

Environment == Crash \/ Suspend \/ Lift \/ \E p \in Posts : Age(p)

Next ==
    \/ \E o \in Owners : Generate(o) \/ Publish(o)
    \/ Handler \/ Admin \/ Jobs \/ Recovery \/ Contention \/ Environment

Spec == Init /\ [][Next]_vars

-----------------------------------------------------------------------------
(* Fairness.  Every await of a coroutine ends (HTTP calls, retries and     *)
(* container polling are bounded), the jobs run periodically, time passes, *)
(* the operator restarts the process, and a daily limit of at least one    *)
(* publication grants every queued post its turn (JOB-7 serves the queue   *)
(* in order).  Nobody is assumed to press a button.                        *)

Fairness ==
    /\ \A o \in Owners : WF_vars(Generate(o)) /\ WF_vars(Publish(o))
    /\ WF_vars(Handler) /\ WF_vars(Recovery)
    /\ WF_vars(QueueSelect) /\ WF_vars(DequeueLock)
    /\ \A p \in Posts :
         /\ SF_vars(QueueNext /\ run'["job7"].post = p)
         /\ WF_vars(Age(p))
    /\ WF_vars(ExpireSelect) /\ WF_vars(ExpireWrite)

FairSpec == Spec /\ Fairness

-----------------------------------------------------------------------------
(* Properties.                                                             *)

\* Where a coroutine can be.
Steps == {"idle", "generating", "sending", "recording", "replace",
          "approve", "queue", "queue_lock", "reject", "skip", "retry", "lock",
          "quota", "upload", "ready", "platforms", "single"}
\* It is in charge of publishing its post.
Publishing == {"quota", "upload", "ready", "platforms", "single"}

\* What a coroutine carries: its step, its snapshot of the post, and what the
\* platforms answered so far.
Tasks == [pc : Steps, post : Posts \cup {None}, mem : Statuses, img : BOOLEAN,
          todo : SUBSET Platforms, ok : SUBSET Platforms, bad : SUBSET Platforms]

\* Types; a coroutine that has a post in hand knows which one, and only
\* statuses allowed by the CHECK constraint of the table are ever written.
TypeOK ==
    /\ status \in [Posts -> Statuses]
    /\ url \in [Posts -> BOOLEAN] /\ image \in [Posts -> BOOLEAN]
    /\ ids \in [Posts -> SUBSET Platforms] /\ errs \in [Posts -> SUBSET Platforms]
    /\ msgs \in [Posts -> BOOLEAN] /\ age \in [Posts -> 0..MaxAge]
    /\ suspended \in BOOLEAN /\ mode \in {"down", "republish", "resend", "up"}
    /\ run \in [Owners -> Tasks]
    /\ \A o \in Owners : run[o].pc \notin {"idle", "generating", "replace"} => run[o].post \in Posts
    /\ expiring \subseteq Posts /\ sweeping \subseteq Posts
    /\ queue \subseteq Posts /\ recovering \subseteq Posts
    /\ keyboards \subseteq Posts /\ consented \subseteq Posts
    /\ live \in [Posts -> [Platforms -> Nat]]
    /\ crashes \in 0..MaxCrashes /\ lost \in 0..MaxLost
    /\ timeouts \in [Posts -> 0..MaxTimeouts]

\* Two coroutines are never in charge of the same post: the conditional
\* UPDATEs, the early return after queueing and the sequential recovery keep
\* handle_approve, /retry, JOB-3, JOB-7 and recover_pending_posts apart.
OnePublisher ==
    \A p \in Posts : \A o1, o2 \in Owners :
        /\ run[o1].post = p /\ run[o1].pc \in Publishing
        /\ run[o2].post = p /\ run[o2].pc \in Publishing
        => o1 = o2

\* What the admins decided about a post.
Verdict == [p \in Posts |->
    CASE status[p] = "absent" -> "absent"
      [] status[p] \in {"rejected", "skipped"} -> "refused"
      [] p \in consented -> "accepted"
      [] status[p] = "pending_approval" -> "open"
      [] OTHER -> "refused"]

Contract == INSTANCE PublicationContract WITH verdict <- Verdict, copies <- live

\* Without auto_publish the whole machinery, whatever its races, crashes and
\* retries, behaves as the approval contract: a verdict is final and a copy
\* reaches a platform only when an admin accepted the post.
HonoursContract == Contract!Spec

\* A copy on a feed platform is repeated only when a crash, a lost answer or a
\* database that stayed locked kept the first one from being recorded.
AtMostOnce ==
    \A p \in Posts : \A f \in Feed : live[p][f] <= 1 + crashes + lost + timeouts[p]

\* [SC-4] A feed platform whose post id is stored is never called again for
\* this post, neither by recovery nor by /retry, /retry_ig or /retry_fb.
RecordedOnce ==
    [][\A p \in Posts : \A f \in Feed : f \in ids[p] => live'[p][f] = live[p][f]]_vars

\* A stored id stands for a copy that exists, and a post is called published
\* only when a feed platform has it (when one is enabled at all).
RecordsAreReal ==
    \A p \in Posts :
        /\ \A f \in ids[p] : live[p][f] > 0
        /\ status[p] = "published" /\ Feed # {} => \E f \in Feed : live[p][f] > 0

\* The pending posts and the generations under way exceed max_pending_posts by
\* one at most: /force and JOB-3 count before they generate, and both may have
\* counted the same posts.
PendingBound ==
    Cardinality(Rows("pending_approval"))
      + Cardinality({o \in Owners : At(o, "generating")}) <= MaxPending + 1

\* The state machine of docs/DATABASE.md, with the two shortcuts of the code
\* (JOB-3 publishes a pending post, recovery marks an approved post published)
\* and without expiry.
Moves == {<<"absent", "pending_approval">>,
          <<"pending_approval", "approved">>, <<"pending_approval", "queued">>,
          <<"pending_approval", "rejected">>, <<"pending_approval", "skipped">>,
          <<"pending_approval", "publishing">>,
          <<"approved", "queued">>, <<"approved", "publishing">>,
          <<"approved", "published">>, <<"queued", "publishing">>,
          <<"publishing", "published">>, <<"publishing", "error">>,
          <<"publishing", "approved">>, <<"error", "publishing">>}

\* As long as no post is old enough for JOB-4, every status change of every
\* handler, job and recovery is a transition of the documented graph: no
\* snapshot is ever flushed over a status that it did not see.
StatusGraph ==
    [][\A p \in Posts : status'[p] # status[p] => <<status[p], status'[p]>> \in Moves]_vars

AtRest == mode = "up" /\ \A o \in Owners : ~Busy(o)

\* Until a crash, as long as uploads succeed, nothing is suspended and JOB-6 has
\* no image to remove, a post is left half way when nothing runs only if a write
\* about it found the database locked, which leaves it approved when it is that of
\* the daily counter: "approved" and "publishing" are picked up by no job and no
\* command, and by a restart only if the image was uploaded.
NothingStranded ==
    AtRest /\ crashes = 0 =>
        \A p \in Rows("approved") \cup Rows("publishing") : timeouts[p] > 0

\* Until a crash, a published post that misses a platform says so in the column
\* that /retry_ig and /retry_fb look at, unless the retry that had erased it found
\* the database locked.
Retriable ==
    AtRest /\ crashes = 0 =>
        \A p \in Rows("published") : timeouts[p] = 0 => Feed \ ids[p] \subseteq errs[p]

\* A post never waits for an admin for ever: it gets an answer or JOB-4
\* expires it, whatever crashes happen.
PendingEnds ==
    \A p \in Posts : (status[p] = "pending_approval") ~> (status[p] # "pending_approval")

\* Once the image is uploaded, a publication is finished, if need be by the
\* next start of the process: the post ends up published, in error or queued.
PublicationSettles ==
    \A p \in Posts :
        (status[p] \in {"approved", "publishing"} /\ url[p])
            ~> (status[p] \in {"published", "error", "queued", "expired"})

\* JOB-7 ends up taking every queued post.
QueueDrains ==
    \A p \in Posts : (status[p] = "queued") ~> (status[p] # "queued")
=============================================================================
