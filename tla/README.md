# Formal model of AnciennesNouvelles

AnciennesNouvelles generates one image post after another from historical
sources (Wikipedia, RSS feeds, Gallica), asks administrators on Telegram whether
to publish it, and publishes what they accept on Instagram, Facebook, Threads
and as a Reel. One asyncio process runs the Telegram bot and an APScheduler; the
state lives in a SQLite database that the command line and a dashboard, other
processes, write too.

This directory models the parts whose correctness depends on the order in which
things happen. TLC checks the modules on small instances, and TLAPS proves some
of their properties for every value of the constants. Paths below are relative
to the root of the repository; `h`, `jobs`, `pub` stand for
`ancnouv/bot/handlers.py`, `ancnouv/scheduler/jobs.py` and
`ancnouv/publisher/__init__.py`.

## 1. Inventory

| Component | State | Operations | Talks to | Hard behaviour | What makes it correct |
|---|---|---|---|---|---|
| Telegram bot (`bot/handlers.py`, `bot/bot.py`) | ORM snapshots across awaits, edit conversations in `chat_data` | approve, queue, reject, skip, edit, /force, /retry, /retry_ig, /retry_fb | posts table, publisher, generator, quota | a status read before an await and written after it; double clicks; other coroutines on the same row | one publisher per post; a verdict is final; what failed can be retried; buttons stand under the caption they publish |
| Scheduler (`scheduler/jobs.py`, `scheduler/__init__.py`) | selections held by a job while it awaits | JOB-1 prefetch of Wikipedia, JOB-2/8 of RSS and Gallica, JOB-3 generate, JOB-4 expire, JOB-5 token, JOB-6 cleanup, JOB-7 queue, recovery at start-up | posts table, bot, publisher, token row | jobs interleave with handlers; crash and recovery | pending posts end, queue drains, interrupted publications settle |
| Publisher (`publisher/__init__.py`) | results of the platforms until one final commit | publish_to_all_platforms, stories | Meta APIs, one session per platform | partial failure, lost answers, crash before the commit | a recorded platform is not called again, a record stands for a copy |
| Instagram / Reels / Threads / Facebook (`publisher/*.py`) | `ig_container_id`, `reel_container_id` | create, poll, publish a container | Meta APIs | containers expire, hang or are already published | one copy per container, the id survives a crash |
| Token (`publisher/token_manager.py`, `cli/auth.py`, JOB-5) | `meta_tokens` row, alert threshold, `publications_suspended` | get_valid_token, refresh, alert, suspend, `auth meta` | Meta API, other process | read-refresh-write against a login; alerts that must not be missed | refreshed before it expires, suspended before it is unusable |
| Daily quota (`jobs:27-88`) | counter and its date | check_and_increment_daily_count | scheduler_state | date read before the exclusive lock | at most `max_daily_posts` a day |
| Selection (`generator/selector.py`, `cli/escalation.py`) | `published_count`, `escalation_level` | choose a source, escalate, reset | events, articles | minutes between the choice of a source and its commit; read-modify-write of the level against a reset | few posts of a source the policy no longer allows; a reset counts; the level rises for a cause |
| Generation (`generator/__init__.py`, `image.py`, `caption.py`, `video.py`) | image files | generate_post | selection, posts | check of `max_pending_posts` long before the insert | pending posts bounded |
| Image hosting (`publisher/image_hosting.py`) | `image_public_url` | upload with three attempts | HTTP server | an upload is not idempotent | uploaded once, the address is kept |
| Configuration (`config_loader.py`, `db/config_store.py`) | cached configuration, reload flag | get_effective_config, invalidate | dashboard | the flag is read and cleared in two steps; reloads that overlap | an announced override is not lost, no configuration is older than the TTL and two waits |
| Database (`db/*.py`) | tables, sessions, Alembic migrations | flush by id, conditional UPDATE | everything | snapshots, detached objects | the CHECK constraints |
| Fetchers (`fetchers/*.py`) | rows of events, articles, Gallica items | fetch, parse, insert what is new | HTTP | a date that fails is left out | the days that are counted were collected |
| Dashboard (`dashboard/`) | none of its own | set and reset overrides, raise the reload and restart flags | database | several commits per request, requests side by side | a restart is asked for as long as it is needed |
| Command line, scripts, deploy | none of their own | `fetch`, `escalation reset`, `auth meta`; installation, tests, backup | database | other processes | the first three are actions of the models |

`PROJECT.json` lists the same parts with their status, and the hazards line by
line.

## 2. Modules

| Module | What it is |
|---|---|
| `PostLifecycle` | the posts table and every coroutine that changes a post's status: bot, JOB-3, JOB-4, JOB-6, JOB-7, recovery, crashes, suspension |
| `PublicationContract` | the abstract specification: propose, accept, refuse, copy |
| `MCPostLifecycle` | symmetry for TLC |
| `LifecycleClaims` | sentences of the documentation that the code does not keep |
| `PlatformCall` | the abstract specification of one call of a publisher |
| `MediaContainer` | one post against the container protocol of Meta: Instagram, Reel, Threads |
| `SchedulerState` | the suspension, shared by the next two |
| `TokenWatch` | the user token by days: JOB-5, refreshes, `auth meta` |
| `DailyQuota` | the daily counter and its date |
| `PublicationGate` | the two composed: what lets a post go out |
| `SourceSelection` | which source a post is generated from: policy, window, escalation, two generators |
| `Escalation` | the stock of events, JOB-1, the level and its reset |
| `ConfigCache` | the overrides of the dashboard and the cache of ancnouv |
| `EditConversation` | the edit of a caption: conversations, timeouts, messages and their buttons |
| `MCSelection`, `MCEscalation`, `MCConfigCache`, `MCEditConversation` | the configurations, the entries and the symmetries of the runs |
| `PostLifecycle_proofs` | types, the bound on pending posts, one publisher of a post, and that PostLifecycle implements PublicationContract |
| `PostCopies_proofs` | the copies, the stored ids and the stored errors of a post, the transitions of its status, nothing left half way |
| `MediaContainer_proofs` | a call of a publisher implements `PlatformCall` |
| `PublicationGate_proofs` | the counter and the token |
| `SourceSelection_proofs`, `Escalation_proofs`, `ConfigCache_proofs`, `EditConversation_proofs` | every safety property of their modules |

How they fit: `PostLifecycle` takes a publisher's call to be one step that
succeeds, fails, or succeeds and loses its answer, and the answer of the counter to
be free. `MediaContainer` shows that a call is that step, by refining
`PlatformCall`. `PublicationGate` says when the answer of the counter is yes, and
what sets and lifts the suspension that `PostLifecycle` only toggles. `SourceSelection`
and `Escalation` stand before the insertion of a row (`GenStart`, `GenInsert`): the level of
the first moves freely, the second says when. `EditConversation` opens up
`EditCaption`. `ConfigCache` is about the configuration that every coroutine asks
for; the other modules take it as constant.

### PostLifecycle

*State.* A row of the table `posts` is spread over one function per column that
matters: `status`, `url` (image_public_url), `image` (image_path), `ids` and
`errs` (the platforms whose `*_post_id`, `*_error` is set), `msgs`
(telegram_message_ids), `age` (created_at against the two delays). The
coroutines are `run["bot"]`, `run["job3"]`, `run["job7"]` and `run["boot"]`, each
a step, a post, and the snapshot it works on. The handlers share one coroutine
because python-telegram-bot processes updates one after the other; a job never
runs twice at once (`max_instances=1`, SchedulerConfig). JOB-4 and JOB-6 are the sets
they selected and have not written yet. `live` counts the copies that exist on
each platform, `consented` the posts an admin accepted: the world outside.

*Actions.* One action per stretch of code between two awaits at which another
coroutine can matter. The two ways of writing a row are kept apart, because
most of the hazards come from mixing them: the conditional
`UPDATE ... WHERE status = ...` looks at the row (`ApproveLock`, `QueueLock`,
`RetryLock`, `DequeueLock`), while an ORM flush writes the changed column of a
snapshot by id whatever the row has become (`Flush`: RejectWrite, SkipWrite,
PublishStart, PublishEnd, Abort, ExpireWrite). The publication steps `Quota`,
`UploadOk`, `UploadFail`, `PublishRefused`, `PublishStart`, `Platform`, `PublishEnd` are shared
by the five callers of `publish_to_all_platforms`; their differences (who turns
an exception into `error`, who reloads the row) are in the actions. JOB-3
in `auto_publish` goes through the same steps.

`Contention` is SQLite itself: JOB-1, the dashboard or the command line hold the
write lock, and a statement that waits more than `busy_timeout` for it raises. `LockTimeout`
can befall every statement or commit for which a coroutine needs the lock (`Writing`): nothing of it is
committed, what the platforms answered is forgotten, and the coroutine stops there, because
no handler or job catches the exception where it could still write. The daily counter of
`handle_approve` is one of them: `approved` is committed by then, and `h:778` catches
only `RuntimeError`. `timeouts` counts these writes for each post, for the properties and for the
bound `MaxTimeouts`. Recovery catches the exception and takes the next post (`RepublishTimeout`);
JOB-4 gives up its batch (`ExpireTimeout`). Two more are not actions of their own: the first commit of
recovery failing stops the start of the process, which is `Crash`, and that of JOB-6 is not modelled, because
the files are removed by then whatever the row says.

*Abstractions.* The quota answers yes or no freely (refused when suspended) or
raises; a platform succeeds, fails, or succeeds and loses the answer; the Reel and the
stories, which never decide a status, are left out; JOB-3's other
guards (paused, escalation level) can only keep it from starting, which the
model allows since a job need not start. In the code the scheduler starts a
moment before the bot polls; `Ready` starts both. Captions, images and the text
of messages are not represented. A post whose sending fails because there is no
admin at all ([TG-F9]) is not modelled: `authorized_user_ids` is validated as
non-empty.

*Dead branches of the code.* In `handle_approve` a pending post always has an
image (only finished posts lose theirs), so the branch "image absent" of
ApproveLock never fires. In `recover_pending_posts`, the branch that marks a post
published because both ids are set never fires either: the ids and the final
status are written in the same commit. Both are kept in the model because the
code has them.

### MediaContainer

*State.* `meta` is the status of each container at Meta. `stored` is the
container id of the row as committed (`ig_container_id`, `reel_container_id`), `memory`
the one that only the session of `publish_to_all_platforms` holds, `recorded`
that the `*_post_id` is set. `pc`, `cid` and `polls` are the call under way. A single
call is enough, because `OnePublisher` of `PostLifecycle` makes the calls for a post
follow one another.

*Actions.* `Check` and `PollOld` are `_get_or_create_container` before it creates:
a status that is none of the four it knows, which is what a published container
answers, falls through to a new container without forgetting the old one. `Renew`
forgets it. `Save` differs by publisher: Instagram commits the id on its own
row; the Reel sets it on the post of the caller's session and commits its own, so
that only `Finish` writes it; Threads keeps nothing. `Process` is Meta.

### TokenWatch, DailyQuota, PublicationGate

*Token.* `left` is `days_until_expiry`, 0 once it is negative. A run of JOB-5 is
`Look`, then `Refresh` at J-7 and J-3 or `Suspend` at J-1 and later, then `Write`; `set_scheduler_state` commits, so
the suspension and the threshold announced are two commits. `Refresh` keeps that
`get_valid_token` absorbs the failure of Meta, so that JOB-5 always believes it succeeded. Publishers
refresh in the last week with `ExchangeStart` and `ExchangeEnd`; one flag stands for
all of them, since a second exchange in flight does what the first does.
`AuthMeta` lifts the suspension and leaves the announced threshold.

*Time.* `Tick` takes a day off `left`. JOB-5 runs at 9:00 local time and at
start-up. `checked` says that it ran to its end today; `Tick` counts a missed
day when it did not. A missed day is a day of downtime, a run that ended in an
exception, or the change to winter time, after which JOB-5 runs an hour later in
the life of the token and skips a value of `left`. `missed` and `failed` count since
the last renewal, and only speak in the properties (`missed` is bounded by `MaxMissed`).

*Counter.* Dates are ages: 0 today, 1 yesterday, 2 older. A caller reads the date, then
enters the exclusive transaction, one step. `Midnight` can pass between
the two, once: the wait for the lock is bounded by the time-out of SQLite, 10 s (`PRAGMA busy_timeout`).
`granted` counts what was let out today and `straddled` those that were asked for the
day before.

*Abstractions.* A new token lives 60 days, the value the code assumes when Meta
gives none; which account a token belongs to is left out; the page token never expires.
/retry and recovery publish without the counter and are in `PostLifecycle`.

### SourceSelection

*State.* `published`, `blocked` and `rest` are `published_count`, `status` and
`last_used_at` of the rows of events, articles and Gallica items; `collected` is
`fetched_at` of an article. `gen` is what JOB-3 and the bot are generating, `pending` and
`accepted` the posts of a source that wait for an admin or for their
publication. `config` is any of four configurations and does not change.

*Actions.* `Begin` reads the level once, `Select` draws any candidate, `Save` is the
commit of the post with `last_used_at`, minutes later. `Reject` blocks events and
articles, never Gallica items; `Publish` counts the publication. `NewDay`, `Escalate` and `Reset` move
what the policy is compared with.

*Abstractions.* The draw between the three kinds and its fallbacks is any
candidate; an event of another date or outside the age filters is one that is
not drawn. Days are the unit of time, and a selection (milliseconds) does not straddle one.

### Escalation

*State.* `stored` and `gone` are the rows of `events` and those published or
blocked; `level` is `escalation_level`; `job1` is JOB-1: the day it is at, the level its
parameters were made of, the level it has read to raise.

*Actions.* `Collect`, `Busy` and `SkipDate` are the loop over the days, `CountEnough` and
`CountLow` are `needs_escalation`, `ReadLevel` and `Raise` the two statements of
`increment_escalation_level`. `Fetched` is `WikipediaFetcher.fetch`: French, then English when the
level or a lack of French asks for it. `RunFetch` and `Reset` are other processes.

*Abstractions.* An entry is a record of its language, type and date, and whether it
passes the filters. Dates are counted modulo `Year`. The age filters, which `needs_escalation` ignores, are
not in the model.

### ConfigCache

*State.* A configuration is known by the version of the overrides it was
made of. `cache`, `age` are `_cache_config` and its age; `call` the calls of `get_effective_config`
under way, each with the version it has read; `req` the requests of the dashboard; `flag` and
`restart` the two rows of `scheduler_state`. `since` counts the ticks since each
version was replaced.

*Actions.* One per statement against the database, since each is an await or a
commit: `Upsert`/`Delete`, `RaiseFlag`, `AskRestart`, `ReadRemaining`, `Lift` of a request; `Enter`,
`ReadFlag`, `Clear`, `Serve`, `Load`, `LoadFails`, `Store` of a call. A request can break off anywhere
and the database can fail any call.

*Abstractions.* What an override does to the configuration
(`apply_dot_overrides_config`) is its version; a call waits for the database at most
`MaxCall`, the time-out of SQLite.

### EditConversation

*State.* `ids` is `telegram_message_ids`, `live` the messages that show buttons, a
message being an addressee, a post, the caption it shows and the start of the
process it was sent after. `open`, `timer` and `chat` are the conversation of each admin,
its scheduled timeout and his `chat_data`. `bot` is the handler under way (or recovery, before the bot listens), `timeout`
and `job3` what runs beside it.

*Actions.* `HandleEdit`, `NewCaption` then `Strip`, `Write`, `Send`, `Record`, and `CancelEdit`, `TimeoutStart`,
`TimeoutEnd`. Three rules are those of python-telegram-bot, not of this repository:
an entry point is taken only when the user is in no conversation
(`allow_reentry` is not given), an update of the user takes the scheduled timeout away and an
exception schedules none, and the conversation ends when the handler of its timeout does.
Telegram can refuse any call, one message at a time.

`QueueFull` is an answer that decides nothing: when the queue is full, `handle_queue_it` edits the message that was
pressed into a text without buttons and leaves the row as it is. On a photo, `edit_message_text` fails and
nothing happens; on a text message (the image could not be read) it succeeds.

*Abstractions.* A caption is the number of times it was edited. What becomes of a post is
`Close`, any time; the queue may be full at any time. A message edited without a keyboard loses its buttons, as
`docs/TELEGRAM_BOT.md:368` says.

## 3. Runs

All with 2 workers, about three minutes at most.

| Run | Question | Instance |
|---|---|---|
| `LifecycleFaults` | Do the invariants and the approval contract survive every fault? `TypeOK`, `OnePublisher`, `PendingBound`, `HonoursContract` | 2 posts, Instagram, 1 crash, 1 lost answer, suspension, failing uploads, expiry; 2.3 million states |
| `LifecycleRestart` | How many copies are there, and what do the columns `*_post_id` and `*_error` say of them? `AtMostOnce`, `RecordsAreReal`, `Retriable`, `RecordedOnce` | 1 post, 3 platforms, 1 crash, 1 lost answer, 1 locked write, images deleted by JOB-6; 2.4 million states |
| `LifecycleAuto` | Do statuses follow the documented graph, and is nobody stuck? `OnePublisher`, `NothingStranded`, `StatusGraph` | `auto_publish`, 2 posts, Instagram and Facebook, 1 crash, 1 lost answer, 1 locked write per post, no ageing, no suspension, uploads succeed; 3.4 million states |
| `LifecycleLive` | What ends? `PendingEnds`, `PublicationSettles`, `QueueDrains` | 1 post, Instagram, 1 crash, `FairSpec` |
| `MediaContainer` | Is a call of a publisher one call, and does it end? `TypeOK`, `PersistedFirst`, `CopiesAreFaults`, `OneCopyPerCall`, `CallEnds` | any of the 3 publishers, 3 containers, waits of 2 polls, 1 crash, 1 lost answer; 52 000 states |
| `PublicationGate` | When is the token suspended, and how many posts go out a day? `TypeOK`, `UnusableIsSuspended`, `TwoChances`, `QuotaBound`, `NoGrantOnDeadToken` | the real thresholds and 60 days, up to 5 missed days, 2 callers, 2 posts a day; 7.7 million states |
| `Selection` | What does the policy let through, and what does a level take away? `TypeOK`, `RepeatsBounded`, `EscalationRelaxes` | an article and a Gallica item, the 4 kinds of configuration, 2 pending posts, 1 accepted |
| `Escalation` | Why does the level rise, does a reset count, is a shortage noticed? `TypeOK`, `ResetHolds`, `EscalatesForCause`, `ShortageIsNoticed` | 3 dates, 6 entries, 1 reset, 1 run cut short, `FairSpec`; 1 million states |
| `ConfigCache` | How old is a configuration, is an override lost, is a restart asked for? `TypeOK`, `SeenWithin`, `NoLostReload`, `RestartShown` | 2 requests, 2 callers, 2 keys, 2 writes, TTL 1, waits of 1; 5 million states |
| `EditConversation` | What do the buttons stand under, can an open post be answered, does a conversation end? `TypeOK`, `AsShown`, `Answerable`, `EditTimed` | 1 post, 2 admins, 1 edit, 1 crash; 1.2 million states |
| `ClaimExpiry`, `ClaimMessages` | counterexamples, section 6 | 1 or 2 posts |

*Why these bounds are enough.* The races are between coroutines, and there are
only four of those; every pair meets on one post, and a second post is there for
the selections that hold several rows (JOB-4, JOB-7), for the counts (one
pending post is the default of `max_pending_posts`, one queued post makes the
queue full) and for a bot that works elsewhere. Platforms only interact through
the set of results: two feed platforms and Threads give every mixture of
success and failure. One crash shows every point of interruption, and recovery
from a second crash starts from the same kind of table. One write that finds the database locked comes at each
statement in turn, and with the crash and the lost answer makes `MaxCopies` = 5 one more than `AtMostOnce` allows in
`LifecycleRestart`; `LifecycleFaults`, whose state space is the largest in rows, and the runs of liveness have `MaxTimeouts` = 0. `MaxCopies` bounds the number of
/retry after lost answers; the invariant on copies is violated well below it
when it can be violated at all.

Three containers are one more than a crash and a lost answer cost; two polls tell
the last one from the others. Five missed days are exactly one more than
`UnusableIsSuspended` tolerates: with `missed <= 5` TLC finds it violated. Two
callers and two posts a day reach the bound of `QuotaBound` with one straddle (one caller waits
through midnight while the other uses up the day, before and after it).
`MediaContainer` has `CHECK_DEADLOCK FALSE`: once the id of an Instagram post is
recorded nobody calls again.

In `Selection`, days are halves of the window of level 3, so that the two levels have
windows 2 and 1, below and above those of the configurations (1 and 3); an event
is an article without a minimal delay, which the instance leaves out. Two pending posts let both generators overlap, which is what the bound on
repeats is about: with one generator less `RepeatsBounded` is reached at 1.
In `Escalation`, the day after tomorrow is out of reach of the horizon and yesterday is in the
window, date 0 is rich, date 1 needs births or English, date 2 never has enough: every level change has a day
that causes it and one that does not. In `ConfigCache`, a configuration is served `CacheTTL - 1 + 2 * MaxCall` ticks
old in some behaviour, and two writes make three versions, enough for a reload that ends late with the
older of two. The symmetries (callers, requests, admins) are only used in runs of invariants.
In `EditConversation`, one edit gives an old and a new caption and JOB-3 may still be sending the old one; the
crash comes anywhere; a second post was tried with one admin (1.6 million states) and a second crash
(9 million) and show nothing new. It has `CHECK_DEADLOCK FALSE`: once its posts are decided nobody need press anything.

`StatusGraph` and `NothingStranded` need assumptions that the code needs too:
JOB-4 expires rows blindly (section 6), and a suspension or a failed upload
leaves a post `approved` on purpose. A locked database leaves one too, not on purpose (section 6): the
run has it, and `NothingStranded` excepts the posts that met it, and only those. `LifecycleAuto` therefore has no ageing,
no suspension and no upload failure, and `CHECK_DEADLOCK FALSE` because with
the clock stopped an idle system waits for an admin. The unconditional
properties are in `LifecycleFaults`.

*Fairness* (`FairSpec`, and the comment above `Fairness`): every await of a
coroutine ends, since HTTP calls have timeouts, retries are counted and the polling of
a container is bounded; jobs are periodic; time passes; systemd restarts the
process (`deploy/systemd`). Strong fairness is only used for JOB-7 taking a
given queued post, since the limit can interrupt the loop again and again but
a new day always grants at least one publication and the queue is served in
order. No admin is assumed to press anything, the database
is assumed to grant its lock in time (`LifecycleLive` has `MaxTimeouts` = 0: a post whose counter raised stays `approved`), and JOB-6 and suspension need no fairness.
In `MediaContainer`, `FairSpec` only asks that the call under way moves: each
request has a time-out and each poll is counted. Meta need not process anything.
In `Escalation`, days pass and a run of JOB-1 goes on; it starts under strong
fairness, since some nights have no run (`misfire_grace_time`) but not all.
The other modules state no liveness: that a conversation ends is the invariant `EditTimed`,
what is scheduled being run by JobQueue.

## 4. What each property means

* `OnePublisher`: two coroutines never publish the same post at the same time.
* `AtMostOnce`: a feed platform has at most one copy of a post, plus one for
  every crash, every lost answer and every write about the post that found the database locked.
* `HonoursContract`: the refinement of `PublicationContract`. Without
  `auto_publish`, a refusal or a timeout that is recorded before any acceptance
  is final, and a copy only appears after an acceptance.
* `PendingBound`: pending posts and generations under way exceed
  `max_pending_posts` by one at most.
* `RecordedOnce`: [SC-4] once a feed id is stored that platform is never called
  again for the post.
* `RecordsAreReal`: a stored id stands for a copy; `published` means that a
  feed platform has one.
* `Retriable`: until a crash, a published post that misses a feed platform has
  the error that /retry_ig and /retry_fb look for, unless the retry that had erased it found the database locked.
* `NothingStranded`: until a crash, at rest, no post is `approved` or `publishing`, unless a write about it
  found the database locked.
* `StatusGraph`: every status change is in the graph of `docs/DATABASE.md`,
  plus the two shortcuts that the code takes.
* `PendingEnds`, `PublicationSettles`, `QueueDrains`: liveness, see section 3.

* `PersistedFirst`: Instagram never waits for or publishes a container that a
  restart would not find in the row.
* `CopiesAreFaults`: on Instagram, every copy after the first was paid for by a
  crash or a lost answer, however often the call is repeated.
* `OneCopyPerCall`: the refinement of `PlatformCall`.
* `CallEnds`: a call ends, however long Meta takes.
* `UnusableIsSuspended`: an expired token that JOB-5 has looked at is suspended.
  The code compares the threshold with the last one announced, which nothing
  resets, so that this is not obvious: it takes five missed days to break it.
* `TwoChances`: a token reaches its last day only after two missed days or
  refused refreshes.
* `QuotaBound`: at most `max_daily_posts` a day, plus `max_daily_posts + 1` for each call that
  waited through midnight.
* `NoGrantOnDeadToken`: the counter lets nothing out with a token that JOB-5 has
  seen expired.

* `RepeatsBounded`: [SPEC-3.2.3] two generators choose a source minutes before they store its
  post, while posts are rejected and published and levels change: from the moment the policy no longer
  allows a source (by what really happened, `quiet`, `out`, `refused`, not by what the rows say) each stores one more post of it at most.
* `EscalationRelaxes`: [DS-1.4c] a level more takes no candidate away, except that level 3 puts
  a window in the place of "never".
* `ResetHolds`: after `escalation reset` the level counts from 0, for a run of JOB-1 under
  way too, unless it fell between the two statements of a rise.
* `EscalatesForCause`: a day found short could not be collected in this run, or has too little
  on Wikipedia at this level, or its events were used.
* `ShortageIsNoticed`: a shortage that does not end takes the level to 5.
* `SeenWithin`: a configuration served is at most the TTL and two waits old, even without any flag,
  unless the database could not be read. `docs/DASHBOARD.md:102` says 30 s.
* `NoLostReload`: an announced override has its flag up or a reload on its way, unless
  that reload failed or an older one was stored after it.
* `RestartShown`: when no request is under way the dashboard asks for a restart whenever an
  override needs one, with the two exceptions that the code has.
* `AsShown`: a caption that was replaced keeps its buttons only on a message that
  Telegram would not edit or that was never recorded (those of JOB-3).
* `Answerable`: an open post that no restart sends again has buttons with some admin,
  unless the timeout of an edit took them, or what stopped between the buttons and the row, or
  the answer of a full queue.
* `EditTimed`: an open conversation has something that will end it, unless an exception
  left it; an earlier timeout still under way takes nothing away.

Every property has a mutant: a mapped definition changed the way a
plausible bug would change the code, for which TLC finds the property violated
(`PROJECT.json`, "mutants").

## 5. Proofs

TLAPS checks the theorems below for every value of the constants that the named
assumptions allow.

* `TypeCorrect == Spec => []TypeOK` (`PostLifecycle_proofs`), from
  `LifecycleAssumption`. `TypeOK` is inductive, because it says which steps carry
  a post. One lemma per group of actions.
* `ContractHonoured == ASSUME ~AutoPublish PROVE Spec => HonoursContract`
  (`PostLifecycle_proofs`). The step simulation needs to know that whoever
  copies a post has its acceptance. `ConsentInv` says it: a row whose status is past the
  approval was accepted and an unanswered or refused one was not (`ConsentRows`); a coroutine that is
  publishing holds an accepted post, a coroutine that is refusing is the bot and
  holds one nobody accepted, because only the bot accepts (`ConsentHand`); the
  rows recovery will republish were accepted (`ConsentLists`). It is inductive,
  and each action of `PostLifecycle` is then a step of the contract or a stutter;
  JOB-4's blind write is a refusal of the unanswered posts of its selection.
* `PendingBounded == Spec => []PendingBound` (`PostLifecycle_proofs`).
  `PendingInv`: only bot and JOB-3 generate, so at most one other generation is
  under way when one of them starts, and it starts only below `MaxPending`; the
  insertion of a row trades a generation for a pending post. Cardinalities come
  from FiniteSetTheorems.
* `OneAtATime == Spec => []OnePublisher` (`PostLifecycle_proofs`). `OnePublisher` says nothing of the
  coroutine that is about to take a post; `PublisherInv` does: nobody publishes a post about which a button is being
  answered (`Exclusive`); the status of a post that somebody publishes is none that a lock or a press
  looks for, but for JOB-3's own pending post (`HeldStatus`, `DecideStatus`), whose buttons nobody has
  (`Unasked`); and recovery runs alone (`RunsAlone`). JOB-4's blind write only adds `expired`, which nobody takes.
* `CopiesBounded == Spec => []AtMostOnce`, `RecordsHonest == Spec => []RecordsAreReal` and
  `NeverRepeated == Spec => RecordedOnce` (`PostCopies_proofs`), all from `CopiesInv` on top of `PublisherInv`:
  a platform that remains to be called has no stored id and no copy that somebody knows of (`CallsInv`); a row
  with a feed id is past its publication, and a platform never has an id and an error at once (`RowsInv`); the rows that recovery selected have no
  feed id (`RecoverInv`). Each crash, each lost answer and each locked write makes one copy per platform unknown. It follows that the branch of recovery for a
  post whose two feed ids are known, which `Republish` has as in the code, is never taken: ids and status are written by one commit.
* `RetryFinds == Spec => []Retriable` (`PostCopies_proofs`). `RetryInv`: a platform that is neither stored
  nor in error is in the hands of the command that erased the error, or was when the database was locked.
* `GraphOrExpiry == Spec => [][\A p \in Posts : Moved(p)]_vars` and `GraphKept == ASSUME MaxAge = 0 PROVE Spec =>
  StatusGraph` (`PostCopies_proofs`). A handler commits the status that it wants over whatever the row
  contains by then. `SnapshotInv` says what a coroutine on its way to the platforms has in memory: the status of the row, unless JOB-4
  has written `expired` over it, and which statuses it can be at each step; it is kept because
  `PublisherInv` lets nobody else work on the row. `ApprovedInv` covers recovery, which finds its posts as the restart left them. So,
  for posts of any age, the only changes outside the graph are JOB-4's and those to `Revivals`, a snapshot over
  `expired`; and when no post is old enough for JOB-4 there are none.
* `NothingLeft == ASSUME ~UploadsFail, ~CanSuspend, MaxAge <= 1 PROVE Spec => []NothingStranded`
  (`PostCopies_proofs`). `CarriedInv`: until a crash each post that is `approved` or `publishing` and met no locked database is carried by a
  coroutine that is on its way to the platforms, so that there is none when all are idle. `CalmInv`: nothing is suspended and every row has its
  image. The last needs `MaxAge <= 1`: JOB-6 removes the images of older rows, without which an approval stops after
  its first commit. JOB-4 may run, the answers of the daily limit and of the platforms are free, and so are the lost
  ones and the locked writes. Each hypothesis is needed, and so is the exception: without any of them TLC finds a post left half way (sections 3 and 6).

* `CallHonoured == Spec => OneCopyPerCall` and `PersistedBeforeUse == Spec =>
  []PersistedFirst` (`MediaContainer_proofs`). `CallInv`: before its publication a call
  works on a container that is not published, with an unfinished outcome; after it
  the outcome can be an identifier only if the container is published. Each action is then a step
  of `PlatformCall` or a stutter; that publishing adds one copy is a fact on
  cardinalities.
* `QuotaHonoured == Spec => []QuotaBound` (`PublicationGate_proofs`). `QuotaInv`:
  as long as the row is dated today, the posts let out since the last straddle are
  in `count`; when it is not, a straddle has just paid for them.
* `TokenGetsTwoChances == Spec => []TwoChances` and `ExpirySuspends == Spec =>
  []UnusableIsSuspended` (`PublicationGate_proofs`), from `TokenAssumption`. `TokenInv`
  says that a threshold that was looked at is the last one announced (`LookInv`), so that
  an announcement still in the row further down is from an earlier token, and
  was paid for by the thresholds missed in between (`OldAlertInv`, `ExpiryInv`).

* `CallTypes`, `CopiesArePaidFor` (`MediaContainer_proofs`) and `GateTypes`, `DeadTokenStops`
  (`PublicationGate_proofs`): the types, the copies on Instagram, whose published
  containers other than the one in the row are counted against the faults, and the refusals of the counter.
* `SelectionTypes`, `RepeatsAreBounded`, `LevelsRelax` (`SourceSelection_proofs`). `ExcessInv`: the posts
  in excess and the generators that chose the source before it stopped being allowed are together at most the generators.
  That a candidate is a permitted source comes from `out` and `refused` being in the rows, and from
  `quiet` and `rest` being equal. The levels are a monotonicity of `Fresh` in its window.
* `EscalationTypes`, `ResetsHold`, `EscalationHasCause` (`Escalation_proofs`). For the last, a
  date that JOB-1 has passed is in `failed` or all that its parameters fetch of it is stored, and the days it
  counts are among those it collected, from `Horizon <= Prefetch`.
* `ConfigTypes`, `ConfigSeenWithin`, `ReloadsAreKept`, `RestartIsShown` (`ConfigCache_proofs`). The age
  of a version being built is bounded by the wait of its call; that of the cached one by `age` and the
  wait of the call that stored it.
* `EditTypes`, `CaptionShown`, `CanAnswer`, `ConversationsEnd` (`EditConversation_proofs`), from `EditInv`. A message with
  buttons that is no stray shows the caption of its row and is recorded, or is among those that a handler has just sent and
  is about to record; while the caption is being replaced no other one has buttons
  (`ButtonsInv`). New messages are only sent for a row that records none, one post at a time, and recovery's list is of such
  rows (`RowsInv`): otherwise recording them would forget older ones that still have their buttons. An open post that counts
  as sent, or is about to, can be answered, unless its buttons went with the timeout of an edit, with what stopped an edit
  half way, or with the answer of a full queue (`AnswerInv`).

Every safety property that a passing run checks is a theorem. Only model-checked: the liveness
properties (`PendingEnds`, `PublicationSettles`, `QueueDrains`, `CallEnds`, `ShortageIsNoticed`), which rest on
fairness, out of reach of the prover. The sentences of
`LifecycleClaims` are violated, and there is nothing to prove of them.

## 6. Divergences shown by a run

1. `ClaimExpiry`. JOB-4 expires by id what it selected before its awaits: a post
   approved, queued or being published meanwhile becomes `expired`.
2. `ClaimMessages`. The approval messages of JOB-3 are never recorded, because
   the post was detached when its session closed. After a restart the
   post is sent again.
Seen while modelling and not given a run.

Publication: when the daily counter cannot have its exclusive lock in time, `handle_approve` stops with an exception after
it has committed `approved` (`h:757`; `h:778` catches only `RuntimeError`), and no job or command, nor /retry, looks for that post, nor does a
restart, which only republishes what has an `image_public_url` (`NothingStranded` excepts it); a failed upload leaves the post `approved`, while `docs/CLI.md:457` says /retry, which only
selects `error`; /retry_ig and /retry_fb commit the cleared error before they try (`h:659`), so that a
crash leaves a missing platform that no command finds, against RF-3.4.8; the Reel's container id is
set on a post of another session than the one that is committed (`ancnouv/publisher/reels.py:76`), so that the crash
that its docstring survives loses it; `get_valid_token` absorbs the failure of Meta, so JOB-5 announces
"Refresh automatique réussi" after a refresh that failed (`jobs:815`, `docs/TELEGRAM_BOT.md:423`); a container published by a call that
failed is neither FINISHED nor IN_PROGRESS, so that the retry, which
`docs/DATABASE.md:385` says avoids a duplicate, makes one (`CopiesAreFaults` counts
it); a token that was not looked at on J-7 and J-3 is suspended at J-1 without any refresh having been
tried, where `docs/DEPLOYMENT.md:547` says "si tous les essais de refresh ont
échoué"; a refresh in flight, or one by /retry_ig, which does not look at the suspension, can leave a fresh token
suspended, which `docs/CLI.md:238` excludes; `max_pending_posts` can be exceeded
by one (RF-3.2.7; `PendingBound` gives the exact bound); `handle_approve` queues
beyond `max_queue_size` when the daily limit is reached (RF-7ter.5); a crash
after a platform answered and before the final commit makes recovery publish a
second copy, which REVIEW.md:208 ticks as solved (`AtMostOnce` counts it);
`docs/DATABASE.md:376` says a post in error has no platform error while the code
stores them; the documentation says /force and skip bypass `max_pending_posts`
while generate_post checks it; an `auto_publish` post over the daily limit
stays pending without ever being sent; JOB-7 is documented as disabled but
registered; Threads is published again by /retry; with JOB-4 and JOB-6 both
late, a retried post can be left in `publishing`.

Selection: `get_effective_query_params` says that the escalation can only relax the
configuration (`ancnouv/generator/selector.py:41`), but under "never" a source that was proposed lately and not published is eligible,
and the window that level 3 puts in its place takes it away; the docstring of `handle_reject`
says that the source is blocked, Gallica items are not; under "never" a source
can be published twice, being eligible while its post waits (`docs/DATABASE.md:508` accepts it);
`needs_escalation` counts without the age filters, so that the stock can look sufficient when nothing can be drawn; a
`prefetch_days` below 7, which the configuration allows, makes JOB-1 count days it has not collected.

Configuration: `config_restart_required` is never cleared by ancnouv, and an override of `generation_cron` is
not read even after the restart that the dashboard asks for (`docs/DASHBOARD.md:395`), since `create_scheduler` gets the
configuration without overrides; `invalidate_config_cache` is never called; the dashboard checks each value alone, so that two
overrides that config.yml would refuse together (minimal and maximal delays of RSS) are served.

Captions: a full queue answers "Mettre en file" by replacing the message (`h:973`), and on an approval message sent as a text
takes its buttons off, while the post it says to queue later is still pending: with one admin, or when they all press, it can only
expire; `docs/TELEGRAM_BOT.md:380` says that "Modifier" on a second post restarts the conversation; without
`allow_reentry` the press is ignored, and the text goes to the first post; `docs/TELEGRAM_BOT.md:468` says that the messages of a recorded post
have their buttons, which the timeout of an edit takes off without touching the row: with one admin
the post can only expire; an exception in `handle_new_caption` leaves the conversation open without its five minutes,
and the next text of the admin, whatever it is, becomes the caption; a post that was decided during the conversation is sent for approval again.

## 7. Not modelled

Drawing, captions as text, video, the RSS and Gallica parsers, the fields of the configuration
and their validation, installation, migrations, systemd units: no protocol and no
shared state. JOB-2 and JOB-8 insert what is new from a job that runs alone, and
`SourceSelection` starts from what they collected. The informational commands and pages change
nothing. /pause and /resume set one flag that only keeps JOB-3 from starting. The
stories change no column.

## 8. Plan

1. The single-platform retries against `MediaContainer`, and the stories.
2. `PendingBound` composed with `SourceSelection`: the two guards of a generation in one module.
3. What JOB-7 counts and does not publish, when the row has moved on between its count and its lock.
