-------------------------- MODULE EditConversation --------------------------
(***************************************************************************)
(* Editing a caption.  Every approval message carries the caption of its   *)
(* post and the buttons that decide it; the row keeps the messages that    *)
(* were recorded.  An admin presses "Modifier la légende" and sends a text *)
(* within conversation_timeout: the bot takes the buttons off the recorded *)
(* messages, writes the caption and sends new messages.  The bot handles   *)
(* one update at a time; the timeout of a conversation and JOB-3 run       *)
(* beside it.  Telegram can refuse any call.                               *)
(*                                                                         *)
(* What becomes of the post itself is module PostLifecycle: here it is     *)
(* open, then closed.                                                      *)
(***************************************************************************)
EXTENDS Naturals, FiniteSets

CONSTANTS
    Posts,
    Admins,      \* authorized_user_ids; the chat of each is his own
    MaxEdits,    \* bound on the captions of a post
    MaxCrashes   \* bound on the crashes

ASSUME EditAssumption == MaxEdits \in Nat /\ MaxCrashes \in Nat

None == [none |-> TRUE]

VARIABLES
    status,    \* posts: absent, open (pending_approval) or closed
    caption,   \* posts: number of times the caption was edited
    ids,       \* telegram_message_ids, as the messages themselves
    live,      \* messages that show buttons
    open,      \* admins whose conversation waits for a caption
    timer,     \* admins whose conversation has its timeout scheduled
    chat,      \* chat_data: the message of pending_edit_message_id
    timeout,   \* handle_edit_timeout under way: the message it edits
    bot,       \* the handler, or recover_pending_posts, under way
    job3,      \* JOB-3 sending: the message and the admins left
    boot,      \* [nr, up, todo]: the start of the process
    \* history
    strays,    \* messages that Telegram would not edit, or never recorded
    silenced,  \* posts whose buttons were taken off without a decision or a caption
    raised     \* admins whose conversation was left open by an exception

rowVars  == <<status, caption, ids>>
convVars == <<open, timer, chat>>
histVars == <<strays, silenced, raised>>
vars == <<rowVars, live, convVars, timeout, bot, job3, boot, histVars>>

Idle == [at |-> "idle"]

Init ==
    /\ status = [p \in Posts |-> "absent"]
    /\ caption = [p \in Posts |-> 0]
    /\ ids = [p \in Posts |-> {}]
    /\ live = {} /\ open = {} /\ timer = {}
    /\ chat = [a \in Admins |-> None]
    /\ timeout = [a \in Admins |-> None]
    /\ bot = Idle /\ job3 = Idle
    /\ boot = [nr |-> 0, up |-> TRUE, todo |-> {}]
    /\ strays = {} /\ silenced = {} /\ raised = {}

\* The message about post p, with the caption it has now.
MessageTo(a, p) == [to |-> a, post |-> p, caption |-> caption[p], boot |-> boot.nr]

Ready == boot.up /\ bot = Idle

-----------------------------------------------------------------------------
(* A post is proposed, and decided.                                        *)

\* /force, and the replacement of a skipped post.
ForcePost(p) ==
    /\ Ready /\ status[p] = "absent"
    /\ status' = [status EXCEPT ![p] = "open"]
    /\ bot' = [at |-> "send", admins |-> {}, post |-> p]
    /\ UNCHANGED <<caption, ids, live, convVars, timeout, job3, boot, histVars>>

\* JOB-3: the text is made once.
Propose(p) ==
    /\ boot.up /\ job3 = Idle /\ status[p] = "absent"
    /\ status' = [status EXCEPT ![p] = "open"]
    /\ job3' = [at |-> "send", post |-> p, left |-> Admins]
    /\ UNCHANGED <<caption, ids, live, convVars, timeout, bot, boot, histVars>>

\* What it sends is not recorded: its post is detached.
Job3Sends(a) ==
    /\ job3 # Idle /\ a \in job3.left
    /\ LET m == [to |-> a, post |-> job3.post, caption |-> 0, boot |-> boot.nr]
       IN  \/ live' = live \cup {m} /\ strays' = strays \cup {m}
           \/ UNCHANGED <<live, strays>>
    /\ job3' = IF job3.left = {a} THEN Idle ELSE [job3 EXCEPT !.left = @ \ {a}]
    /\ UNCHANGED <<rowVars, convVars, timeout, bot, boot, silenced, raised>>

\* An answer that decides the post, or JOB-4; some of its buttons go.
Close(p) ==
    /\ boot.up /\ status[p] = "open"
    /\ status' = [status EXCEPT ![p] = "closed"]
    /\ \E gone \in SUBSET ids[p] : live' = live \ gone
    /\ strays' = strays \cap live'
    /\ UNCHANGED <<caption, ids, convVars, timeout, bot, job3, boot, silenced, raised>>

\* "Mettre en file" when the queue is full (the queue is module PostLifecycle): the
\* message becomes a text without buttons and the post stays open.  The edit is
\* best effort; on a photo Telegram always refuses it, and nothing happens.
QueueFull(a, m) ==
    /\ Ready /\ m \in live /\ m.to = a /\ status[m.post] = "open"
    /\ live' = live \ {m}
    /\ strays' = strays \cap live'
    /\ silenced' = silenced \cup {m.post}
    /\ UNCHANGED <<rowVars, convVars, timeout, bot, job3, boot, raised>>

-----------------------------------------------------------------------------
(* The conversation.                                                       *)

\* Mutation: the conversation has no timeout.
HandleEditUntimed(a, m) ==
    /\ Ready /\ a \notin open /\ m \in live /\ m.to = a
    /\ chat' = [chat EXCEPT ![a] = m]
    /\ open' = open \cup {a} /\ timer' = timer \ {a}
    /\ raised' = raised \ {a}
    /\ UNCHANGED <<rowVars, live, timeout, bot, job3, boot, strays, silenced>>

\* Mutation: the data of the conversations is shared.
HandleEditShared(a, m) ==
    /\ Ready /\ a \notin open /\ m \in live /\ m.to = a
    /\ chat' = [x \in Admins |-> m]
    /\ open' = open \cup {a} /\ timer' = timer \cup {a}
    /\ raised' = raised \ {a}
    /\ UNCHANGED <<rowVars, live, timeout, bot, job3, boot, strays, silenced>>

\* handle_edit.  ConversationHandler takes an entry point only when the user is
\* in no conversation, and takes off the timeout before the handler runs.  When
\* the question cannot be sent the conversation does not begin.
HandleEdit(a, m) ==
    /\ Ready /\ a \notin open /\ m \in live /\ m.to = a
    /\ chat' = [chat EXCEPT ![a] = m]
    /\ \/ open' = open \cup {a} /\ timer' = timer \cup {a}
       \/ timer' = timer \ {a} /\ UNCHANGED open
    /\ raised' = raised \ {a}
    /\ UNCHANGED <<rowVars, live, timeout, bot, job3, boot, strays, silenced>>

\* A text: chat_data, then the row.
NewCaption(a) ==
    /\ Ready /\ a \in open
    /\ timer' = timer \ {a}
    /\ IF chat[a] = None
       THEN open' = open \ {a} /\ raised' = raised \ {a} /\ UNCHANGED bot
       ELSE LET p == chat[a].post
            IN  /\ caption[p] < MaxEdits
                /\ bot' = [at |-> "strip", admins |-> {a}, post |-> p]
                /\ UNCHANGED <<open, raised>>
    /\ UNCHANGED <<rowVars, live, chat, timeout, job3, boot, strays, silenced>>

\* Mutation: the buttons of the editor only.
StripOwn ==
    /\ bot.at = "strip"
    /\ \E gone \in SUBSET {m \in ids[bot.post] : m.to \in bot.admins} :
          /\ live' = live \ gone
          /\ strays' = (strays \cup {m \in ids[bot.post] : m.to \in bot.admins}) \cap live'
    /\ bot' = [bot EXCEPT !.at = "write"]
    /\ UNCHANGED <<rowVars, convVars, timeout, job3, boot, silenced, raised>>

\* edit_message_reply_markup, best effort, on every recorded message.
Strip ==
    /\ bot.at = "strip"
    /\ \E gone \in SUBSET ids[bot.post] :
          /\ live' = live \ gone
          /\ strays' = (strays \cup ids[bot.post]) \cap live'
    /\ bot' = [bot EXCEPT !.at = "write"]
    /\ UNCHANGED <<rowVars, convVars, timeout, job3, boot, silenced, raised>>

\* Mutation: the recorded messages stay in the row until the new ones are sent.
WriteKeepsIds ==
    /\ bot.at = "write"
    /\ caption' = [caption EXCEPT ![bot.post] = @ + 1]
    /\ silenced' = silenced \ {bot.post}
    /\ bot' = [bot EXCEPT !.at = "send"]
    /\ UNCHANGED <<status, ids, live, convVars, timeout, job3, boot, strays, raised>>

\* The caption and telegram_message_ids = {}, whatever the status.
Write ==
    /\ bot.at = "write"
    /\ caption' = [caption EXCEPT ![bot.post] = @ + 1]
    /\ ids' = [ids EXCEPT ![bot.post] = {}]
    /\ silenced' = silenced \ {bot.post}
    /\ bot' = [bot EXCEPT !.at = "send"]
    /\ UNCHANGED <<status, live, convVars, timeout, job3, boot, strays, raised>>

\* send_approval_request: to every admin, best effort.
Send ==
    /\ bot.at = "send"
    /\ \E reached \in SUBSET Admins :
          LET got == {MessageTo(a, bot.post) : a \in reached}
          IN  /\ live' = live \cup got
              /\ bot' = [at |-> "record", admins |-> bot.admins, post |-> bot.post, got |-> got]
    /\ UNCHANGED <<rowVars, convVars, timeout, job3, boot, histVars>>

\* Its commit; an edit ends there and clears chat_data.
Record ==
    /\ bot.at = "record"
    /\ ids' = [ids EXCEPT ![bot.post] = bot.got]
    /\ open' = open \ bot.admins /\ raised' = raised \ bot.admins
    /\ chat' = [a \in Admins |-> IF a \in bot.admins THEN None ELSE chat[a]]
    /\ bot' = Idle
    /\ UNCHANGED <<status, caption, live, timer, timeout, job3, boot, strays, silenced>>

\* The messages that a handler leaves unrecorded when it is cut off, and the
\* post whose buttons it has taken off and whose row it has not written.
Unrecorded == IF bot.at = "record" THEN bot.got ELSE {}
HalfStripped == IF bot.at = "write" THEN {bot.post} ELSE {}

\* A statement raises: the conversation stays where it was, without a timeout.
Raise ==
    /\ boot.up /\ bot.at \in {"strip", "write", "record"}
    /\ bot' = Idle
    /\ strays' = strays \cup Unrecorded
    /\ silenced' = silenced \cup HalfStripped
    /\ raised' = raised \cup bot.admins
    /\ UNCHANGED <<rowVars, live, convVars, timeout, job3, boot>>

\* /cancel keeps chat_data; when the answer cannot be sent the conversation stays.
CancelEdit(a) ==
    /\ Ready /\ a \in open
    /\ timer' = timer \ {a}
    /\ \/ open' = open \ {a} /\ raised' = raised \ {a}
       \/ raised' = raised \cup {a} /\ UNCHANGED open
    /\ UNCHANGED <<rowVars, live, chat, timeout, bot, job3, boot, strays, silenced>>

\* handle_edit_timeout: chat_data is cleared before the call.
TimeoutStart(a) ==
    /\ a \in timer /\ timeout[a] = None
    /\ timer' = timer \ {a}
    /\ IF chat[a] = None
       THEN open' = open \ {a} /\ UNCHANGED <<chat, timeout>>
       ELSE /\ timeout' = [timeout EXCEPT ![a] = chat[a]]
            /\ chat' = [chat EXCEPT ![a] = None]
            /\ UNCHANGED open
    /\ UNCHANGED <<rowVars, live, bot, job3, boot, histVars>>

\* Telegram takes the buttons off with the edit, or refuses it; the conversation,
\* if it has not ended by then, ends.
TimeoutEnd(a) ==
    /\ timeout[a] # None
    /\ \/ /\ live' = live \ {timeout[a]}
          /\ silenced' = silenced \cup {timeout[a].post}
       \/ UNCHANGED <<live, silenced>>
    /\ strays' = strays \cap live'
    /\ open' = open \ {a} /\ raised' = raised \ {a}
    /\ timeout' = [timeout EXCEPT ![a] = None]
    /\ UNCHANGED <<rowVars, timer, chat, bot, job3, boot>>

-----------------------------------------------------------------------------
(* A restart forgets the conversations and asks again for the posts without *)
(* a recorded message, before the bot listens.                              *)

Crash ==
    /\ boot.nr < MaxCrashes
    /\ boot' = [nr |-> boot.nr + 1, up |-> FALSE,
                todo |-> {p \in Posts : status[p] = "open" /\ ids[p] = {}}]
    /\ open' = {} /\ timer' = {}
    /\ chat' = [a \in Admins |-> None] /\ timeout' = [a \in Admins |-> None]
    /\ bot' = Idle /\ job3' = Idle
    /\ strays' = strays \cup Unrecorded
    /\ silenced' = silenced \cup HalfStripped
    /\ raised' = {}
    /\ UNCHANGED <<rowVars, live>>

Resend(p) ==
    /\ ~boot.up /\ bot = Idle /\ p \in boot.todo
    /\ boot' = [boot EXCEPT !.todo = @ \ {p}]
    /\ bot' = [at |-> "send", admins |-> {}, post |-> p]
    /\ UNCHANGED <<rowVars, live, convVars, timeout, job3, histVars>>

Listen ==
    /\ ~boot.up /\ bot = Idle /\ boot.todo = {}
    /\ boot' = [boot EXCEPT !.up = TRUE]
    /\ UNCHANGED <<rowVars, live, convVars, timeout, bot, job3, histVars>>

-----------------------------------------------------------------------------
Bot == Strip \/ Write \/ Send \/ Record \/ Raise

Next ==
    \/ \E p \in Posts : ForcePost(p) \/ Propose(p) \/ Close(p) \/ Resend(p)
    \/ \E a \in Admins : \E m \in live : HandleEdit(a, m) \/ QueueFull(a, m)
    \/ \E a \in Admins :
          NewCaption(a) \/ CancelEdit(a) \/ TimeoutStart(a) \/ TimeoutEnd(a) \/ Job3Sends(a)
    \/ Bot \/ Crash \/ Listen

Spec == Init /\ [][Next]_vars

-----------------------------------------------------------------------------
(* Properties.                                                             *)

Message == [to : Admins, post : Posts, caption : 0..MaxEdits, boot : 0..MaxCrashes]

\* The type invariant, and whose messages a row, a chat and a timeout hold.
TypeOK ==
    /\ status \in [Posts -> {"absent", "open", "closed"}]
    /\ caption \in [Posts -> 0..MaxEdits]
    /\ ids \in [Posts -> SUBSET Message]
    /\ \A p \in Posts : \A m \in ids[p] : m.post = p
    /\ live \subseteq Message /\ strays \subseteq Message
    /\ open \subseteq Admins /\ timer \subseteq Admins /\ raised \subseteq Admins
    /\ \A a \in Admins : \A m \in {chat[a], timeout[a]} \ {None} : m \in Message /\ m.to = a
    /\ bot.at \in {"idle", "strip", "write", "send", "record"}
    /\ bot # Idle => bot.post \in Posts /\ bot.admins \subseteq Admins
    /\ job3.at \in {"idle", "send"}
    /\ boot.nr \in 0..MaxCrashes /\ boot.todo \subseteq Posts
    /\ silenced \subseteq Posts

\* Buttons stand under the caption that they would publish: an old caption keeps
\* its buttons only on a message that Telegram would not edit or that was never
\* recorded (handle_new_caption, send_approval_request).
AsShown ==
    \A m \in live : m.caption # caption[m.post] => m \in strays

\* An open post that counts as sent, so that no restart sends it again, has
\* buttons with some admin.  An edit takes them all away only between two
\* statements; for good, they go in three ways: the timeout of an edit, an exception
\* or a crash between the buttons and the row, and an answer that a full queue
\* refuses (handle_new_caption, handle_edit_timeout, handle_queue_it,
\* recover_pending_posts).
Answerable ==
    \A p \in Posts :
        status[p] = "open" /\ ids[p] # {} =>
            \/ \E m \in live : m.post = p
            \/ p \in HalfStripped
            \/ p \in silenced

\* A conversation that waits for a caption has something that will end it: its
\* timeout, scheduled or under way, or the handler of its text.  Only an exception
\* leaves it without one, and no conversation takes another's timeout away
\* (edit_conv_handler).
EditTimed ==
    \A a \in open :
        \/ a \in timer
        \/ timeout[a] # None
        \/ bot # Idle /\ a \in bot.admins
        \/ a \in raised
=============================================================================
