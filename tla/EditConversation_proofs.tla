----------------------- MODULE EditConversation_proofs -----------------------
(***************************************************************************)
(* Editing a caption, for any posts, admins, numbers of edits and crashes: *)
(* the types, the buttons under the right caption, an admin who can still  *)
(* answer, and the conversations that end.                                 *)
(***************************************************************************)
EXTENDS EditConversation, TLAPS

-----------------------------------------------------------------------------
(* The invariant.                                                          *)

Editing   == {"strip", "write"}
Messaging == {"send", "record"}

\* What the handler, JOB-3 and the start of the process carry.
Edits    == [at : {"strip", "write", "send"}, admins : SUBSET Admins, post : Posts]
Sendings == [at : {"record"}, admins : SUBSET Admins, post : Posts, got : SUBSET Message]

ShapesInv ==
    /\ bot = Idle \/ bot \in Edits \cup Sendings
    /\ job3 = Idle \/ job3 \in [at : {"send"}, post : Posts, left : SUBSET Admins]
    /\ boot \in [nr : 0..MaxCrashes, up : BOOLEAN, todo : SUBSET Posts]
    /\ chat \in [Admins -> Message \cup {None}] /\ timeout \in [Admins -> Message \cup {None}]

\* Whatever is at hand is about a post that was proposed.
TouchedInv ==
    /\ \A m \in live : status[m.post] # "absent"
    /\ \A a \in Admins : chat[a] # None => status[chat[a].post] # "absent"
    /\ bot # Idle => status[bot.post] # "absent"
    /\ job3 # Idle => status[job3.post] # "absent"
    /\ \A p \in boot.todo : status[p] # "absent"

\* The rows that a handler or a start of the process works on: new messages are
\* only sent for a row that records none, one post at a time.
RowsInv ==
    /\ bot.at \in Editing => boot.up /\ caption[bot.post] < MaxEdits
    /\ bot.at \in Messaging => ids[bot.post] = {}
    /\ bot.at = "record" => \A m \in bot.got : m.post = bot.post
    /\ \A p \in Posts : status[p] = "absent" => ids[p] = {}
    /\ ~boot.up => \A p \in boot.todo : ids[p] = {} /\ (bot # Idle => bot.post # p)

\* A message with buttons that is no stray is recorded, or about to be, and
\* carries the caption of the row; once the buttons are off, none is left.
ButtonsInv ==
    /\ \A m \in live \ strays :
          m.caption = caption[m.post] /\ m \in ids[m.post] \cup Unrecorded
    /\ bot.at = "write" => \A m \in live : m.post = bot.post => m \in strays

\* A post that counts as sent, or is about to.
Sent(p) == ids[p] # {} \/ \E m \in Unrecorded : m.post = p

AnswerInv ==
    \A p \in Posts : status[p] = "open" /\ Sent(p) =>
        (\E m \in live : m.post = p) \/ p \in HalfStripped \/ p \in silenced

EditInv == ShapesInv /\ TouchedInv /\ RowsInv /\ ButtonsInv /\ AnswerInv

\* What there is of the bot, by the step it is at.
LEMMA Carried ==
  ASSUME ShapesInv
  PROVE  /\ bot.at \in {"idle", "strip", "write", "send", "record"}
         /\ bot.at = "idle" <=> bot = Idle
         /\ bot.at \in Editing \cup {"send"} => bot \in Edits
         /\ bot.at = "record" => bot \in Sendings
         /\ bot # Idle => bot.post \in Posts /\ bot.admins \subseteq Admins
         /\ Unrecorded \subseteq Message /\ HalfStripped \subseteq Posts
BY DEF ShapesInv, Idle, Edits, Sendings, Editing, Unrecorded, HalfStripped

\* A new message is one.
LEMMA NewMessage ==
  ASSUME TypeOK, ShapesInv, NEW a \in Admins, NEW p \in Posts
  PROVE  MessageTo(a, p) \in Message /\ MessageTo(a, p).post = p
                                     /\ MessageTo(a, p).caption = caption[p]
BY DEF TypeOK, ShapesInv, MessageTo, Message

\* A handler begins: /force, a text, or recovery.
LEMMA Begins ==
  ASSUME NEW s \in {"strip", "write", "send"}, NEW S \in SUBSET Admins, NEW p \in Posts
  PROVE  LET t == [at |-> s, admins |-> S, post |-> p]
         IN  t \in Edits /\ t.at = s /\ t.admins = S /\ t.post = p /\ t # Idle
BY DEF Edits, Idle

\* It goes to its next step.
LEMMA GoesOn ==
  ASSUME bot \in Edits, NEW s \in {"write", "send"}
  PROVE  LET t == [bot EXCEPT !.at = s]
         IN  t \in Edits /\ t.at = s /\ t.admins = bot.admins /\ t.post = bot.post /\ t # Idle
BY DEF Edits, Idle

LEMMA InitEdit == Init => TypeOK /\ EditInv /\ EditTimed
BY EditAssumption DEF Init, TypeOK, EditInv, EditTimed, ShapesInv, TouchedInv, RowsInv, ButtonsInv, AnswerInv,
                      Message, Idle, Editing, Messaging, Sent, Unrecorded, HalfStripped

-----------------------------------------------------------------------------
(* Types, and what the actors carry.                                       *)

LEMMA NextTyped == TypeOK /\ EditInv /\ [Next]_vars => TypeOK' /\ ShapesInv'
<1> SUFFICES ASSUME TypeOK, EditInv, [Next]_vars PROVE TypeOK' /\ ShapesInv'
  OBVIOUS
<1> USE EditAssumption DEF rowVars, convVars, histVars
<1>0. ShapesInv /\ RowsInv
  BY DEF EditInv
<1>1. ASSUME NEW p \in Posts, ForcePost(p) PROVE TypeOK' /\ ShapesInv'
  <2>1. bot' \in Edits /\ bot'.at = "send" /\ bot'.post \in Posts /\ bot'.admins \subseteq Admins
    BY <1>1, Begins DEF ForcePost
  <2> QED
    BY <1>0, <1>1, <2>1 DEF TypeOK, ShapesInv, ForcePost, Message
<1>2. ASSUME NEW p \in Posts, Propose(p) PROVE TypeOK' /\ ShapesInv'
  BY <1>0, <1>2 DEF TypeOK, ShapesInv, Propose, Message
<1>3. ASSUME NEW p \in Posts, Close(p) PROVE TypeOK' /\ ShapesInv'
  BY <1>0, <1>3 DEF TypeOK, ShapesInv, Close, Message
<1>4. ASSUME NEW p \in Posts, Resend(p) PROVE TypeOK' /\ ShapesInv'
  <2>1. bot' \in Edits /\ bot'.at = "send" /\ bot'.post \in Posts /\ bot'.admins \subseteq Admins
    BY <1>4, Begins DEF Resend
  <2> QED
    BY <1>0, <1>4, <2>1 DEF TypeOK, ShapesInv, Resend, Message
<1>5. ASSUME NEW a \in Admins, NEW m \in live, HandleEdit(a, m) PROVE TypeOK' /\ ShapesInv'
  <2>1. m \in Message /\ m.to = a
    BY <1>5 DEF HandleEdit, TypeOK
  <2> QED
    BY <1>0, <1>5, <2>1 DEF TypeOK, ShapesInv, HandleEdit, Message
<1>6. ASSUME NEW a \in Admins, NewCaption(a) PROVE TypeOK' /\ ShapesInv'
  <2>1. CASE chat[a] = None
    BY <1>0, <1>6, <2>1 DEF TypeOK, ShapesInv, NewCaption, Message
  <2>2. CASE chat[a] # None
    <3>1. chat[a].post \in Posts
      BY <2>2 DEF TypeOK, Message
    <3>2. bot' = [at |-> "strip", admins |-> {a}, post |-> chat[a].post]
      BY <1>6, <2>2 DEF NewCaption
    <3>3. bot' \in Edits /\ bot'.at = "strip" /\ bot'.post \in Posts /\ bot'.admins \subseteq Admins
      BY <3>1, <3>2, Begins
    <3> QED
      BY <1>0, <1>6, <2>2, <3>3 DEF TypeOK, ShapesInv, NewCaption, Message
  <2> QED
    BY <2>1, <2>2
<1>7. ASSUME NEW a \in Admins, CancelEdit(a) PROVE TypeOK' /\ ShapesInv'
  BY <1>0, <1>7 DEF TypeOK, ShapesInv, CancelEdit, Message
<1>8. ASSUME NEW a \in Admins, TimeoutStart(a) PROVE TypeOK' /\ ShapesInv'
  <2>1. CASE chat[a] = None
    BY <1>0, <1>8, <2>1 DEF TypeOK, ShapesInv, TimeoutStart, Message
  <2>2. CASE chat[a] # None
    BY <1>0, <1>8, <2>2 DEF TypeOK, ShapesInv, TimeoutStart, Message
  <2> QED
    BY <2>1, <2>2
<1>9. ASSUME NEW a \in Admins, TimeoutEnd(a) PROVE TypeOK' /\ ShapesInv'
  <2>1. timeout[a] \in Message /\ timeout[a].post \in Posts
    BY <1>9 DEF TimeoutEnd, TypeOK, Message
  <2> QED
    BY <1>0, <1>9, <2>1 DEF TypeOK, ShapesInv, TimeoutEnd, Message
<1>10. ASSUME NEW a \in Admins, Job3Sends(a) PROVE TypeOK' /\ ShapesInv'
  <2>1. /\ job3 \in [at : {"send"}, post : Posts, left : SUBSET Admins]
        /\ [to |-> a, post |-> job3.post, caption |-> 0, boot |-> boot.nr] \in Message
    BY <1>0, <1>10 DEF Job3Sends, ShapesInv, Message
  <2>2. live' \subseteq Message /\ strays' \subseteq Message
    BY <1>10, <2>1 DEF Job3Sends, TypeOK
  <2>3. job3' = Idle \/ job3' \in [at : {"send"}, post : Posts, left : SUBSET Admins]
    BY <1>10, <2>1 DEF Job3Sends
  <2>4. job3'.at \in {"idle", "send"}
    BY <2>3 DEF Idle
  <2> QED
    BY <1>0, <1>10, <2>2, <2>3, <2>4 DEF TypeOK, ShapesInv, Job3Sends, Message
<1>11. CASE Strip
  <2>1. bot' \in Edits /\ bot'.at = "write" /\ bot'.post \in Posts /\ bot'.admins \subseteq Admins
    BY <1>0, <1>11, Carried, GoesOn DEF Strip, Editing
  <2> QED
    BY <1>0, <1>11, <2>1 DEF TypeOK, ShapesInv, Strip, Message
<1>12. CASE Write
  <2>1. bot' \in Edits /\ bot'.at = "send" /\ bot'.post \in Posts /\ bot'.admins \subseteq Admins
    BY <1>0, <1>12, Carried, GoesOn DEF Write, Editing
  <2>2. bot.post \in Posts /\ caption[bot.post] < MaxEdits
    BY <1>0, <1>12, Carried DEF Write, RowsInv, Editing
  <2>3. caption' \in [Posts -> 0..MaxEdits]
    BY <1>12, <2>2 DEF Write, TypeOK
  <2> QED
    BY <1>0, <1>12, <2>1, <2>2, <2>3 DEF TypeOK, ShapesInv, Write, Message
<1>13. CASE Send
  <2>1. PICK reached \in SUBSET Admins :
          LET got == {MessageTo(a, bot.post) : a \in reached}
          IN  /\ live' = live \cup got
              /\ bot' = [at |-> "record", admins |-> bot.admins, post |-> bot.post, got |-> got]
    BY <1>13 DEF Send
  <2> DEFINE got == {MessageTo(a, bot.post) : a \in reached}
  <2>2. bot.post \in Posts /\ bot.admins \subseteq Admins
    BY <1>0, <1>13, Carried DEF Send
  <2>3. got \subseteq Message
    BY <1>0, <2>2, NewMessage
  <2> HIDE DEF got
  <2>4. /\ bot' \in Sendings /\ bot'.at = "record" /\ bot'.post \in Posts /\ bot'.admins \subseteq Admins
    BY <2>1, <2>2, <2>3 DEF Sendings, got
  <2>5. live' \subseteq Message
    BY <2>1, <2>3 DEF TypeOK, got
  <2> QED
    BY <1>0, <1>13, <2>4, <2>5 DEF TypeOK, ShapesInv, Send, Message
<1>14. CASE Record
  <2>1. bot \in Sendings /\ bot.post \in Posts /\ bot.got \subseteq Message /\ \A m \in bot.got : m.post = bot.post
    BY <1>0, <1>14, Carried DEF Record, RowsInv, Sendings
  <2>2. bot' = Idle /\ bot'.at = "idle"
    BY <1>14 DEF Record, Idle
  <2>3. ids' \in [Posts -> SUBSET Message] /\ \A p \in Posts : \A m \in ids'[p] : m.post = p
    BY <1>14, <2>1 DEF Record, TypeOK
  <2>4. /\ chat' \in [Admins -> Message \cup {None}]
        /\ \A a \in Admins : chat'[a] = None \/ chat'[a] = chat[a]
    BY <1>0, <1>14 DEF Record, ShapesInv
  <2> QED
    BY <1>0, <1>14, <2>2, <2>3, <2>4 DEF TypeOK, ShapesInv, Record
<1>15. CASE Raise
  <2>1. bot' = Idle /\ bot'.at = "idle" /\ strays' \subseteq Message /\ silenced' \subseteq Posts
        /\ raised' \subseteq Admins
    BY <1>0, <1>15, Carried DEF Raise, Idle, TypeOK
  <2> QED
    BY <1>0, <1>15, <2>1 DEF TypeOK, ShapesInv, Raise
<1>16. CASE Crash
  <2>1. bot' = Idle /\ bot'.at = "idle" /\ strays' \subseteq Message /\ silenced' \subseteq Posts
    BY <1>0, <1>16, Carried DEF Crash, Idle, TypeOK
  <2>2. boot' \in [nr : 0..MaxCrashes, up : BOOLEAN, todo : SUBSET Posts]
    BY <1>0, <1>16 DEF Crash, ShapesInv
  <2>3. job3' = Idle /\ job3'.at = "idle"
    BY <1>16 DEF Crash, Idle
  <2> QED
    BY <1>0, <1>16, <2>1, <2>2, <2>3 DEF TypeOK, ShapesInv, Crash
<1>17. CASE Listen
  BY <1>0, <1>17 DEF TypeOK, ShapesInv, Listen
<1>18. ASSUME NEW a \in Admins, NEW m \in live, QueueFull(a, m) PROVE TypeOK' /\ ShapesInv'
  <2>1. m.post \in Posts
    BY DEF TypeOK, Message
  <2> QED
    BY <1>0, <1>18, <2>1 DEF TypeOK, ShapesInv, QueueFull, Message
<1>19. CASE UNCHANGED vars
  BY <1>0, <1>19 DEF TypeOK, ShapesInv, vars
<1> QED
  BY <1>1, <1>2, <1>3, <1>4, <1>5, <1>6, <1>7, <1>8, <1>9, <1>10, <1>11, <1>12, <1>13, <1>14,
     <1>15, <1>16, <1>17, <1>18, <1>19 DEF Next, Bot

-----------------------------------------------------------------------------
(* The rows under work.                                                    *)

\* Every post at hand was proposed, and a proposal is never undone.
LEMMA NextTouched == TypeOK /\ EditInv /\ [Next]_vars => TouchedInv'
<1> SUFFICES ASSUME TypeOK, EditInv, [Next]_vars PROVE TouchedInv'
  OBVIOUS
<1> USE DEF rowVars, convVars, histVars
<1>0. ShapesInv /\ TouchedInv /\ RowsInv /\ status \in [Posts -> {"absent", "open", "closed"}]
      /\ live \subseteq Message /\ (bot # Idle => bot.post \in Posts)
      /\ (job3 # Idle => job3.post \in Posts) /\ boot.todo \subseteq Posts
      /\ \A a \in Admins : chat[a] # None => chat[a].post \in Posts
  BY DEF EditInv, TypeOK, ShapesInv, Message
<1>a. ASSUME UNCHANGED <<live, chat, bot, job3, boot>>, UNCHANGED status
      PROVE  TouchedInv'
  BY <1>0, <1>a DEF TouchedInv
<1>1. ASSUME NEW p \in Posts, ForcePost(p) PROVE TouchedInv'
  <2>1. bot'.post = p /\ \A x \in Posts : status[x] # "absent" \/ x = p => status'[x] # "absent"
    BY <1>0, <1>1, Begins DEF ForcePost
  <2> QED
    BY <1>0, <1>1, <2>1 DEF TouchedInv, ForcePost, Message
<1>2. ASSUME NEW p \in Posts, Propose(p) PROVE TouchedInv'
  <2>1. job3'.post = p /\ \A x \in Posts : status[x] # "absent" \/ x = p => status'[x] # "absent"
    BY <1>0, <1>2 DEF Propose
  <2> QED
    BY <1>0, <1>2, <2>1 DEF TouchedInv, Propose, Message
<1>3. ASSUME NEW p \in Posts, Close(p) PROVE TouchedInv'
  <2>1. live' \subseteq live /\ \A x \in Posts : status[x] # "absent" => status'[x] # "absent"
    BY <1>0, <1>3 DEF Close
  <2> QED
    BY <1>0, <1>3, <2>1 DEF TouchedInv, Close, Message
<1>4. ASSUME NEW p \in Posts, Resend(p) PROVE TouchedInv'
  <2>1. bot'.post = p /\ boot'.todo \subseteq boot.todo /\ p \in boot.todo
    BY <1>0, <1>4, Begins DEF Resend, ShapesInv
  <2> QED
    BY <1>0, <1>4, <2>1 DEF TouchedInv, Resend
<1>5. ASSUME NEW a \in Admins, NEW m \in live, HandleEdit(a, m) PROVE TouchedInv'
  BY <1>0, <1>5 DEF TouchedInv, HandleEdit, ShapesInv
<1>6. ASSUME NEW a \in Admins, NewCaption(a) PROVE TouchedInv'
  <2>1. CASE chat[a] = None
    BY <1>0, <1>6, <2>1, <1>a DEF NewCaption
  <2>2. CASE chat[a] # None
    <3>1. bot'.post = chat[a].post
      BY <1>6, <2>2 DEF NewCaption
    <3> QED
      BY <1>0, <1>6, <2>2, <3>1 DEF TouchedInv, NewCaption
  <2> QED
    BY <2>1, <2>2
<1>7. ASSUME NEW a \in Admins, CancelEdit(a) PROVE TouchedInv'
  BY <1>7, <1>a DEF CancelEdit
<1>8. ASSUME NEW a \in Admins, TimeoutStart(a) PROVE TouchedInv'
  <2>1. \A x \in Admins : chat'[x] = chat[x] \/ chat'[x] = None
    BY <1>0, <1>8 DEF TimeoutStart, ShapesInv
  <2> QED
    BY <1>0, <1>8, <2>1 DEF TouchedInv, TimeoutStart
<1>9. ASSUME NEW a \in Admins, TimeoutEnd(a) PROVE TouchedInv'
  BY <1>0, <1>9 DEF TouchedInv, TimeoutEnd
<1>10. ASSUME NEW a \in Admins, Job3Sends(a) PROVE TouchedInv'
  <2>1. PICK m : m.post = job3.post /\ live' \subseteq live \cup {m}
    BY <1>10 DEF Job3Sends
  <2>2. job3' # Idle => job3'.post = job3.post
    BY <1>0, <1>10 DEF Job3Sends, ShapesInv
  <2> QED
    BY <1>0, <1>10, <2>1, <2>2 DEF TouchedInv, Job3Sends
<1>11. CASE Strip
  <2>1. bot'.post = bot.post /\ bot # Idle
    BY <1>0, <1>11, Carried, GoesOn DEF Strip, Editing
  <2> QED
    BY <1>0, <1>11, <2>1 DEF TouchedInv, Strip
<1>12. CASE Write
  <2>1. bot'.post = bot.post /\ bot # Idle
    BY <1>0, <1>12, Carried, GoesOn DEF Write, Editing
  <2> QED
    BY <1>0, <1>12, <2>1 DEF TouchedInv, Write
<1>13. CASE Send
  <2>1. PICK reached \in SUBSET Admins :
          LET got == {MessageTo(a, bot.post) : a \in reached}
          IN  /\ live' = live \cup got
              /\ bot' = [at |-> "record", admins |-> bot.admins, post |-> bot.post, got |-> got]
    BY <1>13 DEF Send
  <2>2. bot'.post = bot.post /\ bot # Idle /\ \A m \in live' : m \in live \/ m.post = bot.post
    BY <1>0, <1>13, <2>1, Carried DEF Send, MessageTo
  <2> QED
    BY <1>0, <1>13, <2>2 DEF TouchedInv, Send
<1>14. CASE Record
  <2>1. \A a \in Admins : chat'[a] = None \/ chat'[a] = chat[a]
    BY <1>0, <1>14 DEF Record
  <2> QED
    BY <1>0, <1>14, <2>1 DEF TouchedInv, Record
<1>15. CASE Raise
  BY <1>0, <1>15 DEF TouchedInv, Raise
<1>16. CASE Crash
  <2>1. boot'.todo = {p \in Posts : status[p] = "open" /\ ids[p] = {}}
        /\ \A a \in Admins : chat'[a] = None
    BY <1>16 DEF Crash
  <2> QED
    BY <1>0, <1>16, <2>1 DEF TouchedInv, Crash
<1>17. CASE Listen
  <2>1. boot'.todo = boot.todo
    BY <1>0, <1>17 DEF Listen, ShapesInv
  <2> QED
    BY <1>0, <1>17, <2>1 DEF TouchedInv, Listen
<1>18. ASSUME NEW a \in Admins, NEW m \in live, QueueFull(a, m) PROVE TouchedInv'
  BY <1>0, <1>18 DEF TouchedInv, QueueFull
<1>19. CASE UNCHANGED vars
  BY <1>19, <1>a DEF vars
<1> QED
  BY <1>1, <1>2, <1>3, <1>4, <1>5, <1>6, <1>7, <1>8, <1>9, <1>10, <1>11, <1>12, <1>13, <1>14,
     <1>15, <1>16, <1>17, <1>18, <1>19 DEF Next, Bot

\* Steps that leave the rows, the handler and the start of the process alone.
LEMMA RowsKept ==
  ASSUME RowsInv, UNCHANGED <<status, caption, ids, bot, boot>>
  PROVE  RowsInv'
BY DEF RowsInv

LEMMA NextRows == TypeOK /\ EditInv /\ [Next]_vars => RowsInv'
<1> SUFFICES ASSUME TypeOK, EditInv, [Next]_vars PROVE RowsInv'
  OBVIOUS
<1> USE DEF rowVars, convVars, histVars, Editing, Messaging
<1>0. ShapesInv /\ RowsInv
  BY DEF EditInv
<1>1. ASSUME NEW p \in Posts, ForcePost(p) PROVE RowsInv'
  <2>1. bot'.at = "send" /\ bot'.post = p /\ boot.up
    BY <1>1, Begins DEF ForcePost, Ready
  <2>2. ids[p] = {}
    BY <1>0, <1>1 DEF ForcePost, RowsInv
  <2> QED
    BY <1>0, <1>1, <2>1, <2>2 DEF RowsInv, ForcePost, TypeOK
<1>2. ASSUME NEW p \in Posts, Propose(p) \/ Close(p) PROVE RowsInv'
  <2>1. \A x \in Posts : status'[x] = "absent" => status[x] = "absent"
    BY <1>2 DEF Propose, Close, TypeOK
  <2> QED
    BY <1>0, <1>2, <2>1 DEF RowsInv, Propose, Close
<1>3. ASSUME NEW p \in Posts, Resend(p) PROVE RowsInv'
  <2>1. bot'.at = "send" /\ bot'.post = p /\ ids[p] = {}
    BY <1>0, <1>3, Begins DEF Resend, RowsInv
  <2>2. boot'.up = boot.up /\ boot'.todo = boot.todo \ {p}
    BY <1>0, <1>3 DEF Resend, ShapesInv
  <2> QED
    BY <1>0, <1>3, <2>1, <2>2 DEF RowsInv, Resend
<1>4. ASSUME NEW a \in Admins, NewCaption(a) PROVE RowsInv'
  <2>1. CASE chat[a] = None
    BY <1>0, <1>4, <2>1, RowsKept DEF NewCaption
  <2>2. CASE chat[a] # None
    <3>1. chat[a].post \in Posts /\ caption[chat[a].post] < MaxEdits /\ boot.up
      BY <1>4, <2>2 DEF TypeOK, Message, NewCaption, Ready
    <3>2. bot' = [at |-> "strip", admins |-> {a}, post |-> chat[a].post]
      BY <1>4, <2>2 DEF NewCaption
    <3>3. bot'.at = "strip" /\ bot'.post = chat[a].post
      BY <3>1, <3>2, Begins
    <3> QED
      BY <1>0, <1>4, <2>2, <3>1, <3>3 DEF RowsInv, NewCaption
  <2> QED
    BY <2>1, <2>2
<1>5. ASSUME NEW a \in Admins,
             CancelEdit(a) \/ TimeoutStart(a) \/ TimeoutEnd(a) \/ Job3Sends(a)
                \/ \E m \in live : HandleEdit(a, m) \/ QueueFull(a, m)
      PROVE  RowsInv'
  BY <1>0, <1>5, RowsKept
  DEF CancelEdit, TimeoutStart, TimeoutEnd, Job3Sends, HandleEdit, QueueFull
<1>6. CASE Strip
  <2>1. bot'.at = "write" /\ bot'.post = bot.post
    BY <1>0, <1>6, Carried, GoesOn DEF Strip
  <2> QED
    BY <1>0, <1>6, <2>1 DEF RowsInv, Strip
<1>7. CASE Write
  <2>1. bot'.at = "send" /\ bot'.post = bot.post /\ bot.post \in Posts /\ boot.up
    BY <1>0, <1>7, Carried, GoesOn DEF Write, RowsInv
  <2>2. \A p \in Posts : ids'[p] = IF p = bot.post THEN {} ELSE ids[p]
    BY <1>7, <2>1 DEF Write, TypeOK
  <2> QED
    BY <1>0, <1>7, <2>1, <2>2 DEF RowsInv, Write
<1>8. CASE Send
  <2>1. PICK reached \in SUBSET Admins :
          bot' = [at |-> "record", admins |-> bot.admins, post |-> bot.post,
                  got |-> {MessageTo(a, bot.post) : a \in reached}]
    BY <1>8 DEF Send
  <2>2. bot.post \in Posts /\ bot # Idle
    BY <1>0, <1>8, Carried DEF Send
  <2>3. bot'.at = "record" /\ bot'.post = bot.post /\ \A m \in bot'.got : m.post = bot.post
    BY <1>0, <2>1, <2>2, NewMessage
  <2> QED
    BY <1>0, <1>8, <2>2, <2>3 DEF RowsInv, Send
<1>9. CASE Record
  <2>1. bot.post \in Posts /\ bot # Idle /\ bot' = Idle /\ bot'.at = "idle"
    BY <1>0, <1>9, Carried DEF Record, Idle
  <2>2. \A p \in Posts \ {bot.post} : ids'[p] = ids[p]
    BY <1>9 DEF Record, TypeOK
  <2>3. status[bot.post] # "absent"
    BY <2>1 DEF EditInv, TouchedInv
  <2> QED
    BY <1>0, <1>9, <2>1, <2>2, <2>3 DEF RowsInv, Record
<1>10. CASE Raise
  <2>1. bot' = Idle /\ bot'.at = "idle"
    BY <1>10 DEF Raise, Idle
  <2> QED
    BY <1>0, <1>10, <2>1 DEF RowsInv, Raise
<1>11. CASE Crash
  <2>1. bot' = Idle /\ bot'.at = "idle" /\ boot'.todo = {p \in Posts : status[p] = "open" /\ ids[p] = {}}
    BY <1>11 DEF Crash, Idle
  <2> QED
    BY <1>0, <1>11, <2>1 DEF RowsInv, Crash
<1>12. CASE Listen
  <2>1. bot = Idle /\ bot.at = "idle" /\ boot'.up
    BY <1>0, <1>12 DEF Listen, Idle, ShapesInv
  <2> QED
    BY <1>0, <1>12, <2>1 DEF RowsInv, Listen
<1>13. CASE UNCHANGED vars
  BY <1>0, <1>13, RowsKept DEF vars
<1> QED
  BY <1>1, <1>2, <1>3, <1>4, <1>5, <1>6, <1>7, <1>8, <1>9, <1>10, <1>11, <1>12, <1>13 DEF Next, Bot

-----------------------------------------------------------------------------
(* The buttons.                                                            *)

\* Steps that write no caption, record nothing and add only strays.
LEMMA ButtonsKept ==
  ASSUME ButtonsInv, UNCHANGED <<caption, ids>>,
         \A m \in live' : m \in live \/ m \in strays',
         \A m \in live' : m \in strays => m \in strays',
         \A m \in Unrecorded : m \in Unrecorded' \/ m \in strays',
         bot'.at = "write" => bot' = bot
  PROVE  ButtonsInv'
BY DEF ButtonsInv

LEMMA NextButtons == TypeOK /\ EditInv /\ [Next]_vars => ButtonsInv'
<1> SUFFICES ASSUME TypeOK, EditInv, [Next]_vars PROVE ButtonsInv'
  OBVIOUS
<1> USE DEF rowVars, convVars, histVars
<1>0. ShapesInv /\ RowsInv /\ ButtonsInv
  BY DEF EditInv
<1>1. ASSUME NEW p \in Posts, ForcePost(p) \/ Resend(p) PROVE ButtonsInv'
  <2>1. bot'.at = "send" /\ bot.at = "idle"
    BY <1>1, Begins DEF ForcePost, Resend, Ready, Idle
  <2> QED
    BY <1>0, <1>1, <2>1, ButtonsKept DEF ForcePost, Resend, Unrecorded
<1>2. ASSUME NEW p \in Posts, Propose(p) PROVE ButtonsInv'
  BY <1>0, <1>2, ButtonsKept DEF Propose, Unrecorded
<1>3. ASSUME NEW p \in Posts, Close(p) PROVE ButtonsInv'
  BY <1>0, <1>3, ButtonsKept DEF Close, Unrecorded
<1>4. ASSUME NEW a \in Admins, NewCaption(a) PROVE ButtonsInv'
  <2>1. bot.at = "idle" /\ (bot' = bot \/ bot'.at = "strip")
    BY <1>4 DEF NewCaption, Ready, Idle
  <2> QED
    BY <1>0, <1>4, <2>1, ButtonsKept DEF NewCaption, Unrecorded
<1>5. ASSUME NEW a \in Admins,
             CancelEdit(a) \/ TimeoutStart(a) \/ TimeoutEnd(a)
                \/ \E m \in live : HandleEdit(a, m) \/ QueueFull(a, m)
      PROVE  ButtonsInv'
  BY <1>0, <1>5, ButtonsKept
  DEF CancelEdit, TimeoutStart, TimeoutEnd, HandleEdit, QueueFull, Unrecorded
<1>6. ASSUME NEW a \in Admins, Job3Sends(a) PROVE ButtonsInv'
  <2>1. \E m : \/ live' = live \cup {m} /\ strays' = strays \cup {m}
               \/ UNCHANGED <<live, strays>>
    BY <1>6 DEF Job3Sends
  <2> QED
    BY <1>0, <1>6, <2>1, ButtonsKept DEF Job3Sends, Unrecorded
\* What is about the post and not recorded is a stray; so is what stays.
<1>7. CASE Strip
  <2>1. bot'.at = "write" /\ bot'.post = bot.post /\ bot.at = "strip"
    BY <1>0, <1>7, Carried, GoesOn DEF Strip, Editing
  <2>2. live' \subseteq live /\ strays' = (strays \cup ids[bot.post]) \cap live'
    BY <1>7 DEF Strip
  <2>3. \A m \in live' : m \notin strays' => m.post # bot.post
    BY <1>0, <2>1, <2>2 DEF ButtonsInv, Unrecorded
  <2> QED
    BY <1>0, <1>7, <2>1, <2>2, <2>3 DEF ButtonsInv, Unrecorded, Strip
\* The old messages of the post are all strays by now.
<1>8. CASE Write
  <2>1. bot'.at = "send" /\ bot'.post = bot.post /\ bot.at = "write" /\ bot.post \in Posts
    BY <1>0, <1>8, Carried, GoesOn DEF Write, Editing
  <2>2. \A m \in live : m \notin strays => m.post # bot.post /\ m.post \in Posts
    BY <1>0, <2>1 DEF ButtonsInv, TypeOK, Message
  <2>3. \A p \in Posts : p # bot.post => ids'[p] = ids[p] /\ caption'[p] = caption[p]
    BY <1>8 DEF Write, TypeOK
  <2> QED
    BY <1>0, <1>8, <2>1, <2>2, <2>3 DEF ButtonsInv, Unrecorded, Write
<1>9. CASE Send
  <2>1. PICK reached \in SUBSET Admins :
          LET got == {MessageTo(a, bot.post) : a \in reached}
          IN  /\ live' = live \cup got
              /\ bot' = [at |-> "record", admins |-> bot.admins, post |-> bot.post, got |-> got]
    BY <1>9 DEF Send
  <2> DEFINE got == {MessageTo(a, bot.post) : a \in reached}
  <2>2. bot.post \in Posts /\ bot.at = "send"
    BY <1>0, <1>9, Carried DEF Send
  <2>3. \A m \in got : m.caption = caption[m.post]
    BY <1>0, <2>2, NewMessage
  <2> HIDE DEF got
  <2>4. bot'.at = "record" /\ bot'.got = got /\ live' = live \cup got
    BY <2>1 DEF got
  <2> QED
    BY <1>0, <1>9, <2>2, <2>3, <2>4 DEF ButtonsInv, Unrecorded, Send
<1>10. CASE Record
  <2>1. bot.post \in Posts /\ bot'.at = "idle" /\ bot.at = "record" /\ bot.got \subseteq Message
        /\ \A m \in bot.got : m.post = bot.post
    BY <1>0, <1>10, Carried DEF Record, Idle, RowsInv, Sendings
  <2>2. ids[bot.post] = {} /\ ids'[bot.post] = bot.got /\ \A p \in Posts \ {bot.post} : ids'[p] = ids[p]
    BY <1>0, <1>10, <2>1 DEF Record, TypeOK, RowsInv, Messaging
  <2>3. ASSUME NEW m \in live \ strays
        PROVE  m.caption = caption[m.post] /\ m \in ids'[m.post]
    <3>1. m.caption = caption[m.post] /\ m \in ids[m.post] \cup bot.got /\ m.post \in Posts
      BY <1>0, <2>1 DEF ButtonsInv, Unrecorded, TypeOK, Message
    <3> QED
      BY <2>1, <2>2, <3>1
  <2> QED
    BY <1>0, <1>10, <2>1, <2>3 DEF ButtonsInv, Record
<1>11. CASE Raise \/ Crash
  <2>1. bot'.at = "idle"
    BY <1>11 DEF Raise, Crash, Idle
  <2> QED
    BY <1>0, <1>11, <2>1, ButtonsKept DEF Raise, Crash
<1>12. CASE Listen \/ UNCHANGED vars
  BY <1>0, <1>12, ButtonsKept DEF Listen, vars, Unrecorded
<1> QED
  BY <1>1, <1>2, <1>3, <1>4, <1>5, <1>6, <1>7, <1>8, <1>9, <1>10, <1>11, <1>12 DEF Next, Bot

-----------------------------------------------------------------------------
(* An admin who can answer.                                                *)

\* Steps that send nothing new and leave every post its way to be answered.
LEMMA AnswerKept ==
  ASSUME AnswerInv,
         \A p \in Posts : status'[p] = "open" /\ Sent(p)' => status[p] = "open" /\ Sent(p),
         \A p \in Posts : (\E m \in live : m.post = p) /\ status'[p] = "open"
                             => (\E m \in live' : m.post = p) \/ p \in HalfStripped' \/ p \in silenced',
         \A p \in HalfStripped : p \in HalfStripped' \/ p \in silenced',
         silenced \subseteq silenced'
  PROVE  AnswerInv'
BY DEF AnswerInv

LEMMA NextAnswer == TypeOK /\ EditInv /\ [Next]_vars => AnswerInv'
<1> SUFFICES ASSUME TypeOK, EditInv, [Next]_vars PROVE AnswerInv'
  OBVIOUS
<1> USE DEF rowVars, convVars, histVars
<1>0. ShapesInv /\ RowsInv /\ AnswerInv /\ live \subseteq Message
  BY DEF EditInv, TypeOK
<1>a. ASSUME UNCHANGED <<status, ids, live, silenced, bot>> PROVE AnswerInv'
  BY <1>0, <1>a, AnswerKept DEF Sent, Unrecorded, HalfStripped
<1>1. ASSUME NEW p \in Posts, ForcePost(p) PROVE AnswerInv'
  <2>1. bot'.at = "send" /\ bot.at = "idle" /\ ids[p] = {}
    BY <1>0, <1>1, Begins DEF ForcePost, Ready, Idle, RowsInv
  <2>2. \A x \in Posts \ {p} : status'[x] = status[x]
    BY <1>1 DEF ForcePost, TypeOK
  <2> QED
    BY <1>0, <1>1, <2>1, <2>2, AnswerKept DEF ForcePost, Sent, Unrecorded, HalfStripped
<1>2. ASSUME NEW p \in Posts, Propose(p) PROVE AnswerInv'
  <2>1. ids[p] = {} /\ (bot # Idle => bot.post # p)
    BY <1>0, <1>2 DEF Propose, RowsInv, EditInv, TouchedInv
  <2>2. \A x \in Posts \ {p} : status'[x] = status[x]
    BY <1>2 DEF Propose, TypeOK
  <2>3. ~ (Sent(p)')
    BY <1>0, <1>2, <2>1, Carried DEF Propose, Sent, Unrecorded, RowsInv
  <2> QED
    BY <1>0, <1>2, <2>2, <2>3, AnswerKept DEF Propose, Sent, Unrecorded, HalfStripped
<1>3. ASSUME NEW p \in Posts, Close(p) PROVE AnswerInv'
  <2>1. /\ \A x \in Posts : status'[x] = "open" => x # p /\ status[x] = "open"
        /\ \A m \in live : m.post # p => m \in live'
    BY <1>0, <1>3 DEF Close, TypeOK
  <2> QED
    BY <1>0, <1>3, <2>1, AnswerKept DEF Close, Sent, Unrecorded, HalfStripped
<1>4. ASSUME NEW p \in Posts, Resend(p) PROVE AnswerInv'
  <2>1. bot'.at = "send" /\ bot.at = "idle"
    BY <1>4, Begins DEF Resend, Idle
  <2> QED
    BY <1>0, <1>4, <2>1, AnswerKept DEF Resend, Sent, Unrecorded, HalfStripped
<1>5. ASSUME NEW a \in Admins, NewCaption(a) PROVE AnswerInv'
  <2>1. bot.at = "idle" /\ (bot' = bot \/ bot'.at = "strip")
    BY <1>5 DEF NewCaption, Ready, Idle
  <2> QED
    BY <1>0, <1>5, <2>1, AnswerKept DEF NewCaption, Sent, Unrecorded, HalfStripped
<1>6. ASSUME NEW a \in Admins, CancelEdit(a) \/ TimeoutStart(a) \/ \E m \in live : HandleEdit(a, m)
      PROVE  AnswerInv'
  BY <1>6, <1>a DEF CancelEdit, TimeoutStart, HandleEdit
<1>7. ASSUME NEW a \in Admins, TimeoutEnd(a) PROVE AnswerInv'
  <2>1. \/ live' = live \ {timeout[a]} /\ silenced' = silenced \cup {timeout[a].post}
        \/ UNCHANGED <<live, silenced>>
    BY <1>7 DEF TimeoutEnd
  <2> QED
    BY <1>0, <1>7, <2>1, AnswerKept DEF TimeoutEnd, Sent, Unrecorded, HalfStripped
<1>8. ASSUME NEW a \in Admins, Job3Sends(a) PROVE AnswerInv'
  <2>1. live \subseteq live'
    BY <1>8 DEF Job3Sends
  <2> QED
    BY <1>0, <1>8, <2>1, AnswerKept DEF Job3Sends, Sent, Unrecorded, HalfStripped
<1>9. CASE Strip
  <2>1. bot'.at = "write" /\ bot'.post = bot.post /\ bot.at = "strip" /\ bot.post \in Posts
    BY <1>0, <1>9, Carried, GoesOn DEF Strip, Editing
  <2>2. \A m \in live : m.post # bot.post => m \in live'
    BY <1>9, <2>1 DEF Strip, TypeOK
  <2> QED
    BY <1>0, <1>9, <2>1, <2>2, AnswerKept DEF Strip, Sent, Unrecorded, HalfStripped
<1>10. CASE Write
  <2>1. bot'.at = "send" /\ bot'.post = bot.post /\ bot.at = "write" /\ bot.post \in Posts
    BY <1>0, <1>10, Carried, GoesOn DEF Write, Editing
  <2>2. ids'[bot.post] = {} /\ \A p \in Posts \ {bot.post} : ids'[p] = ids[p]
    BY <1>10, <2>1 DEF Write, TypeOK
  <2> QED
    BY <1>0, <1>10, <2>1, <2>2 DEF AnswerInv, Write, Sent, Unrecorded, HalfStripped
<1>11. CASE Send
  <2>1. PICK reached \in SUBSET Admins :
          LET got == {MessageTo(a, bot.post) : a \in reached}
          IN  /\ live' = live \cup got
              /\ bot' = [at |-> "record", admins |-> bot.admins, post |-> bot.post, got |-> got]
    BY <1>11 DEF Send
  <2> DEFINE got == {MessageTo(a, bot.post) : a \in reached}
  <2>2. bot.at = "send" /\ bot'.at = "record" /\ bot'.got = got /\ live' = live \cup got
    BY <1>11, <2>1 DEF Send
  <2> HIDE DEF got
  <2> QED
    BY <1>0, <1>11, <2>2 DEF AnswerInv, Send, Sent, Unrecorded, HalfStripped
<1>12. CASE Record
  <2>1. bot.post \in Posts /\ bot'.at = "idle" /\ bot.at = "record"
        /\ \A m \in bot.got : m.post = bot.post
    BY <1>0, <1>12, Carried DEF Record, Idle, RowsInv
  <2>2. ids'[bot.post] = bot.got /\ \A p \in Posts \ {bot.post} : ids'[p] = ids[p]
    BY <1>12, <2>1 DEF Record, TypeOK
  <2>3. \A p \in Posts : Sent(p)' => Sent(p)
    BY <2>1, <2>2 DEF Sent, Unrecorded
  <2> QED
    BY <1>0, <1>12, <2>1, <2>3, AnswerKept DEF Record, HalfStripped
<1>13. CASE Raise \/ Crash
  <2>1. bot'.at = "idle"
    BY <1>13 DEF Raise, Crash, Idle
  <2> QED
    BY <1>0, <1>13, <2>1, AnswerKept DEF Raise, Crash, Sent, Unrecorded
\* The post of the only message that loses its buttons is silenced.
<1>14. ASSUME NEW a \in Admins, NEW m \in live, QueueFull(a, m) PROVE AnswerInv'
  <2>1. live' = live \ {m} /\ silenced' = silenced \cup {m.post}
    BY <1>14 DEF QueueFull
  <2> QED
    BY <1>0, <1>14, <2>1, AnswerKept DEF QueueFull, Sent, Unrecorded, HalfStripped
<1>15. CASE Listen \/ UNCHANGED vars
  BY <1>15, <1>a DEF Listen, vars
<1> QED
  BY <1>1, <1>2, <1>3, <1>4, <1>5, <1>6, <1>7, <1>8, <1>9, <1>10, <1>11, <1>12, <1>13, <1>14,
     <1>15 DEF Next, Bot

-----------------------------------------------------------------------------
(* The results.                                                            *)

LEMMA EditAlways == Spec => [](TypeOK /\ EditInv)
<1>1. TypeOK /\ EditInv /\ [Next]_vars => TypeOK' /\ EditInv'
  BY NextTyped, NextTouched, NextRows, NextButtons, NextAnswer DEF EditInv
<1> QED
  BY <1>1, InitEdit, PTL DEF Spec

\* Types; a row only records messages about itself, and a conversation and its
\* timeout only hold messages of its admin.
THEOREM EditTypes == Spec => []TypeOK
  BY EditAlways, PTL

\* Buttons stand under the caption that they would publish, except on a message
\* that Telegram would not edit or that was never recorded.
THEOREM CaptionShown == Spec => []AsShown
<1>1. EditInv => AsShown
  BY DEF EditInv, ButtonsInv, AsShown
<1> QED
  BY <1>1, EditAlways, PTL

\* An open post that counts as sent can be answered, unless the timeout of an edit,
\* an exception or a crash in the middle of one, or an answer refused by a full
\* queue took its buttons away.
THEOREM CanAnswer == Spec => []Answerable
<1>1. EditInv => Answerable
  BY DEF EditInv, AnswerInv, Sent, Answerable
<1> QED
  BY <1>1, EditAlways, PTL

\* A conversation that waits for a caption has something that will end it.
LEMMA NextTimed == TypeOK /\ EditInv /\ EditTimed /\ [Next]_vars => EditTimed'
<1> SUFFICES ASSUME TypeOK, EditInv, EditTimed, [Next]_vars PROVE EditTimed'
  OBVIOUS
<1> USE DEF rowVars, convVars, histVars
<1>0. ShapesInv
  BY DEF EditInv
<1>1. ASSUME NEW p \in Posts, ForcePost(p) \/ Propose(p) \/ Close(p) \/ Resend(p) PROVE EditTimed'
  BY <1>1 DEF EditTimed, ForcePost, Propose, Close, Resend, Ready
<1>2. ASSUME NEW a \in Admins, NEW m \in live, HandleEdit(a, m) \/ QueueFull(a, m)
      PROVE  EditTimed'
  BY <1>2 DEF EditTimed, HandleEdit, QueueFull, Ready
<1>3. ASSUME NEW a \in Admins, NewCaption(a) PROVE EditTimed'
  <2>1. CASE chat[a] = None
    BY <1>3, <2>1 DEF EditTimed, NewCaption
  <2>2. CASE chat[a] # None
    <3>1. bot'.admins = {a} /\ bot' # Idle /\ bot = Idle
      BY <1>3, <2>2 DEF NewCaption, Ready, Idle
    <3> QED
      BY <1>3, <2>2, <3>1 DEF EditTimed, NewCaption
  <2> QED
    BY <2>1, <2>2
<1>4. ASSUME NEW a \in Admins, CancelEdit(a) PROVE EditTimed'
  BY <1>4 DEF EditTimed, CancelEdit
<1>5. ASSUME NEW a \in Admins, TimeoutStart(a) PROVE EditTimed'
  <2>1. CASE chat[a] = None
    BY <1>5, <2>1 DEF EditTimed, TimeoutStart
  <2>2. CASE chat[a] # None
    <3>1. timeout'[a] # None /\ \A x \in Admins \ {a} : timeout'[x] = timeout[x]
      BY <1>0, <1>5, <2>2 DEF TimeoutStart, ShapesInv
    <3> QED
      BY <1>5, <2>2, <3>1 DEF EditTimed, TimeoutStart, TypeOK
  <2> QED
    BY <2>1, <2>2
<1>6. ASSUME NEW a \in Admins, TimeoutEnd(a) PROVE EditTimed'
  <2>1. \A x \in Admins \ {a} : timeout'[x] = timeout[x]
    BY <1>0, <1>6 DEF TimeoutEnd, ShapesInv
  <2> QED
    BY <1>6, <2>1 DEF EditTimed, TimeoutEnd, TypeOK
<1>7. ASSUME NEW a \in Admins, Job3Sends(a) PROVE EditTimed'
  BY <1>7 DEF EditTimed, Job3Sends
<1>8. CASE Strip \/ Write
  <2>1. bot' # Idle /\ bot'.admins = bot.admins
    BY <1>0, <1>8, Carried, GoesOn DEF Strip, Write, Editing
  <2> QED
    BY <1>8, <2>1 DEF EditTimed, Strip, Write
<1>9. CASE Send
  <2>1. bot'.at = "record" /\ bot'.admins = bot.admins
    BY <1>9 DEF Send
  <2>2. bot' # Idle
    BY <2>1 DEF Idle
  <2> QED
    BY <1>9, <2>1, <2>2 DEF EditTimed, Send
<1>10. CASE Record \/ Raise
  BY <1>10 DEF EditTimed, Record, Raise
<1>11. CASE Crash
  BY <1>11 DEF EditTimed, Crash
<1>12. CASE Listen \/ UNCHANGED vars
  BY <1>12 DEF EditTimed, Listen, vars
<1> QED
  BY <1>1, <1>2, <1>3, <1>4, <1>5, <1>6, <1>7, <1>8, <1>9, <1>10, <1>11, <1>12 DEF Next, Bot

\* A conversation without a timeout, scheduled or under way, is in the hands of
\* the handler of its text, or was left by an exception.
THEOREM ConversationsEnd == Spec => []EditTimed
  BY InitEdit, NextTimed, EditAlways, PTL DEF Spec
==============================================================================
