--------------------------- MODULE LifecycleClaims ---------------------------
(***************************************************************************)
(* Sentences of the documentation and of docstrings that the code does not *)
(* keep.  Each one is a property of PostLifecycle, and the run that checks *)
(* it shows a behaviour that breaks it.                                    *)
(***************************************************************************)
EXTENDS MCPostLifecycle

\* job_check_expired: "Expire les posts pending_approval dépassant
\* approval_timeout_hours".  JOB-4 writes its selection by id, so a post that
\* was approved, queued or even published in between expires too.
ExpiresOnlyPending ==
    [][\A p \in Posts : status'[p] = "expired" => status[p] \in {"pending_approval", "expired"}]_vars

\* send_approval_request: "Peuple post.telegram_message_ids ... et commit".
\* For JOB-3 the post belongs to a session that is already closed.
SendIsRecorded ==
    [][\A o \in Owners :
          At(o, "recording") /\ run'[o].pc = "idle" /\ mode' # "down"
             => msgs'[run[o].post]]_vars
=============================================================================
