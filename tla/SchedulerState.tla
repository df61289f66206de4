--------------------------- MODULE SchedulerState ---------------------------
(* The row of the table scheduler_state that JOB-5 and `auth meta` write     *)
(* and that the publications read.                                           *)
VARIABLE suspended  \* publications_suspended = "true"
=============================================================================
