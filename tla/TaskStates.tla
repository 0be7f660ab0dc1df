----------------------------- MODULE TaskStates -----------------------------
(* Status values of a Global Task Framework task and the classes the code     *)
(* sorts them into (axbi/tasks/constants.py).                                 *)

TERMINAL_STATES  == {"success", "failure", "aborted", "timed_out"}
ACTIVE_STATES    == {"pending", "in_progress", "aborting"}
ABORTABLE_STATES == {"pending", "in_progress"}
ABORT_STATES     == {"aborting", "aborted"}
Status           == ACTIVE_STATES \cup TERMINAL_STATES
=============================================================================
