---------------------------- MODULE TaskLifecycle ----------------------------
(* What one task row promises to everybody who looks at it: the caller that   *)
(* submitted it, the users that wait for it or cancel it, and later submitters *)
(* of the same key.  The status moves forward only, a terminal status is final,*)
(* and the deduplication slot (tasks.dedup_key holding the active key) is given*)
(* up in the very step that makes the task terminal.                           *)
(* TaskExecutor is shown to implement this specification.                      *)
EXTENDS TaskStates

VARIABLES status,     \* tasks.status
          slotHeld    \* tasks.dedup_key still holds the active key

lifecycleVars == <<status, slotHeld>>

Init == status = "pending" /\ slotHeld = TRUE

Become(new) == /\ status' = new
               /\ slotHeld' = (slotHeld /\ new \notin TERMINAL_STATES)

\* A worker (or the calling thread, for a synchronous call) picks the task up.
PickUp == status = "pending" /\ Become("in_progress")

\* A cancellation of a task nobody started yet needs no cooperation.
CancelPending == status = "pending" /\ Become("aborted")

\* A cancellation of a running task only asks: its abort handlers do the rest.
RequestAbort == status = "in_progress" /\ Become("aborting")

\* The executor reports how the run ended.  A task that ends before it notices
\* the request to abort reports what it did.
Finish == \/ /\ status = "in_progress"
             /\ \E s \in {"success", "failure"} : Become(s)
          \/ /\ status = "aborting"
             /\ \E s \in TERMINAL_STATES : Become(s)

Next == PickUp \/ CancelPending \/ RequestAbort \/ Finish

\* With a timeout: the timer writes ABORTING over whatever the row holds, late
\* for a task that has ended; its slot stays given up.
LateAbort == status \in TERMINAL_STATES /\ Become("aborting")

\* A task that was picked up is brought to an end.
Spec == Init /\ [][Next]_lifecycleVars /\ WF_lifecycleVars(Finish)
SafeSpec == Init /\ [][Next]_lifecycleVars
==============================================================================
