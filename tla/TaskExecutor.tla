---------------------------- MODULE TaskExecutor ----------------------------
(* One task row, the thread that executes it, and everything that races with  *)
(* that thread: the timeout timer, the abort listener, and users who cancel.  *)
(*                                                                            *)
(*  executor  tasks/scheduler.py execute_task (Mode = "async") or             *)
(*            tasks/decorators.py _execute_inline (Mode = "sync")             *)
(*  context   tasks/context.py TaskContext: the flags the threads share       *)
(*  timer     TaskContext.start_timeout_timer / on_timeout                    *)
(*  listener  TaskManager.listen_for_abort (Signal = "polling" or "pubsub")   *)
(*  users     commands/tasks/cancel.py CancelTaskCommand and TaskDAO.abort_task*)
(*                                                                            *)
(* A database transaction is one step, at its commit (READ COMMITTED); a step *)
(* ends wherever another thread can look at what was done.  The task row is   *)
(* read through SQLAlchemy sessions that keep loaded objects, so a thread acts *)
(* on what it loaded earlier ("...Seen") wherever the code does not refresh.  *)
EXTENDS TaskStates, Naturals, FiniteSets

CONSTANTS Users,       \* users (or administrators) who may press Cancel
          Mode,        \* how the task was started
          Signal,      \* how an abort reaches the executor
          HasTimeout,  \* the task has a timeout configured
          Joiners,     \* submissions of the same key may hold the task lock
          HandlersFail, \* abort and cleanup handlers may raise
          CanCrash     \* processes may die, and Redis may drop connection or message

ASSUME ModeAssumption    == Mode \in {"async", "sync"}
ASSUME SignalAssumption  == Signal \in {"polling", "pubsub"}
ASSUME SwitchAssumption  == /\ HasTimeout \in BOOLEAN /\ Joiners \in BOOLEAN
                            /\ HandlersFail \in BOOLEAN /\ CanCrash \in BOOLEAN
ASSUME UsersAssumption   == Users \cap {"free", "joiner", "timer", "writer"} = {}

VARIABLES
  status, slotHeld, isAbortable,      \* the committed row
  registered,                         \* _abort_handlers # [] (and the cached is_abortable)
  abortDetected, executionCompleted, timeoutTriggered, handlersCompleted,
  handlerFailures,                    \* kinds of handler failure collected, not yet recorded
  executor, raised,                   \* executor's place; did the task function raise
  finalSeen, writerSeen,              \* statuses the executor loaded and acts on later
  timer, timerSeen,                   \* timer thread's place; the row it loaded
  listener, stopEvent, mailbox,       \* listener's place; stop(); undelivered message
  cancel, cancelSeen, mustPublish,    \* per user: place, row loaded, _should_publish_abort
  lock,                               \* owner of task_lock(dedup_key)
  handlerRuns,                        \* history: how often the abort handlers were started
  handlerRaised,                      \* history: an abort handler has raised
  published                           \* history: a completion message was sent

row     == <<status, slotHeld, isAbortable>>
claims  == <<abortDetected, handlerRuns>>
context == <<registered, executionCompleted, timeoutTriggered>>
results == <<handlersCompleted, handlerFailures, handlerRaised>>
timing  == <<timer, timerSeen>>
listening == <<listener, stopEvent, mailbox>>
cancelling == <<cancel, cancelSeen, mustPublish>>
memory  == <<raised, finalSeen, writerSeen, published>>
vars == <<row, claims, context, results, executor, timing, listening,
          cancelling, memory, lock>>

Seen == [status : Status, isAbortable : BOOLEAN]
ThisRow == [status |-> status, isAbortable |-> isAbortable]

Init ==
  /\ status = "pending" /\ slotHeld = TRUE /\ isAbortable = FALSE
  /\ registered = FALSE /\ abortDetected = FALSE /\ executionCompleted = FALSE
  /\ timeoutTriggered = FALSE /\ handlersCompleted = FALSE
  /\ handlerFailures = {} /\ handlerRaised = FALSE
  /\ executor = "submitted" /\ raised = FALSE
  /\ finalSeen = "pending" /\ writerSeen = "pending"
  /\ timer = "off" /\ timerSeen = ThisRow
  /\ listener = "off" /\ stopEvent = FALSE /\ mailbox = FALSE
  /\ cancel = [u \in Users |-> "idle"] /\ cancelSeen = [u \in Users |-> ThisRow]
  /\ mustPublish = [u \in Users |-> FALSE]
  /\ lock = "free" /\ handlerRuns = 0 /\ published = FALSE

------------------------------------------------------------------------------
(* Building blocks *)

\* Operators named Bug... are faulty variants; nothing in the specification uses
\* them.  PROJECT.json says which definition each one stands in for, and which
\* property notices.

\* What a write of `new` does to status and dedup_key.
SetStatus(new) == /\ status' = new
                  /\ slotHeld' = (slotHeld /\ new \notin TERMINAL_STATES)

BugUnconditional(new, expected) == SetStatus(new)

\* UPDATE tasks SET status = new WHERE status IN expected.
ConditionalStatusUpdate(new, expected) ==
  IF status \in expected THEN SetStatus(new) ELSE UNCHANGED <<status, slotHeld>>

BugClaimTwice(allowAfterExecution) == allowAfterExecution \/ ~executionCompleted

\* The right to run the abort handlers, taken under _state_lock at most once.
CanClaim(allowAfterExecution) ==
  /\ ~abortDetected
  /\ allowAfterExecution \/ ~executionCompleted

Claim == abortDetected' = TRUE /\ handlerRuns' = handlerRuns + 1

BugForgetsFailures ==
  handlersCompleted' = TRUE /\ UNCHANGED <<handlerFailures, handlerRaised>>

\* All abort handlers were attempted, those that raised (HandlerRaises) included.
\* The thread looks at the failures that are collected now: cleanup, which waits
\* for a listener two seconds only and for the timer not at all, may have recorded
\* and cleared earlier ones.
FinishHandlers ==
  /\ handlersCompleted' = (handlersCompleted \/ "abort" \notin handlerFailures)
  /\ UNCHANGED <<handlerFailures, handlerRaised>>

BugAbortOnly == abortDetected
StopRequested == abortDetected \/ timeoutTriggered

------------------------------------------------------------------------------
(* The executor, from the Celery message (or the direct call) to its return *)

\* find_one_or_none, then the pre-execution check.
FindTask ==
  /\ executor = "submitted"
  /\ executor' = IF status \in ABORT_STATES THEN "skip" ELSE "pick_up"
  /\ UNCHANGED <<row, claims, context, results, timing, listening, cancelling, memory, lock>>

SkipAborted ==
  /\ executor = "skip"
  /\ ConditionalStatusUpdate("aborted", {"pending", "aborting"})
  /\ executor' = "done"
  /\ UNCHANGED <<isAbortable, claims, context, results, timing, listening, cancelling, memory, lock>>

\* PENDING -> IN_PROGRESS; the winner builds the context and arms the timer.
PickUp ==
  /\ executor = "pick_up"
  /\ ConditionalStatusUpdate("in_progress", {"pending"})
  /\ IF status = "pending"
     THEN /\ executor' = "running"
          /\ timer' = IF HasTimeout THEN "armed" ELSE timer
     ELSE executor' = "done" /\ UNCHANGED timer
  /\ UNCHANGED <<isAbortable, claims, context, results, timerSeen, listening,
                 cancelling, memory, lock>>

\* ctx.on_abort, first handler: appended and cached ...
RegisterHandler ==
  /\ executor = "running" /\ ~registered
  /\ registered' = TRUE
  /\ executor' = "register"
  /\ UNCHANGED <<row, claims, executionCompleted, timeoutTriggered, results, timing,
                 listening, cancelling, memory, lock>>

\* ... committed by _set_abortable ...
SetAbortable ==
  /\ executor = "register"
  /\ isAbortable' = TRUE
  /\ executor' = "listen"
  /\ UNCHANGED <<status, slotHeld, claims, context, results, timing, listening,
                 cancelling, memory, lock>>

\* ... and only then is the abort listener started.
StartAbortListener ==
  /\ executor = "listen"
  /\ listener' = "listening"
  /\ executor' = "running"
  /\ UNCHANGED <<row, claims, context, results, timing, stopEvent, mailbox,
                 cancelling, memory, lock>>

\* The task function returns or raises, whenever it likes.
LeaveFunction ==
  /\ executor = "running"
  /\ raised' \in BOOLEAN
  /\ executor' = "left"
  /\ UNCHANGED <<row, claims, context, results, timing, listening, cancelling,
                 finalSeen, writerSeen, published, lock>>

MarkExecutionCompleted ==
  /\ executor = "left"
  /\ executionCompleted' = TRUE
  /\ executor' = "decide"
  /\ UNCHANGED <<row, claims, registered, timeoutTriggered, results, timing, listening,
                 cancelling, memory, lock>>

\* The status transition made before cleanup.  The two executors differ: the
\* worker leaves an aborted task to the end and accepts ABORTING -> SUCCESS,
\* the direct call ends it here and does not.
DecideStatus ==
  /\ executor = "decide"
  /\ \/ raised /\ ConditionalStatusUpdate("failure", {"in_progress", "aborting"})
     \/ /\ ~raised /\ Mode = "async"
        /\ IF StopRequested THEN UNCHANGED <<status, slotHeld>>
           ELSE ConditionalStatusUpdate("success", {"in_progress", "aborting"})
     \/ /\ ~raised /\ Mode = "sync"
        /\ IF StopRequested
           THEN ConditionalStatusUpdate(
                  IF timeoutTriggered THEN "timed_out" ELSE "aborted", {"aborting"})
           ELSE ConditionalStatusUpdate("success", {"in_progress"})
  /\ executor' = IF Mode = "sync" THEN "reread" ELSE "stop"
  /\ UNCHANGED <<isAbortable, claims, context, results, timing, listening,
                 cancelling, memory, lock>>

\* The direct call loads the task it will return; cleanup and the completion
\* message act on this copy.
ReadFinalTask ==
  /\ executor = "reread"
  /\ finalSeen' = status
  /\ executor' = "stop"
  /\ UNCHANGED <<row, claims, context, results, timing, listening, cancelling,
                 raised, writerSeen, published, lock>>

\* AbortListener.stop sets the event ...
StopListener ==
  /\ executor = "stop"
  /\ stopEvent' = TRUE
  /\ executor' = "join"
  /\ UNCHANGED <<row, claims, context, results, timing, listener, mailbox, cancelling,
                 memory, lock>>

\* ... and joins the thread, for two seconds at most: handlers may take longer.
JoinListener ==
  /\ executor = "join"
  /\ listener \in {"off", "ended", "handling"}
  /\ executor' = "stop_timer"
  /\ UNCHANGED <<row, claims, context, results, timing, listening, cancelling, memory, lock>>

\* Timer.cancel: no effect on a timer that already fired, and no join.
StopTimer ==
  /\ executor = "stop_timer"
  /\ timer' = IF timer = "armed" THEN "ended" ELSE timer
  /\ executor' = "missed_abort"
  /\ UNCHANGED <<row, claims, context, results, timerSeen, listening, cancelling,
                 memory, lock>>

\* Abort handlers nobody ran yet are run by cleanup, if the status it sees says so.
CheckMissedAbort ==
  /\ executor = "missed_abort"
  /\ LET seen == IF Mode = "sync" THEN finalSeen ELSE status
     IN  IF seen \in ABORT_STATES /\ CanClaim(TRUE)
         THEN Claim /\ executor' = "handling"
         ELSE executor' = "cleanup" /\ UNCHANGED claims
  /\ UNCHANGED <<row, context, results, timing, listening, cancelling, memory, lock>>

RunMissedHandlers ==
  /\ executor = "handling"
  /\ FinishHandlers
  /\ executor' = "cleanup"
  /\ UNCHANGED <<row, claims, context, timing, listening, cancelling, memory, lock>>

AfterCleanup == IF Mode = "sync" THEN "publish" ELSE "conclude"

\* Cleanup handlers always run; a failure is collected with the others.
RunCleanupHandlers ==
  /\ executor = "cleanup"
  /\ \E failed \in {FALSE, HandlersFail} :
       handlerFailures' = handlerFailures \cup (IF failed THEN {"cleanup"} ELSE {})
  /\ executor' = IF handlerFailures' = {} THEN AfterCleanup ELSE "load"
  /\ UNCHANGED <<row, claims, context, handlersCompleted, handlerRaised, timing, listening, cancelling,
                 memory, lock>>

(* Handler failures are recorded with UpdateTaskCommand, which takes the task *)
(* lock without waiting, and releases it before its transaction commits.      *)

LoadForFailures ==
  /\ executor = "load"
  /\ writerSeen' = status
  /\ executor' = "lock"
  /\ UNCHANGED <<row, claims, context, results, timing, listening, cancelling,
                 raised, finalSeen, published, lock>>

\* If somebody else holds the lock, the exception ends the executor here: no
\* terminal transition, no completion message.
LockForFailures ==
  /\ executor = "lock"
  /\ IF lock = "free" THEN lock' = "writer" /\ executor' = "unlock"
                      ELSE executor' = "done" /\ UNCHANGED lock
  /\ UNCHANGED <<row, claims, context, results, timing, listening, cancelling, memory>>

UnlockForFailures ==
  /\ executor = "unlock"
  /\ lock' = "free"
  /\ executor' = "commit"
  /\ UNCHANGED <<row, claims, context, results, timing, listening, cancelling, memory>>

\* A status that was terminal when loaded is left alone; otherwise FAILURE is
\* written, whatever the row holds by now.  The list of failures is cleared.
CommitFailures ==
  /\ executor = "commit"
  /\ IF writerSeen \in TERMINAL_STATES THEN UNCHANGED <<status, slotHeld>>
                                       ELSE SetStatus("failure")
  /\ handlerFailures' = {}
  /\ executor' = AfterCleanup
  /\ UNCHANGED <<isAbortable, claims, context, handlersCompleted, handlerRaised, timing,
                 listening, cancelling, memory, lock>>

BugCauseByClaim ==
  /\ executor = "conclude"
  /\ IF StopRequested
     THEN ConditionalStatusUpdate(
            IF ~handlersCompleted THEN "failure"
            ELSE IF abortDetected THEN "aborted" ELSE "timed_out", {"aborting"})
     ELSE UNCHANGED <<status, slotHeld>>
  /\ executor' = "publish"
  /\ UNCHANGED <<isAbortable, claims, context, results, timing, listening, cancelling,
                 memory, lock>>

BugNoFallback ==
  /\ executor = "conclude"
  /\ IF StopRequested /\ handlersCompleted
     THEN ConditionalStatusUpdate(IF timeoutTriggered THEN "timed_out" ELSE "aborted",
                                  {"aborting"})
     ELSE UNCHANGED <<status, slotHeld>>
  /\ executor' = "publish"
  /\ UNCHANGED <<isAbortable, claims, context, results, timing, listening, cancelling,
                 memory, lock>>

\* The worker's terminal transition after an abort or a timeout.
ConcludeAbort ==
  /\ executor = "conclude"
  /\ IF StopRequested
     THEN ConditionalStatusUpdate(
            IF ~handlersCompleted THEN "failure"
            ELSE IF timeoutTriggered THEN "timed_out" ELSE "aborted", {"aborting"})
     ELSE UNCHANGED <<status, slotHeld>>
  /\ executor' = "publish"
  /\ UNCHANGED <<isAbortable, claims, context, results, timing, listening, cancelling,
                 memory, lock>>

BugPublishAlways ==
  /\ executor = "publish"
  /\ published' = TRUE
  /\ executor' = "done"
  /\ UNCHANGED <<row, claims, context, results, timing, listening, cancelling,
                 raised, finalSeen, writerSeen, lock>>

PublishCompletion ==
  /\ executor = "publish"
  /\ published' = ((IF Mode = "sync" THEN finalSeen ELSE status) \in TERMINAL_STATES)
  /\ executor' = "done"
  /\ UNCHANGED <<row, claims, context, results, timing, listening, cancelling,
                 raised, finalSeen, writerSeen, lock>>

\* The worker process dies with all its threads; or the Celery message is lost
\* (messages are acknowledged early, task_acks_late = False).
Crash ==
  /\ CanCrash /\ executor \notin {"done", "crashed"}
  /\ executor' = "crashed" /\ timer' = "ended" /\ listener' = "ended"
  /\ UNCHANGED <<row, claims, context, results, timerSeen, stopEvent, mailbox,
                 cancelling, memory, lock>>

Executor == \/ FindTask \/ SkipAborted \/ PickUp
            \/ MarkExecutionCompleted \/ DecideStatus \/ ReadFinalTask
            \/ SetAbortable \/ StartAbortListener
            \/ StopListener \/ JoinListener \/ StopTimer
            \/ CheckMissedAbort \/ RunMissedHandlers \/ RunCleanupHandlers
            \/ LoadForFailures \/ LockForFailures \/ UnlockForFailures \/ CommitFailures
            \/ ConcludeAbort \/ PublishCompletion

------------------------------------------------------------------------------
(* The timeout timer *)

\* on_timeout, under _state_lock: too late, not abortable, or it takes effect.
FireTimer ==
  /\ timer = "armed"
  /\ IF ~abortDetected /\ ~executionCompleted /\ registered
     THEN timeoutTriggered' = TRUE /\ timer' = "load"
     ELSE timer' = "ended" /\ UNCHANGED timeoutTriggered
  /\ UNCHANGED <<row, claims, registered, executionCompleted, results, executor,
                 timerSeen, listening, cancelling, memory, lock>>

TimerLoad ==
  /\ timer = "load"
  /\ timerSeen' = ThisRow
  /\ timer' = "lock"
  /\ UNCHANGED <<row, claims, context, results, executor, listening, cancelling,
                 memory, lock>>

\* If the task lock is taken the timer thread dies of the exception.
TimerLock ==
  /\ timer = "lock"
  /\ IF lock = "free" THEN lock' = "timer" /\ timer' = "unlock"
                      ELSE timer' = "ended" /\ UNCHANGED lock
  /\ UNCHANGED <<row, claims, context, results, executor, timerSeen, listening,
                 cancelling, memory>>

TimerUnlock ==
  /\ timer = "unlock"
  /\ lock' = "free" /\ timer' = "commit"
  /\ UNCHANGED <<row, claims, context, results, executor, timerSeen, listening,
                 cancelling, memory>>

\* set_status(ABORTING) on the loaded object: SQLAlchemy writes the column only
\* if the loaded value differs, and then over whatever the row holds by now.
\* The properties are written back merged with the ones that were loaded.
TimerCommit ==
  /\ timer = "commit"
  /\ IF timerSeen.status = "aborting" THEN UNCHANGED <<status, slotHeld>>
                                      ELSE SetStatus("aborting")
  /\ isAbortable' = timerSeen.isAbortable
  /\ timer' = "claim"
  /\ UNCHANGED <<claims, context, results, executor, timerSeen, listening, cancelling,
                 memory, lock>>

TimerClaim ==
  /\ timer = "claim"
  /\ IF CanClaim(FALSE) THEN Claim /\ timer' = "handling"
                        ELSE timer' = "ended" /\ UNCHANGED claims
  /\ UNCHANGED <<row, context, results, executor, timerSeen, listening, cancelling,
                 memory, lock>>

TimerHandlersEnd ==
  /\ timer = "handling"
  /\ FinishHandlers
  /\ timer' = "ended"
  /\ UNCHANGED <<row, claims, context, executor, timerSeen, listening, cancelling,
                 memory, lock>>

Timer == \/ TimerLoad \/ TimerLock \/ TimerUnlock \/ TimerCommit \/ TimerClaim
         \/ TimerHandlersEnd

------------------------------------------------------------------------------
(* The abort listener *)

BugPollTerminalOnly ==
  /\ listener = "listening" /\ ~stopEvent
  /\ IF Signal = "pubsub" THEN mailbox ELSE status = "aborted"
  /\ listener' = "detected" /\ mailbox' = FALSE
  /\ UNCHANGED <<row, claims, context, results, executor, timing, stopEvent, cancelling,
                 memory, lock>>

\* A message on the channel, or a poll that finds the row aborted.
ListenerDetect ==
  /\ listener = "listening" /\ ~stopEvent
  /\ IF Signal = "pubsub" THEN mailbox ELSE status \in ABORT_STATES
  /\ listener' = "detected" /\ mailbox' = FALSE
  /\ UNCHANGED <<row, claims, context, results, executor, timing, stopEvent, cancelling,
                 memory, lock>>

ListenerStop ==
  /\ listener = "listening" /\ stopEvent
  /\ listener' = "ended"
  /\ UNCHANGED <<row, claims, context, results, executor, timing, stopEvent, mailbox,
                 cancelling, memory, lock>>

\* stop() is looked at once more before the callback claims the handlers.
ListenerCallback ==
  /\ listener = "detected"
  /\ IF ~stopEvent /\ CanClaim(FALSE) THEN Claim /\ listener' = "handling"
                                      ELSE listener' = "ended" /\ UNCHANGED claims
  /\ UNCHANGED <<row, context, results, executor, timing, stopEvent, mailbox,
                 cancelling, memory, lock>>

ListenerHandlersEnd ==
  /\ listener = "handling"
  /\ FinishHandlers
  /\ listener' = "ended"
  /\ UNCHANGED <<row, claims, context, executor, timing, stopEvent, mailbox, cancelling,
                 memory, lock>>

\* Without its Redis connection the listener ends ("Task may not receive abort
\* signal"); a poll that fails is repeated.
LoseListener ==
  /\ CanCrash /\ Signal = "pubsub" /\ listener = "listening"
  /\ listener' = "ended"
  /\ UNCHANGED <<row, claims, context, results, executor, timing, stopEvent, mailbox,
                 cancelling, memory, lock>>

Listener == ListenerDetect \/ ListenerStop \/ ListenerCallback \/ ListenerHandlersEnd

\* One of the abort handlers raises, in whichever thread runs them; the others are
\* still attempted.
HandlerRaises ==
  /\ HandlersFail /\ registered /\ "handling" \in {executor, timer, listener}
  /\ handlerFailures' = handlerFailures \cup {"abort"}
  /\ handlerRaised' = TRUE
  /\ UNCHANGED <<row, claims, context, handlersCompleted, executor, timing, listening,
                 cancelling, memory, lock>>

------------------------------------------------------------------------------
(* Users who cancel, and submissions of the same key that use the same lock *)

Step(u, from, to) == cancel[u] = from /\ cancel' = [cancel EXCEPT ![u] = to]

\* The fetch that finds the lock key; the session keeps the object it loads.
CancelFind(u) ==
  /\ Step(u, "idle", "lock")
  /\ cancelSeen' = [cancelSeen EXCEPT ![u] = ThisRow]
  /\ UNCHANGED <<row, claims, context, results, executor, timing, listening, mustPublish,
                 memory, lock>>

\* The lock is not waited for: a taken lock is an error to the caller.
CancelLock(u) ==
  /\ IF lock = "free" THEN Step(u, "lock", "abort") /\ lock' = u
                      ELSE Step(u, "lock", "done") /\ UNCHANGED lock
  /\ UNCHANGED <<row, claims, context, results, executor, timing, listening, cancelSeen,
                 mustPublish, memory>>

BugAbortAtOnce(u, abortable) ==
  IF abortable
  THEN /\ ConditionalStatusUpdate("aborted", {"in_progress"})
       /\ mustPublish' = [mustPublish EXCEPT ![u] = status' = "aborted"]
  ELSE UNCHANGED <<status, slotHeld, mustPublish>>

\* IN_PROGRESS as loaded or as refreshed: abortable tasks go to ABORTING.
AbortRunning(u, abortable) ==
  IF abortable
  THEN /\ ConditionalStatusUpdate("aborting", {"in_progress"})
       /\ mustPublish' = [mustPublish EXCEPT ![u] = status' = "aborting"]
  ELSE UNCHANGED <<status, slotHeld, mustPublish>>

\* TaskDAO.abort_task in the transaction of CancelTaskCommand, committed before
\* the lock is released.
CancelAbort(u) ==
  /\ Step(u, "abort", "unlock")
  /\ \/ /\ cancelSeen[u].status = "pending"
        /\ IF status = "in_progress" THEN AbortRunning(u, isAbortable)
           ELSE /\ ConditionalStatusUpdate("aborted", {"pending"})
                /\ UNCHANGED mustPublish
     \/ /\ cancelSeen[u].status = "in_progress"
        /\ AbortRunning(u, cancelSeen[u].isAbortable)
     \/ /\ cancelSeen[u].status = "aborting"
        /\ mustPublish' = [mustPublish EXCEPT ![u] = TRUE]
        /\ UNCHANGED <<status, slotHeld>>
     \/ /\ cancelSeen[u].status \in TERMINAL_STATES
        /\ UNCHANGED <<status, slotHeld, mustPublish>>
  /\ UNCHANGED <<isAbortable, claims, context, results, executor, timing, listening,
                 cancelSeen, memory, lock>>

CancelUnlock(u) ==
  /\ Step(u, "unlock", "publish")
  /\ lock' = "free"
  /\ UNCHANGED <<row, claims, context, results, executor, timing, listening, cancelSeen,
                 mustPublish, memory>>

\* Redis delivers to whoever is subscribed now, and an error while publishing is
\* only logged; polling needs no message.
PublishAbort(u) ==
  /\ Step(u, "publish", "done")
  /\ \/ mailbox' = (mailbox \/ (mustPublish[u] /\ Signal = "pubsub" /\ listener = "listening"))
     \/ CanCrash /\ UNCHANGED mailbox
  /\ UNCHANGED <<row, claims, context, results, executor, timing, listener, stopEvent,
                 cancelSeen, mustPublish, memory, lock>>

\* The request dies, or releasing its lock in the key_value table raises.
CrashRequest(u) ==
  /\ CanCrash /\ cancel[u] \in {"lock", "abort", "unlock", "publish"}
  /\ cancel' = [cancel EXCEPT ![u] = "dead"]
  /\ UNCHANGED <<row, claims, context, results, executor, timing, listening, cancelSeen,
                 mustPublish, memory, lock>>

CancelStep(u) == CancelLock(u) \/ CancelAbort(u) \/ CancelUnlock(u) \/ PublishAbort(u)

JoinerLock ==
  /\ Joiners /\ lock = "free" /\ status \in ACTIVE_STATES
  /\ lock' = "joiner"
  /\ UNCHANGED <<row, claims, context, results, executor, timing, listening, cancelling, memory>>

JoinerUnlock ==
  /\ lock = "joiner"
  /\ lock' = "free"
  /\ UNCHANGED <<row, claims, context, results, executor, timing, listening, cancelling, memory>>

\* The lock of a dead process lapses with its TTL.
ExpireLock ==
  /\ \/ executor = "crashed" /\ lock \in {"timer", "writer"}
     \/ \E u \in Users : lock = u /\ cancel[u] = "dead"
  /\ lock' = "free"
  /\ UNCHANGED <<row, claims, context, results, executor, timing, listening, cancelling, memory>>

Environment == \/ JoinerLock \/ JoinerUnlock \/ ExpireLock
               \/ Crash \/ LoseListener \/ \E u \in Users : CrashRequest(u)

Next == \/ Executor \/ RegisterHandler \/ LeaveFunction
        \/ Timer \/ FireTimer
        \/ Listener \/ HandlerRaises
        \/ \E u \in Users : CancelFind(u) \/ CancelStep(u)
        \/ Environment

Spec == Init /\ [][Next]_vars

\* Threads that are not blocked run on; a request that took the lock goes on to
\* release it; a poll happens sooner or later.  Nothing obliges anybody to cancel,
\* the task function to register a handler or to end, or the process to survive.
Progress == /\ WF_vars(Executor) /\ WF_vars(Timer) /\ WF_vars(Listener)
            /\ WF_vars(JoinerUnlock) /\ WF_vars(ExpireLock)
            /\ \A u \in Users : WF_vars(CancelStep(u))

FairSpec == Spec /\ Progress

\* In addition the task function ends, as it must when nothing can stop it.
FairSpecTaskEnds == FairSpec /\ WF_vars(LeaveFunction)

------------------------------------------------------------------------------
(* Properties *)

RowType      == status \in Status /\ slotHeld \in BOOLEAN /\ isAbortable \in BOOLEAN
FlagsType    == /\ registered \in BOOLEAN /\ abortDetected \in BOOLEAN
                /\ executionCompleted \in BOOLEAN /\ timeoutTriggered \in BOOLEAN
                /\ handlerRuns \in Nat
ResultsType  == /\ handlersCompleted \in BOOLEAN /\ handlerRaised \in BOOLEAN
                /\ handlerFailures \in SUBSET {"abort", "cleanup"}
ExecutorType == executor \in {"submitted", "skip", "pick_up", "running", "register",
                  "listen", "left", "decide", "reread", "stop", "join", "stop_timer",
                  "missed_abort", "handling", "cleanup", "load", "lock", "unlock",
                  "commit", "conclude", "publish", "done", "crashed"}
MemoryType   == /\ raised \in BOOLEAN /\ published \in BOOLEAN
                /\ finalSeen \in Status /\ writerSeen \in Status
TimerType    == /\ timer \in {"off", "armed", "load", "lock", "unlock", "commit", "claim",
                              "handling", "ended"}
                /\ timerSeen \in Seen
ListenerType == /\ listener \in {"off", "listening", "detected", "handling", "ended"}
                /\ stopEvent \in BOOLEAN /\ mailbox \in BOOLEAN
UsersType    == /\ cancel \in [Users -> {"idle", "lock", "abort", "unlock", "publish", "done",
                                      "dead"}]
                /\ cancelSeen \in [Users -> Seen] /\ mustPublish \in [Users -> BOOLEAN]
LockType     == lock \in Users \cup {"free", "joiner", "timer", "writer"}

\* Every variable stays in its range.
TypeOK == /\ RowType /\ FlagsType /\ ResultsType /\ ExecutorType /\ MemoryType
          /\ TimerType /\ ListenerType /\ UsersType /\ LockType

\* The listener, the timer and cleanup all want to run the abort handlers; they
\* run once at most (context.py _claim_abort_handlers), however the three race.
HandlersRunAtMostOnce == handlerRuns <= 1

\* A task that reports SUCCESS was not stopped: no abort handler ran under it and
\* its timeout did not fire before it ended (scheduler.py 310-314, decorators.py 470).
SuccessMeansNotStopped == status = "success" => ~abortDetected /\ ~timeoutTriggered

\* A task that was picked up reports ABORTED or TIMED_OUT only when its abort
\* handlers were all attempted and none of them ever raised, although a failure
\* is cleared from the list when it is recorded and the thread that runs the
\* handlers looks at the list only in the end (tasks.md 196: "If any handler
\* fails, the task is marked as FAILURE").  Workers without a timeout keep this
\* (context.py 475-491, 754, 591; scheduler.py 385-430).  With a timeout they do
\* not: the timer's late ABORTING replaces the recorded FAILURE, and the executor
\* makes it TIMED_OUT.  Nor do direct calls (decorators.py 475-502).
StoppedMeansHandlersSucceeded ==
  (registered /\ status \in {"aborted", "timed_out"}) => handlersCompleted /\ ~handlerRaised

\* ABORTED is reported of a task that was picked up only when a user asked for it:
\* some cancellation found the task running (or already aborting) and no timeout
\* took effect.  TIMED_OUT says that the timeout took effect while the task could
\* still be stopped, no more: a user's abort that is accepted and handled after
\* the timer set its flag and before it wrote ABORTING is reported TIMED_OUT too
\* (context.py 611-641, scheduler.py 391-416).
ReportedCause ==
  registered =>
    /\ status = "aborted" => ~timeoutTriggered /\ \E u \in Users : mustPublish[u]
    /\ status = "timed_out" => timeoutTriggered

\* Nobody can submit the key anew while the task runs, and nobody is kept from
\* submitting it when the task has ended: dedup_key follows the status.
SlotFollowsStatus == slotHeld <=> status \in ACTIVE_STATES

\* A waiter told that the task is complete finds a terminal status in the row.
PublishedMeansTerminal == published => status \in TERMINAL_STATES

\* When the executor has returned, the task it executed has a terminal status.
FinishedTaskIsTerminal ==
  (executor = "done" /\ timer \in {"off", "ended"}) => status \in TERMINAL_STATES

\* An executor that returned did not leave the task running.
NotLeftInProgress ==
  (executor = "done" /\ timer \in {"off", "ended"}) => status # "in_progress"

\* A timeout whose handlers all complete is reported as TIMED_OUT ("If handlers
\* complete successfully -> TIMED_OUT", tasks.md 283).
TimedOutWhenHandlersSucceed ==
  (/\ executor = "done" /\ timer = "ended" /\ listener # "handling"
   /\ timeoutTriggered /\ handlersCompleted /\ handlerFailures = {} /\ ~raised)
     => status = "timed_out"

\* "If any handler fails, the task is marked as FAILURE" (tasks.md 196): recording
\* the failures leaves the task failed.
HandlerFailureMeansFailure ==
  [][(executor = "commit" /\ executor' # executor /\ executor' # "crashed")
        => status' = "failure"]_vars

\* No step takes a task out of a terminal status, or renames one.
TerminalIsFinal == [][(status \in TERMINAL_STATES) => status' = status]_vars

\* A status write never revives a task that gave its deduplication slot away.
SlotNeverRegained == [][~slotHeld => ~slotHeld']_vars

\* An abort accepted while the task function runs reaches its handlers, unless
\* the function ends first (tasks.md: the handler fires automatically).
AbortReachesHandlers ==
  status = "aborting" ~> (abortDetected \/ executionCompleted \/ executor = "crashed")

\* The task row implements the lifecycle, and a task picked up comes to an end.
Lifecycle == INSTANCE TaskLifecycle
RefinesLifecycle     == Lifecycle!SafeSpec
RefinesFairLifecycle == Lifecycle!Spec

\* With a timeout as well the row moves by the lifecycle, however timer, handlers,
\* users and submissions race: nothing but the timer's own write of ABORTING takes
\* a task out of a terminal status, and no step changes one terminal status into
\* another or gives the deduplication slot back (update.py, internal_update).
RefinesTimedLifecycle ==
  /\ Lifecycle!Init
  /\ [][Lifecycle!Next \/ (timer = "commit" /\ Lifecycle!LateAbort)]_(Lifecycle!lifecycleVars)
==============================================================================
