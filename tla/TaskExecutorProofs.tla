------------------------- MODULE TaskExecutorProofs -------------------------
(* What TaskExecutor guarantees for any set of cancelling users, both ways to *)
(* start a task, both abort signals, with or without a timeout, and whether or *)
(* not handlers fail, submissions contend for the lock and workers crash.      *)
EXTENDS TaskExecutor, TLAPS

USE DEF row, claims, context, results, timing, listening, cancelling, memory

-----------------------------------------------------------------------------
(* Types.  Each group of variables keeps its range by itself, except that what *)
(* a thread remembers of the row has the row's type.                          *)

USE DEF Executor, FindTask, SkipAborted, PickUp, MarkExecutionCompleted, DecideStatus,
        ReadFinalTask, SetAbortable, StartAbortListener, StopListener, JoinListener,
        StopTimer, CheckMissedAbort, RunMissedHandlers, RunCleanupHandlers,
        LoadForFailures, LockForFailures, UnlockForFailures, CommitFailures,
        ConcludeAbort, PublishCompletion, RegisterHandler, LeaveFunction,
        Timer, FireTimer, TimerLoad, TimerLock, TimerUnlock, TimerCommit, TimerClaim,
        TimerHandlersEnd,
        Listener, ListenerDetect, ListenerStop, ListenerCallback, ListenerHandlersEnd, HandlerRaises,
        CancelStep, CancelFind, CancelLock, CancelAbort, CancelUnlock, PublishAbort,
        Environment, JoinerLock, JoinerUnlock, ExpireLock, Crash, LoseListener, CrashRequest

LEMMA RowKept == RowType /\ TimerType /\ UsersType /\ [Next]_vars => RowType'
<1>. SUFFICES ASSUME RowType, TimerType, UsersType, [Next]_vars
              PROVE  RowType'
  OBVIOUS
<1>. USE SwitchAssumption DEF RowType, SetStatus, ConditionalStatusUpdate, AbortRunning, Status, ACTIVE_STATES, TERMINAL_STATES, TimerType, UsersType, Seen
<1>1. CASE Executor
  BY <1>1
<1>2. CASE RegisterHandler \/ LeaveFunction
  BY <1>2
<1>3. CASE Timer \/ FireTimer
  BY <1>3
<1>4. CASE Listener \/ HandlerRaises
  BY <1>4
<1>5. ASSUME NEW u \in Users, CancelFind(u) \/ CancelStep(u)
      PROVE  RowType'
  BY <1>5
<1>6. CASE Environment
  BY <1>6
<1>7. CASE UNCHANGED vars
  BY <1>7 DEF vars
<1>. QED
  <2>. HIDE DEF Executor, RegisterHandler, LeaveFunction, Timer, FireTimer, Listener,
                HandlerRaises, CancelFind, CancelStep, Environment
  <2>. QED  BY <1>1, <1>2, <1>3, <1>4, <1>5, <1>6, <1>7 DEF Next

\* The abort handlers are started by a claim and by nothing else, and a claim is
\* made only while there is none (TaskContext._claim_abort_handlers).
LEMMA ClaimStep ==
  ASSUME [Next]_vars
  PROVE  \/ abortDetected' = abortDetected /\ handlerRuns' = handlerRuns
         \/ ~abortDetected /\ abortDetected' /\ handlerRuns' = handlerRuns + 1
  BY DEF Next, vars, Claim, CanClaim

LEMMA FlagsKept == FlagsType /\ [Next]_vars => FlagsType'
<1>. SUFFICES ASSUME FlagsType, [Next]_vars
              PROVE  FlagsType'
  OBVIOUS
<1>1. handlerRuns' \in Nat
  BY ClaimStep DEF FlagsType
<1>2. abortDetected' \in BOOLEAN
  BY ClaimStep DEF FlagsType
<1>3. registered' \in BOOLEAN
  BY DEF FlagsType, Next, vars
<1>4. executionCompleted' \in BOOLEAN
  BY DEF FlagsType, Next, vars
<1>5. timeoutTriggered' \in BOOLEAN
  BY DEF FlagsType, Next, vars
<1>. QED
  BY <1>1, <1>2, <1>3, <1>4, <1>5 DEF FlagsType

LEMMA ResultsKept == ResultsType /\ [Next]_vars => ResultsType'
<1>. SUFFICES ASSUME ResultsType, [Next]_vars
              PROVE  ResultsType'
  OBVIOUS
<1>. USE SwitchAssumption DEF ResultsType, FinishHandlers
<1>1. CASE Executor
  BY <1>1
<1>2. CASE RegisterHandler \/ LeaveFunction
  BY <1>2
<1>3. CASE Timer \/ FireTimer
  BY <1>3
<1>4. CASE Listener \/ HandlerRaises
  BY <1>4
<1>5. ASSUME NEW u \in Users, CancelFind(u) \/ CancelStep(u)
      PROVE  ResultsType'
  BY <1>5
<1>6. CASE Environment
  BY <1>6
<1>7. CASE UNCHANGED vars
  BY <1>7 DEF vars
<1>. QED
  <2>. HIDE DEF Executor, RegisterHandler, LeaveFunction, Timer, FireTimer, Listener,
                HandlerRaises, CancelFind, CancelStep, Environment
  <2>. QED  BY <1>1, <1>2, <1>3, <1>4, <1>5, <1>6, <1>7 DEF Next

LEMMA ExecutorKept == ExecutorType /\ [Next]_vars => ExecutorType'
<1>. SUFFICES ASSUME ExecutorType, [Next]_vars
              PROVE  ExecutorType'
  OBVIOUS
<1>. USE SwitchAssumption DEF ExecutorType, AfterCleanup
<1>1. CASE Executor
  BY <1>1
<1>2. CASE RegisterHandler \/ LeaveFunction
  BY <1>2
<1>3. CASE Timer \/ FireTimer
  BY <1>3
<1>4. CASE Listener \/ HandlerRaises
  BY <1>4
<1>5. ASSUME NEW u \in Users, CancelFind(u) \/ CancelStep(u)
      PROVE  ExecutorType'
  BY <1>5
<1>6. CASE Environment
  BY <1>6
<1>7. CASE UNCHANGED vars
  BY <1>7 DEF vars
<1>. QED
  <2>. HIDE DEF Executor, RegisterHandler, LeaveFunction, Timer, FireTimer, Listener,
                HandlerRaises, CancelFind, CancelStep, Environment
  <2>. QED  BY <1>1, <1>2, <1>3, <1>4, <1>5, <1>6, <1>7 DEF Next

\* Only PublishCompletion writes `published`, and what it writes is a truth value.
LEMMA MemoryKept == MemoryType /\ RowType /\ [Next]_vars => MemoryType'
<1>. SUFFICES ASSUME MemoryType, RowType, [Next]_vars
              PROVE  MemoryType'
  OBVIOUS
<1>1. raised' \in BOOLEAN /\ finalSeen' \in Status /\ writerSeen' \in Status
  BY DEF MemoryType, RowType, Next, vars
<1>2. CASE PublishCompletion
  BY <1>1, <1>2 DEF MemoryType
<1>3. CASE ~PublishCompletion
  <2>. HIDE DEF PublishCompletion
  <2>. QED  BY <1>1, <1>3 DEF MemoryType, Next, vars
<1>. QED
  BY <1>2, <1>3

\* Only TimerLoad writes what the timer remembers of the row.
LEMMA TimerKept == TimerType /\ RowType /\ [Next]_vars => TimerType'
<1>. SUFFICES ASSUME TimerType, RowType, [Next]_vars
              PROVE  TimerType'
  OBVIOUS
<1>1. CASE TimerLoad
  BY <1>1 DEF TimerType, RowType, Seen, ThisRow
<1>2. CASE ~TimerLoad
  <2>. HIDE DEF TimerLoad
  <2>. QED  BY <1>2 DEF TimerType, Next, vars
<1>. QED
  BY <1>1, <1>2

LEMMA ListenerKept == ListenerType /\ [Next]_vars => ListenerType'
<1>. SUFFICES ASSUME ListenerType, [Next]_vars
              PROVE  ListenerType'
  OBVIOUS
<1>. USE SwitchAssumption DEF ListenerType
<1>1. CASE Executor
  BY <1>1
<1>2. CASE RegisterHandler \/ LeaveFunction
  BY <1>2
<1>3. CASE Timer \/ FireTimer
  BY <1>3
<1>4. CASE Listener \/ HandlerRaises
  BY <1>4
<1>5. ASSUME NEW u \in Users, CancelFind(u) \/ CancelStep(u)
      PROVE  ListenerType'
  BY <1>5
<1>6. CASE Environment
  BY <1>6
<1>7. CASE UNCHANGED vars
  BY <1>7 DEF vars
<1>. QED
  <2>. HIDE DEF Executor, RegisterHandler, LeaveFunction, Timer, FireTimer, Listener,
                HandlerRaises, CancelFind, CancelStep, Environment
  <2>. QED  BY <1>1, <1>2, <1>3, <1>4, <1>5, <1>6, <1>7 DEF Next

\* A user's own steps write the user's entry; nobody else writes any.
LEMMA UsersKept == UsersType /\ RowType /\ [Next]_vars => UsersType'
<1>. SUFFICES ASSUME UsersType, RowType, [Next]_vars
              PROVE  UsersType'
  OBVIOUS
<1>. USE DEF UsersType, Step
<1>1. ASSUME NEW u \in Users, CancelFind(u)
      PROVE  UsersType'
  BY <1>1 DEF RowType, Seen, ThisRow
<1>2. ASSUME NEW u \in Users, CancelLock(u)
      PROVE  UsersType'
  BY <1>2
<1>3. ASSUME NEW u \in Users, CancelAbort(u)
      PROVE  UsersType'
  BY <1>3 DEF AbortRunning
<1>4. ASSUME NEW u \in Users, CancelUnlock(u) \/ PublishAbort(u)
      PROVE  UsersType'
  BY <1>4
<1>5. CASE \/ Executor \/ RegisterHandler \/ LeaveFunction \/ Timer \/ FireTimer
           \/ Listener \/ HandlerRaises
  BY <1>5
<1>6. CASE Environment \/ UNCHANGED vars
  BY <1>6 DEF vars
<1>. QED
  <2>. HIDE DEF Executor, RegisterHandler, LeaveFunction, Timer, FireTimer, Listener,
                HandlerRaises, CancelFind, CancelLock, CancelAbort, CancelUnlock, PublishAbort, Environment
  <2>. QED  BY <1>1, <1>2, <1>3, <1>4, <1>5, <1>6 DEF Next

LEMMA LockKept == LockType /\ [Next]_vars => LockType'
<1>. SUFFICES ASSUME LockType, [Next]_vars
              PROVE  LockType'
  OBVIOUS
<1>. USE SwitchAssumption DEF LockType, Step
<1>1. CASE Executor
  BY <1>1
<1>2. CASE RegisterHandler \/ LeaveFunction
  BY <1>2
<1>3. CASE Timer \/ FireTimer
  BY <1>3
<1>4. CASE Listener \/ HandlerRaises
  BY <1>4
<1>5. ASSUME NEW u \in Users, CancelFind(u) \/ CancelStep(u)
      PROVE  LockType'
  BY <1>5
<1>6. CASE Environment
  BY <1>6
<1>7. CASE UNCHANGED vars
  BY <1>7 DEF vars
<1>. QED
  <2>. HIDE DEF Executor, RegisterHandler, LeaveFunction, Timer, FireTimer, Listener,
                HandlerRaises, CancelFind, CancelStep, Environment
  <2>. QED  BY <1>1, <1>2, <1>3, <1>4, <1>5, <1>6, <1>7 DEF Next

LEMMA InitTypes == Init => TypeOK
  <1>. SUFFICES ASSUME Init PROVE TypeOK  OBVIOUS
  <1>. USE DEF Init, ThisRow, Seen, Status, ACTIVE_STATES
  <1>1. RowType /\ FlagsType /\ ResultsType
    BY DEF RowType, FlagsType, ResultsType
  <1>2. ExecutorType /\ MemoryType /\ ListenerType /\ LockType
    BY DEF ExecutorType, MemoryType, ListenerType, LockType
  <1>3. TimerType /\ UsersType
    BY DEF TimerType, UsersType
  <1>. QED
    BY <1>1, <1>2, <1>3 DEF TypeOK

(* Every variable keeps its range, whatever the threads and users do. *)
THEOREM TypeCorrect == Spec => []TypeOK
<1>1. TypeOK /\ [Next]_vars => TypeOK'
  BY RowKept, FlagsKept, ResultsKept, ExecutorKept, MemoryKept, TimerKept, ListenerKept,
     UsersKept, LockKept DEF TypeOK
<1>. QED
  BY InitTypes, <1>1, PTL DEF Spec

-----------------------------------------------------------------------------
(* The abort handlers run at most once *)

\* handlerRuns counts claims, and there is a claim or there is none.
ClaimCounted == handlerRuns = IF abortDetected THEN 1 ELSE 0

LEMMA ClaimCountedKept == FlagsType /\ ClaimCounted /\ [Next]_vars => ClaimCounted'
  BY ClaimStep, FlagsKept DEF ClaimCounted, FlagsType

(* Timer, listener and cleanup race for the abort handlers; one of them at most *)
(* gets to run them.                                                           *)
THEOREM HandlersOnce == Spec => []HandlersRunAtMostOnce
<1>1. Init => FlagsType /\ ClaimCounted
  BY InitTypes DEF TypeOK, Init, ClaimCounted
<1>2. FlagsType /\ ClaimCounted => HandlersRunAtMostOnce
  BY DEF FlagsType, ClaimCounted, HandlersRunAtMostOnce
<1>. QED
  BY <1>1, <1>2, FlagsKept, ClaimCountedKept, PTL DEF Spec

-----------------------------------------------------------------------------
(* A task that reports SUCCESS was not stopped *)

\* From here on mark_execution_completed has happened.
AfterExecution == {"decide", "reread", "stop", "join", "stop_timer", "missed_abort",
                   "handling", "cleanup", "load", "lock", "unlock", "commit",
                   "conclude", "publish"}

ExecutionMarked == executor \in AfterExecution => executionCompleted

\* What else is true of a task that reports SUCCESS: its run is over, so that no
\* thread may claim the handlers any more except cleanup, and the status cleanup
\* will go by is the one of the row, or the copy a direct call took of it.
SuccessIsQuiet ==
  status = "success" =>
    /\ ~abortDetected /\ ~timeoutTriggered /\ executionCompleted
    /\ executor \in (AfterExecution \ {"decide"}) \cup {"done", "crashed"}
    /\ (Mode = "sync" /\ executor \in {"stop", "join", "stop_timer", "missed_abort"})
         => finalSeen = "success"

LEMMA ExecutionMarkedKept == ExecutionMarked /\ [Next]_vars => ExecutionMarked'
  BY DEF ExecutionMarked, AfterExecution, AfterCleanup, Next, vars, Claim

LEMMA SuccessIsQuietKept ==
  ASSUME SuccessIsQuiet, ExecutionMarked, RowType, FlagsType, [Next]_vars
  PROVE  SuccessIsQuiet'
<1>. USE DEF SuccessIsQuiet, AfterExecution, SetStatus, ConditionalStatusUpdate
<1>1. CASE FindTask \/ SkipAborted \/ PickUp
  BY <1>1
<1>2. CASE MarkExecutionCompleted
  BY <1>2
<1>3. CASE DecideStatus
  BY <1>3 DEF ExecutionMarked, StopRequested
<1>4. CASE ReadFinalTask \/ SetAbortable \/ StartAbortListener
  BY <1>4
<1>5. CASE StopListener \/ JoinListener \/ StopTimer
  BY <1>5
<1>6. CASE CheckMissedAbort
  BY <1>6 DEF ABORT_STATES
<1>7. CASE RunMissedHandlers \/ RunCleanupHandlers
  BY <1>7 DEF AfterCleanup
<1>8. CASE LoadForFailures \/ LockForFailures \/ UnlockForFailures
  BY <1>8
<1>9. CASE CommitFailures
  BY <1>9 DEF AfterCleanup
<1>10. CASE ConcludeAbort
  BY <1>10
<1>11. CASE PublishCompletion
  BY <1>11
<1>12. CASE RegisterHandler \/ LeaveFunction
  BY <1>12
<1>13. CASE FireTimer
  BY <1>13
<1>14. CASE TimerLoad \/ TimerLock \/ TimerUnlock \/ TimerHandlersEnd
  BY <1>14
<1>15. CASE TimerCommit
  BY <1>15
<1>16. CASE TimerClaim \/ ListenerCallback
  BY <1>16 DEF CanClaim
<1>17. CASE ListenerDetect \/ ListenerStop \/ ListenerHandlersEnd \/ HandlerRaises
  BY <1>17
<1>18. ASSUME NEW u \in Users, CancelFind(u) \/ CancelStep(u)
       PROVE  SuccessIsQuiet'
  BY <1>18 DEF AbortRunning
<1>19. CASE Environment
  BY <1>19
<1>20. CASE UNCHANGED vars
  BY <1>20 DEF vars
<1>. QED
  <2>. HIDE DEF FindTask, SkipAborted, PickUp, MarkExecutionCompleted, DecideStatus,
                ReadFinalTask, SetAbortable, StartAbortListener, StopListener, JoinListener,
                StopTimer, CheckMissedAbort, RunMissedHandlers, RunCleanupHandlers,
                LoadForFailures, LockForFailures, UnlockForFailures, CommitFailures,
                ConcludeAbort, PublishCompletion, RegisterHandler, LeaveFunction, FireTimer,
                TimerLoad, TimerLock, TimerUnlock, TimerCommit, TimerClaim, TimerHandlersEnd,
                ListenerDetect, ListenerStop, ListenerCallback, ListenerHandlersEnd,
                HandlerRaises, CancelFind, CancelStep, Environment
  <2>. QED
    BY <1>1, <1>2, <1>3, <1>4, <1>5, <1>6, <1>7, <1>8, <1>9, <1>10,
       <1>11, <1>12, <1>13, <1>14, <1>15, <1>16, <1>17, <1>18, <1>19, <1>20
    DEF Next

(* No abort handler ran under a task that reports SUCCESS and its timeout did   *)
(* not fire, although the timer and the listener go on while the executor      *)
(* decides, and a timer may still overwrite the status afterwards.             *)
THEOREM SuccessNotStopped == Spec => []SuccessMeansNotStopped
<1>. DEFINE Inv == /\ RowType /\ FlagsType /\ TimerType /\ UsersType
                   /\ ExecutionMarked /\ SuccessIsQuiet
<1>1. Init => Inv
  BY InitTypes DEF TypeOK, Init, ExecutionMarked, AfterExecution, SuccessIsQuiet
<1>2. Inv /\ [Next]_vars => Inv'
  BY RowKept, FlagsKept, TimerKept, UsersKept, ExecutionMarkedKept, SuccessIsQuietKept
<1>3. Inv => SuccessMeansNotStopped
  BY DEF SuccessIsQuiet, SuccessMeansNotStopped
<1>. QED
  BY <1>1, <1>2, <1>3, PTL DEF Spec

-----------------------------------------------------------------------------
(* TIMED_OUT and ABORTED are told apart *)

\* Before its run is over a task has not been stopped, so whoever stops it finds
\* the timeout's flag settled: the timer looks at the same completion mark.
CauseSettled ==
  /\ executor \in {"running", "register", "listen", "left"}
       => status \notin {"pending", "aborted", "timed_out"}
  /\ executor \in {"submitted", "skip", "pick_up"} => ~registered
  /\ registered =>
       /\ status # "pending"
       /\ ~executionCompleted => status \notin {"aborted", "timed_out"}
       /\ status = "aborted" => ~timeoutTriggered
       /\ status = "timed_out" => timeoutTriggered

LEMMA CauseSettledKept ==
  ASSUME CauseSettled, ExecutionMarked, FlagsType, [Next]_vars
  PROVE  CauseSettled'
<1>. USE DEF CauseSettled, FlagsType, SetStatus, ConditionalStatusUpdate
<1>1. CASE FindTask \/ SkipAborted \/ PickUp
  BY <1>1
<1>2. CASE DecideStatus \/ ConcludeAbort
  BY <1>2 DEF ExecutionMarked, AfterExecution
<1>3. CASE CommitFailures
  BY <1>3 DEF AfterCleanup
<1>4. CASE RunCleanupHandlers \/ LockForFailures \/ LoadForFailures \/ UnlockForFailures
  BY <1>4 DEF AfterCleanup
<1>5. CASE \/ MarkExecutionCompleted \/ ReadFinalTask \/ SetAbortable \/ StartAbortListener
           \/ StopListener \/ JoinListener \/ StopTimer
  BY <1>5
<1>6. CASE RunMissedHandlers \/ PublishCompletion
  BY <1>6
<1>7. CASE RegisterHandler \/ LeaveFunction
  BY <1>7
<1>8. CASE TimerLoad \/ TimerLock \/ TimerUnlock \/ TimerCommit \/ TimerHandlersEnd
  BY <1>8
<1>9. CASE FireTimer
  BY <1>9
<1>10. CASE ListenerDetect \/ ListenerStop \/ ListenerHandlersEnd \/ HandlerRaises
  BY <1>10
<1>11. ASSUME NEW u \in Users, CancelFind(u) \/ CancelStep(u)
       PROVE  CauseSettled'
  BY <1>11 DEF AbortRunning
<1>12. CASE Environment \/ UNCHANGED vars
  BY <1>12 DEF vars
<1>13. CASE CheckMissedAbort \/ TimerClaim \/ ListenerCallback
  BY <1>13 DEF CanClaim, Claim
<1>. QED
  <2>. HIDE DEF FindTask, SkipAborted, PickUp, MarkExecutionCompleted, DecideStatus,
                ReadFinalTask, SetAbortable, StartAbortListener, StopListener, JoinListener,
                StopTimer, CheckMissedAbort, RunMissedHandlers, RunCleanupHandlers,
                LoadForFailures, LockForFailures, UnlockForFailures, CommitFailures,
                ConcludeAbort, PublishCompletion, RegisterHandler, LeaveFunction, FireTimer,
                TimerLoad, TimerLock, TimerUnlock, TimerCommit, TimerClaim, TimerHandlersEnd,
                ListenerDetect, ListenerStop, ListenerCallback, ListenerHandlersEnd,
                HandlerRaises, CancelFind, CancelStep, Environment
  <2>. QED
    BY <1>1, <1>2, <1>3, <1>4, <1>5, <1>6, <1>7,
       <1>8, <1>9, <1>10, <1>11, <1>12, <1>13
    DEF Next

\* Some user's cancellation found the task running or aborting.
Asked == \E u \in Users : mustPublish[u]

\* ABORTING has a cause, in the row and in what users loaded of it: the timeout took
\* effect, or a user asked.  A user asks in the third step of a cancellation.
HasCause(s) == s = "aborting" => timeoutTriggered \/ Asked

CauseKnown ==
  /\ timer \in {"load", "lock", "unlock", "commit"} => timeoutTriggered
  /\ HasCause(status)
  /\ \A u \in Users : HasCause(cancelSeen[u].status)
  /\ \A u \in Users : cancel[u] \in {"idle", "lock", "abort"} => ~mustPublish[u]
  /\ registered /\ status = "aborted" => Asked

\* What was asked stays asked: only CancelAbort writes mustPublish, once per user.
LEMMA AskedStays ==
  ASSUME CauseKnown, UsersType, [Next]_vars, Asked
  PROVE  Asked'
<1>1. PICK w \in Users : mustPublish[w]
  BY DEF Asked
<1>2. ASSUME NEW u \in Users, CancelAbort(u)
      PROVE  mustPublish'[w]
  <2>1. u # w
    BY <1>1, <1>2 DEF CauseKnown, Step
  <2>. QED  BY <1>1, <1>2, <2>1 DEF AbortRunning, UsersType
<1>3. CASE UNCHANGED mustPublish
  BY <1>1, <1>3 DEF Asked
<1>4. UNCHANGED mustPublish \/ \E u \in Users : CancelAbort(u)
  <2>. HIDE DEF CancelAbort
  <2>. QED  BY DEF Next, vars
<1>. QED
  <2>. HIDE DEF CancelAbort
  <2>. QED  BY <1>1, <1>2, <1>3, <1>4 DEF Asked

\* Whoever writes ABORTING has a cause: a user who just asked, or the timer.
LEMMA AbortingHasCause ==
  ASSUME CauseKnown, UsersType, [Next]_vars, status # "aborting", status' = "aborting"
  PROVE  (timeoutTriggered \/ Asked)'
<1>1. CASE TimerCommit
  BY <1>1 DEF CauseKnown
<1>2. ASSUME NEW u \in Users, CancelAbort(u)
      PROVE  Asked'
  <2>1. mustPublish'[u]
    BY <1>2 DEF AbortRunning, SetStatus, ConditionalStatusUpdate, UsersType, TERMINAL_STATES
  <2>. QED  BY <2>1 DEF Asked
<1>3. TimerCommit \/ \E u \in Users : CancelAbort(u)
  <2>. HIDE DEF TimerCommit, CancelAbort
  <2>. QED  BY DEF Next, vars, SetStatus, ConditionalStatusUpdate
<1>. QED
  <2>. HIDE DEF TimerCommit, CancelAbort
  <2>. QED  BY <1>1, <1>2, <1>3

\* ABORTED of a task that was picked up replaces ABORTING.
LEMMA AbortedReplacesAborting ==
  ASSUME CauseSettled, ExecutionMarked, [Next]_vars, registered', status' = "aborted"
  PROVE  status \in {"aborting", "aborted"} /\ (status = "aborted" => registered)
<1>. USE DEF CauseSettled, SetStatus, ConditionalStatusUpdate
<1>1. CASE SkipAborted \/ PickUp \/ RegisterHandler
  BY <1>1
<1>2. CASE DecideStatus \/ ConcludeAbort \/ CommitFailures \/ TimerCommit
  BY <1>2
<1>3. ASSUME NEW u \in Users, CancelAbort(u)
      PROVE  status \in {"aborting", "aborted"} /\ (status = "aborted" => registered)
  BY <1>3 DEF AbortRunning
<1>4. CASE UNCHANGED <<status, registered>>
  BY <1>4
<1>5. \/ SkipAborted \/ PickUp \/ RegisterHandler \/ UNCHANGED <<status, registered>>
      \/ DecideStatus \/ ConcludeAbort \/ CommitFailures \/ TimerCommit
      \/ \E u \in Users : CancelAbort(u)
  <2>. HIDE DEF SkipAborted, PickUp, RegisterHandler, DecideStatus, ConcludeAbort,
                CommitFailures, TimerCommit, CancelAbort
  <2>. QED  BY DEF Next, vars
<1>. QED
  <2>. HIDE DEF SkipAborted, PickUp, RegisterHandler, DecideStatus, ConcludeAbort,
                CommitFailures, TimerCommit, CancelAbort
  <2>. QED  BY <1>1, <1>2, <1>3, <1>4, <1>5

LEMMA CauseKnownKept ==
  ASSUME CauseKnown, CauseSettled, ExecutionMarked, RowType, UsersType, FlagsType, [Next]_vars
  PROVE  CauseKnown'
<1>1. timeoutTriggered => timeoutTriggered'
  BY DEF Next, vars, FlagsType
<1>2. (timer \in {"load", "lock", "unlock", "commit"} => timeoutTriggered)'
  BY <1>1 DEF Next, vars, CauseKnown
<1>3. Asked => Asked'
  BY AskedStays
<1>4. HasCause(status)'
  BY <1>1, <1>3, AbortingHasCause DEF HasCause, CauseKnown
<1>5. ASSUME NEW u \in Users
      PROVE  HasCause(cancelSeen[u].status)'
  <2>1. cancelSeen'[u] = cancelSeen[u] \/ cancelSeen'[u] = ThisRow
    BY DEF Next, vars, UsersType, Step
  <2>. QED  BY <1>1, <1>3, <2>1 DEF CauseKnown, HasCause, ThisRow
<1>6. ASSUME NEW u \in Users
      PROVE  (cancel[u] \in {"idle", "lock", "abort"} => ~mustPublish[u])'
  <2>1. CASE UNCHANGED <<cancel, mustPublish>>
    BY <2>1 DEF CauseKnown
  <2>2. ASSUME NEW w \in Users, CancelFind(w) \/ CancelStep(w) \/ CrashRequest(w)
        PROVE  (cancel[u] \in {"idle", "lock", "abort"} => ~mustPublish[u])'
    <3>1. CASE u = w
      BY <2>2, <3>1 DEF CauseKnown, UsersType, Step
    <3>2. CASE u # w
      BY <2>2, <3>2 DEF CauseKnown, UsersType, Step, AbortRunning
    <3>. QED  BY <3>1, <3>2
  <2>3. \/ UNCHANGED <<cancel, mustPublish>>
        \/ \E w \in Users : CancelFind(w) \/ CancelStep(w) \/ CrashRequest(w)
    <3>. HIDE DEF CancelFind, CancelStep, CrashRequest
    <3>. QED  BY DEF Next, vars
  <2>. QED
    <3>. HIDE DEF CancelFind, CancelStep, CrashRequest
    <3>. QED  BY <2>1, <2>2, <2>3
<1>7. (registered /\ status = "aborted" => Asked)'
  <2>. SUFFICES ASSUME registered', status' = "aborted" PROVE Asked'
    OBVIOUS
  <2>1. ~timeoutTriggered'
    BY CauseSettledKept DEF CauseSettled
  <2>. QED
    BY <1>1, <1>3, <2>1, AbortedReplacesAborting DEF CauseKnown, HasCause
<1>. QED
  BY <1>2, <1>4, <1>5, <1>6, <1>7 DEF CauseKnown

(* ABORTED of a task that was picked up was asked for by a user whose           *)
(* cancellation found the task running or aborting, and no timeout took effect; *)
(* TIMED_OUT is never reported without the timeout.  Both ways to start a task, *)
(* and however timer, users and executor interleave.                           *)
THEOREM CauseReported == Spec => []ReportedCause
<1>. DEFINE Inv == /\ RowType /\ FlagsType /\ TimerType /\ UsersType /\ ExecutionMarked
                   /\ CauseSettled /\ CauseKnown
<1>1. Init => Inv
  BY InitTypes DEF TypeOK, Init, ExecutionMarked, AfterExecution, CauseSettled, CauseKnown,
     HasCause, ThisRow
<1>2. Inv /\ [Next]_vars => Inv'
  BY RowKept, FlagsKept, TimerKept, UsersKept, ExecutionMarkedKept, CauseSettledKept,
     CauseKnownKept
<1>3. Inv => ReportedCause
  BY DEF FlagsType, CauseSettled, CauseKnown, Asked, ReportedCause
<1>. QED
  BY <1>1, <1>2, <1>3, PTL DEF Spec

-----------------------------------------------------------------------------
(* The deduplication slot *)

(* No step gives the slot back to a task that gave it up, the timer's late write *)
(* of ABORTING included: the key stays free for the task submitted next.        *)
THEOREM SlotStaysFree == Spec => SlotNeverRegained
<1>1. ASSUME [Next]_vars
      PROVE  [~slotHeld => ~slotHeld']_vars
  BY <1>1 DEF Next, vars, SetStatus, ConditionalStatusUpdate, AbortRunning
<1>. QED
  BY <1>1, PTL DEF Spec, SlotNeverRegained

-----------------------------------------------------------------------------
(* Without a timeout the task row implements TaskLifecycle.  (With one it does  *)
(* not: the timer writes ABORTING over whatever the row holds.)                *)

\* Places of an executor that has picked its task up.
PickedUp == {"running", "register", "listen", "left"} \cup AfterExecution

\* The executor alone ends a task that was picked up: no timer runs, and nobody
\* writes a terminal status between the executor's look at the row and its write
\* of the failures.
NoTimer        == timer \in {"off", "ended"}
NotPending     == executor \in PickedUp => status # "pending"
FailuresApply  == (executor \in {"lock", "unlock", "commit"} /\ writerSeen \notin TERMINAL_STATES)
                    => status \notin TERMINAL_STATES
RowIsExecutors == NoTimer /\ NotPending /\ FailuresApply /\ SlotFollowsStatus

LEMMA NoTimerKept ==
  ASSUME ~HasTimeout, NoTimer, [Next]_vars
  PROVE  NoTimer'
<1>. USE DEF NoTimer
<1>1. CASE Executor
  BY <1>1
<1>2. CASE \/ RegisterHandler \/ LeaveFunction \/ FireTimer \/ Timer
           \/ Listener \/ HandlerRaises
  BY <1>2
<1>3. ASSUME NEW u \in Users, CancelFind(u) \/ CancelStep(u)
      PROVE  NoTimer'
  BY <1>3
<1>4. CASE Environment \/ UNCHANGED vars
  BY <1>4 DEF vars
<1>. QED
  <2>. HIDE DEF Executor, RegisterHandler, LeaveFunction, Timer, FireTimer, Listener,
                HandlerRaises, CancelFind, CancelStep, Environment
  <2>. QED  BY <1>1, <1>2, <1>3, <1>4 DEF Next

LEMMA NotPendingKept ==
  ASSUME NotPending, RowType, [Next]_vars
  PROVE  NotPending'
<1>. USE DEF NotPending, PickedUp, AfterExecution, AfterCleanup, SetStatus,
             ConditionalStatusUpdate, AbortRunning
<1>1. CASE Executor
  BY <1>1
<1>2. CASE \/ RegisterHandler \/ LeaveFunction \/ FireTimer \/ Timer
           \/ Listener \/ HandlerRaises
  BY <1>2
<1>3. ASSUME NEW u \in Users, CancelFind(u) \/ CancelStep(u)
      PROVE  NotPending'
  BY <1>3
<1>4. CASE Environment \/ UNCHANGED vars
  BY <1>4 DEF vars
<1>. QED
  <2>. HIDE DEF Executor, RegisterHandler, LeaveFunction, Timer, FireTimer, Listener,
                HandlerRaises, CancelFind, CancelStep, Environment
  <2>. QED  BY <1>1, <1>2, <1>3, <1>4 DEF Next

LEMMA FailuresApplyKept ==
  ASSUME NotPending, FailuresApply, [Next]_vars
  PROVE  FailuresApply'
<1>. USE DEF NotPending, FailuresApply, PickedUp, AfterExecution, AfterCleanup,
             SetStatus, ConditionalStatusUpdate, AbortRunning, TERMINAL_STATES
<1>1. CASE Executor
  BY <1>1
<1>2. CASE \/ RegisterHandler \/ LeaveFunction \/ FireTimer \/ Timer
           \/ Listener \/ HandlerRaises
  BY <1>2
<1>3. ASSUME NEW u \in Users, CancelFind(u) \/ CancelStep(u)
      PROVE  FailuresApply'
  BY <1>3
<1>4. CASE Environment \/ UNCHANGED vars
  BY <1>4 DEF vars
<1>. QED
  <2>. HIDE DEF Executor, RegisterHandler, LeaveFunction, Timer, FireTimer, Listener,
                HandlerRaises, CancelFind, CancelStep, Environment
  <2>. QED  BY <1>1, <1>2, <1>3, <1>4 DEF Next

LEMMA SlotKept ==
  ASSUME NoTimer, NotPending, FailuresApply, RowType, SlotFollowsStatus, [Next]_vars
  PROVE  SlotFollowsStatus'
<1>. USE DEF NoTimer, NotPending, FailuresApply, PickedUp, AfterExecution, SetStatus, RowType,
             ConditionalStatusUpdate, AbortRunning, SlotFollowsStatus, Status,
             TERMINAL_STATES, ACTIVE_STATES
<1>1. CASE Executor
  BY <1>1
<1>2. CASE \/ RegisterHandler \/ LeaveFunction \/ FireTimer \/ Timer
           \/ Listener \/ HandlerRaises
  BY <1>2
<1>3. ASSUME NEW u \in Users, CancelFind(u) \/ CancelStep(u)
      PROVE  SlotFollowsStatus'
  BY <1>3
<1>4. CASE Environment \/ UNCHANGED vars
  BY <1>4 DEF vars
<1>. QED
  <2>. HIDE DEF Executor, RegisterHandler, LeaveFunction, Timer, FireTimer, Listener,
                HandlerRaises, CancelFind, CancelStep, Environment
  <2>. QED  BY <1>1, <1>2, <1>3, <1>4 DEF Next

LEMMA RowIsExecutorsKept ==
  ~HasTimeout /\ RowIsExecutors /\ RowType /\ [Next]_vars => RowIsExecutors'
BY NoTimerKept, NotPendingKept, FailuresApplyKept, SlotKept DEF RowIsExecutors

\* The moves of TaskLifecycle!Next, as a relation between the two statuses.
Forward(old, new) ==
  \/ old = "pending" /\ new \in {"in_progress", "aborted"}
  \/ old = "in_progress" /\ new \in {"aborting", "success", "failure"}
  \/ old = "aborting" /\ new \in TERMINAL_STATES

RowStep == \/ status' = status /\ slotHeld' = slotHeld
           \/ \E new \in Status : Forward(status, new) /\ SetStatus(new)

LEMMA RowStepIsLifecycleStep ==
  ASSUME RowStep
  PROVE  [Lifecycle!Next]_(Lifecycle!lifecycleVars)
<1>1. CASE status' = status /\ slotHeld' = slotHeld
  BY <1>1 DEF Lifecycle!lifecycleVars
<1>2. ASSUME NEW new \in Status, Forward(status, new), SetStatus(new)
      PROVE  Lifecycle!Next
  <2>1. Lifecycle!Become(new)
    BY <1>2 DEF SetStatus, Lifecycle!Become, TERMINAL_STATES, Lifecycle!TERMINAL_STATES
  <2>2. CASE status = "pending"
    BY <1>2, <2>1, <2>2 DEF Forward, Lifecycle!Next, Lifecycle!PickUp, Lifecycle!CancelPending
  <2>3. CASE status = "in_progress"
    BY <1>2, <2>1, <2>3 DEF Forward, Lifecycle!Next, Lifecycle!RequestAbort, Lifecycle!Finish
  <2>4. CASE status = "aborting"
    BY <1>2, <2>1, <2>4 DEF Forward, Lifecycle!Next, Lifecycle!Finish, TERMINAL_STATES,
                             Lifecycle!TERMINAL_STATES
  <2>. QED
    BY <1>2, <2>2, <2>3, <2>4 DEF Forward
<1>. QED
  BY <1>1, <1>2 DEF RowStep

\* Every step but the timer's commit moves the row forward, or not.
LEMMA RowStepOrTimer ==
  ASSUME NotPending, FailuresApply, RowType, UsersType, [Next]_vars
  PROVE  RowStep \/ TimerCommit
<1>. USE DEF RowStep, ConditionalStatusUpdate, Forward, TERMINAL_STATES, ACTIVE_STATES, Status
<1>1. CASE FindTask \/ SkipAborted
  BY <1>1
<1>2. CASE PickUp
  BY <1>2
<1>3. CASE DecideStatus
  BY <1>3
<1>4. CASE CommitFailures
  BY <1>4 DEF NotPending, FailuresApply, PickedUp, AfterExecution, RowType
<1>5. CASE ConcludeAbort
  BY <1>5
<1>6. ASSUME NEW u \in Users, CancelFind(u) \/ CancelLock(u) \/ CancelUnlock(u) \/ PublishAbort(u)
      PROVE  RowStep
  BY <1>6
<1>7. ASSUME NEW u \in Users, CancelAbort(u)
      PROVE  RowStep
  BY <1>7 DEF AbortRunning
<1>8. CASE MarkExecutionCompleted \/ ReadFinalTask \/ SetAbortable \/ StartAbortListener
           \/ StopListener \/ JoinListener \/ StopTimer \/ CheckMissedAbort
  BY <1>8
<1>9. CASE RunMissedHandlers \/ RunCleanupHandlers \/ LoadForFailures \/ LockForFailures
           \/ UnlockForFailures \/ PublishCompletion \/ RegisterHandler \/ LeaveFunction
  BY <1>9
<1>10. CASE Listener \/ HandlerRaises \/ Environment \/ UNCHANGED vars
  BY <1>10 DEF vars
<1>11. CASE \/ FireTimer \/ TimerLoad \/ TimerLock \/ TimerUnlock \/ TimerClaim
            \/ TimerHandlersEnd
  BY <1>11
<1>12. Executor => \/ FindTask \/ SkipAborted \/ PickUp \/ DecideStatus
                   \/ CommitFailures \/ ConcludeAbort
                   \/ MarkExecutionCompleted \/ ReadFinalTask \/ SetAbortable
                   \/ StartAbortListener \/ StopListener \/ JoinListener \/ StopTimer
                   \/ CheckMissedAbort \/ RunMissedHandlers \/ RunCleanupHandlers
                   \/ LoadForFailures \/ LockForFailures \/ UnlockForFailures
                   \/ PublishCompletion
  BY Zenon DEF Executor
<1>. QED
  <2>. HIDE DEF FindTask, SkipAborted, PickUp, MarkExecutionCompleted, DecideStatus,
                ReadFinalTask, SetAbortable, StartAbortListener, StopListener, JoinListener,
                StopTimer, CheckMissedAbort, RunMissedHandlers, RunCleanupHandlers,
                LoadForFailures, LockForFailures, UnlockForFailures, CommitFailures,
                ConcludeAbort, PublishCompletion, RegisterHandler, LeaveFunction, FireTimer,
                TimerLoad, TimerLock, TimerUnlock, TimerCommit, TimerClaim, TimerHandlersEnd,
                Listener, HandlerRaises, CancelFind, CancelLock, CancelAbort, CancelUnlock, PublishAbort,
                Environment
  <2>. QED
    BY <1>1, <1>2, <1>3, <1>4, <1>5, <1>6, <1>7, <1>8, <1>9, <1>10, <1>11, <1>12, Zenon
    DEF Next, Timer, CancelStep

LEMMA LifecycleStep ==
  ASSUME RowIsExecutors, RowType, UsersType, [Next]_vars
  PROVE  RowStep
<1>1. ~TimerCommit
  BY DEF RowIsExecutors, NoTimer
<1>. HIDE DEF TimerCommit
<1>. QED  BY <1>1, RowStepOrTimer DEF RowIsExecutors

(* Executor, listener, users and submitters together move the row only as the  *)
(* lifecycle allows: forward, to an end that is final, the slot going with it.  *)
THEOREM Implementation == ASSUME ~HasTimeout PROVE Spec => RefinesLifecycle
<1>. DEFINE Inv == RowType /\ TimerType /\ UsersType /\ RowIsExecutors
<1>1. Init => Inv /\ Lifecycle!Init
  BY InitTypes DEF TypeOK, Init, RowIsExecutors, PickedUp, AfterExecution,
     SlotFollowsStatus, ACTIVE_STATES, NoTimer, NotPending, FailuresApply, Lifecycle!Init
<1>2. Inv /\ [Next]_vars => Inv'
  BY RowKept, TimerKept, UsersKept, RowIsExecutorsKept
<1>3. Inv /\ [Next]_vars => [Lifecycle!Next]_(Lifecycle!lifecycleVars)
  BY LifecycleStep, RowStepIsLifecycleStep
<1>. QED
  BY <1>1, <1>2, <1>3, PTL DEF Spec, RefinesLifecycle, Lifecycle!SafeSpec

(* In particular a terminal status is final. *)
THEOREM EndIsFinal == ASSUME ~HasTimeout PROVE Spec => TerminalIsFinal
<1>1. RowType /\ [Lifecycle!Next]_(Lifecycle!lifecycleVars)
        => (status \in TERMINAL_STATES => status' = status)
  BY DEF Lifecycle!Next, Lifecycle!lifecycleVars, Lifecycle!PickUp, RowType,
     Lifecycle!CancelPending, Lifecycle!RequestAbort, Lifecycle!Finish, Lifecycle!TERMINAL_STATES, TERMINAL_STATES
<1>2. RefinesLifecycle => [][Lifecycle!Next]_(Lifecycle!lifecycleVars)
  BY PTL DEF RefinesLifecycle, Lifecycle!SafeSpec
<1>3. Spec => []RowType
  BY InitTypes, TypeCorrect, PTL DEF TypeOK
<1>. QED
  BY <1>1, <1>2, <1>3, Implementation, PTL DEF TerminalIsFinal

(* And the slot is held exactly while the task is active. *)
THEOREM SlotIsStatus == ASSUME ~HasTimeout PROVE Spec => []SlotFollowsStatus
<1>. DEFINE Inv == RowType /\ TimerType /\ UsersType /\ RowIsExecutors
<1>1. Init => Inv
  BY InitTypes DEF TypeOK, Init, RowIsExecutors, PickedUp, AfterExecution,
     SlotFollowsStatus, ACTIVE_STATES, NoTimer, NotPending, FailuresApply
<1>2. Inv /\ [Next]_vars => Inv'
  BY RowKept, TimerKept, UsersKept, RowIsExecutorsKept
<1>3. Inv => SlotFollowsStatus
  BY DEF RowIsExecutors
<1>. QED
  BY <1>1, <1>2, <1>3, PTL DEF Spec

-----------------------------------------------------------------------------
(* With a timeout the timer alone does not keep to the lifecycle.              *)

\* The timer takes effect for a task that registered a handler, so not before it
\* was picked up.
TimerRegistered == timer \in {"load", "lock", "unlock", "commit"} => registered

LateStep == timer = "commit" /\ status \in TERMINAL_STATES /\ SetStatus("aborting")

LEMMA TimerRegisteredKept == TimerRegistered /\ [Next]_vars => TimerRegistered'
<1>. SUFFICES ASSUME TimerRegistered, [Next]_vars
              PROVE  TimerRegistered'
  OBVIOUS
<1>1. registered => registered'
  BY DEF Next, vars
<1>2. CASE FireTimer
  BY <1>2 DEF TimerRegistered
<1>3. CASE Timer
  BY <1>3 DEF TimerRegistered
<1>4. CASE ~FireTimer /\ ~Timer
  <2>1. timer' = timer \/ timer' \in {"armed", "off", "ended"}
    <3>. HIDE DEF FireTimer, Timer
    <3>. QED BY <1>4 DEF Next, vars
  <2>. QED BY <1>1, <2>1 DEF TimerRegistered
<1>. QED BY <1>2, <1>3, <1>4

LEMMA TimerMoves ==
  ASSUME TimerCommit, status # "pending", RowType
  PROVE  RowStep \/ LateStep
<1>1. CASE UNCHANGED <<status, slotHeld>>
  BY <1>1 DEF RowStep
<1>2. CASE SetStatus("aborting") /\ status = "in_progress"
  BY <1>2 DEF RowStep, Forward, Status, ACTIVE_STATES
<1>3. CASE SetStatus("aborting") /\ status = "aborting"
  BY <1>3 DEF RowStep, SetStatus, TERMINAL_STATES, RowType
<1>4. CASE SetStatus("aborting") /\ status \in TERMINAL_STATES
  BY <1>4 DEF LateStep
<1>. QED
  BY <1>1, <1>2, <1>3, <1>4 DEF RowType, Status, ACTIVE_STATES, TERMINAL_STATES

(* In every configuration, with a timeout or without, only the timer's own     *)
(* write takes a task out of a terminal status.  Everybody else moves the row   *)
(* by the lifecycle, over whatever the timer made of it.                        *)
THEOREM TimedImplementation == Spec => RefinesTimedLifecycle
<1>. DEFINE Inv == /\ RowType /\ FlagsType /\ TimerType /\ UsersType /\ ExecutionMarked
                   /\ CauseSettled /\ NotPending /\ FailuresApply /\ TimerRegistered
            Moves == Lifecycle!Next \/ (timer = "commit" /\ Lifecycle!LateAbort)
<1>1. Init => Inv /\ Lifecycle!Init
  BY InitTypes DEF TypeOK, Init, ExecutionMarked, AfterExecution, PickedUp, CauseSettled,
     NotPending, FailuresApply, TimerRegistered, Lifecycle!Init
<1>2. Inv /\ [Next]_vars => Inv'
  BY RowKept, FlagsKept, TimerKept, UsersKept, ExecutionMarkedKept, CauseSettledKept,
     NotPendingKept, FailuresApplyKept, TimerRegisteredKept
<1>3. ASSUME Inv, [Next]_vars PROVE [Moves]_(Lifecycle!lifecycleVars)
  <2>1. TimerCommit => status # "pending"
    BY <1>3 DEF TimerRegistered, CauseSettled
  <2>2. RowStep \/ LateStep
    <3>. HIDE DEF TimerCommit
    <3>. QED BY <1>3, <2>1, RowStepOrTimer, TimerMoves
  <2>3. LateStep => timer = "commit" /\ Lifecycle!LateAbort
    BY DEF LateStep, Lifecycle!LateAbort, Lifecycle!Become, SetStatus, TERMINAL_STATES,
           Lifecycle!TERMINAL_STATES
  <2>. QED BY <2>2, <2>3, RowStepIsLifecycleStep
<1>4. Inv /\ [Next]_vars => [Moves]_(Lifecycle!lifecycleVars)
  BY <1>3
<1>. QED
  BY <1>1, <1>2, <1>4, PTL DEF Spec, RefinesTimedLifecycle

-----------------------------------------------------------------------------
(* Completion messages *)

\* A copy of the row that a direct call took, and what was told of it.
ToldIsTrue == /\ finalSeen \in TERMINAL_STATES => status \in TERMINAL_STATES
              /\ published => status \in TERMINAL_STATES

LEMMA EndStays ==
  ASSUME RowStep, status \in TERMINAL_STATES
  PROVE  status' \in TERMINAL_STATES
BY DEF RowStep, Forward, TERMINAL_STATES

LEMMA ToldIsTrueKept ==
  ASSUME ToldIsTrue, RowStep, [Next]_vars
  PROVE  ToldIsTrue'
<1>1. finalSeen' = finalSeen \/ (finalSeen' = status /\ ReadFinalTask)
  BY DEF Next, vars
<1>2. finalSeen' \in TERMINAL_STATES => status' \in TERMINAL_STATES
  BY <1>1, EndStays DEF ToldIsTrue
<1>3. CASE PublishCompletion
  <2>1. published' => status \in TERMINAL_STATES
    BY <1>3 DEF ToldIsTrue
  <2>. QED BY <1>2, <2>1, EndStays DEF ToldIsTrue
<1>4. CASE ~PublishCompletion
  <2>1. published' = published
    <3>. HIDE DEF PublishCompletion
    <3>. QED BY <1>4 DEF Next, vars
  <2>. QED BY <1>2, <2>1, EndStays DEF ToldIsTrue
<1>. QED
  BY <1>3, <1>4

(* Without a timeout a waiter told that the task is complete finds a terminal  *)
(* status in the row, although a direct call tells it from a copy.              *)
THEOREM ToldWhenTerminal == ASSUME ~HasTimeout PROVE Spec => []PublishedMeansTerminal
<1>. DEFINE Inv == RowType /\ TimerType /\ UsersType /\ RowIsExecutors /\ ToldIsTrue
<1>1. Init => Inv
  BY InitTypes DEF TypeOK, Init, RowIsExecutors, PickedUp, AfterExecution, ToldIsTrue,
     SlotFollowsStatus, ACTIVE_STATES, TERMINAL_STATES, NoTimer, NotPending, FailuresApply
<1>2. Inv /\ [Next]_vars => Inv'
  BY RowKept, TimerKept, UsersKept, RowIsExecutorsKept, LifecycleStep, ToldIsTrueKept
<1>3. Inv => PublishedMeansTerminal
  BY DEF ToldIsTrue, PublishedMeansTerminal
<1>. QED
  BY <1>1, <1>2, <1>3, PTL DEF Spec

-----------------------------------------------------------------------------
(* A worker reports a stop only if no abort handler ever failed *)

StoppedBy == (registered /\ status \in {"aborted", "timed_out"})
               => handlersCompleted /\ ~handlerRaised

\* One thread runs the handlers, after a claim, and they count as completed only
\* when it is through.  (Without a timeout the thread is cleanup or the listener.)
HandlersOver ==
  /\ executor = "handling" => abortDetected /\ listener # "handling"
  /\ listener = "handling" => abortDetected
  /\ handlersCompleted => abortDetected /\ executor # "handling" /\ listener # "handling"

\* A failure is on the list, and keeps the handlers from counting as completed,
\* until it is recorded; from then on the status is an end that is not a stop.
RaisedSettled ==
  handlerRaised => \/ "abort" \in handlerFailures /\ ~handlersCompleted
                   \/ status \in {"failure", "success"}

\* A terminal status that the writer of the failures loaded is still there.
WriterSeenFinal == writerSeen \in TERMINAL_STATES => status \in TERMINAL_STATES

\* Only registered handlers raise, and registrations stay.
RaisedRegistered == handlerRaised => registered

LEMMA RaisedRegisteredKept == RaisedRegistered /\ [Next]_vars => RaisedRegistered'
<1>. SUFFICES ASSUME RaisedRegistered, [Next]_vars
              PROVE  RaisedRegistered'
  OBVIOUS
<1>1. registered => registered'
  BY DEF Next, vars
<1>2. handlerRaised' = handlerRaised \/ HandlerRaises
  BY DEF Next, vars, FinishHandlers
<1>. QED
  BY <1>1, <1>2 DEF RaisedRegistered

LEMMA CompletedStays == handlersCompleted /\ ResultsType /\ [Next]_vars => handlersCompleted'
<1>. SUFFICES ASSUME handlersCompleted, ResultsType, [Next]_vars PROVE handlersCompleted'
  OBVIOUS
<1>1. CASE FinishHandlers
  BY <1>1 DEF FinishHandlers
<1>2. CASE ~FinishHandlers
  BY <1>2 DEF Next, vars
<1>. QED
  BY <1>1, <1>2

LEMMA HandlersOverKept ==
  ASSUME NoTimer, HandlersOver, FlagsType, ResultsType, [Next]_vars
  PROVE  HandlersOver'
<1>. USE DEF HandlersOver, NoTimer, FlagsType, ResultsType
<1>1. CASE CheckMissedAbort
  BY <1>1 DEF Claim, CanClaim
<1>2. CASE RunMissedHandlers
  BY <1>2 DEF FinishHandlers
<1>3. CASE ListenerCallback
  BY <1>3 DEF Claim, CanClaim
<1>4. CASE ListenerHandlersEnd
  BY <1>4 DEF FinishHandlers
<1>5. CASE RunCleanupHandlers \/ CommitFailures \/ HandlerRaises
  BY <1>5 DEF AfterCleanup
<1>6. CASE \/ FindTask \/ SkipAborted \/ PickUp \/ MarkExecutionCompleted \/ DecideStatus
           \/ ReadFinalTask \/ SetAbortable \/ StartAbortListener \/ StopListener
           \/ JoinListener \/ StopTimer
  BY <1>6
<1>7. CASE \/ LoadForFailures \/ LockForFailures \/ UnlockForFailures \/ ConcludeAbort
           \/ PublishCompletion \/ RegisterHandler \/ LeaveFunction
  BY <1>7
<1>8. CASE Timer \/ FireTimer
  BY <1>8
<1>9. CASE ListenerDetect \/ ListenerStop
  BY <1>9
<1>10. ASSUME NEW u \in Users, CancelFind(u) \/ CancelStep(u)
       PROVE  HandlersOver'
  BY <1>10
<1>11. CASE Environment \/ UNCHANGED vars
  BY <1>11 DEF vars
<1>. QED
  <2>. HIDE DEF FindTask, SkipAborted, PickUp, MarkExecutionCompleted, DecideStatus,
                ReadFinalTask, SetAbortable, StartAbortListener, StopListener, JoinListener,
                StopTimer, CheckMissedAbort, RunMissedHandlers, RunCleanupHandlers,
                LoadForFailures, LockForFailures, UnlockForFailures, CommitFailures,
                ConcludeAbort, PublishCompletion, RegisterHandler, LeaveFunction, FireTimer,
                Timer, ListenerDetect, ListenerStop, ListenerCallback, ListenerHandlersEnd,
                HandlerRaises, CancelFind, CancelStep, Environment
  <2>. QED
    BY <1>1, <1>2, <1>3, <1>4, <1>5, <1>6, <1>7, <1>8, <1>9, <1>10, <1>11
    DEF Next, Executor, Listener

LEMMA WriterSeenFinalKept ==
  ASSUME WriterSeenFinal, RowStep, [Next]_vars
  PROVE  WriterSeenFinal'
<1>1. writerSeen' = writerSeen \/ writerSeen' = status
  BY DEF Next, vars
<1>. QED
  BY <1>1, EndStays DEF WriterSeenFinal

\* Without a timeout a terminal status stays as it is.
LEMMA EndIsSame ==
  ASSUME RowStep, status \in TERMINAL_STATES
  PROVE  status' = status
BY DEF RowStep, Forward, TERMINAL_STATES

LEMMA StoppedByKept ==
  ASSUME Mode = "async", StoppedBy, HandlersOver, RaisedSettled, CauseSettled, NoTimer,
         RowStep, FlagsType, ResultsType, RowType, [Next]_vars
  PROVE  StoppedBy'
<1>. SUFFICES ASSUME registered', status' \in {"aborted", "timed_out"}
              PROVE  handlersCompleted' /\ ~handlerRaised'
  BY DEF StoppedBy
<1>1. CASE ConcludeAbort
  <2>1. CASE status' = status
    BY <1>1, <2>1 DEF StoppedBy
  <2>2. CASE status' # status
    <3>1. status = "aborting" /\ handlersCompleted
      BY <1>1, <2>2 DEF ConditionalStatusUpdate, SetStatus
    <3>. QED  BY <1>1, <3>1 DEF RaisedSettled, ResultsType
  <2>. QED  BY <2>1, <2>2
<1>2. CASE ~ConcludeAbort
  <2>1. registered /\ status \in {"aborted", "timed_out"}
    <3>. USE DEF CauseSettled, SetStatus, ConditionalStatusUpdate, NoTimer
    <3>1. CASE SkipAborted \/ PickUp \/ RegisterHandler
      BY <3>1
    <3>2. CASE DecideStatus \/ CommitFailures \/ TimerCommit
      BY <3>2
    <3>3. ASSUME NEW u \in Users, CancelAbort(u)
          PROVE  registered /\ status \in {"aborted", "timed_out"}
      BY <3>3 DEF AbortRunning
    <3>4. CASE UNCHANGED <<status, registered>>
      BY <3>4
    <3>5. \/ SkipAborted \/ PickUp \/ RegisterHandler \/ UNCHANGED <<status, registered>>
          \/ DecideStatus \/ CommitFailures \/ TimerCommit
          \/ \E u \in Users : CancelAbort(u)
      <4>. HIDE DEF SkipAborted, PickUp, RegisterHandler, DecideStatus, ConcludeAbort,
                    CommitFailures, TimerCommit, CancelAbort
      <4>. QED  BY <1>2 DEF Next, vars
    <3>. QED
      <4>. HIDE DEF SkipAborted, PickUp, RegisterHandler, DecideStatus, CommitFailures,
                    TimerCommit, CancelAbort
      <4>. QED  BY <3>1, <3>2, <3>3, <3>4, <3>5
  <2>2. handlersCompleted /\ ~handlerRaised
    BY <2>1 DEF StoppedBy
  <2>3. handlersCompleted'
    BY <2>2, CompletedStays
  <2>4. CASE HandlerRaises
    BY <2>2, <2>4 DEF HandlersOver, NoTimer
  <2>5. CASE ~HandlerRaises
    <3>1. handlerRaised' = handlerRaised
      <4>. HIDE DEF HandlerRaises
      <4>. QED  BY <2>5 DEF Next, vars, FinishHandlers
    <3>. QED  BY <2>2, <2>3, <3>1
  <2>. QED  BY <2>4, <2>5
<1>. QED
  BY <1>1, <1>2

LEMMA RaisedSettledKept ==
  ASSUME StoppedBy, HandlersOver, RaisedSettled, WriterSeenFinal, NoTimer, CauseSettled,
         RaisedRegistered, RowStep, FlagsType, ResultsType, RowType, MemoryType, [Next]_vars
  PROVE  RaisedSettled'
<1>1. CASE HandlerRaises
  BY <1>1 DEF RaisedSettled, HandlersOver, NoTimer
<1>2. CASE handlerRaised /\ status \in {"failure", "success"}
  BY <1>2, EndIsSame DEF RaisedSettled, TERMINAL_STATES
<1>3. CASE /\ handlerRaised /\ "abort" \in handlerFailures /\ ~handlersCompleted
           /\ ~HandlerRaises
  <2>1. CASE CommitFailures
    <3>1. CASE writerSeen \in TERMINAL_STATES
      <4>1. status \in {"failure", "success"}
        BY <1>3, <3>1 DEF WriterSeenFinal, TERMINAL_STATES, StoppedBy, RaisedRegistered
      <4>. QED  BY <1>2, <1>3, <4>1
    <3>2. CASE writerSeen \notin TERMINAL_STATES
      BY <2>1, <3>2 DEF SetStatus, RaisedSettled
    <3>. QED  BY <3>1, <3>2
  <2>2. CASE ~CommitFailures
    <3>1. CASE FinishHandlers
      BY <1>3, <3>1 DEF FinishHandlers, RaisedSettled
    <3>2. CASE RunCleanupHandlers
      BY <1>3, <3>2 DEF RaisedSettled
    <3>3. CASE UNCHANGED results
      BY <1>3, <3>3 DEF RaisedSettled
    <3>4. FinishHandlers \/ RunCleanupHandlers \/ UNCHANGED results
      <4>. HIDE DEF CommitFailures, HandlerRaises, RunCleanupHandlers
      <4>. QED  BY <1>3, <2>2 DEF Next, vars
    <3>. QED
      <4>. HIDE DEF RunCleanupHandlers
      <4>. QED  BY <3>1, <3>2, <3>3, <3>4
  <2>. QED  BY <2>1, <2>2
<1>4. CASE ~handlerRaised /\ ~HandlerRaises
  <2>1. handlerRaised' = handlerRaised
    <3>. HIDE DEF HandlerRaises
    <3>. QED  BY <1>4 DEF Next, vars, FinishHandlers
  <2>. QED  BY <1>4, <2>1 DEF RaisedSettled
<1>. QED
  <2>. HIDE DEF HandlerRaises
  <2>. QED  BY <1>1, <1>2, <1>3, <1>4 DEF RaisedSettled

(* Without a timeout a worker's task that had registered handlers reports      *)
(* ABORTED or TIMED_OUT only when all of them were attempted and none raised,   *)
(* although cleanup may record and clear a failure while the listener's thread  *)
(* still runs the rest of them.                                                *)
THEOREM StopsAreHandled ==
  ASSUME Mode = "async", ~HasTimeout PROVE Spec => []StoppedMeansHandlersSucceeded
<1>. DEFINE Inv == /\ TypeOK /\ ExecutionMarked /\ CauseSettled /\ RowIsExecutors
                   /\ HandlersOver /\ WriterSeenFinal /\ RaisedRegistered
                   /\ StoppedBy /\ RaisedSettled
<1>1. Init => Inv
  BY InitTypes DEF TypeOK, Init, ExecutionMarked, AfterExecution, CauseSettled, PickedUp,
     SlotFollowsStatus, ACTIVE_STATES, TERMINAL_STATES, NoTimer, NotPending, FailuresApply,
     RowIsExecutors, HandlersOver, WriterSeenFinal, RaisedRegistered, StoppedBy, RaisedSettled
<1>2. ASSUME Inv, [Next]_vars PROVE Inv'
  <2>1. RowStep /\ NoTimer
    BY <1>2, LifecycleStep DEF TypeOK, RowIsExecutors
  <2>2. TypeOK' /\ ExecutionMarked' /\ CauseSettled' /\ RowIsExecutors'
    BY <1>2, RowKept, FlagsKept, ResultsKept, ExecutorKept, MemoryKept, TimerKept,
       ListenerKept, UsersKept, LockKept, ExecutionMarkedKept, CauseSettledKept,
       RowIsExecutorsKept DEF TypeOK
  <2>3. HandlersOver' /\ WriterSeenFinal' /\ RaisedRegistered'
    BY <1>2, <2>1, HandlersOverKept, WriterSeenFinalKept, RaisedRegisteredKept DEF TypeOK
  <2>4. StoppedBy'
    BY <1>2, <2>1, StoppedByKept DEF TypeOK
  <2>5. RaisedSettled'
    BY <1>2, <2>1, RaisedSettledKept DEF TypeOK
  <2>. QED  BY <2>2, <2>3, <2>4, <2>5
<1>3. Inv => StoppedMeansHandlersSucceeded
  BY DEF StoppedBy, StoppedMeansHandlersSucceeded
<1>. QED
  BY <1>1, <1>2, <1>3, PTL DEF Spec
=============================================================================
