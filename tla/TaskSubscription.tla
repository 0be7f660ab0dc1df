-------------------------- MODULE TaskSubscription --------------------------
(* Several users submit and cancel tasks under one deduplication key.         *)
(*                                                                            *)
(*  submit   commands/tasks/submit.py run_with_info, then                     *)
(*           tasks/manager.py submit_task (the Celery message)                *)
(*  cancel   commands/tasks/cancel.py run, daos/tasks.py abort_task           *)
(*  workers  the lifecycle TaskExecutor implements, here without its threads  *)
(*                                                                            *)
(* Both commands use task_lock(dedup_key), which refuses instead of waiting.  *)
(* A cancellation commits inside the lock; a submission leaves the lock before *)
(* its @transaction commits, and only then sends the message.  A session keeps *)
(* the objects it loaded: the second fetch of a cancellation decides whether   *)
(* the row is still visible, but hands back what the first one read.           *)
EXTENDS TaskStates, Naturals, FiniteSets

CONSTANTS Users,     \* who submits and cancels
          Admins,    \* those of them who are administrators
          Scope,     \* scope of the task type
          MaxTasks,  \* bound on the rows created under the key
          CanCrash   \* a process may die between two steps, and the broker refuse a message

ASSUME AdminsAssumption == Admins \subseteq Users /\ "free" \notin Users
ASSUME ScopeAssumption  == Scope \in {"private", "shared", "system"}
ASSUME BoundAssumption  == MaxTasks \in Nat /\ CanCrash \in BOOLEAN

VARIABLES status,     \* per task: committed status, "none" before it is created
          subs,       \* per task: committed subscribers
          abortable,  \* per task: committed is_abortable
          queue,      \* tasks with a Celery message under way
          lock,       \* owner of task_lock(dedup_key)
          place,      \* per user: where the request under way is
          mine,       \* per user: the task the request is about
          seen,       \* per user: what a cancellation loaded first
          unsent      \* history: tasks whose creator went away without sending the message

rows == <<status, subs, abortable>>
vars == <<rows, queue, lock, place, mine, seen, unsent>>

Tasks   == 1..MaxTasks
Loaded  == [status : Status \cup {"none"}, subs : SUBSET Users, abortable : BOOLEAN]
Nothing == [status |-> "none", subs |-> {}, abortable |-> FALSE]
Row(t)  == [status |-> status[t], subs |-> subs[t], abortable |-> abortable[t]]
Created == {t \in Tasks : status[t] # "none"}
Active  == {t \in Tasks : status[t] \in ACTIVE_STATES}

Init == /\ status = [t \in Tasks |-> "none"]
        /\ subs = [t \in Tasks |-> {}]
        /\ abortable = [t \in Tasks |-> FALSE]
        /\ queue = {} /\ lock = "free"
        /\ place = [u \in Users |-> "idle"]
        /\ mine = [u \in Users |-> 0]
        /\ seen = [u \in Users |-> Nothing]
        /\ unsent = {}

Go(u, from, to) == place[u] = from /\ place' = [place EXCEPT ![u] = to]

\* What a request knew goes with it.
Forget(u) == /\ mine' = [mine EXCEPT ![u] = 0]
             /\ seen' = [seen EXCEPT ![u] = Nothing]
Keep == UNCHANGED <<mine, seen>>

------------------------------------------------------------------------------
(* Submit.  A refused lock is an error to the caller and changes nothing.  No  *)
(* submission starts when MaxTasks rows were created and have ended.          *)

SubmitLock(u) ==
  /\ Go(u, "idle", "find") /\ (Created # Tasks \/ Active # {})
  /\ lock = "free" /\ lock' = u
  /\ UNCHANGED <<rows, queue, mine, seen, unsent>>

\* find_by_task_key: whoever holds the active dedup_key, else a task to create.
SubmitFind(u) ==
  /\ IF Active # {}
     THEN \E t \in Active :
            /\ mine' = [mine EXCEPT ![u] = t]
            /\ Go(u, "find", IF u \in subs[t] THEN "leave" ELSE "join")
     ELSE Go(u, "find", "insert") /\ UNCHANGED mine
  /\ UNCHANGED <<rows, queue, lock, seen, unsent>>

\* The insert waits for an uncommitted one under the same key; dedup_key is unique.
InsertPending(u) == \E v \in Users \ {u} : place[v] \in {"created", "commit"}

\* Operators named Bug... are faulty variants; nothing in the specification uses
\* them.  PROJECT.json says which definition each one stands in for.
BugNoUniqueKey(u) ==
  /\ place[u] = "insert" /\ ~InsertPending(u) /\ Created # Tasks
  /\ Go(u, "insert", "created") /\ UNCHANGED lock
  /\ UNCHANGED <<rows, queue, mine, seen, unsent>>

BugKeepsLock(u) ==
  /\ place[u] = "insert" /\ ~InsertPending(u)
  /\ Go(u, "insert", IF Active = {} /\ Created # Tasks THEN "created" ELSE "failed")
  /\ UNCHANGED <<rows, queue, lock, mine, seen, unsent>>

\* The insert is turned away by the unique key, and by an error of the database when
\* MaxTasks rows exist.
SubmitInsert(u) ==
  /\ place[u] = "insert" /\ ~InsertPending(u)
  /\ IF Active = {} /\ Created # Tasks
     THEN Go(u, "insert", "created") /\ UNCHANGED lock
     ELSE Go(u, "insert", "failed") /\ lock' = "free"
  /\ UNCHANGED <<rows, queue, mine, seen, unsent>>

\* The lock is left first ...
SubmitUnlock(u) ==
  /\ \/ Go(u, "created", "commit") /\ Keep
     \/ Go(u, "join", "subscribe") /\ Keep
     \/ Go(u, "leave", "idle") /\ Forget(u)
  /\ lock' = "free"
  /\ UNCHANGED <<rows, queue, unsent>>

\* ... then the transaction commits: a new row with its creator subscribed ...
SubmitCreate(u) ==
  /\ Go(u, "commit", "enqueue")
  /\ LET t == Cardinality(Created) + 1
     IN  /\ mine' = [mine EXCEPT ![u] = t]
         /\ status' = [status EXCEPT ![t] = "pending"]
         /\ subs' = [subs EXCEPT ![t] = {u}]
  /\ UNCHANGED <<abortable, queue, lock, seen, unsent>>

\* ... or one more subscriber on the existing row.
BugReplaceSubscriber(u) ==
  /\ Go(u, "subscribe", "idle") /\ Forget(u)
  /\ subs' = [subs EXCEPT ![mine[u]] = {u}]
  /\ UNCHANGED <<status, abortable, queue, lock, unsent>>

SubmitJoin(u) ==
  /\ Go(u, "subscribe", "idle") /\ Forget(u)
  /\ subs' = [subs EXCEPT ![mine[u]] = @ \cup {u}]
  /\ UNCHANGED <<status, abortable, queue, lock, unsent>>

BugNeverEnqueued(u) ==
  /\ Go(u, "enqueue", "idle") /\ Forget(u)
  /\ UNCHANGED <<rows, queue, lock, unsent>>

\* Only a new task gets a Celery message, after the commit.
SubmitEnqueue(u) ==
  /\ Go(u, "enqueue", "idle") /\ Forget(u)
  /\ queue' = queue \cup {mine[u]}
  /\ UNCHANGED <<rows, lock, unsent>>

\* Celery's broker refuses the message, an error to the caller; the row is committed
\* and stays PENDING.
EnqueueFails(u) ==
  /\ CanCrash /\ Go(u, "enqueue", "idle") /\ Forget(u)
  /\ unsent' = unsent \cup {mine[u]}
  /\ UNCHANGED <<rows, queue, lock>>

\* TaskCreateFailedError reaches the caller.
SubmitFailed(u) ==
  /\ Go(u, "failed", "idle") /\ Forget(u)
  /\ UNCHANGED <<rows, queue, lock, unsent>>

SubmitStep(u) == \/ SubmitFind(u) \/ SubmitInsert(u) \/ SubmitUnlock(u) \/ SubmitCreate(u)
                 \/ SubmitJoin(u) \/ SubmitEnqueue(u) \/ SubmitFailed(u)

------------------------------------------------------------------------------
(* Cancel *)

\* TaskFilter: administrators see every task, others those they subscribe to.
Visible(u, t) == u \in Admins \/ u \in subs[t]

\* The fetch that finds the lock key.
CancelFind(u) ==
  /\ Go(u, "idle", "cancel_lock")
  /\ \E t \in Created :
       /\ Visible(u, t)
       /\ mine' = [mine EXCEPT ![u] = t]
       /\ seen' = [seen EXCEPT ![u] = Row(t)]
  /\ UNCHANGED <<rows, queue, lock, unsent>>

BugLockWithoutOwner(u) ==
  /\ IF lock = "free" THEN Go(u, "cancel_lock", "cancel") /\ lock' = "taken" /\ Keep
                      ELSE Go(u, "cancel_lock", "idle") /\ Forget(u) /\ UNCHANGED lock
  /\ UNCHANGED <<rows, queue, unsent>>

CancelLock(u) ==
  /\ IF lock = "free" THEN Go(u, "cancel_lock", "cancel") /\ lock' = u /\ Keep
                      ELSE Go(u, "cancel_lock", "idle") /\ Forget(u) /\ UNCHANGED lock
  /\ UNCHANGED <<rows, queue, unsent>>

\* _validate_permissions, on what was loaded.
Permitted(u) ==
  /\ Visible(u, mine[u])
  /\ seen[u].status \in ACTIVE_STATES
  /\ \/ u \in Admins
     \/ Scope = "private"
     \/ Scope = "shared" /\ u \in seen[u].subs

\* The last subscriber aborts, as do private and system tasks and force.
ShouldAbort(u, force) == \/ u \in Admins /\ force
                         \/ Scope \in {"private", "system"}
                         \/ Cardinality(seen[u].subs) <= 1

BugAbortAtOnce(u) ==
  LET t == mine[u]
  IN  status' = IF status[t] \in ABORTABLE_STATES /\ (status[t] = "pending" \/ abortable[t])
                THEN [status EXCEPT ![t] = "aborted"] ELSE status

\* abort_task: both transitions are conditional updates on the committed status.
\* A loaded PENDING that was picked up meanwhile is refreshed once.
AbortTask(u) ==
  LET t == mine[u]
      mayAbort == IF seen[u].status = "pending" THEN abortable[t] ELSE seen[u].abortable
  IN  status' = CASE seen[u].status = "pending" /\ status[t] = "pending" ->
                       [status EXCEPT ![t] = "aborted"]
                  [] seen[u].status \in ABORTABLE_STATES /\ status[t] = "in_progress" /\ mayAbort ->
                       [status EXCEPT ![t] = "aborting"]
                  [] OTHER -> status

\* remove_subscriber deletes the subscription that is in the database now.
Unsubscribe(u) == subs' = [subs EXCEPT ![mine[u]] = @ \ {u}]

\* A request with force=True is turned away unless its user is an administrator.
CancelTask(u) ==
  /\ Go(u, "cancel", "release")
  /\ \/ ~Permitted(u) /\ UNCHANGED <<status, subs>>
     \/ u \notin Admins /\ UNCHANGED <<status, subs>>
     \/ \E force \in BOOLEAN :
          /\ Permitted(u) /\ (force => u \in Admins)
          /\ IF ShouldAbort(u, force) THEN AbortTask(u) /\ UNCHANGED subs
             ELSE /\ IF u \in seen[u].subs THEN Unsubscribe(u) ELSE UNCHANGED subs
                  /\ UNCHANGED status
  /\ UNCHANGED <<abortable, queue, lock, mine, seen, unsent>>

CancelUnlock(u) ==
  /\ Go(u, "release", "idle") /\ Forget(u)
  /\ lock' = "free"
  /\ UNCHANGED <<rows, queue, unsent>>

CancelStep(u) == CancelLock(u) \/ CancelTask(u) \/ CancelUnlock(u)

------------------------------------------------------------------------------
(* Workers, and processes that die *)

\* A message is delivered once; a task that is no longer pending is left alone.
PickUp(t) ==
  /\ t \in queue /\ queue' = queue \ {t}
  /\ status' = IF status[t] = "pending" THEN [status EXCEPT ![t] = "in_progress"] ELSE status
  /\ UNCHANGED <<subs, abortable, lock, place, mine, seen, unsent>>

\* The task function registers its first abort handler.
SetAbortable(t) ==
  /\ status[t] = "in_progress" /\ ~abortable[t]
  /\ abortable' = [abortable EXCEPT ![t] = TRUE]
  /\ UNCHANGED <<status, subs, queue, lock, place, mine, seen, unsent>>

Finish(t) ==
  /\ status[t] \in {"in_progress", "aborting"}
  /\ \E s \in IF status[t] = "aborting" THEN TERMINAL_STATES ELSE {"success", "failure"} :
       status' = [status EXCEPT ![t] = s]
  /\ UNCHANGED <<subs, abortable, queue, lock, place, mine, seen, unsent>>

\* The process that serves u dies; what it did not commit is rolled back.
Crash(u) ==
  /\ CanCrash /\ place[u] \notin {"idle", "crashed"}
  /\ place' = [place EXCEPT ![u] = "crashed"] /\ Forget(u)
  /\ unsent' = IF place[u] = "enqueue" THEN unsent \cup {mine[u]} ELSE unsent
  /\ UNCHANGED <<rows, queue, lock>>

\* The dead process's lock lapses.
ExpireLock(u) ==
  /\ lock = u /\ place[u] = "crashed"
  /\ lock' = "free"
  /\ UNCHANGED <<rows, queue, place, mine, seen, unsent>>

Restart(u) ==
  /\ lock # u /\ Go(u, "crashed", "idle")
  /\ Keep /\ UNCHANGED <<rows, queue, lock, unsent>>

Next == \/ \E u \in Users : \/ SubmitLock(u) \/ SubmitStep(u)
                            \/ EnqueueFails(u) \/ CancelFind(u) \/ CancelStep(u)
                            \/ Crash(u) \/ ExpireLock(u) \/ Restart(u)
        \/ \E t \in Tasks : PickUp(t) \/ SetAbortable(t) \/ Finish(t)

Spec == Init /\ [][Next]_vars

\* A request that started goes on; a message is delivered; a task ends.  Nobody is
\* obliged to start a request.
FairSpec == /\ Spec
            /\ \A u \in Users : /\ WF_vars(SubmitStep(u)) /\ WF_vars(CancelStep(u))
                                /\ WF_vars(ExpireLock(u))
            /\ \A t \in Tasks : WF_vars(PickUp(t)) /\ WF_vars(Finish(t))

------------------------------------------------------------------------------
(* Properties *)

\* Every variable stays in its range.
TypeOK ==
  /\ status \in [Tasks -> Status \cup {"none"}]
  /\ subs \in [Tasks -> SUBSET Users]
  /\ abortable \in [Tasks -> BOOLEAN]
  /\ queue \in SUBSET Tasks
  /\ lock \in Users \cup {"free"}
  /\ place \in [Users -> {"idle", "find", "insert", "created", "commit", "join", "leave",
                          "subscribe", "enqueue", "failed", "cancel_lock", "cancel",
                          "release", "crashed"}]
  /\ mine \in [Users -> 0..MaxTasks]
  /\ seen \in [Users -> Loaded]
  /\ unsent \in SUBSET Tasks

\* Although the lock is left before the commit, no two live tasks share the key:
\* the unique dedup_key turns the second creation away.
OneActiveTask == \A s, t \in Active : s = t

\* A subscription ends only by its owner's cancellation.
OnlyOwnerUnsubscribes ==
  [][\A u \in Users, t \in Tasks :
       (u \in subs[t] /\ u \notin subs'[t]) => place[u] = "cancel" /\ mine[u] = t]_vars

\* Every task row implements the lifecycle from its creation on.
LifecycleOf(t) == INSTANCE TaskLifecycle WITH
  status <- IF status[t] = "none" THEN "pending" ELSE status[t],
  slotHeld <- status[t] \notin TERMINAL_STATES
RefinesLifecycle ==
  [][\A t \in Tasks : [LifecycleOf(t)!Next]_(LifecycleOf(t)!lifecycleVars)]_vars

\* Every task that was created is executed or cancelled, whichever requests die at
\* whichever step, if no worker dies with it (nothing looks for orphans, context.py
\* 660); but one whose creator died, or was refused by the broker, between the
\* commit and the message may stay pending for ever (manager.py 766-795), unless
\* somebody cancels it.
EveryTaskEnds ==
  \A t \in Tasks :
    status[t] = "pending" ~> (status[t] \in TERMINAL_STATES \/ t \in unsent)

\* The task lock comes free again.  A submission may hold it while its insert waits
\* for another one's commit, a refused insert must give it back, a cancellation
\* holds it through its transaction, and the holder may die (locks.py 46-81).
LockComesFree == lock # "free" ~> lock = "free"

\* Two creations at once end in one task that both users are subscribed to
\* (locks.py: this prevents race conditions such as two concurrent creates).
SubmitsJoinCleanly == \A u \in Users : place[u] # "failed"

\* A running shared task has a subscriber (task_subscribers.py: when the last
\* subscriber unsubscribes, the task is automatically aborted).
NobodyLeftMeansAborted ==
  \A t \in Tasks : status[t] \in ABORTABLE_STATES => subs[t] # {}

\* A subscriber who did not cancel does not lose the task to another one's
\* cancellation (locks.py: subscribe racing with cancel).
AbortSparesSubscribers ==
  [][\A u \in Users \ Admins :
       (Scope = "shared" /\ place[u] = "release" /\ place'[u] = "idle"
          /\ status[mine[u]] \in ABORT_STATES) => subs'[mine[u]] \subseteq {u}]_vars

\* A submission is handed a task that is pending or in progress
\* (daos/tasks.py 79: only returns tasks that are active).
JoinsRunningTasks ==
  [][\A u \in Users : (place[u] = "find" /\ place'[u] \in {"join", "leave"})
        => status[mine'[u]] \in ABORTABLE_STATES]_vars
==============================================================================
