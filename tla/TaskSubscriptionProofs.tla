----------------------- MODULE TaskSubscriptionProofs -----------------------
(* Submissions and cancellations under one key, for any set of users, any of *)
(* them administrators, any scope and any number of rows.                    *)
EXTENDS TaskSubscription, FiniteSetTheorems, TLAPS

USE DEF Tasks

Places == {"idle", "find", "insert", "created", "commit", "join", "leave", "subscribe",
           "enqueue", "failed", "cancel_lock", "cancel", "release", "crashed"}

\* Where a request is about a row, and where it is about to create one.
WithRow  == {"join", "leave", "subscribe", "enqueue", "cancel_lock", "cancel", "release"}
Creating == {"created", "commit"}

\* Rows are numbered in the order of their creation.
Numbered == \E n \in 0..MaxTasks : Created = 1..n
RowExists == \A u \in Users : place[u] \in WithRow => mine[u] \in Tasks /\ status[mine[u]] # "none"
NoneBefore == \A t \in Tasks : status[t] = "none" => subs[t] = {}
\* Who is about to create a row is the only one, and no row is active.
CreatesAlone == \A u \in Users : place[u] \in Creating =>
                  /\ Active = {} /\ Created # Tasks
                  /\ \A v \in Users : place[v] \in Creating => v = u

Inv == TypeOK /\ Numbered /\ RowExists /\ NoneBefore /\ CreatesAlone

-----------------------------------------------------------------------------
(* Statuses.                                                               *)

\* What TaskLifecycle!Next allows, as a relation between two statuses.
Forward == {<<"pending", "in_progress">>, <<"pending", "aborted">>,
            <<"in_progress", "aborting">>, <<"in_progress", "success">>,
            <<"in_progress", "failure">>}
           \cup ({"aborting"} \X TERMINAL_STATES)

RowMoves(t) == status'[t] = status[t] \/ <<status[t], status'[t]>> \in Forward

LEMMA AbortMoves ==
  ASSUME TypeOK, NEW u \in Users, AbortTask(u)
  PROVE  status' \in [Tasks -> Status \cup {"none"}] /\ \A t \in Tasks : RowMoves(t)
<1>1. \/ status' = status
      \/ status[mine[u]] = "pending" /\ status' = [status EXCEPT ![mine[u]] = "aborted"]
      \/ status[mine[u]] = "in_progress" /\ status' = [status EXCEPT ![mine[u]] = "aborting"]
  BY DEF AbortTask
<1>2. status \in [Tasks -> Status \cup {"none"}]
  BY DEF TypeOK
<1>3. CASE status' = status
  BY <1>2, <1>3 DEF RowMoves
<1>4. CASE status[mine[u]] = "pending" /\ status' = [status EXCEPT ![mine[u]] = "aborted"]
  BY <1>2, <1>4 DEF RowMoves, Forward, Status, TERMINAL_STATES
<1>5. CASE status[mine[u]] = "in_progress" /\ status' = [status EXCEPT ![mine[u]] = "aborting"]
  BY <1>2, <1>5 DEF RowMoves, Forward, Status, ACTIVE_STATES
<1>. QED BY <1>1, <1>3, <1>4, <1>5

LEMMA WorkerMoves ==
  ASSUME TypeOK, NEW t \in Tasks, PickUp(t) \/ Finish(t)
  PROVE  status' \in [Tasks -> Status \cup {"none"}] /\ \A s \in Tasks : RowMoves(s)
<1>1. status \in [Tasks -> Status \cup {"none"}]
  BY DEF TypeOK
<1>2. CASE status' = status
  BY <1>1, <1>2 DEF RowMoves
<1>3. CASE \E new \in Status : <<status[t], new>> \in Forward /\ status' = [status EXCEPT ![t] = new]
  BY <1>1, <1>3 DEF RowMoves
<1>4. CASE PickUp(t)
  BY <1>2, <1>3, <1>4 DEF PickUp, Forward, Status, ACTIVE_STATES
<1>5. CASE Finish(t)
  <2>1. PICK s : /\ s \in IF status[t] = "aborting" THEN TERMINAL_STATES ELSE {"success", "failure"}
                 /\ status[t] \in {"in_progress", "aborting"}
                 /\ status' = [status EXCEPT ![t] = s]
    BY <1>5 DEF Finish
  <2>2. s \in Status /\ <<status[t], s>> \in Forward
    BY <2>1 DEF Forward, Status, TERMINAL_STATES
  <2>. QED BY <1>3, <2>1, <2>2
<1>. QED BY <1>4, <1>5

\* Rows move along the lifecycle, but for the one a submission creates.
LEMMA StatusMoves ==
  ASSUME TypeOK, [Next]_vars
  PROVE  \/ \E u \in Users : SubmitCreate(u)
         \/ status' \in [Tasks -> Status \cup {"none"}] /\ \A t \in Tasks : RowMoves(t)
<1>1. status \in [Tasks -> Status \cup {"none"}]
  BY DEF TypeOK
<1>2. CASE status' = status
  BY <1>1, <1>2 DEF RowMoves
<1>3. CASE UNCHANGED vars
  BY <1>2, <1>3 DEF vars, rows
<1>4. ASSUME NEW u \in Users, SubmitStep(u), ~SubmitCreate(u) PROVE status' = status
  BY <1>4 DEF SubmitStep, SubmitFind, SubmitInsert, SubmitUnlock, SubmitJoin, SubmitEnqueue,
              SubmitFailed, rows
<1>5. ASSUME NEW u \in Users, CancelStep(u) PROVE status' = status \/ AbortTask(u)
  BY <1>5 DEF CancelStep, CancelLock, CancelTask, CancelUnlock, rows
<1>6. ASSUME NEW u \in Users, \/ SubmitLock(u) \/ EnqueueFails(u) \/ CancelFind(u)
                              \/ Crash(u) \/ ExpireLock(u) \/ Restart(u)
      PROVE  status' = status
  BY <1>6 DEF SubmitLock, EnqueueFails, CancelFind, Crash, ExpireLock, Restart, rows
<1>7. ASSUME NEW t \in Tasks, SetAbortable(t) PROVE status' = status
  BY <1>7 DEF SetAbortable
<1>. QED BY <1>2, <1>3, <1>4, <1>5, <1>6, <1>7, AbortMoves, WorkerMoves DEF Next

LEMMA MovesKeepSets ==
  ASSUME TypeOK, \A t \in Tasks : RowMoves(t)
  PROVE  /\ Created' = Created
         /\ Active' \subseteq Active
         /\ \A t \in Tasks : status'[t] = "none" <=> status[t] = "none"
<1>1. \A t \in Tasks : status'[t] = "none" <=> status[t] = "none"
  BY DEF RowMoves, Forward, TERMINAL_STATES
<1>2. \A t \in Tasks : status'[t] \in ACTIVE_STATES => status[t] \in ACTIVE_STATES
  BY DEF RowMoves, Forward, TERMINAL_STATES, ACTIVE_STATES
<1>. QED BY <1>1, <1>2 DEF Created, Active

\* The row that a submission creates is new, and then the only active one.
LEMMA Creates ==
  ASSUME Inv, NEW u \in Users, SubmitCreate(u)
  PROVE  \E t \in Tasks :
           /\ t = Cardinality(Created) + 1 /\ status[t] = "none"
           /\ mine' = [mine EXCEPT ![u] = t]
           /\ status' = [status EXCEPT ![t] = "pending"]
           /\ subs' = [subs EXCEPT ![t] = {u}]
           /\ Created' = 1..t
           /\ Active' = {t}
<1>. DEFINE t == Cardinality(Created) + 1
<1>1. place[u] = "commit" /\ Active = {} /\ Created # Tasks
  BY DEF SubmitCreate, Go, Inv, CreatesAlone, Creating
<1>2. PICK n \in 0..MaxTasks : Created = 1..n
  BY DEF Inv, Numbered
<1>3. Cardinality(Created) = n
  BY <1>2, BoundAssumption, FS_Interval
<1>4. t = n + 1 /\ t \in Tasks /\ t \notin Created
  BY <1>1, <1>2, <1>3, BoundAssumption
<1>5. /\ mine' = [mine EXCEPT ![u] = t]
      /\ status' = [status EXCEPT ![t] = "pending"]
      /\ subs' = [subs EXCEPT ![t] = {u}]
  BY DEF SubmitCreate
<1>. HIDE DEF t
<1>6. \A s \in Tasks : status'[s] = IF s = t THEN "pending" ELSE status[s]
  BY <1>5 DEF Inv, TypeOK
<1>7. Created' = Created \cup {t}
  BY <1>4, <1>6 DEF Created
<1>8. Created' = 1..t
  BY <1>2, <1>4, <1>7, BoundAssumption
<1>9. Active' = {t}
  BY <1>1, <1>4, <1>6 DEF Active, ACTIVE_STATES
<1>10. status[t] = "none"
  BY <1>4 DEF Created
<1>. QED BY <1>4, <1>5, <1>8, <1>9, <1>10 DEF t

-----------------------------------------------------------------------------
(* Types.                                                                  *)

Requests == /\ place \in [Users -> Places]
            /\ mine \in [Users -> 0..MaxTasks]
            /\ seen \in [Users -> Loaded]

LEMMA GoTyped ==
  ASSUME place \in [Users -> Places], NEW u \in Users, NEW a, NEW b \in Places, Go(u, a, b)
  PROVE  place' \in [Users -> Places]
BY DEF Go

LEMMA ForgetTyped ==
  ASSUME Requests, NEW u \in Users, Forget(u)
  PROVE  /\ mine' \in [Users -> 0..MaxTasks]
         /\ seen' \in [Users -> Loaded]
<1>1. Nothing \in Loaded /\ 0 \in 0..MaxTasks
  BY BoundAssumption DEF Nothing, Loaded
<1>. QED BY <1>1 DEF Forget, Requests

LEMMA SubmitTyped ==
  ASSUME Inv, NEW u \in Users, SubmitLock(u) \/ SubmitStep(u)
  PROVE  /\ Requests'
         /\ lock' \in Users \cup {"free"} /\ queue' \subseteq Tasks /\ unsent' = unsent
         /\ subs' \in [Tasks -> SUBSET Users] /\ abortable' = abortable
<1>. USE DEF Places
<1>0. /\ Requests /\ lock \in Users \cup {"free"} /\ queue \subseteq Tasks
      /\ subs \in [Tasks -> SUBSET Users]
  BY DEF Inv, TypeOK, Requests
<1>1. CASE SubmitLock(u)
  <2>1. place' \in [Users -> Places]
    BY <1>0, <1>1, GoTyped DEF SubmitLock, Requests
  <2>. QED BY <1>0, <1>1, <2>1 DEF SubmitLock, Requests, rows
<1>2. CASE SubmitFind(u)
  <2>1. place' \in [Users -> Places]
    BY <1>0, <1>2, GoTyped DEF SubmitFind, Requests
  <2>2. mine' \in [Users -> 0..MaxTasks]
    BY <1>0, <1>2, BoundAssumption DEF SubmitFind, Requests, Active
  <2>. QED BY <1>0, <1>2, <2>1, <2>2 DEF SubmitFind, Requests, rows
<1>3. CASE SubmitInsert(u)
  <2>1. place' \in [Users -> Places]
    BY <1>0, <1>3, GoTyped DEF SubmitInsert, Requests
  <2>. QED BY <1>0, <1>3, <2>1 DEF SubmitInsert, Requests, rows
<1>4. CASE SubmitUnlock(u)
  <2>1. place' \in [Users -> Places]
    BY <1>0, <1>4, GoTyped DEF SubmitUnlock, Requests
  <2>2. mine' \in [Users -> 0..MaxTasks] /\ seen' \in [Users -> Loaded]
    BY <1>0, <1>4, ForgetTyped DEF SubmitUnlock, Requests, Keep
  <2>. QED BY <1>0, <1>4, <2>1, <2>2 DEF SubmitUnlock, Requests, rows
<1>5. CASE SubmitCreate(u)
  <2>1. place' \in [Users -> Places]
    BY <1>0, <1>5, GoTyped DEF SubmitCreate, Requests
  <2>2. mine' \in [Users -> 0..MaxTasks] /\ subs' \in [Tasks -> SUBSET Users]
    <3>1. PICK t \in Tasks : mine' = [mine EXCEPT ![u] = t] /\ subs' = [subs EXCEPT ![t] = {u}]
      BY <1>5, Creates
    <3>2. mine' \in [Users -> 0..MaxTasks]
      BY <1>0, <3>1, BoundAssumption DEF Requests
    <3>. QED BY <1>0, <3>1, <3>2
  <2>. QED BY <1>0, <1>5, <2>1, <2>2 DEF SubmitCreate, Requests
<1>6. CASE SubmitJoin(u)
  <2>1. place' \in [Users -> Places]
    BY <1>0, <1>6, GoTyped DEF SubmitJoin, Requests
  <2>2. subs' \in [Tasks -> SUBSET Users]
    BY <1>0, <1>6 DEF SubmitJoin
  <2>. QED BY <1>0, <1>6, <2>1, <2>2, ForgetTyped DEF SubmitJoin, Requests
<1>7. CASE SubmitEnqueue(u)
  <2>1. place' \in [Users -> Places]
    BY <1>0, <1>7, GoTyped DEF SubmitEnqueue, Requests
  <2>2. mine[u] \in Tasks
    BY <1>7 DEF SubmitEnqueue, Go, Inv, RowExists, WithRow
  <2>. QED BY <1>0, <1>7, <2>1, <2>2, ForgetTyped DEF SubmitEnqueue, Requests, rows
<1>8. CASE SubmitFailed(u)
  <2>1. place' \in [Users -> Places]
    BY <1>0, <1>8, GoTyped DEF SubmitFailed, Requests
  <2>. QED BY <1>0, <1>8, <2>1, ForgetTyped DEF SubmitFailed, Requests, rows
<1>. QED BY <1>1, <1>2, <1>3, <1>4, <1>5, <1>6, <1>7, <1>8 DEF SubmitStep

LEMMA CancelTyped ==
  ASSUME Inv, NEW u \in Users, CancelFind(u) \/ CancelStep(u)
  PROVE  /\ Requests'
         /\ lock' \in Users \cup {"free"} /\ queue' = queue /\ unsent' = unsent
         /\ subs' \in [Tasks -> SUBSET Users] /\ abortable' = abortable
<1>. USE DEF Places
<1>0. /\ Requests /\ lock \in Users \cup {"free"}
      /\ subs \in [Tasks -> SUBSET Users]
  BY DEF Inv, TypeOK, Requests
<1>1. CASE CancelFind(u)
  <2>1. place' \in [Users -> Places]
    BY <1>0, <1>1, GoTyped DEF CancelFind, Requests
  <2>2. PICK t \in Created : mine' = [mine EXCEPT ![u] = t] /\ seen' = [seen EXCEPT ![u] = Row(t)]
    BY <1>1 DEF CancelFind
  <2>3. t \in Tasks /\ Row(t) \in Loaded
    BY DEF Created, Row, Loaded, Inv, TypeOK
  <2>4. mine' \in [Users -> 0..MaxTasks]
    BY <1>0, <2>2, <2>3, BoundAssumption DEF Requests
  <2>5. seen' \in [Users -> Loaded]
    BY <1>0, <2>2, <2>3 DEF Requests
  <2>. QED BY <1>0, <1>1, <2>1, <2>4, <2>5 DEF CancelFind, Requests, rows
<1>2. CASE CancelLock(u)
  <2>1. place' \in [Users -> Places]
    BY <1>0, <1>2, GoTyped DEF CancelLock, Requests
  <2>2. mine' \in [Users -> 0..MaxTasks] /\ seen' \in [Users -> Loaded]
    BY <1>0, <1>2, ForgetTyped DEF CancelLock, Requests, Keep
  <2>. QED BY <1>0, <1>2, <2>1, <2>2 DEF CancelLock, Requests, rows
<1>3. CASE CancelTask(u)
  <2>1. place' \in [Users -> Places]
    BY <1>0, <1>3, GoTyped DEF CancelTask, Requests
  <2>2. subs' \in [Tasks -> SUBSET Users]
    BY <1>0, <1>3 DEF CancelTask, Unsubscribe
  <2>. QED BY <1>0, <1>3, <2>1, <2>2 DEF CancelTask, Requests
<1>4. CASE CancelUnlock(u)
  <2>1. place' \in [Users -> Places]
    BY <1>0, <1>4, GoTyped DEF CancelUnlock, Requests
  <2>. QED BY <1>0, <1>4, <2>1, ForgetTyped DEF CancelUnlock, Requests, rows
<1>. QED BY <1>1, <1>2, <1>3, <1>4 DEF CancelStep

LEMMA OtherTyped ==
  ASSUME Inv,
         \/ \E u \in Users : EnqueueFails(u) \/ Crash(u) \/ ExpireLock(u) \/ Restart(u)
         \/ \E t \in Tasks : PickUp(t) \/ SetAbortable(t) \/ Finish(t)
         \/ UNCHANGED vars
  PROVE  /\ Requests'
         /\ lock' \in Users \cup {"free"} /\ queue' \subseteq Tasks /\ unsent' \subseteq Tasks
         /\ subs' = subs /\ abortable' \in [Tasks -> BOOLEAN]
<1>. USE DEF Places
<1>0. /\ Requests /\ lock \in Users \cup {"free"} /\ queue \subseteq Tasks
      /\ abortable \in [Tasks -> BOOLEAN] /\ unsent \subseteq Tasks
  BY DEF Inv, TypeOK, Requests
<1>1. ASSUME NEW u \in Users, EnqueueFails(u) \/ Crash(u)
      PROVE  Requests' /\ UNCHANGED <<lock, queue, subs, abortable>> /\ unsent' \subseteq Tasks
  <2>1. place' \in [Users -> Places]
    BY <1>0, <1>1, GoTyped DEF EnqueueFails, Crash, Requests
  <2>2. place[u] = "enqueue" => mine[u] \in Tasks
    BY DEF Inv, RowExists, WithRow
  <2>3. unsent' \subseteq Tasks
    BY <1>0, <1>1, <2>2 DEF EnqueueFails, Crash, Go
  <2>. QED BY <1>0, <1>1, <2>1, <2>3, ForgetTyped DEF EnqueueFails, Crash, Requests, rows
<1>2. ASSUME NEW u \in Users, ExpireLock(u) \/ Restart(u)
      PROVE  /\ Requests' /\ lock' \in Users \cup {"free"}
             /\ UNCHANGED <<queue, subs, abortable, unsent>>
  <2>1. place' \in [Users -> Places]
    BY <1>0, <1>2, GoTyped DEF ExpireLock, Restart, Requests
  <2>2. UNCHANGED <<mine, seen, queue, subs, abortable, unsent>> /\ lock' \in {lock, "free"}
    BY <1>2 DEF ExpireLock, Restart, Keep, rows
  <2>. QED BY <1>0, <2>1, <2>2 DEF Requests
<1>3. ASSUME NEW t \in Tasks, PickUp(t) \/ SetAbortable(t) \/ Finish(t)
      PROVE  /\ UNCHANGED <<lock, subs, place, mine, seen, unsent>> /\ queue' \subseteq queue
             /\ abortable' \in [Tasks -> BOOLEAN]
  BY <1>0, <1>3 DEF PickUp, SetAbortable, Finish
<1>4. ASSUME UNCHANGED vars
      PROVE  UNCHANGED <<lock, subs, place, mine, seen, queue, abortable, unsent>>
  BY <1>4 DEF vars, rows
<1>. QED BY <1>0, <1>1, <1>2, <1>3, <1>4 DEF Requests

LEMMA TypeKept == Inv /\ [Next]_vars => TypeOK'
<1>. SUFFICES ASSUME Inv, [Next]_vars PROVE TypeOK'
  OBVIOUS
<1>1. TypeOK
  BY DEF Inv
<1>2. status' \in [Tasks -> Status \cup {"none"}]
  <2>1. ASSUME NEW u \in Users, SubmitCreate(u) PROVE status' \in [Tasks -> Status \cup {"none"}]
    BY <1>1, <2>1, Creates DEF TypeOK, Status, ACTIVE_STATES
  <2>. QED BY <1>1, <2>1, StatusMoves
<1>3. /\ Requests'
      /\ lock' \in Users \cup {"free"} /\ queue' \subseteq Tasks /\ unsent' \subseteq Tasks
      /\ subs' \in [Tasks -> SUBSET Users] /\ abortable' \in [Tasks -> BOOLEAN]
  <2>1. /\ subs \in [Tasks -> SUBSET Users] /\ abortable \in [Tasks -> BOOLEAN]
        /\ queue \subseteq Tasks /\ unsent \subseteq Tasks
    BY <1>1 DEF TypeOK
  <2>. QED BY <1>1, <2>1, SubmitTyped, CancelTyped, OtherTyped DEF Next
<1>. QED BY <1>2, <1>3 DEF TypeOK, Requests, Places

-----------------------------------------------------------------------------
(* Requests and rows.                                                      *)

LEMMA RowsStay ==
  ASSUME Inv, [Next]_vars
  PROVE  \A t \in Tasks : status[t] # "none" => status'[t] # "none"
<1>1. TypeOK
  BY DEF Inv
<1>2. ASSUME NEW u \in Users, SubmitCreate(u)
      PROVE  \A t \in Tasks : status[t] # "none" => status'[t] # "none"
  BY <1>1, <1>2, Creates DEF TypeOK
<1>. QED BY <1>1, <1>2, StatusMoves, MovesKeepSets

LEMMA NumberedKept == Inv /\ [Next]_vars => Numbered'
<1>. SUFFICES ASSUME Inv, [Next]_vars PROVE Numbered'
  OBVIOUS
<1>1. ASSUME NEW u \in Users, SubmitCreate(u) PROVE Numbered'
  <2>1. PICK t \in Tasks : Created' = 1..t
    BY <1>1, Creates
  <2>2. t \in 0..MaxTasks
    BY BoundAssumption
  <2>. QED BY <2>1, <2>2 DEF Numbered
<1>2. CASE \A t \in Tasks : RowMoves(t)
  <2>1. Created' = Created
    BY <1>2, MovesKeepSets DEF Inv
  <2>. QED BY <2>1 DEF Inv, Numbered
<1>. QED BY <1>1, <1>2, StatusMoves DEF Inv

\* How a request comes to be about a row.
TakesRow(u, t) == /\ mine' = [mine EXCEPT ![u] = t] /\ t \in Tasks /\ status'[t] # "none"
                  /\ \E p \in WithRow : place' = [place EXCEPT ![u] = p]
KeepsRow(u) == /\ mine' = mine /\ \E p \in Places : Go(u, place[u], p)
               /\ place'[u] \in WithRow => place[u] \in WithRow
LeavesRow(u) == Forget(u) /\ \E p \in {"idle", "crashed"} : Go(u, place[u], p)

LEMMA RequestMoves ==
  ASSUME Inv, [Next]_vars
  PROVE  \/ UNCHANGED <<place, mine>>
         \/ \E u \in Users : \/ KeepsRow(u) \/ LeavesRow(u)
                             \/ \E t \in Tasks : TakesRow(u, t)
<1>0. place \in [Users -> Places] /\ mine \in [Users -> 0..MaxTasks]
  BY DEF Inv, TypeOK, Places
<1>1. ASSUME NEW u \in Users, SubmitLock(u) \/ SubmitInsert(u) PROVE KeepsRow(u)
  BY <1>0, <1>1 DEF SubmitLock, SubmitInsert, KeepsRow, Go, Places, WithRow
<1>2. ASSUME NEW u \in Users, SubmitFind(u) PROVE KeepsRow(u) \/ \E t \in Tasks : TakesRow(u, t)
  <2>1. CASE Active # {}
    <3>1. PICK t \in Active : /\ mine' = [mine EXCEPT ![u] = t]
                              /\ Go(u, "find", IF u \in subs[t] THEN "leave" ELSE "join")
      BY <1>2, <2>1 DEF SubmitFind
    <3>2. t \in Tasks /\ status'[t] # "none"
      BY <1>2 DEF SubmitFind, rows, Active, ACTIVE_STATES
    <3>3. TakesRow(u, t)
      BY <3>1, <3>2 DEF TakesRow, Go, WithRow
    <3>. QED BY <3>2, <3>3
  <2>2. CASE Active = {}
    BY <1>0, <1>2, <2>2 DEF SubmitFind, KeepsRow, Go, Places, WithRow
  <2>. QED BY <2>1, <2>2
<1>3. ASSUME NEW u \in Users, SubmitUnlock(u) PROVE KeepsRow(u) \/ LeavesRow(u)
  BY <1>0, <1>3 DEF SubmitUnlock, KeepsRow, LeavesRow, Keep, Go, Places, WithRow
<1>4. ASSUME NEW u \in Users, SubmitCreate(u) PROVE \E t \in Tasks : TakesRow(u, t)
  <2>1. PICK t \in Tasks : mine' = [mine EXCEPT ![u] = t] /\ status' = [status EXCEPT ![t] = "pending"]
    BY <1>4, Creates
  <2>2. status'[t] # "none"
    BY <2>1 DEF Inv, TypeOK
  <2>. QED BY <1>4, <2>1, <2>2 DEF SubmitCreate, TakesRow, Go, WithRow
<1>5. ASSUME NEW u \in Users, \/ SubmitJoin(u) \/ SubmitEnqueue(u) \/ EnqueueFails(u)
                              \/ SubmitFailed(u) \/ CancelUnlock(u)
      PROVE  LeavesRow(u)
  BY <1>5 DEF SubmitJoin, SubmitEnqueue, EnqueueFails, SubmitFailed, CancelUnlock, LeavesRow, Go
<1>6. ASSUME NEW u \in Users, CancelFind(u) PROVE \E t \in Tasks : TakesRow(u, t)
  <2>1. PICK t \in Created : mine' = [mine EXCEPT ![u] = t]
    BY <1>6 DEF CancelFind
  <2>2. t \in Tasks /\ status'[t] # "none"
    BY <1>6 DEF CancelFind, rows, Created
  <2>3. TakesRow(u, t)
    BY <1>6, <2>1, <2>2 DEF CancelFind, TakesRow, Go, WithRow
  <2>. QED BY <2>2, <2>3
<1>7. ASSUME NEW u \in Users, CancelLock(u) PROVE KeepsRow(u) \/ LeavesRow(u)
  BY <1>0, <1>7 DEF CancelLock, KeepsRow, LeavesRow, Keep, Go, Places, WithRow
<1>8. ASSUME NEW u \in Users, CancelTask(u) PROVE KeepsRow(u)
  BY <1>0, <1>8 DEF CancelTask, KeepsRow, Go, Places, WithRow
<1>9. ASSUME NEW u \in Users, Crash(u) PROVE LeavesRow(u)
  BY <1>9 DEF Crash, LeavesRow, Go
<1>10. ASSUME NEW u \in Users, ExpireLock(u) PROVE UNCHANGED <<place, mine>>
  BY <1>10 DEF ExpireLock
<1>11. ASSUME NEW u \in Users, Restart(u) PROVE KeepsRow(u)
  BY <1>0, <1>11 DEF Restart, KeepsRow, Keep, Go, Places, WithRow
<1>12. ASSUME NEW t \in Tasks, PickUp(t) \/ SetAbortable(t) \/ Finish(t) PROVE UNCHANGED <<place, mine>>
  BY <1>12 DEF PickUp, SetAbortable, Finish
<1>13. CASE UNCHANGED vars
  BY <1>13 DEF vars
<1>. QED BY <1>1, <1>2, <1>3, <1>4, <1>5, <1>6, <1>7, <1>8, <1>9, <1>10, <1>11, <1>12, <1>13
         DEF Next, SubmitStep, CancelStep

LEMMA RowExistsKept == Inv /\ [Next]_vars => RowExists'
<1>. SUFFICES ASSUME Inv, [Next]_vars, NEW v \in Users, place'[v] \in WithRow
              PROVE  mine'[v] \in Tasks /\ status'[mine'[v]] # "none"
  BY DEF RowExists
<1>0. place \in [Users -> Places] /\ mine \in [Users -> 0..MaxTasks]
  BY DEF Inv, TypeOK, Places
<1>1. CASE place[v] \in WithRow /\ mine'[v] = mine[v]
  BY <1>1, RowsStay DEF Inv, RowExists
<1>2. ASSUME NEW u \in Users, KeepsRow(u) PROVE place[v] \in WithRow /\ mine'[v] = mine[v]
  BY <1>0, <1>2 DEF KeepsRow, Go
<1>3. ASSUME NEW u \in Users, LeavesRow(u) PROVE place[v] \in WithRow /\ mine'[v] = mine[v]
  <2>1. u # v
    BY <1>0, <1>3 DEF LeavesRow, Go, WithRow
  <2>. QED BY <1>0, <1>3, <2>1 DEF LeavesRow, Forget, Go
<1>4. ASSUME NEW u \in Users, NEW t \in Tasks, TakesRow(u, t)
      PROVE  \/ mine'[v] \in Tasks /\ status'[mine'[v]] # "none"
             \/ place[v] \in WithRow /\ mine'[v] = mine[v]
  BY <1>0, <1>4 DEF TakesRow
<1>5. UNCHANGED <<place, mine>> => place[v] \in WithRow /\ mine'[v] = mine[v]
  OBVIOUS
<1>. QED BY <1>1, <1>2, <1>3, <1>4, <1>5, RequestMoves

-----------------------------------------------------------------------------
(* Creation.                                                               *)

LEMMA CreatorsMove ==
  ASSUME Inv, [Next]_vars, NEW v \in Users, place'[v] \in Creating
  PROVE  \/ place[v] \in Creating
         \/ SubmitInsert(v) /\ Active = {} /\ Created # Tasks
<1>0. place \in [Users -> Places]
  BY DEF Inv, TypeOK, Places
<1>1. ASSUME NEW u \in Users, SubmitInsert(u)
      PROVE  \/ place[v] \in Creating
             \/ SubmitInsert(v) /\ Active = {} /\ Created # Tasks
  BY <1>0, <1>1 DEF SubmitInsert, Go, Creating
<1>2. ASSUME NEW u \in Users,
             \/ SubmitLock(u) \/ SubmitFind(u) \/ SubmitUnlock(u) \/ SubmitCreate(u)
             \/ SubmitJoin(u) \/ SubmitEnqueue(u) \/ SubmitFailed(u)
      PROVE  place[v] \in Creating
  BY <1>0, <1>2 DEF SubmitLock, SubmitFind, SubmitUnlock, SubmitCreate, SubmitJoin,
                    SubmitEnqueue, SubmitFailed, Go, Creating
<1>3. ASSUME NEW u \in Users, \/ EnqueueFails(u) \/ CancelFind(u) \/ CancelStep(u)
                              \/ Crash(u) \/ ExpireLock(u) \/ Restart(u)
      PROVE  place[v] \in Creating
  BY <1>0, <1>3 DEF EnqueueFails, CancelFind, CancelStep, CancelLock, CancelTask, CancelUnlock,
                    Crash, ExpireLock, Restart, Go, Creating
<1>4. ASSUME NEW t \in Tasks, PickUp(t) \/ SetAbortable(t) \/ Finish(t)
      PROVE  place[v] \in Creating
  BY <1>4 DEF PickUp, SetAbortable, Finish
<1>5. CASE UNCHANGED vars
  BY <1>5 DEF vars
<1>. QED BY <1>1, <1>2, <1>3, <1>4, <1>5 DEF Next, SubmitStep

LEMMA CreatesAloneKept == Inv /\ [Next]_vars => CreatesAlone'
<1>. SUFFICES ASSUME Inv, [Next]_vars PROVE CreatesAlone'
  OBVIOUS
<1>0. place \in [Users -> Places] /\ TypeOK /\ CreatesAlone
  BY DEF Inv, TypeOK, Places
<1>1. ASSUME NEW u \in Users, SubmitInsert(u) PROVE CreatesAlone'
  <2>1. Created' = Created /\ Active' = Active
    BY <1>1 DEF SubmitInsert, rows, Created, Active
  <2>2. \A v \in Users : v # u => place'[v] \notin Creating
    BY <1>0, <1>1 DEF SubmitInsert, InsertPending, Go, Creating
  <2>3. place'[u] \in Creating => Active = {} /\ Created # Tasks
    BY <1>0, <1>1 DEF SubmitInsert, Go, Creating
  <2>. QED BY <2>1, <2>2, <2>3 DEF CreatesAlone
<1>2. ASSUME NEW u \in Users, SubmitCreate(u) PROVE CreatesAlone'
  <2>1. place[u] \in Creating /\ \A v \in Users : place[v] \in Creating => v = u
    BY <1>0, <1>2 DEF SubmitCreate, Go, CreatesAlone, Creating
  <2>2. \A v \in Users : place'[v] \notin Creating
    BY <1>0, <1>2, <2>1 DEF SubmitCreate, Go, Creating
  <2>. QED BY <2>2 DEF CreatesAlone
<1>3. CASE /\ \A u \in Users : ~SubmitInsert(u)
           /\ \A t \in Tasks : RowMoves(t)
  <2>1. Created' = Created /\ Active' \subseteq Active
    BY <1>0, <1>3, MovesKeepSets
  <2>2. \A v \in Users : place'[v] \in Creating => place[v] \in Creating
    BY <1>3, CreatorsMove
  <2>. QED BY <1>0, <2>1, <2>2 DEF CreatesAlone
<1>. QED BY <1>0, <1>1, <1>2, <1>3, StatusMoves

\* How the subscribers of a row change.
SubsMove(t) ==
  \/ subs'[t] = subs[t]
  \/ \E u \in Users : subs'[t] = subs[t] \cup {u} /\ status[t] # "none"
  \/ \E u \in Users : place[u] = "cancel" /\ mine[u] = t /\ subs'[t] = subs[t] \ {u}
  \/ \E u \in Users : status[t] = "none" /\ subs'[t] = {u} /\ status'[t] = "pending"

LEMMA SubsMoves ==
  ASSUME Inv, [Next]_vars
  PROVE  \A t \in Tasks : SubsMove(t)
<1>. SUFFICES ASSUME NEW t \in Tasks PROVE SubsMove(t)
  OBVIOUS
<1>0. subs \in [Tasks -> SUBSET Users] /\ status \in [Tasks -> Status \cup {"none"}]
  BY DEF Inv, TypeOK
<1>1. CASE subs' = subs
  BY <1>1 DEF SubsMove
<1>2. ASSUME NEW u \in Users, SubmitCreate(u) PROVE SubsMove(t)
  <2>1. PICK new \in Tasks : /\ status[new] = "none"
                             /\ status' = [status EXCEPT ![new] = "pending"]
                             /\ subs' = [subs EXCEPT ![new] = {u}]
    BY <1>2, Creates
  <2>. QED BY <1>0, <2>1 DEF SubsMove
<1>3. ASSUME NEW u \in Users, SubmitJoin(u) PROVE SubsMove(t)
  <2>1. mine[u] \in Tasks /\ status[mine[u]] # "none"
    BY <1>3 DEF SubmitJoin, Go, Inv, RowExists, WithRow
  <2>. QED BY <1>0, <1>3, <2>1 DEF SubmitJoin, SubsMove
<1>4. ASSUME NEW u \in Users, CancelTask(u) PROVE SubsMove(t)
  <2>1. place[u] = "cancel" /\ (subs' = subs \/ subs' = [subs EXCEPT ![mine[u]] = @ \ {u}])
    BY <1>4 DEF CancelTask, Go, Unsubscribe
  <2>. QED BY <1>0, <2>1 DEF SubsMove
<1>5. ASSUME NEW u \in Users,
             \/ SubmitLock(u) \/ SubmitFind(u) \/ SubmitInsert(u) \/ SubmitUnlock(u)
             \/ SubmitEnqueue(u) \/ EnqueueFails(u) \/ SubmitFailed(u)
             \/ CancelFind(u) \/ CancelLock(u) \/ CancelUnlock(u)
             \/ Crash(u) \/ ExpireLock(u) \/ Restart(u)
      PROVE  subs' = subs
  BY <1>5 DEF SubmitLock, SubmitFind, SubmitInsert, SubmitUnlock, SubmitEnqueue, EnqueueFails, SubmitFailed,
              CancelFind, CancelLock, CancelUnlock, Crash, ExpireLock, Restart, rows
<1>6. ASSUME NEW s \in Tasks, PickUp(s) \/ SetAbortable(s) \/ Finish(s) PROVE subs' = subs
  BY <1>6 DEF PickUp, SetAbortable, Finish
<1>7. UNCHANGED vars => subs' = subs
  BY DEF vars, rows
<1>. QED BY <1>1, <1>2, <1>3, <1>4, <1>5, <1>6, <1>7 DEF Next, SubmitStep, CancelStep

LEMMA NoneBeforeKept == Inv /\ [Next]_vars => NoneBefore'
<1>. SUFFICES ASSUME Inv, [Next]_vars, NEW t \in Tasks, status'[t] = "none" PROVE subs'[t] = {}
  BY DEF NoneBefore
<1>1. status[t] = "none" /\ subs[t] = {}
  BY RowsStay DEF Inv, NoneBefore
<1>. QED BY <1>1, SubsMoves DEF SubsMove

LEMMA InitInv == Init => Inv
<1>. SUFFICES ASSUME Init PROVE Inv
  OBVIOUS
<1>1. Created = {} /\ Active = {}
  BY DEF Init, Created, Active, ACTIVE_STATES
<1>2. Numbered
  BY <1>1, BoundAssumption DEF Numbered
<1>3. TypeOK
  BY BoundAssumption DEF Init, TypeOK, Nothing, Loaded
<1>. QED BY <1>2, <1>3 DEF Init, Inv, RowExists, WithRow, NoneBefore, CreatesAlone, Creating

LEMMA InvKept == Inv /\ [Next]_vars => Inv'
BY TypeKept, NumberedKept, RowExistsKept, NoneBeforeKept, CreatesAloneKept DEF Inv

-----------------------------------------------------------------------------
(* Theorems.                                                               *)

(* Every variable stays in its range.                                       *)
THEOREM TypeCorrect == Spec => []TypeOK
<1>1. Inv => TypeOK
  BY DEF Inv
<1>. QED BY <1>1, InitInv, InvKept, PTL DEF Spec

(* For any number of users who submit under one key at once, crash and submit again, *)
(* and although the lock is left before the commit: two rows are never active.       *)
THEOREM KeyIsUnique == Spec => []OneActiveTask
<1>1. Init => OneActiveTask
  BY DEF Init, OneActiveTask, Active, ACTIVE_STATES
<1>2. Inv /\ OneActiveTask /\ [Next]_vars => OneActiveTask'
  <2>. SUFFICES ASSUME Inv, OneActiveTask, [Next]_vars PROVE OneActiveTask'
    OBVIOUS
  <2>1. ASSUME NEW u \in Users, SubmitCreate(u) PROVE OneActiveTask'
    BY <2>1, Creates DEF OneActiveTask
  <2>2. CASE \A t \in Tasks : RowMoves(t)
    <3>1. Active' \subseteq Active
      BY <2>2, MovesKeepSets DEF Inv
    <3>. QED BY <3>1 DEF OneActiveTask
  <2>. QED BY <2>1, <2>2, StatusMoves DEF Inv
<1>. QED BY <1>1, <1>2, InitInv, InvKept, PTL DEF Spec

(* A subscription ends only by its owner's cancellation, whoever else joins, *)
(* cancels or crashes.                                                       *)
THEOREM SubscriptionsAreOwn == Spec => OnlyOwnerUnsubscribes
<1>. DEFINE Own == \A u \in Users, t \in Tasks :
                     (u \in subs[t] /\ u \notin subs'[t]) => place[u] = "cancel" /\ mine[u] = t
<1>1. Inv /\ [Next]_vars => Own
  <2>. SUFFICES ASSUME Inv, [Next]_vars, NEW u \in Users, NEW t \in Tasks,
                       u \in subs[t], u \notin subs'[t]
                PROVE  place[u] = "cancel" /\ mine[u] = t
    OBVIOUS
  <2>1. SubsMove(t) /\ status[t] # "none"
    BY SubsMoves DEF Inv, NoneBefore
  <2>. QED BY <2>1 DEF SubsMove
<1>2. Inv /\ [Next]_vars => [Own]_vars
  BY <1>1
<1>. QED BY <1>2, InitInv, InvKept, PTL DEF Spec, OnlyOwnerUnsubscribes

(* Each row implements TaskLifecycle from its creation on, for any number of rows. *)
THEOREM RowsImplement == Spec => RefinesLifecycle
<1>. DEFINE Implements == \A t \in Tasks : [LifecycleOf(t)!Next]_(LifecycleOf(t)!lifecycleVars)
<1>1. Inv /\ [Next]_vars => Implements
  <2>. SUFFICES ASSUME Inv, [Next]_vars, NEW t \in Tasks
                PROVE  [LifecycleOf(t)!Next]_(LifecycleOf(t)!lifecycleVars)
    OBVIOUS
  <2>1. CASE status'[t] = status[t]
    BY <2>1 DEF LifecycleOf!lifecycleVars
  <2>2. CASE status[t] = "none" /\ status'[t] = "pending"
    BY <2>2 DEF LifecycleOf!lifecycleVars, TERMINAL_STATES
  <2>3. ASSUME <<status[t], status'[t]>> \in Forward PROVE LifecycleOf(t)!Next
    <3>1. LifecycleOf(t)!Become(status'[t])
      BY <2>3 DEF LifecycleOf!Become, Forward, TERMINAL_STATES, LifecycleOf!TERMINAL_STATES
    <3>2. status[t] # "none"
      BY <2>3 DEF Forward
    <3>. QED BY <2>3, <3>1, <3>2
             DEF Forward, TERMINAL_STATES, LifecycleOf!TERMINAL_STATES, LifecycleOf!Next,
                 LifecycleOf!PickUp, LifecycleOf!CancelPending, LifecycleOf!RequestAbort,
                 LifecycleOf!Finish
  <2>4. ASSUME NEW u \in Users, SubmitCreate(u)
        PROVE  status'[t] = status[t] \/ (status[t] = "none" /\ status'[t] = "pending")
    BY <2>4, Creates DEF Inv, TypeOK
  <2>. QED BY <2>1, <2>2, <2>3, <2>4, StatusMoves DEF RowMoves, Inv
<1>2. Inv /\ [Next]_vars => [Implements]_vars
  BY <1>1
<1>. QED BY <1>2, InitInv, InvKept, PTL DEF Spec, RefinesLifecycle

=============================================================================
