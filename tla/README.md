# Formal models of AX-BI

TLA+ models of the protocols of AX-BI. On the server (`axbi`, Python): the **Global Task Framework**
(background tasks with deduplication, cancellation, timeouts and subscriptions) and the **distributed
lock** it rests on. In the browser and between browser and server (TypeScript): the **queries of a
chart**, the **event stream** of asynchronous queries, the life of a **SQL Lab query**, and the
**embedded dashboard** with the message channel to its host page. TLC checks the models on small instances; TLAPS proves the main properties for every value
of the constants. Paths below are relative to `src/`.

## 1. Inventory

AX-BI is a Python/Flask analytics platform (a Superset descendant) with Celery workers, a metadata
database, optional Redis coordination, a TypeScript websocket server and front end, and a desktop
shell in Rust. Most of the 10k files are metadata CRUD, query generation and user interface. The
parts with a protocol of their own:

| Component | State | Operations | Interacts through | Hard behaviour |
| --- | --- | --- | --- | --- |
| Task entity (`axbi/models/tasks.py`, `axbi/tasks/constants.py`) | `status`, `dedup_key`, `properties.is_abortable`, subscribers | `set_status` | the `tasks` row | unique key must follow the status |
| Task execution (`axbi/tasks/{scheduler,context,decorators,manager}.py`, `axbi/commands/tasks/{update,internal_update}.py`) | the row; thread flags of `TaskContext`; timer; abort listener | pick up, register a handler, end, clean up, time out, detect an abort | row, `_state_lock`, Redis pub/sub, task lock | four threads and any number of users write one row; status is decided before, while or after handlers run |
| Submission, subscription, cancellation (`axbi/commands/tasks/{submit,cancel}.py`, `axbi/daos/tasks.py`) | rows and subscribers under one deduplication key | submit/join, cancel, unsubscribe, force | task lock, unique index, Celery message | lock released before commit; session caches; crash between commit and message |
| Distributed lock (`axbi/distributed_lock`, `axbi/commands/distributed_lock`) | one entry: owner token and expiry | acquire, release, expire | Redis or the `key_value` table | TTL, lost answers, late release, clocks that differ |
| Waiting for completion (`TaskManager.wait_for_completion`) | a subscription and a look at the row | wait, time out | pub/sub, row | missed message, pruned row |
| Throttled progress (`TaskContext.update_task`) | caches, deferred timer | update, flush | row | last update lost; whole-column writes |
| Pruning (`axbi/commands/tasks/prune.py`) | terminal rows | select, delete | row | delete without a second look |
| Reports and alerts (`axbi/commands/report/execute.py`) | `last_state` of a schedule, log rows | working, grace, error, retry | Celery beat, row | overlapping executions, working timeout |
| Chart queries (`components/Chart` of the front end) | `charts[key]` in the Redux store: status, controller, response; requests in flight | start, abort, stop, answer, fail, render, remove | store actions, timers, aborts, the event stream | overlapping requests answered in any order, late aborts |
| Event stream of asynchronous queries (`axbi/async_events`, `ax-bi-websocket`, `middleware/asyncEvent.ts`) | two Redis streams; the server's read position and sockets; the page's listeners, retries, last id | publish, read, send, catch up, reconnect, poll, listen, time out | Redis, WebSocket, HTTP polling | lost, repeated and early events; restarts |
| SQL Lab (`SqlLab` of the front end, `axbi/sql_lab.py`, `axbi/daos/query.py`) | the record in the store; the row; the worker | run, stop, poll, fetch results, retry | HTTP requests, the row, Celery | every answer may be older than what it is applied to |
| Embedded dashboards (`ax-bi-embedded-sdk`, `ax-bi-switchboard`, `embedded/index.tsx`) | session, token cycle; message queues and calls; the page's start | embed, refresh, unmount; get, emit; start, retry | `MessageChannel`, the host's callback, the server | late, refused and undecodable tokens; reloads; late answers |
| Desktop runtime (`ax-bi-desktop/src-tauri`) | process states | start, probe, stop | container runtime | start/stop races |
| Everything else (REST CRUD, charts, dashboards, engines, security, MCP service, semantic index, Rust parsing crates, SDKs) | metadata rows or none | request handlers, pure functions | — | no protocol of its own |

What makes each modelled component correct:

* **Task row**: a lifecycle that moves forward only, whose end is final, and that gives up the
  deduplication slot in the step that ends the task.
* **Execution**: abort handlers run once, by whichever of three threads claims them; the reported
  status agrees with what happened (SUCCESS: not stopped; ABORTED/TIMED_OUT: handlers succeeded, and
  the cause took part); the executor does not return and leave a task unfinished; an accepted
  abort reaches the handlers.
* **Submission and cancellation**: one active task per key; cancelling takes the task from nobody
  else; a created task is executed or cancelled.
* **Lock**: exclusion within the lease; nobody releases somebody else's lease; a dead holder blocks
  nobody for ever.
* **Chart**: what is shown, failed or stopped is the current query's; loading ends.
* **Event stream**: no event that the page may hear is passed over, retries are neither lost nor
  mixed up, a wait ends once, and it ends if its event is there.
* **SQL Lab**: rows only of an execution that produced them; results asked for only with a key the server
  has; an old poll does not reopen a query; the tab learns how its query ended.
* **Embedding**: one refresh cycle while live, none afterwards; each call gets its own answer, once;
  the page starts once, and in the end it does.

## 2. Modules

| Module | Models | State ↔ code | Actions ↔ code |
| --- | --- | --- | --- |
| `TaskStates` | status classes | `axbi/tasks/constants.py` | — |
| `TaskLifecycle` | the abstract promise of a task row | `status`, `dedup_key` (`slotHeld`) | pick-up, cancellation of a pending task, abort request, end |
| `LeaseLock` | the abstract promise of the distributed lock | the clients that may rely on it (`holders`) | take it when it is free, give it back or let it lapse |
| `RemoteCall` | the abstract promise of one `get` of a Switchboard | the caller's promise, how far the call came | ask, execute, answer, settle, time out, lose a page |
| `TaskExecutor` | one row with its executor, timer, listener, cancelling users, contending submitters | row columns; `TaskContext` flags; each thread's place; what a thread loaded earlier (`...Seen`); the task lock | see below |
| `TaskSubscription` | several users and rows under one key | per task: status, subscribers, `is_abortable`; Celery queue; lock; per request: place, task, loaded copy; the tasks whose message was never sent (`unsent`) | see below |
| `DistributedLock` | one lock key, either backend | owner token, remaining life, holders, time since each acquisition | acquire, acquire with the answer lost, release, abandon, clean up after others, time |
| `ChartQuery` | one chart of Explore, a dashboard or neither | the chart's entry; per query: place of its request; aborts due and done | `exploreJSON` and what becomes of its promise, the reducer, the buttons, rendering |
| `AsyncEvents` | a worker's events, the WebSocket server, one page | stream ids; `lastFirehoseId` and the batch being sent; the socket; `listenersByJobId` (`job`), `retriesByJobId`, timers, `lastReceivedEventId` | `update_job`, `subscribeToGlobalStream`, `processStreamResults`, `wsConnection`, `wsConnect`, `processEvents`, `waitForAsyncData`, `loadEventsFromApi` |
| `SqlLab` | one query among any number of others | `state.queries[id]`; the requests about it; the poll; row and worker | the actions and reducer cases of the client, the commands and the worker of the server |
| `Switchboard` | the two ends of a `MessagePort` | queues, calls with their message ids, methods being executed | `get`, the listeners, `getMethodResult`, the timer |
| `EmbeddedSession` | `embedDashboard()` and the embedded page, over `Switchboard` | session, token, refresh timer and fetch; `started`, the client's token, requests for the roles | the SDK's steps, the page's handshake, `guestToken`, `start()` and its retry, calls of both ends |
| `...Proofs` | theorems about the module of that name (`SwitchboardProofs`: about the calls of `EmbeddedSession`) | | |
| `MC...` | model values and functions for TLC | | |

`TaskExecutor` and `TaskSubscription` split one system by what they look at. `TaskExecutor` takes one
row apart into the steps of every thread that touches it; submissions appear only as somebody who may
hold the task lock (`JoinerLock`). `TaskSubscription` has several rows and requests, and replaces
the executor by the moves of `TaskLifecycle` (`PickUp`, `Finish`) - which is what `TaskExecutor` is
shown to implement. Its rows are again shown to follow `TaskLifecycle`. With a timeout the timer may
write ABORTING over a terminal status; `TaskLifecycle!LateAbort` is that write, and
`RefinesTimedLifecycle` allows it to the timer's commit and to nothing else. Both use the task lock as an
atomic owner variable that is refused, not waited for; `DistributedLock` is where that abstraction
(and its limit, the TTL) is examined: seen through `InLease`, it implements `LeaseLock`, a lock that
somebody holds or nobody (`RefinesLeaseLock`).

**TaskExecutor.** A step ends where another thread can see what was done; a database transaction is
one step, at its commit. `FindTask`, `SkipAborted`, `PickUp`, `MarkExecutionCompleted`,
`DecideStatus`, `CheckMissedAbort`, `RunCleanupHandlers`, `ConcludeAbort`, `PublishCompletion` follow
`execute_task` (`Mode = "async"`) and `_execute_inline` (`Mode = "sync"`) line by line;
`ReadFinalTask` is the direct call's copy of the row on which the rest of it acts. Registering the
first handler is three steps (`RegisterHandler`, `SetAbortable`, `StartAbortListener`) because a
cancellation can fall between them. `LoadForFailures` .. `CommitFailures` and `TimerLoad` ..
`TimerCommit` are `UpdateTaskCommand`: it loads, takes the lock, leaves the lock, and only then
commits (the `@transaction` encloses the `with`). Its "re-fetch" under the lock hands back the object
the session already holds, so the write is what was loaded, over whatever is there:
SQLAlchemy writes a column that changed and leaves it alone otherwise. The conditional transitions
(`ConditionalStatusUpdate`) are `UPDATE ... WHERE status IN ...`.
With `CanCrash` the worker may die (`Crash`), a cancelling request may die or have its lock's release
raise (`CrashRequest`), the listener may lose Redis (`LoseListener`) and publishing may fail
(`PublishAbort`); the lock of a dead holder lapses (`ExpireLock`). `LoseListener` stands for a Redis error
that ends the listener's thread; most errors only make it poll on, so it permits more than the code does.
While a thread runs the abort handlers any of them may raise (`HandlerRaises`), whoever looks at the list
of failures meanwhile; `FinishHandlers` sets `_abort_handlers_completed` when that list is empty in the end, and
`CommitFailures` empties it when it is recorded. `handlerRaised` remembers what the list forgot.

**TaskSubscription.** A submission is lock, find, insert (flushed, blocking a second insert under the
same unique key), unlock, commit, message (which the broker may refuse: `EnqueueFails`); a cancellation is find, lock, transaction, unlock. The
cancellation's second `find_one_or_none` re-applies the visibility filter in the database but
returns the identity-mapped object of the first, including its `selectin` subscribers; hence `seen`.
Retries, names, payloads and statistics are left out.

**DistributedLock.** Time is kept as distances so that no clock grows without bound: `left` until
the entry expires by the slowest clock, `elapsed[c]` since `c` acquired. `Skew[c]` is how far `c`'s
clock is ahead; Redis has one clock. `Release` deletes only an entry that carries the client's token
and has not expired. `CleanUp` is the
acquisition of another key, which deletes the expired rows of all keys.

**ChartQuery.** `Start` is `exploreJSON` up to its first wait with the reducer's two cases. The
previous query's abort waits in `toAbort` for its zero-delay timer (`AbortPrevious`), and reaches
the store only when the request rejects (`AbortSeen`). `Failed` is the `catch`: with asynchronous
queries it dispatches at once, otherwise the error's body is read first (`BodyRead`), and a body that is
neither JSON nor text leaves the promise without an end (`BodyLost`), whatever the reason. The request's timeout
covers the headers only: `HeadersArrive` moves an answer to "receiving", and nothing bounds how long its
body takes (`BodyMoves` is not fair).

**AsyncEvents.** Ids are times; a worker adds each event to the scoped stream and then to the full
one, so an event has two ids. The server's `XREAD` with `$` waits for what comes after it began to
block (`BlockOnDollar`), so events between two such calls are lost, as in the code. `Reconnect`
includes `closeWebSocket()`, which resets the count of attempts: its last branch is never
taken. A batch of the full stream is sent one entry per step; the replay of a range is sent in one. Authentication, connection limits, pings and buffer limits all end in `Disconnect`. A poll
brings one event here; a page of several is as many polls with nothing in between.

**SqlLab.** The other queries of the user appear as the poll's other rows (`others`) and as the query
that replaces this one in the tab (`RunAnother`). `Render` is the effect of `ResultSet` on a new
results key, taken with the dispatch that brought the key. `RefreshedState` is the merge of
`REFRESH_QUERIES`; `Inactive` and `Resolved` are the two halves of `CLEAR_INACTIVE_QUERIES`. `Begin` writes
`running` whatever the row says, as `execute_sql_statements` does. A stop looks at the row (`StopChecks`), asks the
engine, and then writes over whatever the row is (`StopWrites`); the execution ends with its last commit (`Succeeds`,
`Fails`, `SeesStop`, or without any: `EndsEmpty`) and may still fail afterwards (`FailsLate`: a time limit, or the size
check of the answer). So a stopped or failed row may have its results key. `result` remembers what the execution came to,
"unstored" when a request's results could not be stored. A results request is sorted by what its end can do
(`Kinds`): its caller's record may have been stopped, or have lost its key. Its end may also go unnoticed, because the
controller is aborted before the error's body is read (`ax-bi-frontend/src/SqlLab/actions/sqlLab.ts:513`): `unheard`.

**EmbeddedSession.** Tokens are good or bad (refused by the server, not decodable). The two ends'
queues hold emits, gets, replies and errors; `Deliver` passes one message to the port's own listener
and to those of the waiting calls, as `addEventListener` does. Every call implements `RemoteCall`:
`PlaceOf` finds its request, the execution of its method or its answer in the queues, the furthest first, so
that a second copy of any of them would show as a step back. A page that goes away takes its end with it
(`FramePageEnds`); a reloaded one gets a new port which the SDK does not use, so nothing reaches it. `beforeunload`
also fires without the page ending (`PageStays`): the dashboard is unmounted and `started` stays set. `sentIn` counts in what
state of the session the host emitted tokens, so that `UnmountedIsQuiet` speaks of the emit and not of a queue that a dead
frame no longer fills.

## 3. Runs

| Run | Question | Instance |
| --- | --- | --- |
| `async_cancel` | Does a worker's row follow the lifecycle under cancellations, contention, failing handlers and crashes, does an accepted abort reach the handlers, and is a stop reported only if none of them raised? | 2 users, polling, no timeout |
| `async_ends` | Does a task that was picked up come to a terminal status? | 1 user, fair, no failures or crashes |
| `async_timeout` | What survives the timer racing with executor, listener and user? Is its late write the only step off the lifecycle? | 1 user, pub/sub, timeout |
| `sync_cancel` | Is what a direct call publishes true of its row? | 2 users, pub/sub |
| `lock_kv` | Exclusion, leases that follow one another as a lock's owners do, ownership, expiry, with clocks that differ | 3 clients, TTL 5, skews 0, 1, 2 |
| `shared_key` | One active task under a key, the lifecycle of every row, subscriptions, under crashes and refused messages; does every task end whose message was sent, and does the lock come free? | a user and an administrator, 2 rows |
| `chart` | Is what a chart shows its current query's, and does loading end? | 3 queries, all three places, both query modes |
| `events` | What does the page hear, in which order, and how do its waits end? | 2 jobs (one fails), both transports, 1 retry |
| `sqllab` | Do rows, results, polls and stops of a query agree with its row and with what its execution came to? | 2 fetches at once, both kinds of database |
| `embedded` | One refresh cycle, one start; is each call answered by its own method, executed once; does the dashboard come up? | 2 calls of the host, 1 of the frame, 1 message waiting before the next refresh |
| `bug_timeout_race` | (violation) a timed-out task ends | timeout, no user |
| `bug_stale_failure` | (violation) a stale failure is dropped | 2 queries |

Each property is checked in the one run where it is hardest to keep; what a theorem states for all
instances, or what `RefinesLifecycle` implies, is not checked again elsewhere. The type invariants
of `TaskExecutor`, `DistributedLock`, `ChartQuery`, `SqlLab` and `EmbeddedSession` are theorems and not checked
by a run; so is that a settled call stays settled (`SettledForGood`), which `RefinesRemoteCall` covers.

**Bounds.** Two users suffice for every race in the row, since a cancellation only needs the row and
the lock: two contend for the lock, one can hold it while another's loaded copy ages; a third is
another copy of the second. One user is used where the other actor is the timer or where liveness
makes larger instances slow. One row per executor: rows share nothing but the key, which
`TaskSubscription` covers. `MaxTasks = 2` lets a key be submitted again after its task ended (the
guard of `SubmitFind` and `SubmitInsert` names it), which is all a slot can get wrong. `TTL = 5` with
`MaxSkew = 2` leaves room for a lease of every skew, an expiry seen by a fast clock only, and a
second lease. Three clients give a first holder, its successor and a bystander. `MaxQuery = 3` gives a
current query, the one it aborts, and one still on its way from before. Two jobs give an event that overtakes
another and a batch of two; `MaxRetries = 1` and `MaxTimers = 1` give an event that is retried,
one that is given up, and a duplicate that comes while its retry is due (a further one waits for
the timer). `WsConnectMaxRetries = 1` would expose the fallback if it were reached. `MaxFetches = 2`
is a retry while a fetch is still on its way. `MaxQueue = 1` lets a refreshed token be sent when the one
before was received; the messages of calls are not bounded by it, but each call is made once. Where deadlock is not
checked the system really stops: the task has ended and everybody has cancelled, or the rows are
used up.

**Fairness.** `TaskExecutor!Progress` lets each thread run on when it is not blocked, a request that
was begun end, a holder of the lock release it, and a dead holder's lock lapse: threads and requests are
scheduled, the listener polls on an interval, the TTL elapses. Nothing obliges anybody to cancel, the
task function to register a handler, or the process to survive. `FairSpecTaskEnds` adds that the
task function ends, needed for "the task ends": the framework cannot stop a function. In
`TaskSubscription!FairSpec` requests run on, messages are delivered and tasks end; nobody needs to
start a request. In `DistributedLock` only time passes.

In `ChartQuery` a request's headers come or its timeout does, and a wait for an event has a timeout too; a
body has none, so `LoadingEnds` excepts a query that reads its body for ever. In `SqlLab` the poll's timer goes on
while the query runs, which the code does for six hours; `PollsRecover` is an assumption: no poll hangs, not every one
fails, and the client's clock is not so far ahead of the server's that no row is ever new enough (a browser more than the
five seconds of buffer ahead sees no update until its rows change later than that). Nothing is assumed of results requests or
of the execution: `TabLearnsTheEnd` begins when the execution is over. In `TaskSubscription` whoever holds the lock goes on
or is dead, so `LockComesFree`. In `AsyncEvents` the page's events and timers and the
server's loop go on; polls may fail, but not for ever; **no** fairness makes a wait reach its
timeout, so that `PollingHears` and `OpenSocketHears` are about events; that a poll and the fetch of a
result come to an end is assumed, they have no timeout of their own, and events the page gave up are excepted. In `EmbeddedSession` timers fire,
messages are delivered and a call's timeout elapses; that the dashboard comes up also needs a host
whose callback brings good tokens some day (`HostRecovers`) and a server that accepts them (`ServerRecovers`), which the
code cannot provide itself. The request for the roles has no timeout: `DashboardComesUp` excepts one that hangs, and a
dashboard that an unmount, a reload or `beforeunload` took away. `RemoteCall!Lose` is always enabled, so
`RefinesRemoteCall` says that nothing happens twice, not that a call is delivered.

**What the passing runs show.** Without a timeout the worker's executor is right: every row follows
the lifecycle, a stop is reported with its cause and only if every handler was attempted and none raised, and the task
ends. With polling every abort arrives (`AbortReachesHandlers` is checked with polling, which does not depend on messages; with
pub/sub it does not hold, section 4). With a timeout the handlers still run once at most, SUCCESS
still means "not stopped", ABORTED means that a user asked and no timeout took effect, TIMED_OUT that the timeout took
effect (a user's abort within the timer's window is reported TIMED_OUT too), and the row follows the lifecycle but for
the timer's write over a terminal status, which does not bring the slot back. The unique key alone guarantees one active task, since the lock does not.
The lock excludes within the lease even with clocks that differ, less the skew. A method called over the
Switchboard is executed at most once and its answer used at most once, whatever else is on its way and
whichever page goes away.

A chart's data and stops are its current query's in every order of answers, and its failures too with
asynchronous queries; loading ends but for a body that is lost or never ends. Polling passes over nothing, and
an open socket hears what the server reads; a wait ends once. SQL Lab shows rows only of executions
that produced them, and asks for results only with a key the server has, but for the answer of a request whose results could not be
stored; a poll older than a stop is ignored; and the tab learns the end of a query whose row says it, with a key if it
succeeded, unless a results request hangs or its end went unnoticed. A query that succeeded without a key is left out on purpose,
see section 4. `ShownIsCurrent` excepts a chart that failed to render and comes back, with the previous
data, while the current query is on its way; and it speaks of charts with a current query: after a
stop there is none, and an older answer may then be shown. A removed chart
is created anew by a late answer, but has no current query either.

## 4. Where code and documentation disagree

Two have a run (see `findings` in `PROJECT.json`):

* `bug_timeout_race` - the timer writes ABORTING in a thread nobody joins; if the function returns
  in between, nobody ends the task (`axbi/tasks/context.py:641`).
* `bug_stale_failure` - the controller is compared before an error's body is read, so a query that
  starts during that read is marked as failed by the older one
  (`ax-bi-frontend/src/components/Chart/chartAction.ts:867`).

More statements of the documentation are written as properties that the code does not keep. They
are in no run; TLC finds each violated on the instance given (no other feature switched on):

| Property | Instance | What happens |
| --- | --- | --- |
| `TerminalIsFinal` | async, timeout, no user | the timer's unconditional write turns a FAILURE back into ABORTING (`axbi/commands/tasks/update.py:153`) |
| `NotLeftInProgress` | async, timeout, `Joiners` | the timer is refused the lock and dies; the executor leaves IN_PROGRESS (`axbi/tasks/context.py:641`) |
| `FinishedTaskIsTerminal` | sync, polling, 1 user | a cancellation after the function returned leaves ABORTING (`axbi/tasks/decorators.py:509`) |
| `FinishedTaskIsTerminal` | async, 1 user, `HandlersFail` | recording a failure is refused the lock; the exception skips the last transition (`axbi/tasks/context.py:575`) |
| `StoppedMeansHandlersSucceeded` | sync, 1 user, `HandlersFail` | ABORTED is written before the handlers end and stays when they fail (`axbi/tasks/decorators.py:477`) |
| `StoppedMeansHandlersSucceeded` | that of `async_timeout` | a handler raises, the failure is recorded as FAILURE and cleared; the timer's late ABORTING replaces it, and the executor makes it TIMED_OUT (`axbi/tasks/context.py:641`, `tasks.md:196`) |
| `HandlerFailureMeansFailure` | async, `HandlersFail` | a cleanup handler that fails leaves SUCCESS (`axbi/tasks/context.py:577`) |
| `TimedOutWhenHandlersSucceed` | async, timeout | the timer thread is not joined; its handlers count as failed (`axbi/tasks/context.py:675`) |
| `AbortReachesHandlers` | async, pub/sub, 1 user, fair | an abort published between `is_abortable` and the subscription is lost (`axbi/tasks/manager.py:433`) |
| `SubmitsJoinCleanly` | 2 users | the lock is left before the insert commits, so a concurrent submission fails instead of joining (`axbi/commands/tasks/submit.py:102`) |
| `NobodyLeftMeansAborted` | 2 users | two subscribers who cancel at once each count the other; the task runs on for nobody (`axbi/commands/tasks/cancel.py:218`) |
| `AbortSparesSubscribers` | 2 users, `MaxTasks = 1` | a user joins between another one's count and the abort (`axbi/commands/tasks/cancel.py:218`) |
| `JoinsRunningTasks` | 2 users, `MaxTasks = 1` | a submission joins an ABORTING task (`axbi/daos/tasks.py:102`) |
| `ReplaysMissedRange` | that of `events` | the range after a reconnection is read from the scoped stream with an id of the full one, and stops at the server's position in the full one; an event between the two is not replayed (`ax-bi-websocket/src/index.ts:470`) |
| `StoppedStaysStopped` | that of `sqllab` | the guard of QUERY_SUCCESS looks at the object its caller had before the request; a success after the stop is applied (`ax-bi-frontend/src/SqlLab/reducers/sqlLab.ts:428`) |

Other disagreements, met while modelling; the models have the code's side:

* The lifecycle diagram of `docs/developer_docs/extensions/tasks.md:92` and the use cases of
  `axbi/commands/tasks/internal_update.py:120` ("only if not ABORTING") have no step from ABORTING to SUCCESS;
  `axbi/tasks/scheduler.py:340` takes it on purpose when the function ended before the abort was noticed
  (`TaskLifecycle!Finish`).
* `axbi/sql_lab.py:674` says "Don't set results_key to prevent 410 errors when fetching"; the payload of a request already has the
  key (line 626), so a tab whose database has no workers fetches results that were not stored (the exception in
  `FetchesFindResults`).
* A stop writes STOPPED over a success that was committed while the engine was asked to cancel (`axbi/daos/query.py:107`),
  and a failure after the success commit writes FAILED over it (`axbi/sql_lab.py:738`, 223). The results stay fetchable.
* An empty script returns success and leaves its row RUNNING (`axbi/sql_lab.py:588`).
* A poll that was read while a query ran keeps its record `running` over a later success (`REFRESH_QUERIES` keeps that state):
  a CREATE TABLE AS on a worker, or a success without a key put back by a stale poll after the answer, shows as running until the
  store is cleared.
* A results request whose error's body cannot be read, since the controller is aborted first
  (`ax-bi-frontend/src/SqlLab/actions/sqlLab.ts:514`), leaves the record `fetching`.
* `beforeunload` unmounts an embedded dashboard even if the page stays, and `start()` returns at once afterwards
  (`ax-bi-frontend/src/embedded/index.tsx:325`, 175): the frame stays blank.

The fallback to polling that `wsConnect` announces (`ax-bi-frontend/src/middleware/asyncEvent.ts:266`) is
never reached, since every attempt resets the count it depends on (line 237); the model has the reset.

## 5. Proofs

`TaskExecutorProofs`, for every set of users, both modes, both signals and all switches:

* `TypeCorrect` - one lemma per group of variables; `TimerCommit` and `CancelAbort` need what a
  thread remembers of the row to be typed as well.
* `HandlersOnce` - from `ClaimCounted`: `handlerRuns` is 1 if the handlers were claimed, else 0.
* `SuccessNotStopped` - `SuccessMeansNotStopped` is not inductive: one must know that the function
  has ended when SUCCESS is written (`ExecutionMarked`), so that listener and timer may not claim
  any more, and that cleanup, which may, goes by a status that still says SUCCESS (`SuccessIsQuiet`;
  for a direct call its copy `finalSeen`).
* `CauseReported` - `ReportedCause`, from `CauseSettled`: before its run is over, a task is
  neither ABORTED nor TIMED_OUT, afterwards the timer no longer sets its flag; and an abort without a timeout
  goes back to a user's cancellation.
* `SlotStaysFree` - `SlotNeverRegained`, an action property of every step.
* `TimedImplementation` - `RefinesTimedLifecycle`, for every configuration. `LifecycleStep` takes the forward
  moves; what is left is the timer's commit (`TimerMoves`): it writes over a terminal row, or moves one forward,
  never a pending one, since a timer that acts finds a handler registered (`TimerRegistered`).
* `Implementation`, `EndIsFinal`, `SlotIsStatus`, assuming `~HasTimeout`. The invariant
  `RowIsExecutors` says that no timer thread runs, that a picked-up task is not pending, and that the row
  cannot have become terminal between the failure writer's look and its write (`FailuresApply`);
  each step then is a forward move of the row (`RowStep`), which is a step of `TaskLifecycle`.
  With a timeout the three are false, see section 4.
* `ToldWhenTerminal`, assuming `~HasTimeout` - `PublishedMeansTerminal`: a direct call tells of a copy, and
  a row that was terminal when it was copied still is (`ToldIsTrue`).
* `StopsAreHandled`, assuming `Mode = "async"` and `~HasTimeout` - `StoppedMeansHandlersSucceeded`: a failure that was raised is
  in the list until it is recorded, and whoever records it makes the row FAILURE, after which nothing stops it.

`DistributedLockProofs`, for every set of clients, both backends, and every TTL larger than the
skew: `TypeCorrect`, `LeaseIsSafe`, `Exclusion`, `LeasesAreALock`, `ReleaseIsOwnersAlone`. The invariant ties a
holder's elapsed time to what is left of its entry: while its lease lasts, it is the owner and the
entry outlives the lease by every clock. `LeasesAreALock` is the refinement of `LeaseLock`: a lease begins
with an acquisition only, which finds no lease (`LeaseBegins`), and every other step can only end one (`LeaseEnds`).

`ChartQueryProofs`, for any number of queries: `TypeCorrect`, `DataIsCurrent`, `AsyncFailures`,
`NoForeignStop`. `ShownIsCurrent` is not inductive, because a reset or a failed rendering passes
through statuses it does not mention: `DataInv` drops the status, and `GoneHasNone` says that a
removed chart, which a late answer may create anew, has no current query. `AsyncInv` adds that no error's body is being read when queries are
asynchronous, and follows a failure through a reset.

`SqlLabProofs`, for any number of fetches: `TypeCorrect`, `NoInventedRows`, `KeysAreGood`,
`PollRespectsTheEnd`. The row is no measure of what happened, since a stop or a late failure may write its status after a
success; what the execution came to (`result`) is, and it is written once. `ServerInv` says so, and that a row has its key exactly
when the results were stored: every later write leaves the key alone. `ClientInv` follows a key back to its
source: whoever has one (the record, the poll, a results request, the answer of a request) has one the server knows (`Known`), but for
results of a request that could not be stored. `PollRespectsTheEnd` goes over the steps that dispatch: a merge leaves
an ended record alone, and clearing the store resolves it by results it has.

`EmbeddedSessionProofs`, for any set of calls of both ends: `RefreshCycle` (no fetch is under way
between the first token and the first timer), `StartsOnce` (the dashboard is rendered by a start
that is not undone), `AnswersAreOwn`, `SettledForGood`, `QuietAfterUnmount`, `TypeCorrect`. `AnswersAreOwn` needs that
message ids are unique (`IdInv`: each is below its end's counter and no two calls share one) and that every
get, answer and method under way carries the id of its own call (`WireInv`). `TypeCorrect` takes the token the
frame is configured with from the wire, too.

`SwitchboardProofs`, on top of it: `CallsAreRemoteCalls`, the refinement of `RemoteCall` by each of any number of
calls. Its invariant `PlaceInv` says that a queue holds one message of a call at most (`Single`), that requests
travel to the other end and answers to the caller's (`RightWay`), and that a call is asked, being served or
answered, never two of these (`Apart`). Lemmas about `Append` and `Tail` say what a queue holds afterwards; one
lemma per action says where the call it is about was and is, and that all other calls are where they were
(`Still`); `CallStep` turns these moves into steps of `RemoteCall`.

`AsyncEventsProofs`, for any finite set of jobs (`JobsAssumption`), with any outcomes and limits. `Steps` sorts the actions by what they
leave alone (streams, server, waits, polls, or the processing of one event), so that each invariant is
shown for five kinds of steps. `WaitsEndOnce` and `EarlyEventsAreRetried` are inductive with the
types. `PollingIsComplete` needs that an event has one place in the streams (`IdsInv`), and that whatever
is about to be processed, from a poll or again from a timer, comes next to what was (`PollInv`): a retry
moves `lastReceivedEventId` back, and no event before the retried one is unseen. `FirehoseKeepsOrder` needs that what is on the wire
is older than the rest of the batch, and no newer than `lastFirehoseId` when nothing is left of it (`WireInv`).
`TypeCorrect` bounds every id and position by the clock: the clock counts the events that were added
(`CountedKept`, which needs finitely many jobs), and a batch or a replay ends with an entry of the stream (`LatestKept`).

`TaskSubscriptionProofs`, for any users, administrators, scope and number of rows, with crashes: `TypeCorrect`,
`KeyIsUnique` (`OneActiveTask`), `SubscriptionsAreOwn`, `RowsImplement`. `OneActiveTask` is not
inductive, since a row is created when its transaction commits and not when the key was looked up:
`CreatesAlone` says that whoever is between its insert and its commit is the only one, and
that no row is active meanwhile; `Numbered` gives the new row its place, `RowExists` the row each request is about.
`StatusMoves` and `SubsMoves` say what any step may do to a row.

The assumptions are those declared in the modules (`ModeAssumption`, `SignalAssumption`,
`SwitchAssumption`, `UsersAssumption`, `TimeAssumption`, `SkewAssumption`, ...); TLC evaluates them on
every run. Only model-checked: all liveness (`AbortReachesHandlers`, `RefinesFairLifecycle`,
`EveryTaskEnds`, `LockComesFree`, `AbandonedLockLapses`, `LoadingEnds`, `PollingHears`, `OpenSocketHears`,
`TabLearnsTheEnd`, `DashboardComesUp`), which is out of the prover's reach. Every other property of the
passing runs is a theorem.

## 6. Not modelled

Of the TypeScript components: annotation queries, drill-downs and the form data of charts; the key
a chart gets when it is saved (`updateChartId`, which nothing dispatches); the second event a worker
publishes when its first `XADD` failed half-way, ids that coincide in both streams, stream trimming, the COUNT of the
server's reads, and `eventYieldBatchSize` other than 1; SQL Lab's tabs, saved queries, previews of data, the query history, several
statements, a remount of `ResultSet` (which fetches again), being offline, and the six hours after which polling
stops, the client's retry of an execute request that got a 503, and the answer to one whose row exists already
(`is_query_handled`); of embedding, themes, data masks, the CSRF token and the filtering of
messages by origin. An initial token that cannot be decoded makes `embedDashboard` reject after it has
mounted the iframe, which stays; `GoLive` has it so, and no property judges it.

Most of the front end by lines - plug-ins, controls, forms, pages - renders or transforms data and keeps no
protocol of its own; it is listed as `not_modelled`.

Task payloads, progress, names and statistics (data no transition looks at); the session recovery and
error logging around the listener; the executors of thumbnails, caches and reports; everything listed
as `not_modelled` in `PROJECT.json`, with its reason. A worker that dies leaves its task unfinished:
the code has no orphan detection (`axbi/tasks/context.py:660`), so liveness is stated without
crashes. Joining the listener waits two seconds in the code; the model waits only for a thread that
is not running handlers, so a thread that takes more than two seconds to notice `stop()` is left out; one that runs
handlers for longer is not.
An error while the failure writer or the timer releases its lock
(possible with the database backend) is not modelled either; for requests it is. The lock's TTL (10 s) is assumed to outlast the short database work of a live holder in
`TaskExecutor` and `TaskSubscription`; a dead holder's lock lapses.

## 7. Plan

In this order:

1. `TaskThrottle` - `update_task`, the deferred flush timer and `flush_pending_updates`, with the
   properties column: no update lost at the end, none written after the end, and what the timer's merge
   overwrites.
2. `CompletionWait` - waiters by pub/sub and by polling, composed with the sending side and the prune
   job: a waiter returns if the task ends, and returns a terminal row.
3. `ReportExecution` - the report schedule's state machine with overlapping Celery beats, working
   timeout and grace period, against an abstract "one execution at a time".
4. A dashboard of several charts over `ChartQuery` (filters applied while charts load), and its
   composition with `AsyncEvents`.
5. `DesktopRuntime`, if its start and stop prove to have a protocol worth it.

Proofs to follow: the new modules' type and safety invariants as they are written; what a theorem about
`SqlLab` may say of the tab's copy of the row beyond `KeysAreGood`; and an abstract specification of an
asynchronous job for `AsyncEvents`, as `RemoteCall` is one of a call.
