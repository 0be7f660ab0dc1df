------------------------------- MODULE SqlLab -------------------------------
(***************************************************************************)
(* The life of one SQL Lab query, among any number of others: its record    *)
(* in the Redux store (SqlLab/reducers/sqlLab.ts), the requests that change *)
(* it (actions/sqlLab.ts), the poll that refreshes it (QueryAutoRefresh),   *)
(* the results its tab fetches once a results key shows up (ResultSet), and *)
(* the server: its row of the query table, the worker that runs it          *)
(* (axbi/sql_lab.py) and the stop that competes with it (daos/query.py).    *)
(*                                                                         *)
(* The record is [state, results, key, progress, retriable]. Its results    *)
(* are "none" (undefined), "empty" (truthy, but without a status), or those *)
(* of a success: "rows", or "cleared" without them; progress says whether   *)
(* it is above 0; retriable that the error shown is a frontend timeout.     *)
(* State "absent" stands for no record.                                     *)
(***************************************************************************)
EXTENDS Naturals

CONSTANT MaxFetches \* bound: results requests in flight when the user retries

ASSUME SqlLabAssumption == MaxFetches \in Nat \ {0}

VARIABLES async,    \* whether its database runs queries on a worker
          tab,      \* "new", "latest": the tab's latest query, "past"
          query,    \* state.queries[id]
          post,     \* the execute request and its answer
          stop,     \* the stop request and its answer
          fetches,  \* the requests for its results in flight, by kind
          poll,     \* the one request of QueryAutoRefresh
          seen,     \* its row as of queriesLastUpdate
          row,      \* its row of the query table: status and results key
          worker,   \* where its execution is
          result,   \* history: what its execution has come to
          unheard   \* history: a results request ended and the tab took no notice

client == <<async, tab, query>>
polling == <<poll, seen>>
asking == <<fetches, unheard>>
server == <<row, worker, result>>
vars == <<client, post, stop, asking, polling, server>>

Running == {"pending", "running", "fetching"}
Finished == {"success", "failed", "stopped", "timed_out"}
Settled == Finished \cup {"absent"}

Absent == [state |-> "absent", results |-> "none", key |-> FALSE,
           progress |-> FALSE, retriable |-> FALSE]
Plain(status) == [status |-> status, key |-> FALSE] \* a row without results
NoRow == Plain("none")
NoPoll == [phase |-> "idle", row |-> NoRow, others |-> FALSE]

\* A request whose caller had a stopped record is ignored when it ends; one
\* without a key, which the poll took away, cannot succeed.
Kinds == {"heard", "ignored", "keyless"}

Record == [state : Running \cup Settled, results : {"none", "empty", "cleared", "rows"},
           key : BOOLEAN, progress : BOOLEAN, retriable : BOOLEAN]
Row == {NoRow} \cup [status : {"pending", "running"} \cup Finished, key : BOOLEAN]

Init == /\ async \in BOOLEAN
        /\ tab = "new"
        /\ query = Absent
        /\ post = "idle" /\ stop = "idle"
        /\ fetches = [k \in Kinds |-> 0] /\ unheard = FALSE
        /\ poll = NoPoll /\ seen = NoRow
        /\ row = NoRow /\ worker = "idle" /\ result = "none"

-----------------------------------------------------------------------------
(* The reducer's handlers, on the record.                                  *)

Started == [Absent EXCEPT !.state = "pending"]

HasStatus(q) == q.results \in {"cleared", "rows"}

Emptied == IF query.state = "absent" THEN query
           ELSE [query EXCEPT !.results = IF HasStatus(query) THEN "cleared" ELSE "empty"]

Stopped == [query EXCEPT !.state = "stopped", !.results = "empty"]

Requested(q) == [q EXCEPT !.state = "fetching"]

\* The answers with results.status "success"; "empty" brings no rows, and
\* "keyed" the key of the results as well.
Successes == {"empty", "rows", "keyed"}

Filled(answer) ==
  [query EXCEPT !.state = "success",
                !.results = IF answer = "empty" THEN "cleared" ELSE "rows",
                !.key = @ \/ answer = "keyed", !.progress = TRUE]

\* Bug...: what a plausible slip in this code would do; no action uses them.
\* PROJECT.json says which definition each one stands in for, and which
\* property notices.
BugAnyStatus(answer) == Filled(answer)

Succeeded(answer) == IF answer \in Successes THEN Filled(answer) ELSE query

Failed(q, timeout) == [q EXCEPT !.state = "failed", !.retriable = timeout]

\* What the store makes of the row the server sent, unless it has an end to show.
RefreshedState(r) ==
  LET state == IF r.status = "success" /\ query.state \in {"fetching", "success", "running"}
               THEN query.state ELSE r.status
  IN IF state = "success" /\ ~async /\ query.results = "none" THEN "fetching" ELSE state

Ended == query.state \in {"stopped", "failed"}

BugReopens(r) ==
  [query EXCEPT !.state = RefreshedState(r), !.key = r.key,
                !.progress = r.status = "success"]

Refreshed(r) ==
  IF Ended THEN query
  ELSE [query EXCEPT !.state = RefreshedState(r), !.key = r.key,
                     !.progress = r.status = "success"]

\* CLEAR_INACTIVE_QUERIES forgets a query that has made no progress, and gives
\* every other one with a results key the status of the results it has.
Inactive == query.state \in {"running", "pending"} /\ ~query.progress
Resolved == IF query.key /\ HasStatus(query) THEN [query EXCEPT !.state = "success"] ELSE query

Ask(kind) == fetches' = [fetches EXCEPT ![kind] = @ + 1] /\ UNCHANGED unheard

BugNeverFetches(q) == query' = q /\ UNCHANGED asking

\* The tab shows its latest query: a results key it did not have is fetched.
Render(q) ==
  IF tab = "latest" /\ q.key /\ ~query.key
  THEN query' = Requested(q) /\ Ask(IF q.state = "stopped" THEN "ignored" ELSE "heard")
  ELSE query' = q /\ UNCHANGED asking

-----------------------------------------------------------------------------
(* The tab: its buttons and shortcuts, and the answers to its requests.    *)

Run ==
  /\ tab = "new"
  /\ tab' = "latest"
  /\ query' = Started
  /\ post' = "asked"
  /\ UNCHANGED <<async, stop, asking, polling, server>>

\* The tab runs another query, the one before it running or not.
RunAnother ==
  /\ tab = "latest"
  /\ tab' = "past"
  /\ query' = Emptied
  /\ UNCHANGED <<async, post, stop, asking, polling, server>>

PressStop ==
  /\ tab = "latest"
  /\ query.state \in {"running", "pending"}
  /\ stop = "idle"
  /\ stop' = "asked"
  /\ UNCHANGED <<client, post, asking, polling, server>>

\* "Retry fetching results", offered when the error is a frontend timeout.
RetryFetch ==
  /\ tab = "latest"
  /\ query.state = "failed" /\ query.retriable
  /\ \A k \in Kinds : fetches[k] < MaxFetches
  /\ query' = Requested(query)
  /\ Ask(IF query.key THEN "heard" ELSE "keyless")
  /\ UNCHANGED <<async, tab, post, stop, polling, server>>

\* The execute request is answered: "queued" by a worker's database, which the
\* client ignores, otherwise with what the execution came to.
Posted ==
  /\ post \in {"queued", "stopped"} \cup Successes
  /\ Render(IF async THEN query ELSE Succeeded(post))
  /\ post' = "over"
  /\ UNCHANGED <<async, tab, stop, polling, server>>

\* The server refused it, or the connection was lost, whatever became of it; if
\* the body of the error cannot be read, nothing is told.
PostFails ==
  /\ post \notin {"idle", "over"}
  /\ query' \in {query, Failed(query, FALSE)}
  /\ post' = "over"
  /\ UNCHANGED <<async, tab, stop, asking, polling, server>>

\* An answer that is lost is told as a refusal.
StopAnswered ==
  /\ stop \in {"done", "refused"}
  /\ query' \in {query} \cup (IF stop = "done" THEN {Stopped} ELSE {})
  /\ stop' = "idle"
  /\ UNCHANGED <<async, tab, post, asking, polling, server>>

\* The server finds results by the key of the row, whatever its status. A failure
\* is told, unless its body cannot be read: the controller is aborted before.
FetchAnswered(kind) ==
  /\ fetches[kind] > 0
  /\ fetches' = [fetches EXCEPT ![kind] = @ - 1]
  /\ \/ /\ kind # "ignored" /\ UNCHANGED unheard
        /\ \/ query' = Succeeded("keyed") /\ row.key /\ kind = "heard"
           \/ \E timeout \in BOOLEAN : query' = Failed(query, timeout)
     \/ UNCHANGED query /\ unheard' = TRUE
  /\ UNCHANGED <<async, tab, post, stop, polling, server>>

-----------------------------------------------------------------------------
(* QueryAutoRefresh.                                                       *)

\* Some query is running: this one, or another one.
Tick ==
  /\ poll.phase = "idle" /\ tab # "new"
  /\ poll' = [NoPoll EXCEPT !.phase = "asked"]
  /\ UNCHANGED <<client, post, stop, asking, seen, server>>

\* No query is running: the store is cleared, once by every mounted instance.
IdleTick ==
  /\ tab # "new" /\ query.state \notin Running
  /\ query' = Resolved
  /\ UNCHANGED <<async, tab, post, stop, asking, polling, server>>

\* The rows changed since the newest one the client has, that one included, and
\* perhaps others of the five seconds before, as the server reads them.
PollReads ==
  /\ poll.phase = "asked"
  /\ \E r \in {row} \cup (IF row = seen THEN {NoRow} ELSE {}), others \in BOOLEAN :
       /\ row # NoRow => r # NoRow \/ others
       /\ poll' = [phase |-> "read", row |-> r, others |-> others]
  /\ UNCHANGED <<client, post, stop, asking, seen, server>>

\* queriesLastUpdate starts from the client's clock: when that is ahead of the
\* server's, no row is new enough.
PollMisses ==
  /\ poll.phase = "asked" /\ row # seen
  /\ \E others \in BOOLEAN : poll' = [phase |-> "read", row |-> NoRow, others |-> others]
  /\ UNCHANGED <<client, post, stop, asking, seen, server>>

\* The failed row of a worker's database is dispatched as a failure as well, the
\* first time it is seen, even if the record is stopped.
PollAnswered ==
  /\ poll.phase = "read" /\ poll.row # NoRow
  /\ \/ Render(Refreshed(poll.row))
     \/ /\ poll.row.status = "failed" /\ async
        /\ Render(Failed(Refreshed(poll.row), FALSE))
  /\ seen' = poll.row /\ poll' = NoPoll
  /\ UNCHANGED <<async, tab, post, stop, server>>

\* An answer without rows clears the store; only queries started over two seconds
\* ago are forgotten.
PollIsEmpty ==
  /\ poll.phase = "read" /\ poll.row = NoRow
  /\ IF poll.others THEN UNCHANGED query
     ELSE query' = Resolved \/ (Inactive /\ query' = Absent)
  /\ poll' = NoPoll
  /\ UNCHANGED <<async, tab, post, stop, asking, seen, server>>

PollFails ==
  /\ poll.phase # "idle"
  /\ poll' = NoPoll
  /\ UNCHANGED <<client, post, stop, asking, seen, server>>

-----------------------------------------------------------------------------
(* The server.                                                             *)

\* What the execute request answers, if it still waits.
Answer(answer) == post' = IF post = "asked" THEN answer ELSE post

\* ExecuteSqlCommand commits the row, checks access and renders the template.
Accept ==
  /\ post # "idle" /\ worker = "idle"
  /\ row' = Plain("pending")
  /\ worker' = "preparing"
  /\ UNCHANGED <<client, post, stop, asking, polling, result>>

\* Access denied, a bad template, or no worker to queue it on.
Refuse ==
  /\ worker = "preparing"
  /\ row' = [row EXCEPT !.status = "failed"]
  /\ worker' = "done" /\ result' = "failed"
  /\ Answer("refused")
  /\ UNCHANGED <<client, stop, asking, polling>>

Queue ==
  /\ worker = "preparing" /\ async
  /\ worker' = "queued"
  /\ Answer("queued")
  /\ UNCHANGED <<client, stop, asking, polling, row, result>>

\* Whatever the row says by now, it becomes running.
Begin ==
  /\ worker = IF async THEN "queued" ELSE "preparing"
  /\ row' = [row EXCEPT !.status = "running"]
  /\ worker' = "busy"
  /\ UNCHANGED <<client, post, stop, asking, polling, result>>

\* execute_sql_statements has done its last commit, with this result.
End(r) ==
  /\ worker = "busy"
  /\ worker' = "returning" /\ result' = r
  /\ UNCHANGED <<client, post, stop, asking, polling>>

\* Before a block, or when the database raises, the worker looks for a stop.
SeesStop == row.status = "stopped" /\ End("stopped") /\ UNCHANGED row

\* A script without statements returns before the row is written.
EndsEmpty == End("empty") /\ UNCHANGED row

\* The results are "stored" under a key that the row gets, are "unstored" when the
\* backend refused them, or were just "rows"; a stop since the last look is overwritten.
Succeeds ==
  \E r \in {"rows", "stored"} \cup (IF async THEN {} ELSE {"unstored"}) :
    /\ End(r)
    /\ row' = [status |-> "success", key |-> r = "stored"]

BugKeepsKey ==
  End("failed") /\ row' = [status |-> "failed", key |-> async]

\* The statement, the time limit of a worker's task, the size of the results, or
\* the results backend when only it could have brought them to the client.
Fails ==
  /\ End("failed")
  /\ \E status \in {"failed"} \cup (IF async THEN {"timed_out"} ELSE {}) :
       row' = [row EXCEPT !.status = status]

\* A failure's payload never gets here: the command raises it (FailsLate).
Delivers ==
  /\ worker = "returning" /\ (result = "failed" => async)
  /\ worker' = "done"
  /\ IF async THEN UNCHANGED post
     ELSE Answer(IF result \in {"stored", "unstored"} THEN "keyed" ELSE result)
  /\ UNCHANGED <<client, stop, asking, polling, row, result>>

\* The size check of the answer, a time limit after the last commit, or, in the
\* request, any failure before it: the row fails, whatever it was, and keeps its key.
FailsLate ==
  /\ worker = "returning"
  /\ row' = [row EXCEPT !.status = IF @ = "timed_out" THEN @ ELSE "failed"]
  /\ worker' = "done"
  /\ IF async THEN UNCHANGED post ELSE Answer("refused")
  /\ UNCHANGED <<client, stop, asking, polling, result>>

\* stop_query leaves alone what has ended when it looks. To write "stopped" over
\* "stopped" writes nothing.
StopChecks ==
  /\ stop = "asked"
  /\ stop' \in IF row = NoRow THEN {"refused"}
               ELSE IF row.status = "stopped" THEN {"done", "refused"}
               ELSE IF row.status \in Finished THEN {"done"} ELSE {"cancelling"}
  /\ UNCHANGED <<client, post, asking, polling, server>>

\* The engine has been asked to cancel it, and may have refused. Otherwise the row
\* is stopped, whatever it has become.
StopWrites ==
  /\ stop = "cancelling"
  /\ \/ stop' = "done" /\ row' = [row EXCEPT !.status = "stopped"]
     \/ stop' = "refused" /\ UNCHANGED row
  /\ UNCHANGED <<client, post, asking, polling, worker, result>>

-----------------------------------------------------------------------------
Work == \/ Accept \/ Refuse \/ Queue \/ Begin \/ SeesStop \/ EndsEmpty \/ Succeeds \/ Fails
        \/ Delivers \/ FailsLate \/ StopChecks \/ StopWrites

Next == \/ Run \/ RunAnother \/ PressStop \/ RetryFetch
        \/ Posted \/ PostFails \/ StopAnswered
        \/ \E kind \in Kinds : FetchAnswered(kind)
        \/ Tick \/ IdleTick \/ PollReads \/ PollMisses
        \/ PollAnswered \/ PollIsEmpty \/ PollFails
        \/ Work

\* The timer of QueryAutoRefresh, while it finds the query running: for six hours.
Fairness == WF_vars(query.state \in Running /\ Tick)

\* Assumed: no poll hangs, and not every one fails or is misled by the clocks.
PollsRecover == /\ WF_vars(PollAnswered \/ PollIsEmpty \/ PollFails)
                /\ SF_vars(PollReads) /\ SF_vars(PollAnswered)

Spec == Init /\ [][Next]_vars
FairSpec == Spec /\ Fairness /\ PollsRecover

-----------------------------------------------------------------------------
TypeOK == /\ async \in BOOLEAN /\ unheard \in BOOLEAN
          /\ tab \in {"new", "latest", "past"}
          /\ query \in Record
          /\ post \in {"idle", "asked", "queued", "stopped", "refused", "over"} \cup Successes
          /\ stop \in {"idle", "asked", "cancelling", "done", "refused"}
          /\ fetches \in [Kinds -> Nat]
          /\ poll \in [phase : {"idle", "asked", "read"}, row : Row, others : BOOLEAN]
          /\ seen \in Row
          /\ row \in Row
          /\ worker \in {"idle", "preparing", "queued", "busy", "returning", "done"}
          /\ result \in {"none", "stopped", "failed", "empty", "rows", "stored", "unstored"}

\* Rows are on the screen only for a query whose execution produced them: the
\* answer of one that was stopped never fills them in (the check of
\* results.status in QUERY_SUCCESS), whatever was stopped, retried or polled.
RowsAreReal == query.results = "rows" => result \in {"rows", "stored", "unstored"}

\* Results are only asked for with a key the server knows: the key reached the
\* tab after the results were stored and the row committed, and no stop, late
\* failure or older poll takes it back from the row. The exception is the answer
\* of a database without workers: it brings a key even if storing failed.
FetchesFindResults ==
  fetches["heard"] + fetches["ignored"] > 0 =>
    (row.key /\ result = "stored") \/ (~async /\ result = "unstored")

\* A query the tab shows as stopped or failed is not reopened by the poll's older
\* view of it (the first condition of REFRESH_QUERIES): only results it has, or
\* the user asking for them again, take it out of that state.
NotReopened == [][Ended => \/ query'.state \in {"stopped", "failed"}
                           \/ HasStatus(query')
                           \/ \E k \in Kinds : fetches'[k] > fetches[k]]_vars

\* Once the execution is over and the row says so, with a key if there are results,
\* the tab stops showing its latest query as in progress, unless a request for the
\* results hangs or the tab took no notice of its end.
TabLearnsTheEnd ==
  \/ <>[](\E k \in Kinds : fetches[k] > 0)
  \/ (/\ worker = "done" /\ tab = "latest"
      /\ row.status \in Finished /\ (row.status = "success" => row.key))
       ~> (query.state \in Settled \/ tab # "latest" \/ unheard)

\* What the comment in QUERY_SUCCESS says: "prevent race condition where query
\* succeeds shortly after being canceled".
StoppedStaysStopped == [][query.state = "stopped" => query'.state # "success"]_vars

=============================================================================
