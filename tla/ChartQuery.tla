----------------------------- MODULE ChartQuery -----------------------------
(***************************************************************************)
(* The queries of one chart and the state the reducer keeps for it         *)
(* (ax-bi-frontend/src/components/Chart): queries overlap, are aborted     *)
(* late, answered out of order, and the chart can be removed meanwhile.    *)
(***************************************************************************)
EXTENDS Naturals

CONSTANT MaxQuery   \* bound: queries started

ASSUME QueryAssumption == MaxQuery \in Nat

Queries == 1..MaxQuery
None == 0

VARIABLES
  place,       \* "dashboard", "explore", or "new": a chart without a slice id
  async,       \* the GLOBAL_ASYNC_QUERIES feature
  present,     \* charts[key] exists
  status,      \* chartStatus
  trace,       \* chartStackTrace is set
  trigger,     \* triggerQuery
  controller,  \* queryController: the query it belongs to
  response,    \* queriesResponse: the query it came from, and whether it is data
  next,        \* number of queries started
  phase,       \* where the request of each query is
  toAbort,     \* queries the timer of a later one is going to abort
  aborted      \* queries whose controller was aborted

modeVars  == <<place, async>>
chartVars == <<present, status, trace, trigger, controller, response>>
queryVars == <<next, phase, toAbort, aborted>>
vars == <<modeVars, chartVars, queryVars>>

Statuses == {"loading", "stopped", "success", "rendered", "failed", "reset"}
Phases == {"idle", "posted", "receiving", "awaiting", "reading", "done", "lost"}
Waiting == {"posted", "receiving"} \* the request's own promise is pending
Responses == [query : Queries \cup {None}, data : BOOLEAN]
Nothing == [query |-> None, data |-> FALSE]

TypeOK ==
  /\ place \in {"dashboard", "explore", "new"} /\ async \in BOOLEAN
  /\ present \in BOOLEAN /\ trace \in BOOLEAN /\ trigger \in BOOLEAN
  /\ status \in Statuses
  /\ controller \in Queries \cup {None}
  /\ response \in Responses
  /\ next \in 0..MaxQuery
  /\ phase \in [Queries -> Phases]
  /\ toAbort \subseteq Queries /\ aborted \subseteq Queries

\* The chart as addChart puts it into the state.
FreshChart ==
  /\ present' = TRUE /\ status' = "loading" /\ trace' = FALSE
  /\ trigger' = TRUE /\ controller' = None /\ response' = Nothing

Init ==
  /\ place \in {"dashboard", "explore", "new"} /\ async \in BOOLEAN
  /\ present = TRUE /\ status = "loading" /\ trace = FALSE
  /\ trigger = TRUE /\ controller = None /\ response = Nothing
  /\ next = 0 /\ phase = [q \in Queries |-> "idle"]
  /\ toAbort = {} /\ aborted = {}

-----------------------------------------------------------------------------
(* The reducer.                                                            *)

\* CHART_UPDATE_SUCCEEDED and _FAILED create the entry of a missing chart.
UpdateSucceeded(q) ==
  /\ present' = TRUE /\ status' = "success"
  /\ response' = [query |-> q, data |-> TRUE]
  /\ UNCHANGED <<trace, trigger, controller>>

UpdateFailed(q) ==
  /\ present' = TRUE /\ status' = "failed"
  /\ response' = [query |-> q, data |-> FALSE]
  /\ trace' \in BOOLEAN
  /\ UNCHANGED <<trigger, controller>>

\* Bug...: what a plausible slip in this code would do; no action uses them.
\* PROJECT.json says which definition each one stands in for, and which
\* property notices.
BugStopsAny(q) ==
  IF present
  THEN /\ status' = "stopped" /\ controller' = None
       /\ UNCHANGED <<present, trace, trigger, response>>
  ELSE UNCHANGED chartVars

\* CHART_UPDATE_STOPPED: not for another query, and it throws without a chart.
UpdateStopped(q) ==
  IF present /\ controller \in {None, q}
  THEN /\ status' = "stopped" /\ controller' = None
       /\ UNCHANGED <<present, trace, trigger, response>>
  ELSE UNCHANGED chartVars

BugNeverStale(q) == FALSE
Stale(q) == controller \notin {None, q}

-----------------------------------------------------------------------------
(* What the user and the page do.                                          *)

\* Filters applied, "Update chart", a token obtained.
TriggerQuery ==
  /\ present
  /\ trigger' = TRUE /\ status' = "loading"
  /\ UNCHANGED <<modeVars, present, trace, controller, response, queryVars>>

\* exploreJSON: CHART_UPDATE_STARTED, TRIGGER_QUERY(false), and a timer to
\* abort the previous query, which is not looked for under the key 0.
\* It is run by the effect of a triggered chart, or by refreshChart.
Start ==
  LET q == next + 1 IN
  /\ present /\ (trigger \/ place = "dashboard") /\ next < MaxQuery
  /\ next' = q
  /\ controller' = q /\ status' = "loading" /\ trace' = FALSE /\ trigger' = FALSE
  /\ phase' = [phase EXCEPT ![q] = "posted"]
  /\ toAbort' = IF place = "new" THEN toAbort ELSE toAbort \cup ({controller} \ {None})
  /\ UNCHANGED <<modeVars, present, response, aborted>>

\* setTimeout(() => prevController.abort(), 0)
AbortPrevious(q) ==
  /\ q \in toAbort
  /\ toAbort' = toAbort \ {q} /\ aborted' = aborted \cup {q}
  /\ UNCHANGED <<modeVars, chartVars, next, phase>>

\* onStop
Stop ==
  /\ place # "dashboard" /\ controller # None
  /\ aborted' = aborted \cup {controller}
  /\ UNCHANGED <<modeVars, chartVars, next, phase, toAbort>>

\* removeSliceFromDashboard; nothing aborts the queries of the chart.
Remove ==
  /\ place = "dashboard" /\ present
  /\ present' = FALSE /\ status' = "loading" /\ trace' = FALSE
  /\ trigger' = FALSE /\ controller' = None /\ response' = Nothing
  /\ UNCHANGED <<modeVars, queryVars>>

\* addSliceToDashboard
Add ==
  /\ place = "dashboard" /\ FreshChart
  /\ UNCHANGED <<modeVars, queryVars>>

\* Update chart with Matrixify on: succeeded with nothing, and rendered.
ShowMatrix ==
  /\ place # "dashboard"
  /\ status' = "rendered" /\ response' = Nothing
  /\ UNCHANGED <<modeVars, present, trace, trigger, controller, queryVars>>

-----------------------------------------------------------------------------
(* What becomes of a request.                                              *)

Settle(q, to) == phase' = [phase EXCEPT ![q] = to] /\ UNCHANGED <<modeVars, next, toAbort, aborted>>

\* The status and headers of a success: the timeout has lost its race.
HeadersArrive(q) ==
  /\ phase[q] = "posted"
  /\ Settle(q, "receiving") /\ UNCHANGED chartVars

\* The data: dropped if another query is current.
DataArrives(q) ==
  /\ IF Stale(q) THEN UNCHANGED chartVars ELSE UpdateSucceeded(q)
  /\ Settle(q, "done")

Answered(q) == phase[q] = "receiving" /\ DataArrives(q)

\* 202: the answer will be an event.
Accepted(q) ==
  /\ async /\ phase[q] = "receiving"
  /\ Settle(q, "awaiting") /\ UNCHANGED chartVars

BugAbortIgnored(q) ==
  /\ phase[q] \in Waiting /\ q \in aborted
  /\ Settle(q, "done") /\ UNCHANGED chartVars

\* The request, or the reading of its data, is rejected by its own abort.
AbortSeen(q) ==
  /\ phase[q] \in Waiting /\ q \in aborted
  /\ UpdateStopped(q)
  /\ Settle(q, "done")

\* The failure is dropped if another query is current.
FailureArrives(q) ==
  /\ IF Stale(q) THEN UNCHANGED chartVars ELSE UpdateFailed(q)
  /\ Settle(q, "done")

\* An error or a timeout. With asynchronous queries the failure is
\* dispatched at once; otherwise the body of an error is read first.
Failed(q) ==
  /\ phase[q] = "posted"
  /\ \/ FailureArrives(q)
     \/ /\ ~Stale(q) /\ ~async
        /\ Settle(q, "reading") /\ UNCHANGED chartVars

\* The data break off or cannot be parsed.
DataFail(q) == phase[q] = "receiving" /\ FailureArrives(q)

BodyRead(q) ==
  /\ phase[q] = "reading"
  /\ Settle(q, "done") /\ UpdateFailed(q)

\* The connection fails or the query is aborted while the body is read: it is
\* neither JSON nor text, and nothing catches the second rejection, so the
\* promise of getClientErrorObject never settles.
BodyLost(q) ==
  /\ phase[q] = "reading"
  /\ Settle(q, "lost") /\ UNCHANGED chartVars

\* waitForAsyncData resolves or rejects; it does not know about aborts.
AsyncResult(q) == phase[q] = "awaiting" /\ DataArrives(q)
BugLateError(q) ==
  /\ phase[q] = "awaiting"
  /\ UpdateFailed(q)
  /\ Settle(q, "done")

AsyncError(q) == phase[q] = "awaiting" /\ FailureArrives(q)

-----------------------------------------------------------------------------
(* Rendering.                                                              *)

RenderSucceeds ==
  /\ present /\ status \in {"success", "reset"}
  /\ status' = "rendered"
  /\ UNCHANGED <<modeVars, present, trace, trigger, controller, response, queryVars>>

\* While it is refreshed, a dashboard keeps showing the data it has.
RenderFails ==
  /\ present
  /\ \/ status \in {"success", "rendered", "reset"}
     \/ status = "loading" /\ place = "dashboard" /\ response.data
  /\ status' = "failed" /\ trace' = TRUE
  /\ UNCHANGED <<modeVars, present, trigger, controller, response, queryVars>>

\* The datasets are loaded: charts that failed with a stack trace try again.
SetDatasources ==
  /\ present /\ status = "failed" /\ trace
  /\ status' = "reset" /\ trace' = FALSE
  /\ UNCHANGED <<modeVars, present, trigger, controller, response, queryVars>>

-----------------------------------------------------------------------------
RequestMoves(q) ==
  HeadersArrive(q) \/ AbortSeen(q) \/ Failed(q) \/ AsyncResult(q) \/ AsyncError(q)
BodyMoves(q) == Answered(q) \/ Accepted(q) \/ DataFail(q) \/ BodyRead(q) \/ BodyLost(q)

Next ==
  \/ TriggerQuery \/ Start \/ Stop \/ Remove \/ Add \/ ShowMatrix
  \/ RenderSucceeds \/ RenderFails \/ SetDatasources
  \/ \E q \in Queries : AbortPrevious(q) \/ RequestMoves(q) \/ BodyMoves(q)

Spec == Init /\ [][Next]_vars

\* The timeout of a request covers the answer's headers, and the wait for an
\* event has one of its own; nothing bounds the reading of a body.
FairSpec == Spec /\ \A q \in Queries : WF_vars(RequestMoves(q))

-----------------------------------------------------------------------------
(* The data of a chart with a current query are that query's, in whatever  *)
(* order the answers of overlapping queries arrive (the controller check   *)
(* in exploreJSON). Only while that query has not ended can a chart that   *)
(* failed to render come back with the data of the one before.             *)
ShownIsCurrent ==
  (controller # None /\ response.data) =>
    /\ status = "success" => response.query = controller
    /\ status = "rendered" => response.query = controller \/ phase[controller] # "done"

(* A failure reported for a chart with a current query is that query's.    *)
FailureIsCurrent ==
  (status = "failed" /\ controller # None /\ response # Nothing)
    => (response.data \/ response.query = controller)

(* It is so when queries are asynchronous: the failure is then dispatched  *)
(* in the step that checks the controller.                                 *)
AsyncFailureIsCurrent == async => FailureIsCurrent

(* Stopping an earlier query does not stop a later one: a chart with a     *)
(* current query is stopped only if that query was aborted.                *)
StopsItsOwn ==
  [][status # "stopped" /\ status' = "stopped" /\ controller # None
       => controller \in aborted]_vars

(* A chart does not load for ever: its current query ends the loading,     *)
(* however it ends, unless the body of its answer hangs or the body of its *)
(* error cannot be read.                                                   *)
LoadingEnds ==
  \A q \in Queries :
    \/ <>[](phase[q] \in {"receiving", "reading"})
    \/ (controller = q /\ status = "loading" /\ ~trigger) ~>
         (controller # q \/ status # "loading" \/ trigger \/ phase[q] = "lost")

(* What the comment in exploreJSON says of failures: a slow earlier        *)
(* request cannot mark a newer one as failed.                              *)
StaleFailuresDropped == FailureIsCurrent
=============================================================================
