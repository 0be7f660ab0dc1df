-------------------------- MODULE ChartQueryProofs --------------------------
(* What a chart shows, for any number of overlapping queries.               *)
EXTENDS ChartQuery, TLAPS

\* A chart that was removed has no current query.
GoneHasNone == ~present => controller = None

\* The data shown are the current query's, or that query has not ended, from
\* whatever status the chart may be rendered.
DataInv == (controller # None /\ response.data) =>
             /\ response.query = controller \/ phase[controller] # "done"
             /\ status = "success" => response.query = controller

\* An asynchronous failure stays that of the current query, through a failed
\* rendering and a reset too, until the next query starts.
AsyncInv == async => /\ \A q \in Queries : phase[q] # "reading"
                     /\ (/\ status \notin {"loading", "stopped"}
                         /\ controller # None
                         /\ response # Nothing)
                        => (response.data \/ response.query = controller)

Inv == TypeOK /\ GoneHasNone /\ DataInv /\ AsyncInv

USE QueryAssumption DEF Queries, None

LEMMA ResponsesTyped ==
  /\ Nothing \in Responses
  /\ \A q \in Queries, data \in BOOLEAN : [query |-> q, data |-> data] \in Responses
BY DEF Nothing, Responses

LEMMA InitInv == Init => Inv
<1>. SUFFICES ASSUME Init PROVE Inv
  OBVIOUS
<1>0. phase \in [Queries -> Phases] /\ status \in Statuses
  BY DEF Init, Phases, Statuses
<1>4. response \in Responses
  BY ResponsesTyped DEF Init
<1>1. TypeOK
  <2>1. next \in 0..MaxQuery /\ controller \in Queries \cup {None}
    BY DEF Init
  <2>2. toAbort \subseteq Queries /\ aborted \subseteq Queries
    BY DEF Init
  <2>3. present \in BOOLEAN /\ trace \in BOOLEAN /\ trigger \in BOOLEAN
    BY DEF Init
  <2>. HIDE DEF Queries
  <2>. QED BY <1>0, <1>4, <2>1, <2>2, <2>3 DEF Init, TypeOK
<1>2. GoneHasNone /\ DataInv
  BY DEF Init, GoneHasNone, DataInv
<1>3. AsyncInv
  BY DEF Init, AsyncInv
<1>. QED BY <1>1, <1>2, <1>3 DEF Inv

\* The three dispatches of an answer keep the chart's types.
LEMMA UpdatesTyped ==
  ASSUME TypeOK, NEW q \in Queries,
         UpdateSucceeded(q) \/ UpdateFailed(q) \/ UpdateStopped(q) \/ UNCHANGED chartVars
  PROVE  /\ present' \in BOOLEAN /\ trace' \in BOOLEAN /\ trigger' \in BOOLEAN
         /\ status' \in Statuses
         /\ controller' \in Queries \cup {None}
         /\ response' \in Responses
<1>1. CASE UpdateSucceeded(q)
  BY <1>1, ResponsesTyped DEF TypeOK, UpdateSucceeded, Statuses
<1>2. CASE UpdateFailed(q)
  BY <1>2, ResponsesTyped DEF TypeOK, UpdateFailed, Statuses
<1>3. CASE UpdateStopped(q) \/ UNCHANGED chartVars
  BY <1>3 DEF TypeOK, UpdateStopped, chartVars, Statuses
<1>. QED BY <1>1, <1>2, <1>3

LEMMA SettleTyped ==
  ASSUME TypeOK, NEW q \in Queries, NEW to \in Phases, Settle(q, to)
  PROVE  /\ place' \in {"dashboard", "explore", "new"} /\ async' \in BOOLEAN
         /\ next' \in 0..MaxQuery /\ phase' \in [Queries -> Phases]
         /\ toAbort' \subseteq Queries /\ aborted' \subseteq Queries
BY DEF TypeOK, Settle, modeVars

\* Every end of a request is a dispatch, or none, and a new phase.
LEMMA RequestSteps ==
  ASSUME NEW q \in Queries, RequestMoves(q) \/ BodyMoves(q)
  PROVE  /\ UpdateSucceeded(q) \/ UpdateFailed(q) \/ UpdateStopped(q) \/ UNCHANGED chartVars
         /\ \E to \in Phases : Settle(q, to)
BY DEF RequestMoves, BodyMoves, HeadersArrive, Accepted, Answered, AbortSeen, Failed, DataFail,
       BodyRead, BodyLost, AsyncResult, AsyncError, DataArrives, FailureArrives, Phases

LEMMA NextTyped == TypeOK /\ [Next]_vars => TypeOK'
<1>. SUFFICES ASSUME TypeOK, [Next]_vars PROVE TypeOK'
  OBVIOUS
<1>. USE DEF modeVars, queryVars
<1>1. CASE TriggerQuery \/ Stop
  BY <1>1 DEF TypeOK, TriggerQuery, Stop, chartVars, Statuses
<1>7. CASE Remove \/ Add \/ ShowMatrix
  BY <1>7, ResponsesTyped DEF TypeOK, Remove, Add, FreshChart, ShowMatrix, Statuses
<1>2. CASE Start
  <2>1. next + 1 \in Queries
    BY <1>2 DEF TypeOK, Start
  <2>2. phase' \in [Queries -> Phases]
    BY <1>2, <2>1 DEF TypeOK, Start, Phases
  <2>3. toAbort' \subseteq Queries
    BY <1>2 DEF TypeOK, Start
  <2>4. next' \in 0..MaxQuery /\ controller' \in Queries /\ status' \in Statuses
    BY <1>2, <2>1 DEF TypeOK, Start, Statuses
  <2>. QED BY <1>2, <2>2, <2>3, <2>4 DEF TypeOK, Start
<1>3. CASE RenderSucceeds \/ RenderFails \/ SetDatasources
  BY <1>3 DEF TypeOK, RenderSucceeds, RenderFails, SetDatasources, Statuses
<1>4. ASSUME NEW q \in Queries, AbortPrevious(q) PROVE TypeOK'
  BY <1>4 DEF TypeOK, AbortPrevious, chartVars
<1>5. ASSUME NEW q \in Queries, RequestMoves(q) \/ BodyMoves(q) PROVE TypeOK'
  BY <1>5, RequestSteps, UpdatesTyped, SettleTyped DEF TypeOK
<1>6. CASE UNCHANGED vars
  BY <1>6 DEF vars, chartVars, TypeOK
<1>. QED BY <1>1, <1>2, <1>3, <1>4, <1>5, <1>6, <1>7 DEF Next

LEMMA NextGone == Inv /\ [Next]_vars => GoneHasNone'
<1>. SUFFICES ASSUME Inv, [Next]_vars PROVE GoneHasNone'
  OBVIOUS
<1>. USE DEF Inv, GoneHasNone, modeVars, queryVars, chartVars
<1>1. CASE TriggerQuery \/ Start \/ Stop \/ Remove \/ Add \/ ShowMatrix
  BY <1>1 DEF TriggerQuery, Start, Stop, Remove, Add, FreshChart, ShowMatrix
<1>2. CASE RenderSucceeds \/ RenderFails \/ SetDatasources
  BY <1>2 DEF RenderSucceeds, RenderFails, SetDatasources
<1>3. ASSUME NEW q \in Queries, AbortPrevious(q) PROVE GoneHasNone'
  BY <1>3 DEF AbortPrevious
<1>4. ASSUME NEW q \in Queries, RequestMoves(q) \/ BodyMoves(q) PROVE GoneHasNone'
  BY <1>4, RequestSteps DEF UpdateSucceeded, UpdateFailed, UpdateStopped
<1>5. CASE UNCHANGED vars
  BY <1>5 DEF vars
<1>. QED BY <1>1, <1>2, <1>3, <1>4, <1>5 DEF Next

\* How each kind of answer can end, told by the dispatch it makes.
LEMMA AnswersAreCurrent ==
  ASSUME Inv, NEW q \in Queries, RequestMoves(q) \/ BodyMoves(q)
  PROVE  \/ UpdateSucceeded(q) /\ ~Stale(q) /\ Settle(q, "done")
         \/ UpdateFailed(q) /\ (async => ~Stale(q)) /\ Settle(q, "done")
         \/ UpdateStopped(q) /\ q \in aborted /\ Settle(q, "done")
         \/ /\ UNCHANGED chartVars
            /\ \/ Stale(q) /\ Settle(q, "done")
               \/ Settle(q, "receiving")
               \/ Settle(q, "awaiting")
               \/ Settle(q, "lost")
               \/ Settle(q, "reading") /\ ~async
BY DEF Inv, AsyncInv, RequestMoves, BodyMoves, HeadersArrive, Accepted, Answered, AbortSeen,
       Failed, DataFail, BodyRead, BodyLost, AsyncResult, AsyncError, DataArrives, FailureArrives

LEMMA NextData == Inv /\ [Next]_vars => DataInv'
<1>. SUFFICES ASSUME Inv, [Next]_vars PROVE DataInv'
  OBVIOUS
<1>. USE DEF Inv, TypeOK, DataInv, modeVars, queryVars, chartVars
<1>1. CASE TriggerQuery \/ Stop \/ Remove \/ Add \/ ShowMatrix
  BY <1>1 DEF TriggerQuery, Stop, Remove, Add, FreshChart, ShowMatrix, Nothing
<1>2. CASE Start
  <2>1. next + 1 \in Queries
    BY <1>2 DEF Start
  <2>2. phase'[controller'] = "posted" /\ status' = "loading"
    BY <1>2, <2>1 DEF Start
  <2>. QED BY <2>2
<1>3. CASE RenderSucceeds \/ RenderFails \/ SetDatasources
  BY <1>3 DEF RenderSucceeds, RenderFails, SetDatasources
<1>4. ASSUME NEW q \in Queries, AbortPrevious(q) PROVE DataInv'
  BY <1>4 DEF AbortPrevious
<1>5. ASSUME NEW q \in Queries, RequestMoves(q) \/ BodyMoves(q) PROVE DataInv'
  <2>1. CASE UpdateSucceeded(q) /\ ~Stale(q)
    BY <2>1 DEF UpdateSucceeded, Stale
  <2>2. CASE UpdateFailed(q)
    BY <2>2 DEF UpdateFailed
  <2>3. CASE UpdateStopped(q) /\ Settle(q, "done")
    <3>1. CASE present /\ controller \in {None, q}
      BY <2>3, <3>1 DEF UpdateStopped
    <3>2. CASE ~(present /\ controller \in {None, q})
      <4>1. UNCHANGED chartVars /\ (controller # None => controller # q)
        BY <2>3, <3>2 DEF UpdateStopped, GoneHasNone
      <4>. QED BY <2>3, <4>1 DEF Settle
    <3>. QED BY <3>1, <3>2
  <2>4. ASSUME UNCHANGED chartVars, Stale(q), Settle(q, "done") PROVE DataInv'
    BY <2>4 DEF Stale, Settle
  <2>5. ASSUME UNCHANGED chartVars, NEW to \in {"receiving", "awaiting", "lost", "reading"}, Settle(q, to)
        PROVE  DataInv'
    BY <2>5 DEF Settle
  <2>. QED BY <1>5, AnswersAreCurrent, <2>1, <2>2, <2>3, <2>4, <2>5
<1>6. CASE UNCHANGED vars
  BY <1>6 DEF vars
<1>. QED BY <1>1, <1>2, <1>3, <1>4, <1>5, <1>6 DEF Next

LEMMA NextAsync == Inv /\ [Next]_vars => AsyncInv'
<1>. SUFFICES ASSUME Inv, [Next]_vars, async' PROVE AsyncInv'
  BY DEF AsyncInv
<1>. USE DEF Inv, TypeOK, AsyncInv, modeVars, queryVars, chartVars
<1>1. CASE TriggerQuery \/ Stop \/ Remove \/ Add \/ ShowMatrix
  BY <1>1 DEF TriggerQuery, Stop, Remove, Add, FreshChart, ShowMatrix
<1>2. CASE Start
  BY <1>2 DEF Start
<1>3. CASE RenderSucceeds \/ RenderFails \/ SetDatasources
  BY <1>3 DEF RenderSucceeds, RenderFails, SetDatasources
<1>4. ASSUME NEW q \in Queries, AbortPrevious(q) PROVE AsyncInv'
  BY <1>4 DEF AbortPrevious
<1>5. ASSUME NEW q \in Queries, RequestMoves(q) \/ BodyMoves(q) PROVE AsyncInv'
  <2>0. async
    BY <1>5, RequestSteps DEF Settle
  <2>1. \A p \in Queries : phase'[p] # "reading"
    BY <1>5, <2>0, AnswersAreCurrent DEF Settle
  <2>2. CASE UpdateSucceeded(q)
    BY <2>0, <2>1, <2>2 DEF UpdateSucceeded
  <2>3. CASE UpdateFailed(q) /\ ~Stale(q)
    BY <2>0, <2>1, <2>3 DEF UpdateFailed, Stale
  <2>4. CASE UpdateStopped(q) \/ UNCHANGED chartVars
    BY <2>0, <2>1, <2>4 DEF UpdateStopped
  <2>. QED BY <1>5, <2>0, <2>2, <2>3, <2>4, AnswersAreCurrent
<1>6. CASE UNCHANGED vars
  BY <1>6 DEF vars
<1>. QED BY <1>1, <1>2, <1>3, <1>4, <1>5, <1>6 DEF Next

LEMMA Invariance == Spec => []Inv
<1>1. Inv /\ [Next]_vars => Inv'
  BY NextTyped, NextGone, NextData, NextAsync DEF Inv
<1>. QED BY InitInv, <1>1, PTL DEF Spec

(* Every variable keeps its range, for any number of queries. *)
THEOREM TypeCorrect == Spec => []TypeOK
<1>1. Inv => TypeOK
  BY DEF Inv
<1>. QED BY <1>1, Invariance, PTL

(* Overlapping queries may be answered in any order: a chart with a current     *)
(* query shows that query's data, or an earlier one's only while it has not     *)
(* ended.                                                                       *)
THEOREM DataIsCurrent == Spec => []ShownIsCurrent
<1>1. Inv => ShownIsCurrent
  BY DEF Inv, DataInv, ShownIsCurrent
<1>. QED BY <1>1, Invariance, PTL

(* An asynchronous failure is reported only for the chart's current query.      *)
THEOREM AsyncFailures == Spec => []AsyncFailureIsCurrent
<1>1. Inv => AsyncFailureIsCurrent
  BY DEF Inv, AsyncInv, AsyncFailureIsCurrent, FailureIsCurrent
<1>. QED BY <1>1, Invariance, PTL

(* A chart with a current query is stopped only by that query's own abort.     *)
THEOREM NoForeignStop == Spec => StopsItsOwn
<1>. DEFINE Own == status # "stopped" /\ status' = "stopped" /\ controller # None
                     => controller \in aborted
<1>1. Inv /\ [Next]_vars => [Own]_vars
  <2>. SUFFICES ASSUME Inv, Next, status # "stopped", status' = "stopped", controller # None
                PROVE  controller \in aborted
    OBVIOUS
  <2>1. PICK q \in Queries : AbortPrevious(q) \/ RequestMoves(q) \/ BodyMoves(q)
    BY DEF Next, TriggerQuery, Start, Stop, Remove, Add, FreshChart, ShowMatrix,
           RenderSucceeds, RenderFails, SetDatasources, chartVars
  <2>2. UpdateStopped(q) /\ q \in aborted
    BY <2>1, AnswersAreCurrent DEF AbortPrevious, UpdateSucceeded, UpdateFailed, chartVars
  <2>. QED BY <2>2 DEF UpdateStopped, chartVars
<1>. QED BY <1>1, Invariance, PTL DEF Spec, StopsItsOwn
=============================================================================
