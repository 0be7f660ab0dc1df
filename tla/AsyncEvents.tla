---------------------------- MODULE AsyncEvents ----------------------------
(***************************************************************************)
(* How the browser hears that an asynchronous query is done.  A worker     *)
(* adds the event of a job to two Redis streams, the one of the user's     *)
(* channel and the full one; the browser polls the first, or is sent the   *)
(* second by the WebSocket server, which replays the first when a socket   *)
(* reconnects.  Sources: ax-bi-frontend/src/middleware/asyncEvent.ts,      *)
(* ax-bi-websocket/src/index.ts, axbi/async_events.                        *)
(*                                                                         *)
(* One channel with one page. Stream ids are numbers, 0 for none.          *)
(***************************************************************************)
EXTENDS Integers, Sequences, FiniteSets

CONSTANTS Jobs,               \* one event each
          Outcome,            \* its status: done or error
          MaxRetries,         \* MAX_RETRIES of an event without a listener
          WsConnectMaxRetries,
          MaxTimers           \* bound: retry timers of one event at a time

ASSUME JobsAssumption == IsFiniteSet(Jobs)
ASSUME RetryAssumption ==
  /\ MaxRetries \in Nat /\ WsConnectMaxRetries \in Nat \ {0} /\ MaxTimers \in Nat \ {0}
  /\ Outcome \in [Jobs -> {"done", "error"}]

Streams == {"scoped", "full"}
Events == [job : Jobs, stream : Streams]
Dollar == -1                  \* '$': only what is added from now on
MaxId == 2 * Cardinality(Jobs)

VARIABLES
  mode,      \* transport: "polling" or "ws"
  id,        \* the streams: id of each event, 0 if it was not added
  clock,     \* the largest id
  base,      \* lastFirehoseId
  from,      \* what a blocked XREAD with '$' waits to be exceeded, or Dollar
  batch,     \* entries of the full stream read and not yet sent
  catchup,   \* ranges of the scoped stream being fetched
  sock,      \* the page's socket: none, connecting, open or closed
  asLast,    \* last_id in the URL of the socket being opened
  wire,      \* events on their way through the socket
  wsConnectRetries,
  job,       \* per job: requested, waiting, resolved, rejected or timed_out
  fetches,   \* per job: reads of the cached result in flight
  lastId,    \* lastReceivedEventId
  retries,   \* retriesByJobId, 0 for no entry
  timers,    \* per event: retry timers set
  asked,     \* a poll is in flight
  page,      \* the event it will bring, if any
  seen,      \* jobs whose event reached processEvents
  dropped    \* jobs whose event was given up for lack of a listener

redisVars  == <<id, clock>>
serverVars == <<base, from, batch, catchup>>
sockVars   == <<sock, asLast, wire, wsConnectRetries>>
waitVars   == <<job, fetches>>
eventVars  == <<lastId, retries, timers, seen, dropped>>
pollVars   == <<asked, page>>
vars == <<mode, redisVars, serverVars, sockVars, waitVars, eventVars, pollVars>>

TypeOK ==
  /\ mode \in {"polling", "ws"}
  /\ id \in [Events -> 0..MaxId] /\ clock \in 0..MaxId
  /\ base \in {Dollar} \cup 1..MaxId /\ from \in {Dollar} \cup 0..MaxId
  /\ batch \subseteq Events /\ wire \in Seq(Events)
  /\ catchup \subseteq [low : 1..(MaxId + 1), high : 1..MaxId]
  /\ sock \in {"none", "connecting", "open", "closed"}
  /\ asLast \in 0..MaxId /\ wsConnectRetries \in 0..WsConnectMaxRetries
  /\ job \in [Jobs -> {"requested", "waiting", "resolved", "rejected", "timed_out"}]
  /\ fetches \in [Jobs -> Nat] /\ lastId \in 0..MaxId
  /\ retries \in [Jobs -> 0..MaxRetries]
  /\ timers \in [Events -> 0..MaxTimers]
  /\ asked \in BOOLEAN /\ page \in {{}} \cup {{e} : e \in Events}
  /\ seen \subseteq Jobs /\ dropped \subseteq Jobs

Init ==
  /\ mode \in {"polling", "ws"}
  /\ id = [e \in Events |-> 0] /\ clock = 0
  /\ base = Dollar /\ from = Dollar /\ batch = {} /\ catchup = {}
  /\ sock = IF mode = "ws" THEN "connecting" ELSE "none"
  /\ asLast = 0 /\ wire = <<>> /\ wsConnectRetries = 0
  /\ job = [j \in Jobs |-> "requested"] /\ fetches = [j \in Jobs |-> 0]
  /\ lastId = 0 /\ retries = [j \in Jobs |-> 0] /\ timers = [e \in Events |-> 0]
  /\ asked = FALSE /\ page = {} /\ seen = {} /\ dropped = {}

Ev(j, s) == [job |-> j, stream |-> s]
InStream(s) == {e \in Events : e.stream = s /\ id[e] # 0}
Later(s, n) == {e \in InStream(s) : id[e] > n}
LastOf(s) == IF InStream(s) = {} THEN 0
             ELSE CHOOSE n \in {id[e] : e \in InStream(s)} : Later(s, n) = {}

First(e, S) == e \in S /\ \A f \in S : id[e] <= id[f]

\* q lists the set of events S in the order of their stream.
Lists(q, S) ==
  /\ \A i, k \in DOMAIN q : i < k => id[q[i]] < id[q[k]]
  /\ \A e \in S : \E i \in DOMAIN q : q[i] = e

-----------------------------------------------------------------------------
(* The worker: update_job, one XADD after the other. Ids are times, which  *)
(* here are never the same in the two streams.                             *)

Added(e) ==
  /\ clock' = clock + 1
  /\ id' = [id EXCEPT ![e] = clock']
  /\ UNCHANGED <<mode, serverVars, sockVars, waitVars, eventVars, pollVars>>

AddScoped(j) == id[Ev(j, "scoped")] = 0 /\ Added(Ev(j, "scoped"))

AddFull(j) ==
  /\ id[Ev(j, "scoped")] # 0 /\ id[Ev(j, "full")] = 0
  /\ Added(Ev(j, "full"))

-----------------------------------------------------------------------------
(* The WebSocket server.                                                   *)

\* XREAD blocks. With '$' it waits for entries later than the last one now.
BlockOnDollar ==
  /\ base = Dollar /\ from = Dollar
  /\ from' = LastOf("full")
  /\ UNCHANGED <<mode, redisVars, base, batch, catchup, sockVars, waitVars, eventVars, pollVars>>

\* It times out, or fails and is called again after a while.
ReadExpires ==
  /\ from # Dollar /\ batch = {}
  /\ from' = Dollar
  /\ UNCHANGED <<mode, redisVars, base, batch, catchup, sockVars, waitVars, eventVars, pollVars>>

Readable == IF base # Dollar THEN Later("full", base)
            ELSE IF from # Dollar THEN Later("full", from) ELSE {}

\* Bug...: what a plausible slip in this code would do; no action uses them.
\* PROJECT.json says which definition each one stands in for, and which
\* property notices.
BugReadsAhead ==
  /\ Readable # {}
  /\ batch' = batch \cup Readable
  /\ UNCHANGED <<mode, redisVars, base, from, catchup, sockVars, waitVars, eventVars, pollVars>>

\* It returns a batch, which is sent before the next call.
ReadReturns ==
  /\ batch = {} /\ Readable # {}
  /\ batch' = Readable
  /\ UNCHANGED <<mode, redisVars, base, from, catchup, sockVars, waitVars, eventVars, pollVars>>

\* sendToChannel, for each entry of q
Send(q) == wire' = IF sock = "open" THEN wire \o q ELSE wire

BugSendsFirst ==
  \E e, last \in batch :
    /\ First(e, batch) /\ Send(<<e>>)
    /\ \A f \in batch : id[f] <= id[last]
    /\ batch' = {}
    /\ base' = id[last] /\ from' = Dollar
    /\ UNCHANGED <<mode, redisVars, catchup, sock, asLast, wsConnectRetries>>
    /\ UNCHANGED <<waitVars, eventVars, pollVars>>

\* processStreamResults, with eventYieldBatchSize = 1; after the last entry
\* of the batch lastFirehoseId advances.
SendNext ==
  \E e \in batch :
    /\ First(e, batch) /\ Send(<<e>>)
    /\ batch' = batch \ {e}
    /\ IF batch = {e} THEN base' = id[e] /\ from' = Dollar ELSE UNCHANGED <<base, from>>
    /\ UNCHANGED <<mode, redisVars, catchup, sock, asLast, wsConnectRetries>>
    /\ UNCHANGED <<waitVars, eventVars, pollVars>>

\* wsConnection: the socket is tracked; with a last_id its range is fetched.
Accept ==
  /\ sock = "connecting"
  /\ sock' = "open" /\ wsConnectRetries' = 0 /\ asLast' = 0
  /\ catchup' = IF asLast = 0 THEN catchup ELSE
       catchup \cup {[low |-> asLast + 1, high |-> IF base = Dollar THEN MaxId ELSE base]}
  /\ UNCHANGED <<mode, redisVars, base, from, batch, wire, waitVars, eventVars, pollVars>>

\* XRANGE returns: its entries go to the sockets the channel has by now,
\* here without a pause.
CatchUp(r) ==
  LET found == {e \in InStream("scoped") : id[e] \in r.low..r.high} IN
  /\ r \in catchup
  /\ catchup' = catchup \ {r}
  /\ \E n \in 0..Cardinality(found) : \E q \in [1..n -> found] : Lists(q, found) /\ Send(q)
  /\ UNCHANGED <<mode, redisVars, base, from, batch, sock, asLast, wsConnectRetries>>
  /\ UNCHANGED <<waitVars, eventVars, pollVars>>

LoseSocket == sock' = (IF sock = "none" THEN sock ELSE "closed") /\ wire' = <<>>

ServerRestarts ==
  /\ base' = Dollar /\ from' = Dollar /\ batch' = {} /\ catchup' = {}
  /\ LoseSocket /\ asLast' = 0
  /\ UNCHANGED <<mode, redisVars, wsConnectRetries, waitVars, eventVars, pollVars>>

-----------------------------------------------------------------------------
(* The socket in the browser.                                              *)

\* The connection is lost, refused, or closed for slowness or an error.
Disconnect ==
  /\ sock \in {"connecting", "open"}
  /\ LoseSocket /\ asLast' = 0
  /\ UNCHANGED <<mode, redisVars, serverVars, wsConnectRetries>>
  /\ UNCHANGED <<waitVars, eventVars, pollVars>>

\* The timer of the close handler. wsConnect starts with closeWebSocket,
\* which resets the count of attempts; after too many there would be no
\* socket any more, and one poll.
Reconnect ==
  LET n == wsConnectRetries + 1 IN
  /\ sock = "closed"
  /\ sock' = IF n <= WsConnectMaxRetries THEN "connecting" ELSE "none"
  /\ wsConnectRetries' = IF n <= WsConnectMaxRetries THEN 0 ELSE wsConnectRetries
  /\ asLast' = lastId
  /\ UNCHANGED <<mode, redisVars, serverVars, wire, waitVars, eventVars, pollVars>>

-----------------------------------------------------------------------------
(* Events in the browser: processEvents and waitForAsyncData.              *)

Listening(j) == job[j] = "waiting"
RoomFor(e) == Listening(e.job) \/ timers[e] < MaxTimers

BugOneMoreTry(e, left) ==
  LET j == e.job
      n == retries[j] + 1 IN
  /\ lastId' = id[e]
  /\ seen' = seen \cup {j}
  /\ retries' = [retries EXCEPT ![j] = IF Listening(j) \/ n > MaxRetries + 1 THEN 0 ELSE n]
  /\ timers' = IF Listening(j) \/ n > MaxRetries + 1 THEN left ELSE [left EXCEPT ![e] = @ + 1]
  /\ dropped' = IF Listening(j) \/ n <= MaxRetries THEN dropped ELSE dropped \cup {j}
  /\ fetches' = IF Listening(j) /\ Outcome[j] = "done"
                THEN [fetches EXCEPT ![j] = @ + 1] ELSE fetches
  /\ job' = IF Listening(j) /\ Outcome[j] = "error"
            THEN [job EXCEPT ![j] = "rejected"] ELSE job

BugKeepsCounting(e, left) ==
  LET j == e.job
      n == retries[j] + 1 IN
  /\ lastId' = id[e]
  /\ seen' = seen \cup {j}
  /\ retries' = [retries EXCEPT ![j] = IF Listening(j) THEN 0 ELSE n]
  /\ timers' = IF Listening(j) \/ n > MaxRetries THEN left ELSE [left EXCEPT ![e] = @ + 1]
  /\ dropped' = IF Listening(j) \/ n <= MaxRetries THEN dropped ELSE dropped \cup {j}
  /\ fetches' = IF Listening(j) /\ Outcome[j] = "done"
                THEN [fetches EXCEPT ![j] = @ + 1] ELSE fetches
  /\ job' = IF Listening(j) /\ Outcome[j] = "error"
            THEN [job EXCEPT ![j] = "rejected"] ELSE job

\* One event, while `left` timers are set: to its listener, or to a new
\* timer unless it was tried often enough.
ProcessEvent(e, left) ==
  LET j == e.job
      n == retries[j] + 1 IN
  /\ lastId' = id[e]
  /\ seen' = seen \cup {j}
  /\ retries' = [retries EXCEPT ![j] = IF Listening(j) \/ n > MaxRetries THEN 0 ELSE n]
  /\ timers' = IF Listening(j) \/ n > MaxRetries THEN left ELSE [left EXCEPT ![e] = @ + 1]
  /\ dropped' = IF Listening(j) \/ n <= MaxRetries THEN dropped ELSE dropped \cup {j}
  /\ fetches' = IF Listening(j) /\ Outcome[j] = "done"
                THEN [fetches EXCEPT ![j] = @ + 1] ELSE fetches
  /\ job' = IF Listening(j) /\ Outcome[j] = "error"
            THEN [job EXCEPT ![j] = "rejected"] ELSE job

Receive ==
  /\ sock = "open" /\ wire # <<>> /\ RoomFor(Head(wire))
  /\ wire' = Tail(wire)
  /\ ProcessEvent(Head(wire), timers)
  /\ UNCHANGED <<mode, redisVars, serverVars, sock, asLast, wsConnectRetries, pollVars>>

RetryFires(e) ==
  /\ timers[e] > 0
  /\ ProcessEvent(e, [timers EXCEPT ![e] = @ - 1])
  /\ UNCHANGED <<mode, redisVars, serverVars, sockVars, pollVars>>

\* The 202 arrives: waitForAsyncData adds its listener.
Listen(j) ==
  /\ job[j] = "requested"
  /\ job' = [job EXCEPT ![j] = "waiting"]
  /\ UNCHANGED <<mode, redisVars, serverVars, sockVars, fetches, eventVars, pollVars>>

BugSettlesAgain(j) ==
  /\ fetches[j] > 0
  /\ fetches' = [fetches EXCEPT ![j] = @ - 1]
  /\ \E end \in {"resolved", "rejected"} : job' = [job EXCEPT ![j] = end]
  /\ UNCHANGED <<mode, redisVars, serverVars, sockVars, eventVars, pollVars>>

\* The cached result, or an error, arrives.
FetchEnds(j) ==
  /\ fetches[j] > 0
  /\ fetches' = [fetches EXCEPT ![j] = @ - 1]
  /\ \E end \in {"resolved", "rejected"} :
       job' = IF Listening(j) THEN [job EXCEPT ![j] = end] ELSE job
  /\ UNCHANGED <<mode, redisVars, serverVars, sockVars, eventVars, pollVars>>

WaitTimesOut(j) ==
  /\ job[j] = "waiting"
  /\ job' = [job EXCEPT ![j] = "timed_out"]
  /\ UNCHANGED <<mode, redisVars, serverVars, sockVars, fetches, eventVars, pollVars>>

BugPollsPage(after) ==
  /\ mode = "polling" /\ ~asked /\ \E j \in Jobs : Listening(j)
  /\ asked' = TRUE /\ page' = after
  /\ UNCHANGED <<mode, redisVars, serverVars, sockVars, waitVars, eventVars>>
BugPollsLast ==
  BugPollsPage({e \in Later("scoped", lastId) : id[e] = LastOf("scoped")})
BugPollsBeyond ==
  BugPollsPage({e \in Later("scoped", lastId + 1) :
                  \A f \in Later("scoped", lastId + 1) : id[e] <= id[f]})

\* loadEventsFromApi, while there are listeners. read_events returns the
\* first entries after last_id: here one, a longer page being so many polls
\* with no other step between them.
Poll ==
  LET after == Later("scoped", lastId) IN
  /\ mode = "polling" /\ ~asked /\ \E j \in Jobs : Listening(j)
  /\ asked' = TRUE
  /\ page' = {e \in after : \A f \in after : id[e] <= id[f]}
  /\ UNCHANGED <<mode, redisVars, serverVars, sockVars, waitVars, eventVars>>

PollAnswered ==
  /\ asked /\ \A e \in page : RoomFor(e)
  /\ asked' = FALSE /\ page' = {}
  /\ IF page = {} THEN UNCHANGED <<waitVars, eventVars>>
     ELSE \E e \in page : ProcessEvent(e, timers)
  /\ UNCHANGED <<mode, redisVars, serverVars, sockVars>>

PollFails ==
  /\ asked
  /\ asked' = FALSE /\ page' = {}
  /\ UNCHANGED <<mode, redisVars, serverVars, sockVars, waitVars, eventVars>>

-----------------------------------------------------------------------------
Page ==
  \/ \E j \in Jobs : Listen(j) \/ FetchEnds(j)
  \/ Reconnect \/ Receive
  \/ \E e \in Events : RetryFires(e)

Server ==
  \/ Accept
  \/ mode = "ws" /\ (BlockOnDollar \/ ReadReturns \/ SendNext)
  \/ \E r \in catchup : CatchUp(r)

Next ==
  \/ Page \/ Server
  \/ \E j \in Jobs : AddScoped(j) \/ AddFull(j) \/ WaitTimesOut(j)
  \/ mode = "ws" /\ (ReadExpires \/ ServerRestarts)
  \/ Disconnect \/ Poll \/ PollAnswered \/ PollFails

Spec == Init /\ [][Next]_vars

\* The page and the server go on working; what is polled again and again is
\* answered now and then. A wait need not reach its timeout.
Fairness ==
  /\ WF_vars(Page) /\ WF_vars(Server)
  /\ WF_vars(Poll) /\ SF_vars(PollAnswered)

FairSpec == Spec /\ Fairness

-----------------------------------------------------------------------------
(* A job that counts tries of its event has a timer for the next one: an   *)
(* early event is neither forgotten nor counted for a later one, though    *)
(* polls and replays bring it again (retriesByJobId in processEvents).     *)
RetriesHaveTimers ==
  \A j \in Jobs : retries[j] > 0 => \E s \in Streams : timers[Ev(j, s)] > 0

(* Polling passes over no event of the channel: all up to lastId have been *)
(* processed, although the retries of early events move lastId back.       *)
PollingSkipsNothing ==
  mode = "polling" => \A e \in InStream("scoped") : id[e] <= lastId => e.job \in seen

(* Events of the full stream reach a socket in the order of the stream     *)
(* (the listener is awaited before the next XREAD).                        *)
FirehoseInOrder ==
  \A i, k \in DOMAIN wire :
    i < k /\ wire[i].stream = "full" /\ wire[k].stream = "full" => id[wire[i]] < id[wire[k]]

(* A wait that ended stays as it ended, whatever duplicate events, fetches *)
(* and timers are still to come.                                           *)
SettledOnce ==
  [][\A j \in Jobs : job[j] \notin {"requested", "waiting"} => job'[j] = job[j]]_vars

(* With polling, a wait for an event that is in the stream ends without    *)
(* its timeout, unless the event was given up before the wait began.       *)
PollingHears ==
  \A j \in Jobs :
    (mode = "polling" /\ job[j] = "waiting" /\ id[Ev(j, "scoped")] # 0)
      ~> (job[j] # "waiting" \/ j \in dropped)

(* An open socket hears every event the server has read and not sent, and  *)
(* every one later than the last it sent, for as long as it stays open.    *)
OpenSocketHears ==
  \A j \in Jobs :
    (sock = "open" /\ (\/ base # Dollar /\ id[Ev(j, "full")] > base
                       \/ Ev(j, "full") \in batch))
      ~> (j \in seen \/ sock # "open")

(* What the comment in wsConnection says of a reconnection: the range a    *)
(* page missed is replayed. A page that reconnects with its last_id hears  *)
(* of every event the server has sent before, if it stays connected.       *)
ReplaysMissedRange ==
  \A j \in Jobs :
    (sock = "connecting" /\ asLast # 0 /\ id[Ev(j, "full")] \in 1..base)
      ~> (j \in seen \/ sock = "closed")
=============================================================================
