------------------------- MODULE AsyncEventsProofs -------------------------
(* What the page hears of its jobs, for any set of jobs and any limits.     *)
EXTENDS AsyncEvents, FiniteSetTheorems, TLAPS

Typed == /\ id \in [Events -> Nat] /\ clock \in Nat
         /\ base \in {Dollar} \cup Nat
         /\ batch \subseteq Events /\ wire \in Seq(Events)
         /\ lastId \in Nat
         /\ retries \in [Jobs -> Nat] /\ timers \in [Events -> Nat]
         /\ page \subseteq Events
         /\ DOMAIN job = Jobs

-----------------------------------------------------------------------------
(* The kinds of steps, by what they leave alone.                           *)

RedisStep == \E e \in Events : id[e] = 0 /\ Added(e)

ServerStep == /\ UNCHANGED <<mode, redisVars, waitVars, eventVars, pollVars>>
              /\ \/ BlockOnDollar \/ ReadExpires \/ ReadReturns \/ SendNext \/ Accept
                 \/ \E r \in catchup : CatchUp(r)
                 \/ ServerRestarts \/ Disconnect \/ Reconnect

WaitStep == /\ UNCHANGED <<mode, redisVars, serverVars, sockVars, eventVars, pollVars>>
            /\ \E j \in Jobs : Listen(j) \/ FetchEnds(j) \/ WaitTimesOut(j)

PollStep == /\ UNCHANGED <<mode, redisVars, serverVars, sockVars, waitVars, eventVars>>
            /\ page' = {} \/ Poll \/ page' = page

\* An event is processed: a message, a retry, or what a poll brought.  The retry
\* has just given up its own timer.
EventStep(e) ==
  /\ UNCHANGED <<mode, redisVars, serverVars>>
  /\ \/ /\ sock = "open" /\ wire # <<>> /\ e = Head(wire) /\ RoomFor(e)
        /\ wire' = Tail(wire) /\ ProcessEvent(e, timers)
        /\ UNCHANGED <<sock, asLast, wsConnectRetries, pollVars>>
     \/ /\ timers[e] > 0 /\ ProcessEvent(e, [timers EXCEPT ![e] = @ - 1])
        /\ UNCHANGED <<sockVars, pollVars>>
     \/ /\ e \in page /\ page' = {} /\ RoomFor(e) /\ ProcessEvent(e, timers)
        /\ UNCHANGED sockVars

LEMMA EventsTyped ==
  /\ \A j \in Jobs, s \in Streams : Ev(j, s) \in Events
  /\ \A e \in Events : /\ e.job \in Jobs /\ e.stream \in Streams
                       /\ e = Ev(e.job, e.stream)
BY DEF Ev, Events

LEMMA Steps ==
  ASSUME Typed, [Next]_vars
  PROVE  \/ RedisStep \/ ServerStep \/ WaitStep \/ PollStep
         \/ \E e \in Events : EventStep(e)
<1>1. CASE UNCHANGED vars
  BY <1>1 DEF vars, PollStep, pollVars
<1>2. ASSUME NEW j \in Jobs, AddScoped(j) \/ AddFull(j) PROVE RedisStep
  BY <1>2, EventsTyped DEF AddScoped, AddFull, RedisStep, Streams
<1>3. ASSUME NEW j \in Jobs, Listen(j) \/ FetchEnds(j) \/ WaitTimesOut(j) PROVE WaitStep
  BY <1>3 DEF Listen, FetchEnds, WaitTimesOut, WaitStep
<1>4. ASSUME \/ BlockOnDollar \/ ReadExpires \/ ReadReturns \/ SendNext \/ Accept
             \/ \E r \in catchup : CatchUp(r)
             \/ ServerRestarts \/ Disconnect \/ Reconnect
      PROVE  ServerStep
  <2>1. UNCHANGED <<mode, redisVars, waitVars, eventVars, pollVars>>
    BY <1>4 DEF BlockOnDollar, ReadExpires, ReadReturns, SendNext, Accept, CatchUp,
                ServerRestarts, Disconnect, Reconnect
  <2>. QED BY <1>4, <2>1 DEF ServerStep
<1>5. CASE Receive
  <2>1. Head(wire) \in Events
    BY <1>5 DEF Receive, Typed
  <2>2. EventStep(Head(wire))
    BY <1>5 DEF Receive, EventStep
  <2>. QED BY <2>1, <2>2
<1>6. ASSUME NEW e \in Events, RetryFires(e) PROVE EventStep(e)
  BY <1>6 DEF RetryFires, EventStep
<1>7. CASE PollAnswered
  <2>1. CASE page = {}
    BY <1>7, <2>1 DEF PollAnswered, PollStep
  <2>2. CASE page # {}
    <3>1. PICK e \in page : ProcessEvent(e, timers)
      BY <1>7, <2>2 DEF PollAnswered
    <3>2. e \in Events
      BY <3>1 DEF Typed
    <3>3. EventStep(e)
      BY <1>7, <3>1 DEF PollAnswered, EventStep
    <3>. QED BY <3>2, <3>3
  <2>. QED BY <2>1, <2>2
<1>8. CASE Poll \/ PollFails
  BY <1>8 DEF Poll, PollFails, PollStep
<1>. QED BY <1>1, <1>2, <1>3, <1>4, <1>5, <1>6, <1>7, <1>8 DEF Next, Page, Server

-----------------------------------------------------------------------------
(* Types.                                                                  *)

LEMMA ProcessedTyped ==
  ASSUME Typed, NEW e \in Events, NEW left \in [Events -> Nat], ProcessEvent(e, left)
  PROVE  /\ lastId' \in Nat
         /\ retries' \in [Jobs -> Nat] /\ timers' \in [Events -> Nat]
         /\ DOMAIN job' = Jobs
<1>1. e.job \in Jobs
  BY EventsTyped
<1>2. lastId' \in Nat
  BY DEF Typed, ProcessEvent
<1>3. retries' \in [Jobs -> Nat]
  BY <1>1 DEF Typed, ProcessEvent
<1>4. timers' \in [Events -> Nat]
  BY DEF Typed, ProcessEvent
<1>5. DOMAIN job' = Jobs
  BY DEF Typed, ProcessEvent
<1>. QED BY <1>2, <1>3, <1>4, <1>5

LEMMA SentTyped ==
  ASSUME wire \in Seq(Events), NEW q \in Seq(Events), Send(q)
  PROVE  wire' \in Seq(Events)
BY DEF Send

LEMMA ServerTyped ==
  ASSUME Typed, ServerStep
  PROVE  /\ base' \in {Dollar} \cup Nat
         /\ batch' \subseteq Events /\ wire' \in Seq(Events)
<1>1. CASE BlockOnDollar
  BY <1>1 DEF BlockOnDollar, sockVars, Typed
<1>2. CASE ReadExpires
  BY <1>2 DEF ReadExpires, sockVars, Typed
<1>3. CASE ReadReturns
  BY <1>3 DEF ReadReturns, Readable, Later, InStream, sockVars, Typed
<1>4. CASE SendNext
  <2>1. PICK e \in batch : /\ Send(<<e>>)
                           /\ batch' = batch \ {e}
                           /\ base' \in {base, id[e]}
    BY <1>4 DEF SendNext
  <2>2. e \in Events /\ id[e] \in Nat
    BY DEF Typed
  <2>3. <<e>> \in Seq(Events)
    BY <2>2
  <2>. QED BY <2>1, <2>2, <2>3, SentTyped DEF Typed
<1>5. CASE Accept
  BY <1>5 DEF Accept, Typed
<1>6. ASSUME NEW r \in catchup, CatchUp(r)
      PROVE  UNCHANGED <<base, batch>> /\ wire' \in Seq(Events)
  <2>1. PICK n \in 0..Cardinality({e \in InStream("scoped") : id[e] \in r.low..r.high}) :
          \E q \in [1..n -> {e \in InStream("scoped") : id[e] \in r.low..r.high}] : Send(q)
    BY <1>6 DEF CatchUp
  <2>2. PICK q \in [1..n -> {e \in InStream("scoped") : id[e] \in r.low..r.high}] : Send(q)
    BY <2>1
  <2>3. q \in [1..n -> Events] /\ n \in Nat
    BY <2>2 DEF InStream
  <2>4. q \in Seq(Events)
    BY <2>3
  <2>5. wire' \in Seq(Events)
    BY <2>2, <2>4, SentTyped DEF Typed
  <2>. QED BY <1>6, <2>5 DEF CatchUp
<1>7. CASE ServerRestarts
  BY <1>7 DEF ServerRestarts, LoseSocket, Typed
<1>8. CASE Disconnect
  BY <1>8 DEF Disconnect, LoseSocket, serverVars, Typed
<1>9. CASE Reconnect
  BY <1>9 DEF Reconnect, serverVars, Typed
<1>. QED BY <1>1, <1>2, <1>3, <1>4, <1>5, <1>6, <1>7, <1>8, <1>9 DEF ServerStep, Typed

LEMMA EventTyped ==
  ASSUME Typed, NEW e \in Events, EventStep(e)
  PROVE  /\ wire' \in Seq(Events) /\ page' \subseteq Events
         /\ lastId' \in Nat
         /\ retries' \in [Jobs -> Nat] /\ timers' \in [Events -> Nat]
         /\ DOMAIN job' = Jobs
<1>1. timers \in [Events -> Nat]
  BY DEF Typed
<1>2. timers[e] > 0 => [timers EXCEPT ![e] = @ - 1] \in [Events -> Nat]
  BY <1>1
<1>3. wire' \in Seq(Events) /\ page' \subseteq Events
  <2>1. wire # <<>> => Tail(wire) \in Seq(Events)
    BY DEF Typed
  <2>2. wire' = wire \/ (wire # <<>> /\ wire' = Tail(wire))
    BY DEF EventStep, sockVars
  <2>3. page' = page \/ page' = {}
    BY DEF EventStep, pollVars
  <2>. QED BY <2>1, <2>2, <2>3 DEF Typed
<1>4. \E left \in [Events -> Nat] : ProcessEvent(e, left)
  BY <1>1, <1>2 DEF EventStep
<1>. QED BY <1>3, <1>4, ProcessedTyped

LEMMA TypedKept == Typed /\ [Next]_vars => Typed'
<1>. SUFFICES ASSUME Typed, [Next]_vars PROVE Typed'
  OBVIOUS
<1>1. CASE RedisStep
  <2>1. PICK e \in Events : Added(e)
    BY <1>1 DEF RedisStep
  <2>. QED BY <2>1 DEF Added, Typed, serverVars, sockVars, waitVars, eventVars, pollVars
<1>2. CASE ServerStep
  <2>1. UNCHANGED <<redisVars, waitVars, eventVars, pollVars>>
    BY <1>2 DEF ServerStep
  <2>. QED BY <1>2, <2>1, ServerTyped DEF Typed, redisVars, waitVars, eventVars, pollVars
<1>3. CASE WaitStep
  <2>1. DOMAIN job' = Jobs
    BY <1>3 DEF WaitStep, Listen, FetchEnds, WaitTimesOut, Typed
  <2>. QED BY <1>3, <2>1 DEF WaitStep, Typed, redisVars, serverVars, sockVars, eventVars, pollVars
<1>4. CASE PollStep
  <2>1. page' \subseteq Events
    BY <1>4 DEF PollStep, Poll, Later, InStream, Typed
  <2>. QED BY <1>4, <2>1 DEF PollStep, Typed, redisVars, serverVars, sockVars, waitVars, eventVars
<1>5. ASSUME NEW e \in Events, EventStep(e) PROVE Typed'
  <2>1. UNCHANGED <<redisVars, serverVars>>
    BY <1>5 DEF EventStep
  <2>. QED BY <1>5, <2>1, EventTyped DEF Typed, redisVars, serverVars
<1>. QED BY <1>1, <1>2, <1>3, <1>4, <1>5, Steps

LEMMA InitTyped == Init => Typed
BY DEF Init, Typed, Events, Ev

-----------------------------------------------------------------------------
(* Waits.                                                                  *)

(* A wait that was resolved, rejected or timed out stays so, whatever events,   *)
(* fetches and timers are still to come.                                        *)
THEOREM WaitsEndOnce == Spec => SettledOnce
<1>. DEFINE Stays == \A j \in Jobs : job[j] \notin {"requested", "waiting"} => job'[j] = job[j]
<1>1. ASSUME Typed, [Next]_vars PROVE Stays
  <2>1. CASE RedisStep \/ ServerStep \/ PollStep
    BY <2>1 DEF RedisStep, Added, ServerStep, PollStep, waitVars
  <2>2. CASE WaitStep
    BY <1>1, <2>2 DEF WaitStep, Listen, FetchEnds, WaitTimesOut, Listening, Typed
  <2>3. ASSUME NEW e \in Events, EventStep(e) PROVE Stays
    BY <1>1, <2>3 DEF EventStep, ProcessEvent, Listening, Typed
  <2>. QED BY <1>1, <2>1, <2>2, <2>3, Steps
<1>2. Typed /\ [Next]_vars => [Stays]_vars
  BY <1>1
<1>. QED BY <1>2, InitTyped, TypedKept, PTL DEF Spec, SettledOnce

-----------------------------------------------------------------------------
(* Early events.                                                           *)

LEMMA ProcessedCounts ==
  ASSUME Typed, RetriesHaveTimers, NEW e \in Events, NEW left \in [Events -> Nat],
         \A f \in Events : f # e => left[f] = timers[f],
         ProcessEvent(e, left)
  PROVE  RetriesHaveTimers'
<1>. SUFFICES ASSUME NEW j \in Jobs, retries'[j] > 0
              PROVE  \E s \in Streams : timers'[Ev(j, s)] > 0
  BY DEF RetriesHaveTimers
<1>1. CASE j = e.job
  <2>1. timers' = [left EXCEPT ![e] = @ + 1]
    <3>1. retries'[j] = IF Listening(j) \/ retries[j] + 1 > MaxRetries THEN 0 ELSE retries[j] + 1
      BY <1>1 DEF ProcessEvent, Typed
    <3>2. ~(Listening(j) \/ retries[j] + 1 > MaxRetries)
      BY <3>1
    <3>. QED BY <1>1, <3>2 DEF ProcessEvent
  <2>2. timers'[e] > 0
    BY <2>1
  <2>. QED BY <1>1, <2>2, EventsTyped
<1>2. CASE j # e.job
  <2>1. retries'[j] = retries[j]
    BY <1>2, EventsTyped DEF ProcessEvent, Typed
  <2>2. PICK s \in Streams : timers[Ev(j, s)] > 0
    BY <2>1 DEF RetriesHaveTimers
  <2>3. Ev(j, s) \in Events /\ Ev(j, s) # e
    BY <1>2, EventsTyped DEF Ev
  <2>4. timers'[Ev(j, s)] = left[Ev(j, s)]
    BY <2>3 DEF ProcessEvent
  <2>5. timers'[Ev(j, s)] > 0
    BY <2>2, <2>3, <2>4
  <2>. QED BY <2>5
<1>. QED BY <1>1, <1>2

(* For any set of jobs and any limits: a job that counts tries of its event has *)
(* a retry timer set, so the event is tried again.                              *)
THEOREM EarlyEventsAreRetried == Spec => []RetriesHaveTimers
<1>1. Init => RetriesHaveTimers
  BY DEF Init, RetriesHaveTimers
<1>2. Typed /\ RetriesHaveTimers /\ [Next]_vars => RetriesHaveTimers'
  <2>. SUFFICES ASSUME Typed, RetriesHaveTimers, [Next]_vars PROVE RetriesHaveTimers'
    OBVIOUS
  <2>1. CASE RedisStep \/ ServerStep \/ PollStep \/ WaitStep
    <3>1. UNCHANGED eventVars
      BY <2>1 DEF RedisStep, Added, ServerStep, PollStep, WaitStep
    <3>. QED BY <3>1 DEF eventVars, RetriesHaveTimers
  <2>2. ASSUME NEW e \in Events, EventStep(e) PROVE RetriesHaveTimers'
    <3>1. timers \in [Events -> Nat]
      BY DEF Typed
    <3>2. CASE ProcessEvent(e, timers)
      BY <3>1, <3>2, ProcessedCounts
    <3>3. CASE timers[e] > 0 /\ ProcessEvent(e, [timers EXCEPT ![e] = @ - 1])
      <4>1. [timers EXCEPT ![e] = @ - 1] \in [Events -> Nat]
        BY <3>1, <3>3
      <4>2. \A f \in Events : f # e => [timers EXCEPT ![e] = @ - 1][f] = timers[f]
        BY <3>1
      <4>. QED BY <3>3, <4>1, <4>2, ProcessedCounts
    <3>. QED BY <2>2, <3>2, <3>3 DEF EventStep
  <2>. QED BY <2>1, <2>2, Steps
<1>. QED BY <1>1, <1>2, InitTyped, TypedKept, PTL DEF Spec

-----------------------------------------------------------------------------
(* Polling.                                                                *)

\* An event has one place in the streams.
IdsInv == /\ \A e \in Events : id[e] <= clock
          /\ \A e, f \in Events : id[e] = id[f] /\ id[e] # 0 => e = f

SeenUpTo(n) == \A e \in InStream("scoped") : id[e] <= n => e.job \in seen
SeenBefore(e) == e \in InStream("scoped") /\ \A f \in InStream("scoped") : id[f] < id[e] => f.job \in seen

\* With polling nothing comes over a socket, and whatever is about to be
\* processed, first or again, is next to what was.
PollInv == mode = "polling" =>
             /\ sock = "none" /\ lastId <= clock
             /\ SeenUpTo(lastId)
             /\ \A e \in page : SeenBefore(e)
             /\ \A e \in Events : timers[e] > 0 => SeenBefore(e)

LEMMA IdsKept == Typed /\ IdsInv /\ [Next]_vars => IdsInv'
<1>. SUFFICES ASSUME Typed, IdsInv, [Next]_vars PROVE IdsInv'
  OBVIOUS
<1>1. CASE UNCHANGED redisVars
  BY <1>1 DEF redisVars, IdsInv
<1>2. CASE RedisStep
  <2>1. PICK e \in Events : id[e] = 0 /\ clock' = clock + 1 /\ id' = [id EXCEPT ![e] = clock + 1]
    BY <1>2 DEF RedisStep, Added
  <2>2. \A f \in Events : id'[f] = IF f = e THEN clock + 1 ELSE id[f]
    BY <2>1 DEF Typed
  <2>3. \A f \in Events : id[f] \in Nat /\ id[f] <= clock /\ clock \in Nat
    BY DEF Typed, IdsInv
  <2>. QED BY <2>1, <2>2, <2>3 DEF IdsInv
<1>. QED BY <1>1, <1>2, Steps DEF ServerStep, WaitStep, PollStep, EventStep

LEMMA ScopedIds ==
  ASSUME Typed, IdsInv
  PROVE  /\ clock \in Nat /\ lastId \in Nat
         /\ \A e \in InStream("scoped") : e \in Events /\ id[e] \in Nat /\ id[e] # 0 /\ id[e] <= clock
         /\ \A e, f \in InStream("scoped") : id[e] = id[f] => e = f
BY DEF Typed, IdsInv, InStream

LEMMA NoSocketKept == ServerStep /\ mode = "polling" /\ sock = "none" => sock' = "none"
BY DEF ServerStep, BlockOnDollar, ReadExpires, ReadReturns, SendNext, Accept, CatchUp,
       ServerRestarts, Disconnect, Reconnect, LoseSocket, sockVars

LEMMA PollInvAdds ==
  ASSUME Typed, IdsInv, PollInv, NEW e \in Events, id[e] = 0, Added(e)
  PROVE  PollInv'
<1>. SUFFICES ASSUME mode = "polling" PROVE PollInv'
  BY DEF Added, PollInv
<1>1. UNCHANGED <<sock, lastId, page, timers, seen>>
  BY DEF Added, sockVars, eventVars, pollVars
<1>2. clock' = clock + 1 /\ id' = [id EXCEPT ![e] = clock + 1]
  BY DEF Added
<1>3. \A f \in Events : id'[f] = IF f = e THEN clock + 1 ELSE id[f]
  BY <1>2 DEF Typed
<1>4. \A f \in Events : SeenBefore(f) => SeenBefore(f)'
  <2>. SUFFICES ASSUME NEW f \in Events, SeenBefore(f) PROVE SeenBefore(f)'
    OBVIOUS
  <2>1. f \in InStream("scoped") /\ f # e
    BY DEF SeenBefore, InStream
  <2>2. id'[f] = id[f] /\ f \in InStream("scoped")'
    BY <1>3, <2>1 DEF InStream
  <2>3. ASSUME NEW g \in InStream("scoped")', id'[g] < id'[f] PROVE g.job \in seen'
    <3>1. g # e
      BY <1>3, <2>1, <2>2, <2>3, ScopedIds
    <3>2. g \in InStream("scoped") /\ id'[g] = id[g]
      BY <1>3, <3>1 DEF InStream
    <3>. QED BY <1>1, <2>2, <2>3, <3>2 DEF SeenBefore
  <2>. QED BY <2>2, <2>3 DEF SeenBefore
<1>5. SeenUpTo(lastId)'
  <2>. SUFFICES ASSUME NEW g \in InStream("scoped")', id'[g] <= lastId' PROVE g.job \in seen'
    BY DEF SeenUpTo
  <2>1. lastId <= clock
    BY DEF PollInv
  <2>2. g # e
    BY <1>1, <1>3, <2>1, ScopedIds
  <2>3. g \in InStream("scoped") /\ id'[g] = id[g]
    BY <1>3, <2>2 DEF InStream
  <2>. QED BY <1>1, <2>3 DEF PollInv, SeenUpTo
<1>6. lastId' <= clock'
  BY <1>1, <1>2, ScopedIds DEF PollInv
<1>. QED BY <1>1, <1>4, <1>5, <1>6 DEF PollInv, Typed

LEMMA PollInvPolls ==
  ASSUME Typed, IdsInv, PollInv, PollStep
  PROVE  PollInv'
<1>. SUFFICES ASSUME mode = "polling" PROVE PollInv'
  BY DEF PollStep, PollInv
<1>1. UNCHANGED <<mode, id, clock, sock, lastId, timers, seen>>
  BY DEF PollStep, redisVars, sockVars, eventVars
<1>2. \A f \in Events : SeenBefore(f) => SeenBefore(f)'
  BY <1>1 DEF SeenBefore, InStream
<1>3. SeenUpTo(lastId)' /\ lastId' <= clock'
  BY <1>1 DEF PollInv, SeenUpTo, InStream
<1>4. ASSUME NEW e \in page' PROVE SeenBefore(e)'
  <2>1. CASE page' = page
    BY <1>2, <1>4, <2>1 DEF PollInv, Typed
  <2>2. CASE page' = {}
    BY <1>4, <2>2
  <2>3. CASE Poll
    <3>1. /\ e \in InStream("scoped") /\ id[e] > lastId
          /\ \A f \in Later("scoped", lastId) : id[e] <= id[f]
      BY <1>4, <2>3 DEF Poll, Later
    <3>2. ASSUME NEW f \in InStream("scoped"), id[f] < id[e] PROVE f.job \in seen
      <4>1. id[f] <= lastId
        BY <3>1, <3>2, ScopedIds DEF Later
      <4>. QED BY <4>1 DEF PollInv, SeenUpTo
    <3>3. SeenBefore(e) /\ e \in Events
      BY <3>1, <3>2, ScopedIds DEF SeenBefore
    <3>. QED BY <1>2, <3>3
  <2>. QED BY <2>1, <2>2, <2>3 DEF PollStep
<1>. QED BY <1>1, <1>2, <1>3, <1>4 DEF PollInv

LEMMA PollInvProcesses ==
  ASSUME Typed, IdsInv, PollInv, NEW e \in Events, EventStep(e)
  PROVE  PollInv'
<1>. SUFFICES ASSUME mode = "polling" PROVE PollInv'
  BY DEF EventStep, PollInv
<1>1. sock = "none"
  BY DEF PollInv
<1>2. SeenBefore(e)
  BY <1>1 DEF EventStep, PollInv
<1>3. \E left : /\ left \in [Events -> Nat] /\ ProcessEvent(e, left)
                /\ \A f \in Events : f # e => left[f] = timers[f]
  <2>1. CASE ProcessEvent(e, timers)
    BY <2>1 DEF Typed
  <2>2. CASE timers[e] > 0 /\ ProcessEvent(e, [timers EXCEPT ![e] = @ - 1])
    <3>. DEFINE rest == [timers EXCEPT ![e] = @ - 1]
    <3>1. rest \in [Events -> Nat]
      BY <2>2 DEF Typed
    <3>2. \A f \in Events : f # e => rest[f] = timers[f]
      BY DEF Typed
    <3>. HIDE DEF rest
    <3>3. ProcessEvent(e, rest)
      BY <2>2 DEF rest
    <3>. QED BY <3>1, <3>2, <3>3
  <2>. QED BY <2>1, <2>2 DEF EventStep
<1>4. PICK left : /\ left \in [Events -> Nat] /\ ProcessEvent(e, left)
                  /\ \A f \in Events : f # e => left[f] = timers[f]
  BY <1>3
<1>5. lastId' = id[e] /\ seen' = seen \cup {e.job} /\ UNCHANGED <<mode, id, clock>>
  BY <1>4 DEF ProcessEvent, EventStep, redisVars
<1>6. sock' = "none" /\ page' \subseteq page
  BY <1>1 DEF EventStep, sockVars, pollVars
<1>7. \A f \in Events : SeenBefore(f) => SeenBefore(f)'
  BY <1>5 DEF SeenBefore, InStream
<1>8. SeenUpTo(lastId)' /\ lastId' <= clock'
  <2>1. lastId' <= clock'
    BY <1>2, <1>5, ScopedIds DEF SeenBefore
  <2>2. ASSUME NEW g \in InStream("scoped"), id[g] <= id[e] PROVE g.job \in seen'
    <3>1. id[g] < id[e] \/ g = e
      BY <1>2, <2>2, ScopedIds DEF SeenBefore
    <3>. QED BY <1>2, <1>5, <3>1 DEF SeenBefore
  <2>. QED BY <1>5, <2>1, <2>2 DEF SeenUpTo, InStream
<1>9. \A f \in Events : timers'[f] > 0 => SeenBefore(f)
  <2>. SUFFICES ASSUME NEW f \in Events, f # e, timers'[f] > 0 PROVE SeenBefore(f)
    BY <1>2
  <2>1. timers'[f] = timers[f]
    BY <1>4 DEF ProcessEvent
  <2>. QED BY <2>1 DEF PollInv
<1>10. \A f \in page' : SeenBefore(f)'
  BY <1>6, <1>7 DEF PollInv, Typed
<1>11. \A f \in Events : timers'[f] > 0 => SeenBefore(f)'
  BY <1>7, <1>9
<1>. QED BY <1>6, <1>8, <1>10, <1>11 DEF PollInv

LEMMA PollKept == Typed /\ IdsInv /\ PollInv /\ [Next]_vars => PollInv'
<1>. SUFFICES ASSUME Typed, IdsInv, PollInv, [Next]_vars PROVE PollInv'
  OBVIOUS
<1>1. CASE RedisStep
  BY <1>1, PollInvAdds DEF RedisStep
<1>2. CASE ServerStep
  <2>1. UNCHANGED <<mode, id, clock, lastId, timers, seen, page>>
    BY <1>2 DEF ServerStep, redisVars, eventVars, pollVars
  <2>2. mode = "polling" /\ sock = "none" => sock' = "none"
    BY <1>2, NoSocketKept
  <2>. QED BY <2>1, <2>2 DEF PollInv, SeenUpTo, SeenBefore, InStream
<1>3. CASE WaitStep
  <2>1. UNCHANGED <<mode, id, clock, lastId, timers, seen, page, sock>>
    BY <1>3 DEF WaitStep, redisVars, sockVars, eventVars, pollVars
  <2>. QED BY <2>1 DEF PollInv, SeenUpTo, SeenBefore, InStream
<1>4. CASE PollStep
  BY <1>4, PollInvPolls
<1>5. ASSUME NEW e \in Events, EventStep(e) PROVE PollInv'
  BY <1>5, PollInvProcesses
<1>. QED BY <1>1, <1>2, <1>3, <1>4, <1>5, Steps

(* For any set of jobs: with polling, every event of the channel up to the last *)
(* one the page has acknowledged was processed, however the retries of early    *)
(* events moved that place back.                                                *)
THEOREM PollingIsComplete == Spec => []PollingSkipsNothing
<1>1. Init => IdsInv /\ PollInv
  <2>. SUFFICES ASSUME Init PROVE IdsInv /\ PollInv
    OBVIOUS
  <2>1. /\ \A e \in Events : id[e] = 0 /\ timers[e] = 0
        /\ clock = 0 /\ lastId = 0 /\ page = {}
        /\ mode = "polling" => sock = "none"
    BY DEF Init
  <2>2. InStream("scoped") = {}
    BY <2>1 DEF InStream
  <2>. QED BY <2>1, <2>2 DEF IdsInv, PollInv, SeenUpTo
<1>2. PollInv => PollingSkipsNothing
  BY DEF PollInv, PollingSkipsNothing, SeenUpTo
<1>. QED BY <1>1, <1>2, InitTyped, TypedKept, IdsKept, PollKept, PTL DEF Spec

-----------------------------------------------------------------------------
(* The socket.                                                             *)

OnWire(i) == i \in DOMAIN wire /\ wire[i].stream = "full"

\* What is on the wire came before what is left of the batch, or is at most
\* the last entry sent; none of it, when the server starts anew.
WireInv == /\ \A e \in batch : e.stream = "full" /\ id[e] # 0
           /\ \A i : OnWire(i) => /\ id[wire[i]] # 0
                                  /\ \A e \in batch : id[wire[i]] < id[e]
                                  /\ batch = {} => id[wire[i]] <= base

LEMMA WireTyped ==
  ASSUME Typed
  PROVE  /\ \A i \in DOMAIN wire : wire[i] \in Events
         /\ \A e \in Events : id[e] \in Nat
         /\ DOMAIN wire \subseteq Nat
         /\ batch \subseteq Events /\ base \in Int
BY DEF Typed, Dollar

LEMMA WireUnchanged ==
  ASSUME WireInv, FirehoseInOrder, UNCHANGED <<id, wire, batch, base>>
  PROVE  WireInv' /\ FirehoseInOrder'
BY DEF WireInv, OnWire, FirehoseInOrder

LEMMA WireEmptied ==
  ASSUME Typed, WireInv, wire' = <<>>, UNCHANGED id, batch' \in {batch, {}}
  PROVE  WireInv' /\ FirehoseInOrder'
<1>1. DOMAIN wire' = {}
  OBVIOUS
<1>2. \A e \in batch' : e.stream = "full" /\ id'[e] # 0
  BY DEF WireInv
<1>. QED BY <1>1, <1>2 DEF WireInv, OnWire, FirehoseInOrder

\* Entries appended to the wire are in order with it when they are scoped.
LEMMA WireReplays ==
  ASSUME Typed, WireInv, FirehoseInOrder, UNCHANGED <<id, batch, base>>,
         NEW q \in Seq(Events), \A i \in DOMAIN q : q[i].stream = "scoped",
         Send(q)
  PROVE  WireInv' /\ FirehoseInOrder'
<1>1. CASE wire' = wire
  BY <1>1, WireUnchanged
<1>2. CASE wire' = wire \o q
  <2>1. wire \in Seq(Events)
    BY DEF Typed
  <2>2. \A i \in DOMAIN wire' : \/ i \in DOMAIN wire /\ wire'[i] = wire[i]
                                \/ wire'[i].stream = "scoped"
    <3>. SUFFICES ASSUME NEW i \in DOMAIN wire', i \notin DOMAIN wire
                  PROVE  wire'[i].stream = "scoped"
      BY <1>2, <2>1
    <3>1. i - Len(wire) \in DOMAIN q /\ wire'[i] = q[i - Len(wire)]
      BY <1>2, <2>1
    <3>. QED BY <3>1
  <2>3. \A i : OnWire(i)' => OnWire(i) /\ wire'[i] = wire[i]
    BY <2>2 DEF OnWire
  <2>4. WireInv'
    BY <2>3 DEF WireInv
  <2>5. FirehoseInOrder'
    BY <2>3 DEF FirehoseInOrder, OnWire
  <2>. QED BY <2>4, <2>5
<1>. QED BY <1>1, <1>2 DEF Send

LEMMA WireSends ==
  ASSUME Typed, IdsInv, WireInv, FirehoseInOrder, SendNext
  PROVE  WireInv' /\ FirehoseInOrder'
<1>1. PICK e \in batch : /\ First(e, batch) /\ Send(<<e>>)
                         /\ batch' = batch \ {e}
                         /\ batch = {e} => base' = id[e]
                         /\ UNCHANGED id
  BY DEF SendNext, redisVars
<1>2. e \in Events /\ id[e] \in Nat /\ id[e] # 0
  BY WireTyped DEF WireInv
<1>3. \A f \in batch' : f \in Events /\ id[e] < id[f]
  BY <1>1, <1>2, WireTyped DEF First, IdsInv
<1>4. ASSUME NEW i, OnWire(i)' PROVE (OnWire(i) /\ wire'[i] = wire[i]) \/ wire'[i] = e
  <2>1. CASE wire' = wire
    BY <1>4, <2>1 DEF OnWire
  <2>2. CASE wire' = wire \o <<e>>
    <3>1. wire \in Seq(Events)
      BY DEF Typed
    <3>. QED BY <1>2, <1>4, <2>2, <3>1 DEF OnWire
  <2>. QED BY <1>1, <2>1, <2>2 DEF Send
<1>5. \A i : OnWire(i) => i \in DOMAIN wire /\ id[wire[i]] \in Nat /\ id[wire[i]] < id[e] /\ id[wire[i]] # 0
  BY WireTyped DEF WireInv, OnWire
<1>6. \A i : OnWire(i)' => /\ id[wire'[i]] \in Nat /\ id[wire'[i]] <= id[e] /\ id[wire'[i]] # 0
  BY <1>2, <1>4, <1>5
<1>7. WireInv'
  <2>1. \A f \in batch' : f.stream = "full" /\ id'[f] # 0
    BY <1>1 DEF WireInv
  <2>2. ASSUME NEW i, OnWire(i)'
        PROVE  /\ id'[wire'[i]] # 0
               /\ \A f \in batch' : id'[wire'[i]] < id'[f]
    BY <1>1, <1>2, <1>3, <1>6, <2>2, WireTyped
  <2>3. ASSUME NEW i, OnWire(i)', batch' = {} PROVE id'[wire'[i]] <= base'
    <3>1. batch = {e}
      BY <1>1, <2>3
    <3>. QED BY <1>1, <1>6, <2>3, <3>1
  <2>. QED BY <2>1, <2>2, <2>3 DEF WireInv
<1>8. FirehoseInOrder'
  <2>1. CASE wire' = wire
    BY <1>1, <2>1 DEF FirehoseInOrder
  <2>2. CASE wire' = wire \o <<e>>
    <3>1. wire \in Seq(Events)
      BY DEF Typed
    <3>2. \A i \in DOMAIN wire' : (i \in DOMAIN wire /\ wire'[i] = wire[i]) \/ (i = Len(wire) + 1 /\ wire'[i] = e)
      BY <1>2, <2>2, <3>1
    <3>3. DOMAIN wire = 1..Len(wire) /\ Len(wire) \in Nat /\ DOMAIN wire' \subseteq 1..(Len(wire) + 1)
      BY <1>2, <2>2, <3>1
    <3>. SUFFICES ASSUME NEW i \in DOMAIN wire', NEW k \in DOMAIN wire', i < k,
                         wire'[i].stream = "full", wire'[k].stream = "full"
                  PROVE  id'[wire'[i]] < id'[wire'[k]]
      BY DEF FirehoseInOrder
    <3>4. i \in DOMAIN wire /\ wire'[i] = wire[i]
      BY <3>2, <3>3
    <3>5. CASE k \in DOMAIN wire /\ wire'[k] = wire[k]
      BY <1>1, <3>4, <3>5 DEF FirehoseInOrder
    <3>6. CASE wire'[k] = e
      BY <1>1, <1>5, <3>4, <3>6 DEF OnWire
    <3>. QED BY <3>2, <3>5, <3>6
  <2>. QED BY <1>1, <2>1, <2>2 DEF Send
<1>. QED BY <1>7, <1>8

LEMMA WireReceives ==
  ASSUME Typed, WireInv, FirehoseInOrder, UNCHANGED <<id, batch, base>>,
         wire # <<>>, wire' = Tail(wire)
  PROVE  WireInv' /\ FirehoseInOrder'
<1>1. wire \in Seq(Events)
  BY DEF Typed
<1>2. \A i \in DOMAIN wire' : i \in Nat /\ i + 1 \in DOMAIN wire /\ wire'[i] = wire[i + 1]
  BY <1>1
<1>3. \A i : OnWire(i)' => \E k : OnWire(k) /\ wire'[i] = wire[k]
  BY <1>2 DEF OnWire
<1>4. WireInv'
  <2>1. \A e \in batch' : e.stream = "full" /\ id'[e] # 0
    BY DEF WireInv
  <2>2. ASSUME NEW i, OnWire(i)'
        PROVE  /\ id'[wire'[i]] # 0
               /\ \A e \in batch' : id'[wire'[i]] < id'[e]
               /\ batch' = {} => id'[wire'[i]] <= base'
    <3>1. PICK k : OnWire(k) /\ wire'[i] = wire[k]
      BY <1>3, <2>2
    <3>2. id'[wire'[i]] = id[wire[k]]
      BY <3>1
    <3>. QED BY <3>1, <3>2 DEF WireInv
  <2>. QED BY <2>1, <2>2 DEF WireInv
<1>5. FirehoseInOrder'
  <2>. SUFFICES ASSUME NEW i \in DOMAIN wire', NEW k \in DOMAIN wire', i < k,
                       wire'[i].stream = "full", wire'[k].stream = "full"
                PROVE  id[wire'[i]] < id[wire'[k]]
    BY DEF FirehoseInOrder
  <2>1. i + 1 < k + 1
    BY <1>2
  <2>. QED BY <1>2, <2>1 DEF FirehoseInOrder
<1>. QED BY <1>4, <1>5

LEMMA WireAdds ==
  ASSUME Typed, WireInv, FirehoseInOrder, NEW e \in Events, id[e] = 0, Added(e)
  PROVE  WireInv' /\ FirehoseInOrder'
<1>1. UNCHANGED <<batch, base, wire>>
  BY DEF Added, serverVars, sockVars
<1>2. \A f \in Events : f # e => id'[f] = id[f]
  BY DEF Added, Typed
<1>3. \A f \in batch : f \in Events /\ id'[f] = id[f]
  BY <1>2, WireTyped DEF WireInv
<1>4. \A i : OnWire(i) => id'[wire[i]] = id[wire[i]]
  BY <1>2, WireTyped DEF WireInv, OnWire
<1>5. \A i : OnWire(i)' <=> OnWire(i)
  BY <1>1 DEF OnWire
<1>6. WireInv'
  BY <1>1, <1>3, <1>4, <1>5 DEF WireInv
<1>7. FirehoseInOrder'
  BY <1>1, <1>4 DEF FirehoseInOrder, OnWire
<1>. QED BY <1>6, <1>7

LEMMA WireServed ==
  ASSUME Typed, IdsInv, WireInv, FirehoseInOrder, ServerStep
  PROVE  WireInv' /\ FirehoseInOrder'
<1>1. UNCHANGED <<id>>
  BY DEF ServerStep, redisVars
<1>2. CASE BlockOnDollar \/ ReadExpires \/ Accept \/ Reconnect
  <2>1. UNCHANGED <<wire, batch, base>>
    BY <1>2 DEF BlockOnDollar, ReadExpires, Accept, Reconnect, sockVars, serverVars
  <2>. QED BY <1>1, <2>1, WireUnchanged
<1>3. CASE ReadReturns
  <2>1. batch = {} /\ batch' = Readable /\ UNCHANGED <<wire, base>>
    BY <1>3 DEF ReadReturns, sockVars
  <2>2. \A e \in Readable : /\ e \in Events /\ e.stream = "full" /\ id[e] # 0
                            /\ base # Dollar => id[e] > base
    BY DEF Readable, Later, InStream
  <2>3. \A i : OnWire(i) => id[wire[i]] \in Nat /\ id[wire[i]] <= base
    BY <2>1, WireTyped DEF WireInv, OnWire
  <2>4. \A i : OnWire(i) => \A e \in Readable : id[wire[i]] < id[e]
    BY <2>2, <2>3, WireTyped DEF Dollar
  <2>5. \A i : OnWire(i)' <=> OnWire(i)
    BY <2>1 DEF OnWire
  <2>6. ASSUME NEW i, OnWire(i)', batch' = {} PROVE id'[wire'[i]] <= base'
    BY <1>1, <2>1, <2>3, <2>5, <2>6
  <2>7. WireInv'
    BY <1>1, <2>1, <2>2, <2>4, <2>5, <2>6 DEF WireInv
  <2>. QED BY <1>1, <2>1, <2>7 DEF FirehoseInOrder
<1>4. CASE SendNext
  BY <1>4, WireSends
<1>5. ASSUME NEW r \in catchup, CatchUp(r) PROVE WireInv' /\ FirehoseInOrder'
  <2>. DEFINE found == {e \in InStream("scoped") : id[e] \in r.low..r.high}
  <2>1. UNCHANGED <<id, batch, base>>
    BY <1>5 DEF CatchUp, redisVars
  <2>2. PICK n \in 0..Cardinality(found) : \E q \in [1..n -> found] : Send(q)
    BY <1>5 DEF CatchUp
  <2>3. PICK q \in [1..n -> found] : Send(q)
    BY <2>2
  <2>4. n \in Nat /\ q \in [1..n -> Events] /\ \A i \in DOMAIN q : q[i].stream = "scoped"
    BY <2>3 DEF InStream
  <2>5. q \in Seq(Events)
    BY <2>4
  <2>. QED BY <2>1, <2>3, <2>4, <2>5, WireReplays
<1>6. CASE ServerRestarts \/ Disconnect
  <2>1. wire' = <<>> /\ batch' \in {batch, {}}
    BY <1>6 DEF ServerRestarts, Disconnect, LoseSocket, serverVars
  <2>. QED BY <1>1, <2>1, WireEmptied
<1>. QED BY <1>2, <1>3, <1>4, <1>5, <1>6 DEF ServerStep

LEMMA WireKept ==
  Typed /\ IdsInv /\ WireInv /\ FirehoseInOrder /\ [Next]_vars => WireInv' /\ FirehoseInOrder'
<1>. SUFFICES ASSUME Typed, IdsInv, WireInv, FirehoseInOrder, [Next]_vars
              PROVE  WireInv' /\ FirehoseInOrder'
  OBVIOUS
<1>1. CASE RedisStep
  BY <1>1, WireAdds DEF RedisStep
<1>2. CASE ServerStep
  BY <1>2, WireServed
<1>3. CASE WaitStep \/ PollStep
  <2>1. UNCHANGED <<id, wire, batch, base>>
    BY <1>3 DEF WaitStep, PollStep, redisVars, serverVars, sockVars
  <2>. QED BY <2>1, WireUnchanged
<1>4. ASSUME NEW e \in Events, EventStep(e) PROVE WireInv' /\ FirehoseInOrder'
  <2>1. UNCHANGED <<id, batch, base>>
    BY <1>4 DEF EventStep, redisVars, serverVars
  <2>2. CASE wire # <<>> /\ wire' = Tail(wire)
    BY <2>1, <2>2, WireReceives
  <2>3. CASE wire' = wire
    BY <2>1, <2>3, WireUnchanged
  <2>. QED BY <1>4, <2>2, <2>3 DEF EventStep, sockVars
<1>. QED BY <1>1, <1>2, <1>3, <1>4, Steps

(* For any set of jobs: the events of the full stream are on their way through  *)
(* the socket in the order of the stream, whatever replays and new connections  *)
(* come in between.                                                             *)
THEOREM FirehoseKeepsOrder == Spec => []FirehoseInOrder
<1>1. Init => IdsInv /\ WireInv /\ FirehoseInOrder
  BY DEF Init, IdsInv, WireInv, OnWire, FirehoseInOrder
<1>. QED BY <1>1, InitTyped, TypedKept, IdsKept, WireKept, PTL DEF Spec

-----------------------------------------------------------------------------
(* Bounds.  Every event is added once to each stream, so ids stay below twice   *)
(* the number of jobs, and everything that remembers an id with them.           *)

Present == {e \in Events : id[e] # 0}
Counted == clock = Cardinality(Present)

\* A stream has a last entry, which BlockOnDollar asks for.
Latest == \A s \in Streams :
            InStream(s) = {} \/ \E e \in InStream(s) : \A f \in InStream(s) : id[f] <= id[e]

ServerTypes ==
  /\ base \in {Dollar} \cup 1..MaxId /\ from \in {Dollar} \cup 0..MaxId
  /\ catchup \subseteq [low : 1..(MaxId + 1), high : 1..MaxId]
  /\ sock \in {"none", "connecting", "open", "closed"}
  /\ asLast \in 0..MaxId /\ wsConnectRetries \in 0..WsConnectMaxRetries

WaitTypes ==
  /\ job \in [Jobs -> {"requested", "waiting", "resolved", "rejected", "timed_out"}]
  /\ fetches \in [Jobs -> Nat]

EventTypes ==
  /\ lastId \in 0..MaxId
  /\ retries \in [Jobs -> 0..MaxRetries]
  /\ timers \in [Events -> 0..MaxTimers]
  /\ seen \subseteq Jobs /\ dropped \subseteq Jobs

PollTypes == asked \in BOOLEAN /\ page \in {{}} \cup {{e} : e \in Events}

LEMMA FiniteEvents == /\ IsFiniteSet(Events)
                      /\ MaxId \in Nat /\ Cardinality(Events) <= MaxId
<1>. DEFINE Of(s) == {Ev(j, s) : j \in Jobs}
<1>1. ASSUME NEW s PROVE IsFiniteSet(Of(s)) /\ Cardinality(Of(s)) <= Cardinality(Jobs)
  <2>. DEFINE f == [j \in Jobs |-> Ev(j, s)]
  <2>1. f \in Surjection(Jobs, Of(s))
    BY DEF Surjection
  <2>. QED BY <2>1, FS_Surjection, JobsAssumption
<1>2. Events \subseteq Of("scoped") \cup Of("full")
  <2>. SUFFICES ASSUME NEW e \in Events PROVE e \in Of("scoped") \/ e \in Of("full")
    OBVIOUS
  <2>1. e.job \in Jobs /\ e.stream \in {"scoped", "full"} /\ e = Ev(e.job, e.stream)
    BY EventsTyped DEF Streams
  <2>. QED BY <2>1
<1>. HIDE DEF Of
<1>3. /\ IsFiniteSet(Of("scoped") \cup Of("full"))
      /\ Cardinality(Of("scoped") \cup Of("full"))
           = Cardinality(Of("scoped")) + Cardinality(Of("full"))
               - Cardinality(Of("scoped") \cap Of("full"))
  BY <1>1, FS_Union
<1>4. /\ Cardinality(Of("scoped") \cap Of("full")) \in Nat
      /\ Cardinality(Of("scoped")) \in Nat /\ Cardinality(Of("full")) \in Nat
      /\ Cardinality(Jobs) \in Nat
  BY <1>1, FS_Intersection, FS_CardinalityType, JobsAssumption
<1>5. /\ IsFiniteSet(Events)
      /\ Cardinality(Events) <= Cardinality(Of("scoped") \cup Of("full"))
  BY <1>2, <1>3, FS_Subset
<1>6. Cardinality(Events) \in Nat
  BY <1>5, FS_CardinalityType
<1>. QED BY <1>1, <1>3, <1>4, <1>5, <1>6 DEF MaxId

LEMMA CountedKept == Typed /\ Counted /\ [Next]_vars => Counted'
<1>. SUFFICES ASSUME Typed, Counted, [Next]_vars PROVE Counted'
  OBVIOUS
<1>1. CASE UNCHANGED redisVars
  BY <1>1 DEF redisVars, Counted, Present
<1>2. CASE RedisStep
  <2>1. PICK e \in Events : id[e] = 0 /\ clock' = clock + 1 /\ id' = [id EXCEPT ![e] = clock + 1]
    BY <1>2 DEF RedisStep, Added
  <2>2. Present' = Present \cup {e} /\ e \notin Present
    BY <2>1 DEF Present, Typed
  <2>3. IsFiniteSet(Present)
    BY FiniteEvents, FS_Subset DEF Present
  <2>. QED BY <2>1, <2>2, <2>3, FS_AddElement DEF Counted
<1>. QED BY <1>1, <1>2, Steps DEF ServerStep, WaitStep, PollStep, EventStep

LEMMA LatestKept == Typed /\ IdsInv /\ Latest /\ [Next]_vars => Latest'
<1>. SUFFICES ASSUME Typed, IdsInv, Latest, [Next]_vars PROVE Latest'
  OBVIOUS
<1>1. CASE UNCHANGED redisVars
  BY <1>1 DEF redisVars, Latest, InStream
<1>2. CASE RedisStep
  <2>1. PICK e \in Events : id[e] = 0 /\ clock' = clock + 1 /\ id' = [id EXCEPT ![e] = clock + 1]
    BY <1>2 DEF RedisStep, Added
  <2>2. \A f \in Events : id[f] \in Nat /\ id[f] <= clock /\ clock \in Nat
    BY DEF Typed, IdsInv
  <2>3. \A f \in Events : id'[f] = IF f = e THEN clock + 1 ELSE id[f]
    BY <2>1 DEF Typed
  <2>. SUFFICES ASSUME NEW s \in Streams
                PROVE  InStream(s)' = {} \/ \E g \in InStream(s)' : \A f \in InStream(s)' : id'[f] <= id'[g]
    BY DEF Latest
  <2>4. CASE e.stream = s
    <3>1. e \in InStream(s)' /\ \A f \in InStream(s)' : id'[f] <= id'[e]
      BY <2>2, <2>3, <2>4 DEF InStream
    <3>. QED BY <3>1
  <2>5. CASE e.stream # s
    <3>1. InStream(s)' = InStream(s) /\ \A f \in InStream(s) : id'[f] = id[f]
      BY <2>3, <2>5 DEF InStream
    <3>. QED BY <3>1 DEF Latest
  <2>. QED BY <2>4, <2>5
<1>. QED BY <1>1, <1>2, Steps DEF ServerStep, WaitStep, PollStep, EventStep

LEMMA IdsBounded ==
  ASSUME Typed, IdsInv, Counted
  PROVE  clock \in 0..MaxId /\ id \in [Events -> 0..MaxId]
<1>1. Cardinality(Present) <= Cardinality(Events) /\ Cardinality(Events) \in Nat
  BY FiniteEvents, FS_Subset, FS_CardinalityType DEF Present
<1>2. clock \in Nat /\ clock <= MaxId
  BY <1>1, FiniteEvents DEF Counted, Typed
<1>3. \A e \in Events : id[e] \in 0..MaxId
  BY <1>2, FiniteEvents DEF Typed, IdsInv
<1>. QED BY <1>2, <1>3, FiniteEvents DEF Typed

LEMMA LastBounded ==
  ASSUME Typed, IdsInv, Counted, Latest
  PROVE  LastOf("full") \in 0..MaxId
<1>1. CASE InStream("full") = {}
  BY <1>1, FiniteEvents DEF LastOf
<1>2. CASE InStream("full") # {}
  <2>1. PICK e \in InStream("full") : \A f \in InStream("full") : id[f] <= id[e]
    BY <1>2 DEF Latest, Streams
  <2>2. Later("full", id[e]) = {}
    BY <2>1 DEF Later, InStream, Typed
  <2>3. LastOf("full") \in {id[f] : f \in InStream("full")}
    BY <1>2, <2>1, <2>2 DEF LastOf
  <2>. QED BY <2>3, IdsBounded DEF InStream
<1>. QED BY <1>1, <1>2

LEMMA ServerTypesKept ==
  ASSUME ServerTypes, EventTypes, Typed, IdsInv, Counted, Latest, WireInv, [Next]_vars
  PROVE  ServerTypes'
<1>1. CASE UNCHANGED <<base, from, catchup, sock, asLast, wsConnectRetries>>
  BY <1>1 DEF ServerTypes
<1>2. CASE BlockOnDollar
  BY <1>2, LastBounded DEF BlockOnDollar, sockVars, ServerTypes
<1>3. CASE ReadExpires \/ ReadReturns
  BY <1>3 DEF ReadExpires, ReadReturns, sockVars, ServerTypes
<1>4. CASE SendNext
  <2>1. PICK e \in batch : base' \in {base, id[e]} /\ from' \in {from, Dollar}
    BY <1>4 DEF SendNext
  <2>2. id[e] \in 1..MaxId
    BY IdsBounded, FiniteEvents DEF WireInv, Typed
  <2>3. UNCHANGED <<catchup, sock, asLast, wsConnectRetries>>
    BY <1>4 DEF SendNext
  <2>. QED BY <2>1, <2>2, <2>3 DEF ServerTypes
<1>5. CASE Accept
  <2>1. /\ sock' = "open" /\ wsConnectRetries' = 0 /\ asLast' = 0 /\ UNCHANGED <<base, from>>
        /\ catchup' = IF asLast = 0 THEN catchup ELSE
             catchup \cup {[low |-> asLast + 1, high |-> IF base = Dollar THEN MaxId ELSE base]}
    BY <1>5 DEF Accept
  <2>2. asLast # 0 => asLast + 1 \in 1..(MaxId + 1) /\ MaxId \in 1..MaxId
    BY FiniteEvents DEF ServerTypes
  <2>3. base # Dollar => base \in 1..MaxId
    BY DEF ServerTypes
  <2>. QED BY <2>1, <2>2, <2>3, FiniteEvents, RetryAssumption DEF ServerTypes
<1>6. ASSUME NEW r \in catchup, CatchUp(r) PROVE ServerTypes'
  BY <1>6 DEF CatchUp, ServerTypes
<1>7. CASE ServerRestarts \/ Disconnect
  BY <1>7, FiniteEvents DEF ServerRestarts, Disconnect, LoseSocket, serverVars, ServerTypes
<1>8. CASE Reconnect
  BY <1>8, RetryAssumption DEF Reconnect, serverVars, ServerTypes, EventTypes
<1>9. CASE RedisStep \/ WaitStep \/ PollStep
  BY <1>1, <1>9 DEF RedisStep, Added, WaitStep, PollStep, serverVars, sockVars
<1>10. ASSUME NEW e \in Events, EventStep(e) PROVE ServerTypes'
  <2>1. UNCHANGED <<base, from, catchup>>
    BY <1>10 DEF EventStep, serverVars
  <2>2. UNCHANGED <<sock, asLast, wsConnectRetries>>
    BY <1>10, Zenon DEF EventStep, sockVars
  <2>. QED BY <1>1, <2>1, <2>2
<1>. QED BY <1>2, <1>3, <1>4, <1>5, <1>6, <1>7, <1>8, <1>9, <1>10, Steps DEF ServerStep

\* A timer is set in place of one that fired, or where there was room for one.
LEMMA ProcessedTypes ==
  ASSUME Typed, EventTypes, MaxId \in Nat, id \in [Events -> 0..MaxId],
         NEW e \in Events, NEW left \in [Events -> 0..MaxTimers],
         Listening(e.job) \/ left[e] < MaxTimers, ProcessEvent(e, left)
  PROVE  EventTypes'
<1>1. e.job \in Jobs
  BY EventsTyped
<1>2. lastId' \in 0..MaxId
  BY DEF ProcessEvent
<1>3. retries' \in [Jobs -> 0..MaxRetries]
  <2>1. retries[e.job] + 1 \in 0..MaxRetries \/ retries[e.job] + 1 > MaxRetries
    BY <1>1, RetryAssumption DEF EventTypes
  <2>2. 0 \in 0..MaxRetries
    BY RetryAssumption
  <2>3. PICK n \in 0..MaxRetries : retries' = [retries EXCEPT ![e.job] = n]
    BY <2>1, <2>2 DEF ProcessEvent
  <2>. QED BY <2>3 DEF EventTypes
<1>4. timers' \in [Events -> 0..MaxTimers]
  <2>1. ~Listening(e.job) => left[e] + 1 \in 0..MaxTimers
    BY RetryAssumption
  <2>2. timers' = left \/ (~Listening(e.job) /\ timers' = [left EXCEPT ![e] = @ + 1])
    BY DEF ProcessEvent
  <2>. QED BY <2>1, <2>2
<1>5. seen' \subseteq Jobs /\ dropped' \subseteq Jobs
  BY <1>1 DEF ProcessEvent, EventTypes
<1>. QED BY <1>2, <1>3, <1>4, <1>5 DEF EventTypes

LEMMA EventTypesKept ==
  ASSUME EventTypes, Typed, IdsInv, Counted, [Next]_vars
  PROVE  EventTypes'
<1>1. CASE RedisStep \/ ServerStep \/ WaitStep \/ PollStep
  <2>1. UNCHANGED eventVars
    BY <1>1 DEF RedisStep, Added, ServerStep, WaitStep, PollStep
  <2>. QED BY <2>1 DEF eventVars, EventTypes
<1>2. ASSUME NEW e \in Events, EventStep(e) PROVE EventTypes'
  <2>1. id \in [Events -> 0..MaxId] /\ MaxId \in Nat
    BY IdsBounded, FiniteEvents
  <2>2. timers \in [Events -> 0..MaxTimers]
    BY DEF EventTypes
  <2>3. CASE RoomFor(e) /\ ProcessEvent(e, timers)
    BY <2>1, <2>2, <2>3, ProcessedTypes DEF RoomFor
  <2>4. CASE timers[e] > 0 /\ ProcessEvent(e, [timers EXCEPT ![e] = @ - 1])
    <3>. DEFINE left == [timers EXCEPT ![e] = @ - 1]
    <3>1. left \in [Events -> 0..MaxTimers] /\ left[e] < MaxTimers
      BY <2>2, <2>4, RetryAssumption
    <3>2. ProcessEvent(e, left)
      BY <2>4
    <3>. HIDE DEF left
    <3>. QED BY <2>1, <3>1, <3>2, ProcessedTypes
  <2>. QED BY <1>2, <2>3, <2>4 DEF EventStep
<1>. QED BY <1>1, <1>2, Steps

LEMMA WaitTypesKept == WaitTypes /\ Typed /\ [Next]_vars => WaitTypes'
<1>. SUFFICES ASSUME WaitTypes, Typed, [Next]_vars PROVE WaitTypes'
  OBVIOUS
<1>1. CASE RedisStep \/ ServerStep \/ PollStep
  <2>1. UNCHANGED waitVars
    BY <1>1 DEF RedisStep, Added, ServerStep, PollStep
  <2>. QED BY <2>1 DEF waitVars, WaitTypes
<1>2. ASSUME NEW j \in Jobs, Listen(j) \/ WaitTimesOut(j) PROVE WaitTypes'
  BY <1>2 DEF Listen, WaitTimesOut, WaitTypes
<1>3. ASSUME NEW j \in Jobs, FetchEnds(j) PROVE WaitTypes'
  <2>1. fetches[j] - 1 \in Nat /\ fetches' = [fetches EXCEPT ![j] = @ - 1]
    BY <1>3 DEF FetchEnds, WaitTypes
  <2>2. job' \in {job, [job EXCEPT ![j] = "resolved"], [job EXCEPT ![j] = "rejected"]}
    BY <1>3 DEF FetchEnds
  <2>. QED BY <2>1, <2>2 DEF WaitTypes
<1>4. ASSUME NEW e \in Events, EventStep(e) PROVE WaitTypes'
  <2>1. PICK left : ProcessEvent(e, left)
    BY <1>4 DEF EventStep
  <2>2. e.job \in Jobs
    BY EventsTyped
  <2>3. fetches' \in [Jobs -> Nat]
    BY <2>1, <2>2 DEF ProcessEvent, WaitTypes
  <2>4. job' \in {job, [job EXCEPT ![e.job] = "rejected"]}
    BY <2>1 DEF ProcessEvent
  <2>. QED BY <2>2, <2>3, <2>4 DEF WaitTypes
<1>. QED BY <1>1, <1>2, <1>3, <1>4, Steps DEF WaitStep

\* A poll brings one event at most: two entries never have the same id.
LEMMA PollTypesKept == PollTypes /\ Typed /\ IdsInv /\ [Next]_vars => PollTypes'
<1>. SUFFICES ASSUME PollTypes, Typed, IdsInv, [Next]_vars PROVE PollTypes'
  OBVIOUS
<1>1. asked' \in BOOLEAN
  BY DEF PollTypes, Next, Page, Server, vars, Added, AddScoped, AddFull, WaitTimesOut, ReadExpires,
         ServerRestarts, Disconnect, Poll, PollAnswered, PollFails, Listen, FetchEnds, Reconnect,
         Receive, RetryFires, Accept, BlockOnDollar, ReadReturns, SendNext, CatchUp, pollVars
<1>2. CASE page' = page \/ page' = {}
  BY <1>1, <1>2 DEF PollTypes
<1>3. CASE Poll
  <2>. DEFINE next == {e \in Later("scoped", lastId) :
                         \A f \in Later("scoped", lastId) : id[e] <= id[f]}
  <2>1. \A e \in next : e \in Events /\ id[e] # 0 /\ id[e] \in Nat
    BY DEF Later, InStream, Typed
  <2>2. \A e, f \in next : e = f
    <3>. SUFFICES ASSUME NEW e \in next, NEW f \in next PROVE e = f
      OBVIOUS
    <3>1. id[e] <= id[f] /\ id[f] <= id[e]
      OBVIOUS
    <3>2. id[e] = id[f]
      BY <2>1, <3>1
    <3>. QED BY <2>1, <3>2 DEF IdsInv
  <2>3. page' = next
    BY <1>3 DEF Poll
  <2>. HIDE DEF next
  <2>4. next = {} \/ \E e \in Events : next = {e}
    BY <2>1, <2>2
  <2>. QED BY <1>1, <2>3, <2>4 DEF PollTypes
<1>4. CASE ~Poll
  <2>1. CASE RedisStep \/ ServerStep \/ WaitStep \/ PollStep
    BY <1>2, <1>4, <2>1 DEF RedisStep, Added, ServerStep, WaitStep, PollStep, pollVars
  <2>2. ASSUME NEW e \in Events, EventStep(e) PROVE page' = page \/ page' = {}
    BY <2>2 DEF EventStep, pollVars
  <2>. QED BY <1>2, <2>1, <2>2, Steps
<1>. QED BY <1>3, <1>4

(* For any set of jobs and any limits every variable keeps its range: ids stay  *)
(* below twice the number of jobs, a poll brings one event at most, and no      *)
(* event has more retry timers than there is room for.                          *)
THEOREM TypeCorrect == Spec => []TypeOK
<1>. DEFINE Inv == /\ Typed /\ IdsInv /\ Counted /\ Latest /\ WireInv /\ FirehoseInOrder
                   /\ ServerTypes /\ WaitTypes /\ EventTypes /\ PollTypes
                   /\ mode \in {"polling", "ws"}
<1>1. Init => Inv
  <2>. SUFFICES ASSUME Init PROVE Inv
    OBVIOUS
  <2>1. Typed
    BY InitTyped
  <2>2. IdsInv /\ WireInv /\ FirehoseInOrder
    BY DEF Init, IdsInv, WireInv, OnWire, FirehoseInOrder
  <2>3. Present = {} /\ \A s : InStream(s) = {}
    BY DEF Init, Present, InStream
  <2>4. Counted /\ Latest
    BY <2>3, FS_EmptySet DEF Init, Counted, Latest
  <2>5. ServerTypes /\ mode \in {"polling", "ws"}
    BY FiniteEvents, RetryAssumption DEF Init, ServerTypes
  <2>6. WaitTypes
    BY DEF Init, WaitTypes
  <2>7. EventTypes
    BY FiniteEvents, RetryAssumption DEF Init, EventTypes
  <2>8. PollTypes
    BY DEF Init, PollTypes
  <2>. QED BY <2>1, <2>2, <2>4, <2>5, <2>6, <2>7, <2>8
<1>2. Inv /\ [Next]_vars => Inv'
  <2>. SUFFICES ASSUME Inv, [Next]_vars PROVE Inv'
    OBVIOUS
  <2>1. Typed' /\ IdsInv' /\ Counted' /\ Latest' /\ ServerTypes' /\ EventTypes'
    BY TypedKept, IdsKept, CountedKept, LatestKept, ServerTypesKept, EventTypesKept
  <2>2. WaitTypes' /\ PollTypes'
    BY WaitTypesKept, PollTypesKept
  <2>3. WireInv' /\ FirehoseInOrder'
    BY WireKept
  <2>4. mode' = mode
    BY Steps DEF RedisStep, Added, ServerStep, WaitStep, PollStep, EventStep
  <2>. QED BY <2>1, <2>2, <2>3, <2>4
<1>3. Inv => TypeOK
  <2>. SUFFICES ASSUME Inv PROVE TypeOK
    OBVIOUS
  <2>1. clock \in 0..MaxId /\ id \in [Events -> 0..MaxId]
    BY IdsBounded
  <2>. QED BY <2>1 DEF TypeOK, Typed, ServerTypes, WaitTypes, EventTypes, PollTypes
<1>. QED BY <1>1, <1>2, <1>3, PTL DEF Spec
=============================================================================
