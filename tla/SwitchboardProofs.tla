-------------------------- MODULE SwitchboardProofs --------------------------
(* Each call over the embedded session's channel is a remote call.          *)
EXTENDS EmbeddedSessionProofs

USE DEF Ends

-----------------------------------------------------------------------------
(* Messages of calls in a queue.                                           *)

Kinds == {"get", "reply", "error"}

Hits(m, c, K) == m.action \in K /\ m.body = c
Holds(s, c, K) == \E i \in DOMAIN s : Hits(s[i], c, K)

\* No call has two messages in the queue.
Single(s) == \A i, j \in DOMAIN s :
               s[i].action \in Kinds /\ s[j].action \in Kinds /\ s[i].body = s[j].body => i = j

\* Requests go to the other end, answers to the caller's.
RightWay(m, e) == m.action \in Kinds =>
                    e = IF m.action = "get" THEN OtherEnd(Caller[m.body]) ELSE Caller[m.body]
AllRight(s, e) == \A i \in DOMAIN s : RightWay(s[i], e)

LEMMA OtherEnds ==
  ASSUME NEW e \in Ends
  PROVE  OtherEnd(e) \in Ends /\ OtherEnd(e) # e /\ OtherEnd(OtherEnd(e)) = e
BY DEF OtherEnd

LEMMA AppendFacts ==
  ASSUME NEW S, NEW s \in Seq(S), NEW m \in S
  PROVE  /\ DOMAIN Append(s, m) = 1..Len(s) + 1 /\ DOMAIN s = 1..Len(s) /\ Len(s) \in Nat
         /\ \A i \in 1..Len(s) : Append(s, m)[i] = s[i]
         /\ Append(s, m)[Len(s) + 1] = m
OBVIOUS

LEMMA AppendHolds ==
  ASSUME NEW S, NEW s \in Seq(S), NEW m \in S, NEW c, NEW K
  PROVE  Holds(Append(s, m), c, K) <=> Holds(s, c, K) \/ Hits(m, c, K)
<1>1. Holds(s, c, K) => Holds(Append(s, m), c, K)
  BY AppendFacts DEF Holds
<1>2. Hits(m, c, K) => Holds(Append(s, m), c, K)
  BY AppendFacts DEF Holds
<1>3. ASSUME NEW i \in DOMAIN Append(s, m), Hits(Append(s, m)[i], c, K)
      PROVE  Holds(s, c, K) \/ Hits(m, c, K)
  <2>1. i \in 1..Len(s) \/ i = Len(s) + 1
    BY AppendFacts
  <2>. QED BY <1>3, <2>1, AppendFacts DEF Holds
<1>. QED BY <1>1, <1>2, <1>3 DEF Holds

LEMMA AppendSingle ==
  ASSUME NEW S, NEW s \in Seq(S), NEW m \in S, Single(s),
         m.action \in Kinds => ~Holds(s, m.body, Kinds)
  PROVE  Single(Append(s, m))
<1>. SUFFICES ASSUME NEW i \in DOMAIN Append(s, m), NEW j \in DOMAIN Append(s, m),
                     Append(s, m)[i].action \in Kinds, Append(s, m)[j].action \in Kinds,
                     Append(s, m)[i].body = Append(s, m)[j].body
              PROVE  i = j
  BY DEF Single
<1>1. /\ i \in 1..Len(s) \/ i = Len(s) + 1
      /\ j \in 1..Len(s) \/ j = Len(s) + 1
  BY AppendFacts
<1>2. CASE i \in 1..Len(s) /\ j \in 1..Len(s)
  BY <1>2, AppendFacts DEF Single
<1>3. CASE i \in 1..Len(s) /\ j = Len(s) + 1
  BY <1>3, AppendFacts DEF Holds, Hits
<1>4. CASE i = Len(s) + 1 /\ j \in 1..Len(s)
  BY <1>4, AppendFacts DEF Holds, Hits
<1>. QED BY <1>1, <1>2, <1>3, <1>4

LEMMA AppendRight ==
  ASSUME NEW S, NEW s \in Seq(S), NEW m \in S, NEW e, AllRight(s, e), RightWay(m, e)
  PROVE  AllRight(Append(s, m), e)
<1>. SUFFICES ASSUME NEW i \in DOMAIN Append(s, m) PROVE RightWay(Append(s, m)[i], e)
  BY DEF AllRight
<1>1. i \in 1..Len(s) \/ i = Len(s) + 1
  BY AppendFacts
<1>. QED BY <1>1, AppendFacts DEF AllRight

LEMMA TailFacts ==
  ASSUME NEW S, NEW s \in Seq(S), s # <<>>
  PROVE  /\ DOMAIN s = 1..Len(s) /\ Len(s) \in Nat /\ Len(s) > 0
         /\ DOMAIN Tail(s) = 1..Len(s) - 1
         /\ \A i \in 1..Len(s) - 1 : Tail(s)[i] = s[i + 1]
         /\ Head(s) = s[1]
OBVIOUS

LEMMA TailKeeps ==
  ASSUME NEW S, NEW s \in Seq(S), s # <<>>
  PROVE  /\ Single(s) => Single(Tail(s))
         /\ \A e : AllRight(s, e) => AllRight(Tail(s), e)
<1>1. ASSUME NEW i \in DOMAIN Tail(s) PROVE i + 1 \in DOMAIN s /\ Tail(s)[i] = s[i + 1]
  BY TailFacts
<1>2. ASSUME Single(s), NEW i \in DOMAIN Tail(s), NEW j \in DOMAIN Tail(s),
             Tail(s)[i].action \in Kinds, Tail(s)[j].action \in Kinds,
             Tail(s)[i].body = Tail(s)[j].body
      PROVE  i = j
  <2>1. i + 1 = j + 1
    BY <1>1, <1>2 DEF Single
  <2>2. i \in Nat /\ j \in Nat
    BY TailFacts
  <2>. QED BY <2>1, <2>2
<1>3. Single(s) => Single(Tail(s))
  BY <1>2 DEF Single
<1>. QED BY <1>1, <1>3 DEF AllRight

LEMMA TailHolds ==
  ASSUME NEW S, NEW s \in Seq(S), s # <<>>, Single(s), NEW c, NEW K \in SUBSET Kinds
  PROVE  Holds(Tail(s), c, K) <=> Holds(s, c, K) /\ ~Hits(Head(s), c, K)
<1>1. ASSUME NEW i \in DOMAIN Tail(s), Hits(Tail(s)[i], c, K)
      PROVE  Holds(s, c, K) /\ ~Hits(Head(s), c, K)
  <2>1. i + 1 \in DOMAIN s /\ 1 \in DOMAIN s /\ i + 1 # 1 /\ Tail(s)[i] = s[i + 1]
        /\ Head(s) = s[1]
    BY TailFacts
  <2>2. Hits(s[i + 1], c, K)
    BY <1>1, <2>1
  <2>3. ~Hits(s[1], c, K)
    BY <2>1, <2>2 DEF Single, Hits
  <2>. QED BY <2>1, <2>2, <2>3 DEF Holds
<1>2. ASSUME NEW i \in DOMAIN s, Hits(s[i], c, K), ~Hits(Head(s), c, K)
      PROVE  Holds(Tail(s), c, K)
  <2>1. i # 1
    BY <1>2, TailFacts
  <2>2. i - 1 \in DOMAIN Tail(s) /\ Tail(s)[i - 1] = s[i]
    BY <2>1, TailFacts
  <2>. QED BY <1>2, <2>2 DEF Holds
<1>. QED BY <1>1, <1>2 DEF Holds

-----------------------------------------------------------------------------
(* Where a call can be.                                                    *)

QueueInv == \A e \in Ends : Single(queue[e]) /\ AllRight(queue[e], e)
ServeInv == \A e \in Ends : \A m \in serving[e] :
              m.action = "get" /\ e = OtherEnd(Caller[m.body])

\* A call is in one place at most: asked, being served, or answered.
Apart(c) == /\ ~(Asked(c) /\ Serving(c)) /\ ~(Asked(c) /\ Answered(c))
            /\ ~(Serving(c) /\ Answered(c))
PlaceInv == QueueInv /\ ServeInv /\ \A c \in Calls : Apart(c)

Nowhere(c) == ~Asked(c) /\ ~Serving(c) /\ ~Answered(c)

\* What a step leaves alone.
Still(c) == /\ Asked(c)' <=> Asked(c)
            /\ Serving(c)' <=> Serving(c)
            /\ Answered(c)' <=> Answered(c)
            /\ call'[c] = call[c]

LEMMA Typed ==
  ASSUME RpcInv
  PROVE  /\ queue \in [Ends -> Seq(Messages(messageId))]
         /\ serving \in [Ends -> SUBSET CallMessages(messageId)]
         /\ \A c \in Calls : Caller[c] \in Ends /\ OtherEnd(Caller[c]) \in Ends
  BY CallerAssumption, OtherEnds DEF RpcInv, WireInv

LEMMA WayHolds ==
  \A c, e, K : OnItsWay(c, e, K) <=> Holds(queue[e], c, K)
  BY DEF OnItsWay, Holds, Hits

\* In each queue, what is on its way is of the kind that goes there.
LEMMA WayKinds ==
  ASSUME RpcInv, PlaceInv, NEW c \in Calls, NEW e \in Ends, Holds(queue[e], c, Kinds)
  PROVE  \/ e = OtherEnd(Caller[c]) /\ Asked(c)
         \/ e = Caller[c] /\ Answered(c)
<1>1. PICK i \in DOMAIN queue[e] : Hits(queue[e][i], c, Kinds)
  BY DEF Holds
<1>2. RightWay(queue[e][i], e)
  BY DEF PlaceInv, QueueInv, AllRight
<1>3. CASE queue[e][i].action = "get"
  BY <1>1, <1>2, <1>3 DEF RightWay, Hits, Asked, OnItsWay
<1>4. CASE queue[e][i].action # "get"
  BY <1>1, <1>2, <1>4 DEF RightWay, Hits, Answered, OnItsWay, Kinds
<1>. QED BY <1>3, <1>4

\* Before a call is sent, nothing of it is anywhere.
LEMMA UnsentNowhere ==
  ASSUME RpcInv, NEW c \in Calls, messageId[c] = NoId
  PROVE  Nowhere(c)
<1>1. ASSUME NEW m \in CallMessages(messageId) PROVE m.body # c
  BY NoIdAssumption DEF CallMessages, CallMessage
<1>2. ASSUME NEW e \in Ends, NEW i \in DOMAIN queue[e], queue[e][i].action \in Kinds
      PROVE  queue[e][i].body # c
  <2>1. queue[e][i] \in Messages(messageId)
    BY Typed
  <2>. QED BY <1>1, <1>2, <2>1 DEF Messages, EmitMessages, Kinds
<1>. QED BY <1>1, <1>2, Typed DEF Nowhere, Asked, Answered, Serving, OnItsWay, Kinds

LEMMA SendsTo ==
  ASSUME RpcInv, NEW S, queue \in [Ends -> Seq(S)], NEW e \in Ends, NEW m \in S,
         queue' = Posted(queue, e, m)
  PROVE  /\ queue'[e] = queue[e] \/ queue'[e] = Append(queue[e], m)
         /\ \A x \in Ends : x # e => queue'[x] = queue[x]
         /\ \A c, K : Holds(queue[e], c, K) => Holds(queue'[e], c, K)
         /\ \A c, K : Holds(queue'[e], c, K) => Holds(queue[e], c, K) \/ Hits(m, c, K)
<1>1. queue'[e] = queue[e] \/ queue'[e] = Append(queue[e], m)
  BY DEF Posted
<1>2. \A x \in Ends : x # e => queue'[x] = queue[x]
  BY DEF Posted
<1>3. queue[e] \in Seq(S)
  OBVIOUS
<1>. QED BY <1>1, <1>2, <1>3, AppendHolds

\* A message is sent: what it belongs to must not be on its way there.
LEMMA SendKeeps ==
  ASSUME RpcInv, QueueInv, NEW S, queue \in [Ends -> Seq(S)], NEW e \in Ends, NEW m \in S,
         queue' = Posted(queue, e, m), RightWay(m, e),
         m.action \in Kinds => ~Holds(queue[e], m.body, Kinds)
  PROVE  QueueInv'
<1>. SUFFICES ASSUME NEW x \in Ends PROVE Single(queue'[x]) /\ AllRight(queue'[x], x)
  BY DEF QueueInv
<1>1. Single(queue[x]) /\ AllRight(queue[x], x) /\ queue[x] \in Seq(S)
  BY DEF QueueInv
<1>2. CASE queue'[x] = queue[x]
  BY <1>1, <1>2
<1>3. CASE x = e /\ queue'[e] = Append(queue[e], m)
  BY <1>1, <1>3, AppendSingle, AppendRight
<1>. QED BY <1>2, <1>3, SendsTo

LEMMA TakesFrom ==
  ASSUME RpcInv, QueueInv, NEW e \in Ends, queue[e] # <<>>,
         queue' = [queue EXCEPT ![e] = Tail(@)]
  PROVE  /\ QueueInv'
         /\ \A x \in Ends : x # e => queue'[x] = queue[x]
         /\ \A c : \A K \in SUBSET Kinds :
              Holds(queue'[e], c, K) <=> Holds(queue[e], c, K) /\ ~Hits(Head(queue[e]), c, K)
<1>1. queue'[e] = Tail(queue[e]) /\ \A x \in Ends : x # e => queue'[x] = queue[x]
  BY Typed
<1>2. queue[e] \in Seq(Messages(messageId)) /\ Single(queue[e])
  BY Typed DEF QueueInv
<1>3. ASSUME NEW x \in Ends PROVE Single(queue'[x]) /\ AllRight(queue'[x], x)
  <2>1. CASE x = e
    BY <1>1, <1>2, <2>1, TailKeeps DEF QueueInv
  <2>2. CASE x # e
    BY <1>1, <2>2 DEF QueueInv
  <2>. QED BY <2>1, <2>2
<1>. QED BY <1>1, <1>2, <1>3, TailHolds DEF QueueInv

-----------------------------------------------------------------------------
(* Each step.                                                              *)

LEMMA StillPlaces ==
  ASSUME RpcInv, serving' = serving, call' = call,
         \A e \in Ends : \A c : \A K \in SUBSET Kinds :
           Holds(queue'[e], c, K) <=> Holds(queue[e], c, K)
  PROVE  \A c \in Calls : Still(c)
<1>1. {"get"} \in SUBSET Kinds /\ {"reply", "error"} \in SUBSET Kinds
  BY DEF Kinds
<1>2. \A c, e, K : OnItsWay(c, e, K)' <=> Holds(queue'[e], c, K)
  BY DEF OnItsWay, Holds, Hits
<1>. QED BY <1>1, <1>2, WayHolds, Typed DEF Still, Asked, Answered, Serving

\* A message that belongs to no call.
LEMMA EmitPlaces ==
  ASSUME RpcInv, PlaceInv, EmitStep \/ TakeStep \/ QuietStep
  PROVE  QueueInv' /\ ServeInv' /\ \A c \in Calls : Still(c)
<1>1. serving' = serving /\ call' = call
  BY DEF EmitStep, TakeStep, QuietStep
<1>2. ServeInv'
  BY <1>1 DEF PlaceInv, ServeInv
<1>3. CASE EmitStep
  <2>1. PICK tok \in Tokens : queue' = Posted(queue, "frame", EmitMessage(tok))
    BY <1>3 DEF EmitStep, EmitToken
  <2>2. EmitMessage(tok) \in Messages(messageId) /\ EmitMessage(tok).action \notin Kinds
    BY EmitTyped DEF EmitMessage, Kinds
  <2>3. RightWay(EmitMessage(tok), "frame")
    BY <2>2 DEF RightWay
  <2>4. QueueInv'
    BY <2>1, <2>2, <2>3, Typed, SendKeeps DEF PlaceInv
  <2>5. \A c : \A K \in SUBSET Kinds : ~Hits(EmitMessage(tok), c, K)
    BY <2>2 DEF Hits
  <2>6. \A e \in Ends : \A c : \A K \in SUBSET Kinds :
          Holds(queue'[e], c, K) <=> Holds(queue[e], c, K)
    BY <2>1, <2>2, <2>5, Typed, SendsTo
  <2>. QED BY <1>1, <1>2, <2>4, <2>6, StillPlaces
<1>4. CASE TakeStep
  <2>1. /\ queue["frame"] # <<>> /\ queue' = [queue EXCEPT !["frame"] = Tail(@)]
        /\ \A c : \A K \in SUBSET Kinds : ~Hits(Head(queue["frame"]), c, K)
    BY <1>4 DEF TakeStep, Hits, Kinds
  <2>2. QueueInv' /\ \A e \in Ends : \A c : \A K \in SUBSET Kinds :
          Holds(queue'[e], c, K) <=> Holds(queue[e], c, K)
    BY <2>1, TakesFrom DEF PlaceInv
  <2>. QED BY <1>1, <1>2, <2>2, StillPlaces
<1>5. CASE QuietStep
  <2>1. queue' = queue
    BY <1>5 DEF QuietStep
  <2>. QED BY <1>1, <1>2, <2>1, StillPlaces DEF PlaceInv, QueueInv
<1>. QED BY <1>3, <1>4, <1>5

\* Where a call is depends on its own messages only.
LEMMA Ways ==
  /\ \A c : Asked(c) <=> Holds(queue[OtherEnd(Caller[c])], c, {"get"})
  /\ \A c : Answered(c) <=> Holds(queue[Caller[c]], c, {"reply", "error"})
  /\ \A c : Asked(c)' <=> Holds(queue'[OtherEnd(Caller[c])], c, {"get"})
  /\ \A c : Answered(c)' <=> Holds(queue'[Caller[c]], c, {"reply", "error"})
  BY DEF Asked, Answered, OnItsWay, Holds, Hits

LEMMA TwoKinds == {"get"} \in SUBSET Kinds /\ {"reply", "error"} \in SUBSET Kinds
  BY DEF Kinds

LEMMA GetPlaces ==
  ASSUME RpcInv, PlaceInv, NEW c \in Calls, Get(c)
  PROVE  /\ QueueInv' /\ ServeInv'
         /\ \A d \in Calls \ {c} : Still(d)
         /\ Nowhere(c) /\ ~Serving(c)' /\ ~Answered(c)'
<1>. DEFINE e == OtherEnd(Caller[c])
            m == GetMessage(NewMessageId(Caller[c]), c)
            S == Messages(messageId) \cup {m}
<1>1. /\ call[c] = "idle" /\ messageId[c] = NoId
      /\ call' = [call EXCEPT ![c] = "waiting"]
      /\ queue' = Posted(queue, e, m) /\ serving' = serving
  BY DEF Get, RpcInv, CallInv
<1>2. Nowhere(c)
  BY <1>1, UnsentNowhere
<1>3. m.action = "get" /\ m.body = c /\ m \in S
  BY DEF GetMessage
<1>4. queue \in [Ends -> Seq(S)] /\ e \in Ends
  <2>1. \A x \in Ends : queue[x] \in Seq(S)
    BY Typed
  <2>. QED BY <2>1, Typed
<1>5. RightWay(m, e) /\ ~Holds(queue[e], m.body, Kinds)
  BY <1>2, <1>3, WayKinds, Typed DEF RightWay, Nowhere
<1>6. QueueInv'
  BY <1>1, <1>3, <1>4, <1>5, SendKeeps DEF PlaceInv
<1>7. ServeInv'
  BY <1>1 DEF PlaceInv, ServeInv
<1>8. \A x \in Ends : \A d, K : Holds(queue'[x], d, K) =>
         Holds(queue[x], d, K) \/ Hits(m, d, K)
  BY <1>1, <1>3, <1>4, SendsTo
<1>9. \A x \in Ends : \A d, K : Holds(queue[x], d, K) => Holds(queue'[x], d, K)
  BY <1>1, <1>3, <1>4, SendsTo
<1>10. \A d \in Calls : Serving(d)' <=> Serving(d)
  BY <1>1 DEF Serving
<1>11. ASSUME NEW d \in Calls \ {c} PROVE Still(d)
  <2>1. \A K : ~Hits(m, d, K)
    BY <1>3 DEF Hits
  <2>2. (Asked(d)' <=> Asked(d)) /\ (Answered(d)' <=> Answered(d))
    BY <1>8, <1>9, <2>1, Ways, Typed
  <2>3. call'[d] = call[d]
    BY <1>1
  <2>. QED BY <1>10, <2>2, <2>3 DEF Still
<1>12. ~Serving(c)' /\ ~Answered(c)'
  <2>1. ~Hits(m, c, {"reply", "error"})
    BY <1>3 DEF Hits
  <2>. QED BY <1>2, <1>8, <1>10, <2>1, Ways, Typed DEF Nowhere
<1>. QED BY <1>2, <1>6, <1>7, <1>11, <1>12

LEMMA DeliverPlaces ==
  ASSUME RpcInv, PlaceInv, NEW e \in Ends, Deliver(e)
  PROVE  /\ QueueInv' /\ ServeInv'
         /\ \E c \in Calls :
              /\ \A d \in Calls \ {c} : Still(d)
              /\ \/ Asked(c) /\ ~Asked(c)' /\ Serving(c)' /\ ~Answered(c)'
                    /\ call'[c] = call[c]
                 \/ Answered(c) /\ Nowhere(c)'
                    /\ IF call[c] = "waiting" THEN call'[c] \in {"resolved", "rejected"}
                                              ELSE call'[c] = call[c]
<1>. DEFINE m == Head(queue[e])
<1>1. /\ queue[e] # <<>> /\ m.action # "emit"
      /\ queue' = [queue EXCEPT ![e] = Tail(@)]
      /\ call' = [d \in Calls |-> IF Matches(d, e, m) THEN Outcome(m) ELSE call[d]]
      /\ serving' = IF m.action = "get"
                    THEN [serving EXCEPT ![e] = @ \cup {m}] ELSE serving
  BY DEF Deliver
<1>2. m \in CallMessages(messageId)
  <2>1. m \in Messages(messageId)
    BY <1>1, TailTyped, Typed
  <2>. QED BY <1>1, <2>1 DEF Messages, EmitMessages
<1>3. PICK c \in Calls :
        /\ c = m.body /\ m.id \in Ids /\ m.id = messageId[c] /\ m.action \in Kinds
        /\ \A K : Hits(m, c, K) <=> m.action \in K
        /\ \A d \in Calls \ {c} : \A K : ~Hits(m, d, K)
  BY <1>2 DEF CallMessages, CallMessage, Kinds, Hits
<1>4. /\ QueueInv'
      /\ \A x \in Ends : x # e => queue'[x] = queue[x]
      /\ \A d : \A K \in SUBSET Kinds :
           Holds(queue'[e], d, K) <=> Holds(queue[e], d, K) /\ ~Hits(m, d, K)
  BY <1>1, TakesFrom DEF PlaceInv
<1>5. \A d \in Calls : Matches(d, e, m) <=> d = c /\ Caller[c] = e /\ call[c] = "waiting"
  BY <1>3, NoIdAssumption DEF Matches, RpcInv, IdInv
<1>6. Hits(queue[e][1], c, Kinds) /\ 1 \in DOMAIN queue[e]
  BY <1>1, <1>3, TailFacts, Typed
<1>7. RightWay(m, e)
  BY <1>1, <1>6, TailFacts, Typed DEF PlaceInv, QueueInv, AllRight
<1>8. \A K \in SUBSET Kinds : m.action \in K => Holds(queue[e], c, K)
  BY <1>1, <1>3, <1>6, TailFacts, Typed DEF Holds
<1>9. ASSUME NEW d \in Calls \ {c} PROVE Still(d)
  <2>1. (Asked(d)' <=> Asked(d)) /\ (Answered(d)' <=> Answered(d))
    BY <1>3, <1>4, Ways, TwoKinds, Typed
  <2>2. Serving(d)' <=> Serving(d)
    <3>1. OtherEnd(Caller[d]) \in Ends /\ m.body # d
      BY <1>3, Typed
    <3>2. \A w : w.body = d => (w \in serving'[OtherEnd(Caller[d])]
                                  <=> w \in serving[OtherEnd(Caller[d])])
      BY <1>1, <3>1, Typed
    <3>. QED BY <3>2 DEF Serving
  <2>3. call'[d] = call[d]
    BY <1>1, <1>5
  <2>. QED BY <2>1, <2>2, <2>3 DEF Still
<1>10. CASE m.action = "get"
  <2>1. e = OtherEnd(Caller[c]) /\ e # Caller[c]
    BY <1>3, <1>7, <1>10, OtherEnds, Typed DEF RightWay
  <2>2. Asked(c) /\ ~Asked(c)'
    BY <1>3, <1>4, <1>8, <1>10, <2>1, Ways, TwoKinds
  <2>3. Serving(c)'
    <3>1. m \in serving'[e]
      BY <1>1, <1>10, Typed
    <3>. QED BY <1>3, <2>1, <3>1 DEF Serving
  <2>4. ~Answered(c)'
    <3>1. queue'[Caller[c]] = queue[Caller[c]] /\ ~Answered(c)
      BY <1>3, <1>4, <2>1, <2>2, Typed DEF PlaceInv, Apart
    <3>. QED BY <3>1, Ways
  <2>5. call'[c] = call[c]
    BY <1>1, <1>3, <1>5, <2>1
  <2>6. ServeInv'
    <3>1. ASSUME NEW x \in Ends, NEW w \in serving'[x]
          PROVE  w.action = "get" /\ x = OtherEnd(Caller[w.body])
      <4>1. w \in serving[x] \/ (x = e /\ w = m)
        BY <1>1, <1>10, Typed
      <4>. QED BY <1>3, <1>10, <2>1, <4>1 DEF PlaceInv, ServeInv
    <3>. QED BY <3>1 DEF ServeInv
  <2>. QED BY <1>3, <1>4, <1>9, <2>2, <2>3, <2>4, <2>5, <2>6
<1>11. CASE m.action # "get"
  <2>1. e = Caller[c] /\ e # OtherEnd(Caller[c]) /\ m.action \in {"reply", "error"}
    BY <1>3, <1>7, <1>11, OtherEnds, Typed DEF RightWay, Kinds
  <2>2. Answered(c) /\ ~Answered(c)'
    BY <1>3, <1>4, <1>8, <2>1, Ways, TwoKinds
  <2>3. serving' = serving /\ queue'[OtherEnd(Caller[c])] = queue[OtherEnd(Caller[c])]
    BY <1>1, <1>3, <1>4, <1>11, <2>1, Typed
  <2>4. ~Asked(c) /\ ~Serving(c)
    BY <1>3, <2>2 DEF PlaceInv, Apart
  <2>5. ~Asked(c)' /\ ~Serving(c)'
    BY <2>3, <2>4, Ways DEF Serving
  <2>6. IF call[c] = "waiting" THEN call'[c] \in {"resolved", "rejected"}
                               ELSE call'[c] = call[c]
    BY <1>1, <1>3, <1>5, <2>1 DEF Outcome
  <2>7. ServeInv'
    BY <2>3 DEF PlaceInv, ServeInv
  <2>. QED BY <1>3, <1>4, <1>9, <2>2, <2>5, <2>6, <2>7 DEF Nowhere
<1>. QED BY <1>10, <1>11

LEMMA ServePlaces ==
  ASSUME RpcInv, PlaceInv, NEW e \in Ends, NEW m \in serving[e], Serve(e, m)
  PROVE  /\ QueueInv' /\ ServeInv' /\ call' = call
         /\ \E c \in Calls : /\ \A d \in Calls \ {c} : Still(d)
                             /\ Serving(c) /\ ~Serving(c)' /\ ~Asked(c)'
<1>1. /\ m \in CallMessages(messageId) /\ m.action = "get"
      /\ e = OtherEnd(Caller[m.body])
  BY Typed DEF PlaceInv, ServeInv
<1>2. PICK c \in Calls : c = m.body
  BY <1>1 DEF CallMessages, CallMessage
<1>3. PICK kind \in {"reply", "error"} :
        queue' = Posted(queue, OtherEnd(e), AnswerMessage(kind, m.id, m.body))
  BY DEF Serve
<1>. DEFINE w == AnswerMessage(kind, m.id, c)
<1>4. w \in Messages(messageId)
  <2>1. m.id \in Ids /\ m.id = messageId[c]
    BY <1>1, <1>2 DEF CallMessages, CallMessage
  <2>2. w \in CallMessages(messageId)
    BY <2>1 DEF AnswerMessage, CallMessages, CallMessage
  <2>. QED BY <2>2 DEF Messages, EmitMessages
<1>5. w.action = kind /\ w.body = c
  BY DEF AnswerMessage
<1>6. OtherEnd(e) = Caller[c] /\ Caller[c] # e /\ Caller[c] \in Ends /\ e = OtherEnd(Caller[c])
  BY <1>1, <1>2, OtherEnds, Typed
<1>7. Serving(c) /\ ~Asked(c) /\ ~Answered(c)
  BY <1>2, <1>6 DEF Serving, PlaceInv, Apart
<1>8. queue' = Posted(queue, Caller[c], w) /\ queue \in [Ends -> Seq(Messages(messageId))]
  BY <1>2, <1>3, <1>6, Typed
<1>. HIDE DEF w
<1>9. QueueInv'
  <2>1. RightWay(w, Caller[c])
    BY <1>5 DEF RightWay
  <2>2. ~Holds(queue[Caller[c]], c, Kinds)
    BY <1>6, <1>7, WayKinds
  <2>. QED BY <1>4, <1>5, <1>6, <1>8, <2>1, <2>2, SendKeeps DEF PlaceInv
<1>10. /\ \A x \in Ends : x # Caller[c] => queue'[x] = queue[x]
       /\ \A d, K : Holds(queue[Caller[c]], d, K) => Holds(queue'[Caller[c]], d, K)
       /\ \A d, K : Holds(queue'[Caller[c]], d, K)
                      => Holds(queue[Caller[c]], d, K) \/ Hits(w, d, K)
  BY <1>4, <1>6, <1>8, SendsTo
<1>11. /\ serving' = [serving EXCEPT ![e] = @ \ {m}] /\ call' = call
  BY DEF Serve
<1>12. ServeInv'
  BY <1>11, Typed DEF PlaceInv, ServeInv
<1>13. ASSUME NEW d \in Calls \ {c} PROVE Still(d)
  <2>1. \A K : ~Hits(w, d, K)
    BY <1>5 DEF Hits
  <2>2. \A x \in Ends : \A K : Holds(queue'[x], d, K) <=> Holds(queue[x], d, K)
    BY <1>10, <2>1
  <2>3. (Asked(d)' <=> Asked(d)) /\ (Answered(d)' <=> Answered(d))
    BY <2>2, Ways, Typed
  <2>4. \A v : v.body = d => (v \in serving'[OtherEnd(Caller[d])]
                                <=> v \in serving[OtherEnd(Caller[d])])
    BY <1>2, <1>11, Typed
  <2>. QED BY <1>11, <2>3, <2>4 DEF Still, Serving
<1>14. ~Asked(c)'
  <2>1. queue'[OtherEnd(Caller[c])] = queue[OtherEnd(Caller[c])]
    BY <1>6, <1>10
  <2>. QED BY <1>7, <2>1, Ways
<1>15. ~Serving(c)'
  <2>1. ASSUME NEW v \in serving'[e], v.body = c PROVE FALSE
    <3>1. v \in serving[e] /\ v # m
      BY <1>11, Typed
    <3>2. v \in CallMessages(messageId) /\ v.action = "get"
      BY <3>1, Typed DEF PlaceInv, ServeInv
    <3>3. v = [action |-> "get", id |-> messageId[c], body |-> c]
      BY <2>1, <3>2 DEF CallMessages, CallMessage
    <3>4. m = [action |-> "get", id |-> messageId[c], body |-> c]
      BY <1>1, <1>2 DEF CallMessages, CallMessage
    <3>. QED BY <3>1, <3>3, <3>4
  <2>. QED BY <1>6, <2>1 DEF Serving
<1>. QED BY <1>7, <1>9, <1>11, <1>12, <1>13, <1>14, <1>15

LEMMA PageEndsPlaces ==
  ASSUME RpcInv, PlaceInv, FramePageEnds
  PROVE  /\ QueueInv' /\ ServeInv'
         /\ \A c \in Calls : /\ Asked(c)' => Asked(c)
                             /\ Serving(c)' => Serving(c)
                             /\ Answered(c)' => Answered(c)
                             /\ \/ call'[c] = call[c]
                                \/ call[c] \in {"idle", "waiting"} /\ call'[c] = "gone"
<1>1. /\ queue' = [queue EXCEPT !["frame"] = <<>>]
      /\ serving' = [serving EXCEPT !["frame"] = {}]
      /\ \A c \in Calls : \/ call'[c] = call[c]
                          \/ call[c] \in {"idle", "waiting"} /\ call'[c] = "gone"
  BY DEF FramePageEnds
<1>2. \A x \in Ends : queue'[x] = queue[x] \/ queue'[x] = <<>>
  BY <1>1, Typed
<1>3. /\ Single(<<>>) /\ \A x : AllRight(<<>>, x)
      /\ \A c, K : ~Holds(<<>>, c, K)
  BY DEF Single, AllRight, Holds
<1>4. QueueInv'
  BY <1>2, <1>3 DEF PlaceInv, QueueInv
<1>5. \A x \in Ends : serving'[x] \subseteq serving[x]
  BY <1>1, Typed
<1>6. ServeInv'
  BY <1>5 DEF PlaceInv, ServeInv
<1>7. ASSUME NEW c \in Calls
      PROVE  (Asked(c)' => Asked(c)) /\ (Serving(c)' => Serving(c))
             /\ (Answered(c)' => Answered(c))
  <2>1. (Asked(c)' => Asked(c)) /\ (Answered(c)' => Answered(c))
    BY <1>2, <1>3, Ways, Typed
  <2>2. Serving(c)' => Serving(c)
    BY <1>5, Typed DEF Serving
  <2>. QED BY <2>1, <2>2
<1>. QED BY <1>1, <1>4, <1>6, <1>7

-----------------------------------------------------------------------------
(* What becomes of one call.                                               *)

CallMoves(c) ==
  \/ Still(c)
  \/ /\ Nowhere(c) /\ ~Serving(c)' /\ ~Answered(c)'
     /\ call[c] = "idle" /\ call'[c] = "waiting"
  \/ /\ Asked(c) /\ ~Asked(c)' /\ Serving(c)' /\ ~Answered(c)' /\ call'[c] = call[c]
  \/ /\ Answered(c) /\ Nowhere(c)'
     /\ IF call[c] = "waiting" THEN call'[c] \in {"resolved", "rejected"}
                               ELSE call'[c] = call[c]
  \/ /\ Serving(c) /\ ~Serving(c)' /\ ~Asked(c)' /\ call'[c] = call[c]
  \/ /\ Asked(c)' <=> Asked(c)
     /\ Serving(c)' <=> Serving(c)
     /\ Answered(c)' <=> Answered(c)
     /\ call[c] = "waiting" /\ call'[c] = "timed_out"
  \/ /\ (Asked(c)' => Asked(c)) /\ (Serving(c)' => Serving(c)) /\ (Answered(c)' => Answered(c))
     /\ \/ call'[c] = call[c]
        \/ call[c] \in {"idle", "waiting"} /\ call'[c] = "gone"

LEMMA CallsMove ==
  ASSUME RpcInv, PlaceInv, [Next]_vars
  PROVE  QueueInv' /\ ServeInv' /\ \A c \in Calls : CallMoves(c)
<1>1. CASE QuietStep \/ EmitStep \/ TakeStep
  BY <1>1, EmitPlaces DEF CallMoves
<1>2. CASE FramePageEnds
  BY <1>2, PageEndsPlaces DEF CallMoves
<1>3. ASSUME NEW c \in Calls, Get(c)
      PROVE  QueueInv' /\ ServeInv' /\ \A d \in Calls : CallMoves(d)
  <2>1. call[c] = "idle" /\ call'[c] = "waiting"
    BY <1>3 DEF Get, RpcInv, CallInv
  <2>2. CallMoves(c)
    BY <1>3, <2>1, GetPlaces DEF CallMoves
  <2>. QED BY <1>3, <2>2, GetPlaces DEF CallMoves
<1>4. ASSUME NEW c \in Calls, CallTimesOut(c)
      PROVE  QueueInv' /\ ServeInv' /\ \A d \in Calls : CallMoves(d)
  <2>1. /\ queue' = queue /\ serving' = serving
        /\ call[c] = "waiting" /\ call' = [call EXCEPT ![c] = "timed_out"]
    BY <1>4 DEF CallTimesOut
  <2>2. \A d \in Calls : /\ Asked(d)' <=> Asked(d)
                         /\ Serving(d)' <=> Serving(d)
                         /\ Answered(d)' <=> Answered(d)
    BY <2>1, Ways DEF Serving
  <2>3. ASSUME NEW d \in Calls PROVE CallMoves(d)
    <3>1. CASE d = c
      BY <2>1, <2>2, <3>1 DEF CallMoves, RpcInv, CallInv
    <3>2. CASE d # c
      BY <2>1, <2>2, <3>2 DEF CallMoves, Still
    <3>. QED BY <3>1, <3>2
  <2>. QED BY <2>1, <2>3 DEF PlaceInv, QueueInv, ServeInv
<1>5. ASSUME NEW e \in Ends, Deliver(e)
      PROVE  QueueInv' /\ ServeInv' /\ \A d \in Calls : CallMoves(d)
  BY <1>5, DeliverPlaces DEF CallMoves
<1>6. ASSUME NEW e \in Ends, NEW m \in serving[e], Serve(e, m)
      PROVE  QueueInv' /\ ServeInv' /\ \A d \in Calls : CallMoves(d)
  BY <1>6, ServePlaces DEF CallMoves
<1>. QED BY <1>1, <1>2, <1>3, <1>4, <1>5, <1>6, RpcSteps DEF RpcInv

LEMMA PlaceKept == RpcInv /\ PlaceInv /\ [Next]_vars => PlaceInv'
<1>. SUFFICES ASSUME RpcInv, PlaceInv, [Next]_vars PROVE PlaceInv'
  OBVIOUS
<1>1. ASSUME NEW c \in Calls PROVE Apart(c)'
  <2>1. CallMoves(c) /\ Apart(c)
    BY CallsMove DEF PlaceInv
  <2>. QED BY <2>1 DEF CallMoves, Still, Nowhere, Apart
<1>. QED BY <1>1, CallsMove DEF PlaceInv

\* Where a call is, for the abstract specification.
LEMMA Placed ==
  ASSUME NEW c \in Calls, Apart(c)
  PROVE  /\ PlaceOf(c) \in {"none", "asked", "serving", "answered"}
         /\ PlaceOf(c) = "asked" <=> Asked(c)
         /\ PlaceOf(c) = "serving" <=> Serving(c)
         /\ PlaceOf(c) = "answered" <=> Answered(c)
         /\ PlaceOf(c) = "none" <=> Nowhere(c)
  BY DEF PlaceOf, Apart, Nowhere

LEMMA PlacedNext ==
  ASSUME NEW c \in Calls, Apart(c)'
  PROVE  /\ PlaceOf(c)' \in {"none", "asked", "serving", "answered"}
         /\ PlaceOf(c)' = "asked" <=> Asked(c)'
         /\ PlaceOf(c)' = "serving" <=> Serving(c)'
         /\ PlaceOf(c)' = "answered" <=> Answered(c)'
         /\ PlaceOf(c)' = "none" <=> Nowhere(c)'
  BY DEF PlaceOf, Apart, Nowhere

LEMMA CallStep ==
  ASSUME NEW c \in Calls, Apart(c), Apart(c)', CallMoves(c)
  PROVE  [RemoteCallOf(c)!Next]_(RemoteCallOf(c)!callVars)
<1>. USE Placed, PlacedNext
<1>1. CASE Still(c)
  BY <1>1 DEF Still, Nowhere, RemoteCallOf!callVars
<1>2. CASE /\ Nowhere(c) /\ ~Serving(c)' /\ ~Answered(c)'
           /\ call[c] = "idle" /\ call'[c] = "waiting"
  BY <1>2 DEF RemoteCallOf!Next, RemoteCallOf!Ask
<1>3. CASE Asked(c) /\ ~Asked(c)' /\ Serving(c)' /\ ~Answered(c)' /\ call'[c] = call[c]
  BY <1>3 DEF RemoteCallOf!Next, RemoteCallOf!Execute
<1>4. CASE /\ Answered(c) /\ Nowhere(c)'
           /\ IF call[c] = "waiting" THEN call'[c] \in {"resolved", "rejected"}
                                     ELSE call'[c] = call[c]
  BY <1>4 DEF RemoteCallOf!Next, RemoteCallOf!Settle
<1>5. CASE Serving(c) /\ ~Serving(c)' /\ ~Asked(c)' /\ call'[c] = call[c]
  BY <1>5 DEF RemoteCallOf!Next, RemoteCallOf!Answer
<1>6. CASE /\ Asked(c)' <=> Asked(c)
           /\ Serving(c)' <=> Serving(c)
           /\ Answered(c)' <=> Answered(c)
           /\ call[c] = "waiting" /\ call'[c] = "timed_out"
  BY <1>6 DEF Nowhere, RemoteCallOf!Next, RemoteCallOf!GiveUp
<1>7. CASE /\ (Asked(c)' => Asked(c)) /\ (Serving(c)' => Serving(c))
           /\ (Answered(c)' => Answered(c))
           /\ \/ call'[c] = call[c]
              \/ call[c] \in {"idle", "waiting"} /\ call'[c] = "gone"
  <2>1. PlaceOf(c)' \in {PlaceOf(c), "none"}
    BY <1>7 DEF Nowhere
  <2>. QED BY <1>7, <2>1 DEF RemoteCallOf!Next, RemoteCallOf!Lose
<1>. QED BY <1>1, <1>2, <1>3, <1>4, <1>5, <1>6, <1>7 DEF CallMoves

(* However many calls both ends have under way, whichever page goes away and    *)
(* however late its answer is, a call's method is executed at most once and its *)
(* answer is used at most once.                                                 *)
THEOREM CallsAreRemoteCalls == Spec => RefinesRemoteCall
<1>. DEFINE Starts == \A c \in Calls : RemoteCallOf(c)!Init
            Moves == \A c \in Calls : [RemoteCallOf(c)!Next]_(RemoteCallOf(c)!callVars)
<1>1. Init => PlaceInv /\ Starts
  <2>. SUFFICES ASSUME Init PROVE PlaceInv /\ Starts
    OBVIOUS
  <2>1. /\ queue = [e \in Ends |-> <<>>] /\ serving = [e \in Ends |-> {}]
        /\ \A c \in Calls : call[c] = "idle"
    BY DEF Init, RpcInit
  <2>2. \A c \in Calls : Caller[c] \in Ends /\ OtherEnd(Caller[c]) \in Ends
    BY CallerAssumption, OtherEnds
  <2>3. \A c \in Calls : Nowhere(c)
    BY <2>1, <2>2, Ways DEF Nowhere, Holds, Serving
  <2>4. PlaceInv
    BY <2>1, <2>3 DEF PlaceInv, QueueInv, ServeInv, Apart, Nowhere, Single, AllRight
  <2>5. Starts
    BY <2>1, <2>3 DEF RemoteCallOf!Init, PlaceOf, Nowhere
  <2>. QED BY <2>4, <2>5
<1>2. RpcInv /\ PlaceInv /\ PlaceInv' /\ [Next]_vars => [Moves]_rpcVars
  <2>. SUFFICES ASSUME RpcInv, PlaceInv, PlaceInv', [Next]_vars, NEW c \in Calls
                PROVE  [RemoteCallOf(c)!Next]_(RemoteCallOf(c)!callVars)
    OBVIOUS
  <2>. QED BY CallsMove, CallStep DEF PlaceInv
<1>. QED BY <1>1, <1>2, RpcStarts, RpcKept, PlaceKept, PTL DEF Spec, RefinesRemoteCall
=============================================================================
