----------------------- MODULE EmbeddedSessionProofs -----------------------
(* The embedded session, for any calls over its channel.                    *)
EXTENDS EmbeddedSession, TLAPS

USE DEF Ends

-----------------------------------------------------------------------------
(* The host page's refresh cycle.                                          *)

\* The first refresh is not due before the first token was fetched.
RefreshInv == /\ OneRefreshCycle
              /\ embed = "embedding" /\ token # "none" => ~fetching
              /\ embed \in {"embedding", "live", "failed", "unmounted"}
              /\ timer \in BOOLEAN /\ fetching \in BOOLEAN

LEMMA RefreshKept == RefreshInv /\ [Next]_vars => RefreshInv'
<1>. SUFFICES ASSUME RefreshInv, [Next]_vars PROVE RefreshInv'
  OBVIOUS
<1>. USE DEF RefreshInv, OneRefreshCycle
<1>1. CASE UNCHANGED hostVars
  BY <1>1 DEF hostVars
<1>2. CASE TokenArrives
  BY <1>2 DEF TokenArrives
<1>3. CASE EmbedFails
  BY <1>3 DEF EmbedFails
<1>4. CASE IframeLoads
  BY <1>4 DEF IframeLoads
<1>5. CASE GoLive
  <2>1. /\ embed = "embedding" /\ token # "none"
        /\ (embed' = "live" /\ timer' = TRUE) \/ (embed' = "failed" /\ timer' = timer)
    BY <1>5 DEF GoLive
  <2>2. token' = token /\ fetching' = fetching
    BY <1>5 DEF GoLive
  <2>3. fetching = FALSE /\ timer = FALSE
    BY <2>1
  <2>4. fetching' = FALSE /\ timer' \in BOOLEAN
    BY <2>1, <2>2, <2>3
  <2>5. embed' = "live" => timer' # fetching'
    BY <2>1, <2>2, <2>3
  <2>6. embed' # "live" => ~timer'
    BY <2>1, <2>2, <2>3
  <2>7. embed' \in {"live", "failed"}
    BY <2>1
  <2>. QED BY <2>4, <2>5, <2>6, <2>7
<1>6. CASE RefreshStarts
  BY <1>6 DEF RefreshStarts
<1>7. ASSUME NEW tok \in Tokens, RefreshArrives(tok) PROVE RefreshInv'
  <2>1. /\ embed \in {"live", "unmounted"} /\ fetching' = FALSE
        /\ (embed = "live" /\ timer' = TRUE) \/ (embed = "unmounted" /\ timer' = timer)
    BY <1>7 DEF RefreshArrives
  <2>2. embed' = embed /\ token' = token
    BY <1>7 DEF RefreshArrives
  <2>3. CASE embed = "live"
    <3>1. embed' = "live" /\ timer' = TRUE /\ fetching' = FALSE
      BY <2>1, <2>2, <2>3
    <3>. QED BY <3>1
  <2>4. CASE embed = "unmounted"
    <3>1. timer = FALSE
      BY <2>4
    <3>2. embed' = "unmounted" /\ timer' = FALSE /\ fetching' = FALSE
      BY <2>1, <2>2, <2>4, <3>1
    <3>. QED BY <3>2
  <2>. QED BY <2>1, <2>3, <2>4
<1>8. CASE RefreshFails
  BY <1>8 DEF RefreshFails
<1>9. CASE Unmount
  BY <1>9 DEF Unmount
<1>. QED BY <1>1, <1>2, <1>3, <1>4, <1>5, <1>6, <1>7, <1>8, <1>9
  DEF Next, vars, Handshake, ReceiveToken, RolesArrive, RolesRefused, PageStays,
      FrameReloads, Call, GiveUp, Message, Answer

(* However fetches fail, time out or return what cannot be decoded, a live      *)
(* session has a refresh timer or a fetch under way, never both or neither.     *)
THEOREM RefreshCycle == Spec => []OneRefreshCycle
<1>1. Init => RefreshInv
  BY DEF Init, RefreshInv, OneRefreshCycle
<1>2. RefreshInv => OneRefreshCycle
  BY DEF RefreshInv
<1>. QED BY <1>1, <1>2, RefreshKept, PTL DEF Spec

-----------------------------------------------------------------------------
(* The embedded page's start.                                              *)

\* The dashboard is rendered by a start that is not undone.
StartInv == /\ OneStart
            /\ asking \in [Tokens -> Nat]
            /\ appStarted \in BOOLEAN /\ rendered \in BOOLEAN
            /\ rendered => appStarted

LEMMA RequestMade ==
  ASSUME NEW f \in [Tokens -> Nat], NEW t, f["good"] = 0, f["bad"] = 0
  PROVE  /\ [f EXCEPT ![t] = @ + 1] \in [Tokens -> Nat]
         /\ [f EXCEPT ![t] = @ + 1]["good"] + [f EXCEPT ![t] = @ + 1]["bad"] <= 1
<1>1. CASE t = "good"
  BY <1>1 DEF Tokens
<1>2. CASE t = "bad"
  BY <1>2 DEF Tokens
<1>3. CASE t \notin Tokens
  <2>1. \A tok \in Tokens : [f EXCEPT ![t] = @ + 1][tok] = f[tok]
    BY <1>3
  <2>2. [f EXCEPT ![t] = @ + 1] = f
    BY <2>1
  <2>3. f["good"] + f["bad"] <= 1
    OBVIOUS
  <2>. QED BY <2>2, <2>3, Zenon
<1>. QED BY <1>1, <1>2, <1>3, Zenon DEF Tokens

LEMMA RequestEnds ==
  ASSUME NEW f \in [Tokens -> Nat], NEW t \in Tokens, f["good"] + f["bad"] <= 1, f[t] > 0
  PROVE  [f EXCEPT ![t] = @ - 1] = NoRequest
<1>1. CASE t = "good"
  <2>1. f["good"] = 1 /\ f["bad"] = 0
    BY <1>1 DEF Tokens
  <2>2. \A tok \in Tokens : [f EXCEPT ![t] = @ - 1][tok] = 0
    BY <1>1, <2>1 DEF Tokens
  <2>. QED BY <2>2 DEF NoRequest
<1>2. CASE t = "bad"
  <2>1. f["bad"] = 1 /\ f["good"] = 0
    BY <1>2 DEF Tokens
  <2>2. \A tok \in Tokens : [f EXCEPT ![t] = @ - 1][tok] = 0
    BY <1>2, <2>1 DEF Tokens
  <2>. QED BY <2>2 DEF NoRequest
<1>. QED BY <1>1, <1>2 DEF Tokens

LEMMA NothingAsked == NoRequest \in [Tokens -> Nat] /\ NoRequest["good"] = 0 /\ NoRequest["bad"] = 0
  BY DEF NoRequest, Tokens

LEMMA NoneAsked ==
  ASSUME NEW f, f = NoRequest
  PROVE  f \in [Tokens -> Nat] /\ f["good"] + f["bad"] <= 1
BY NothingAsked

LEMMA StartKept == StartInv /\ [Next]_vars => StartInv'
<1>. SUFFICES ASSUME StartInv, [Next]_vars PROVE StartInv'
  OBVIOUS
<1>1. /\ asking \in [Tokens -> Nat] /\ asking["good"] + asking["bad"] <= 1
      /\ asking # NoRequest => appStarted /\ ~rendered
      /\ appStarted \in BOOLEAN /\ rendered \in BOOLEAN /\ (rendered => appStarted)
  BY DEF StartInv, OneStart
<1>2. CASE UNCHANGED frameVars
  BY <1>1, <1>2 DEF frameVars, StartInv, OneStart
<1>3. CASE FrameForgets
  <2>1. asking' = NoRequest /\ appStarted' = FALSE /\ rendered' = FALSE
    BY <1>3 DEF FrameForgets
  <2>. QED BY <2>1, NoneAsked, Zenon DEF StartInv, OneStart
<1>4. CASE ReceiveToken
  <2>1. CASE appStarted' = appStarted /\ asking' = asking
    <3>1. rendered' = rendered
      BY <1>4 DEF ReceiveToken
    <3>. QED BY <1>1, <2>1, <3>1 DEF StartInv, OneStart
  <2>2. CASE ~appStarted /\ appStarted' = TRUE /\ asking' = [asking EXCEPT ![client'] = @ + 1]
    <3>1. rendered' = rendered
      BY <1>4 DEF ReceiveToken
    <3>2. asking = NoRequest /\ ~rendered
      BY <1>1, <2>2
    <3>3. asking["good"] = 0 /\ asking["bad"] = 0
      BY <3>2, NothingAsked
    <3>4. /\ asking' \in [Tokens -> Nat]
          /\ asking'["good"] + asking'["bad"] <= 1
      BY <1>1, <2>2, <3>3, RequestMade
    <3>. QED BY <2>2, <3>1, <3>2, <3>4 DEF StartInv, OneStart
  <2>. QED BY <1>4, <2>1, <2>2 DEF ReceiveToken
<1>5. CASE RolesArrive
  <2>1. asking["good"] > 0 /\ asking' = [asking EXCEPT !["good"] = @ - 1]
        /\ rendered' = TRUE /\ appStarted' = appStarted
    BY <1>5 DEF RolesArrive
  <2>2. asking' = NoRequest
    BY <1>1, <2>1, RequestEnds DEF Tokens
  <2>3. asking # NoRequest
    BY <2>1, NothingAsked
  <2>. QED BY <1>1, <2>1, <2>2, <2>3, NoneAsked, Zenon DEF StartInv, OneStart
<1>6. CASE PageStays
  <2>1. rendered /\ rendered' = FALSE /\ appStarted' = appStarted /\ asking' = asking
    BY <1>6 DEF PageStays
  <2>. QED BY <1>1, <2>1 DEF StartInv, OneStart
<1>7. ASSUME NEW tok \in Tokens, RolesRefused(tok) PROVE StartInv'
  <2>1. asking[tok] > 0 /\ asking' = [asking EXCEPT ![tok] = @ - 1]
        /\ rendered' = rendered /\ appStarted' = FALSE
    BY <1>7 DEF RolesRefused
  <2>2. asking' = NoRequest
    BY <1>1, <2>1, RequestEnds
  <2>3. asking # NoRequest
    BY <2>1 DEF NoRequest
  <2>. QED BY <1>1, <2>1, <2>2, <2>3, NoneAsked, Zenon DEF StartInv, OneStart
<1>. QED BY <1>2, <1>3, <1>4, <1>5, <1>6, <1>7
  DEF Next, vars, TokenArrives, EmbedFails, IframeLoads, GoLive, RefreshStarts,
      RefreshArrives, RefreshFails, Unmount, Handshake, FrameReloads, Call, GiveUp,
      Message, Answer

(* Tokens that arrive while a start is under way, or after it failed, never     *)
(* make the embedded page start twice at once.                                  *)
THEOREM StartsOnce == Spec => []OneStart
<1>1. Init => StartInv
  BY NoneAsked, Zenon DEF Init, StartInv, OneStart
<1>2. StartInv => OneStart
  BY DEF StartInv
<1>. QED BY <1>1, <1>2, StartKept, PTL DEF Spec

-----------------------------------------------------------------------------
(* Calls over the channel.                                                 *)

\* What belongs to a call carries the call's own id; an emit carries none.
CallMessages(ids) == {m \in CallMessage : m.id = ids[m.body]}
Messages(ids) == CallMessages(ids) \cup EmitMessages(Tokens)

CallInv == /\ incrementor \in [Ends -> Nat]
           /\ messageId \in [Calls -> Ids \cup {NoId}]
           /\ DOMAIN call = Calls /\ DOMAIN answer = Calls
           /\ \A c \in Calls : call[c] = "idle" => messageId[c] = NoId
           /\ \A c \in Calls : call[c] = "waiting" => messageId[c] # NoId

\* An id is allocated once: its number is below the end's counter.
IdInv == /\ \A c \in Calls : messageId[c] # NoId =>
              /\ messageId[c].from = Caller[c]
              /\ messageId[c].n < incrementor[Caller[c]]
         /\ \A c, d \in Calls : messageId[c] = messageId[d] /\ messageId[c] # NoId => c = d

WireInv == /\ queue \in [Ends -> Seq(Messages(messageId))]
           /\ serving \in [Ends -> SUBSET CallMessages(messageId)]
           /\ token \in Tokens \cup {"none"}

RpcInv == CallInv /\ IdInv /\ WireInv /\ OwnAnswer

LEMMA PostedTyped ==
  ASSUME NEW S, NEW q \in [Ends -> Seq(S)], NEW e \in Ends, NEW m \in S
  PROVE  Posted(q, e, m) \in [Ends -> Seq(S)]
<1>1. Append(q[e], m) \in Seq(S)
  OBVIOUS
<1>. QED BY <1>1 DEF Posted

LEMMA TailTyped ==
  ASSUME NEW S, NEW q \in [Ends -> Seq(S)], NEW e \in Ends, q[e] # <<>>
  PROVE  [q EXCEPT ![e] = Tail(@)] \in [Ends -> Seq(S)] /\ Head(q[e]) \in S
<1>1. Tail(q[e]) \in Seq(S) /\ Head(q[e]) \in S
  OBVIOUS
<1>. QED BY <1>1

LEMMA EmitTyped ==
  ASSUME NEW ids, NEW tok \in Tokens
  PROVE  EmitMessage(tok) \in Messages(ids)
BY DEF EmitMessage, EmitMessages, Messages

\* What a step does to the calls and to the channel.
QuietStep == UNCHANGED <<queue, incrementor, messageId, call, answer, serving>>

LEMMA TokenKept == WireInv /\ [Next]_vars => token' \in Tokens \cup {"none"}
<1>. SUFFICES ASSUME WireInv, [Next]_vars PROVE token' \in Tokens \cup {"none"}
  OBVIOUS
<1>1. CASE TokenArrives
  BY <1>1 DEF TokenArrives
<1>2. CASE token' = token
  BY <1>2 DEF WireInv
<1>. QED BY <1>1, <1>2
  DEF Next, vars, hostVars, EmbedFails, IframeLoads, GoLive, RefreshStarts, RefreshArrives,
      RefreshFails, Unmount, Handshake, ReceiveToken, RolesArrive, RolesRefused,
      PageStays, FrameReloads, Call, GiveUp, Message, Answer

EmitStep == /\ \E tok \in Tokens : EmitToken(tok)
            /\ UNCHANGED <<incrementor, messageId, call, answer, serving>>
TakeStep == /\ queue["frame"] # <<>> /\ Head(queue["frame"]).action = "emit"
            /\ queue' = [queue EXCEPT !["frame"] = Tail(@)]
            /\ UNCHANGED <<incrementor, messageId, call, answer, serving>>

LEMMA RpcSteps ==
  ASSUME WireInv, [Next]_vars
  PROVE  \/ QuietStep \/ EmitStep \/ TakeStep \/ FramePageEnds
         \/ \E c \in Calls : Get(c) \/ CallTimesOut(c)
         \/ \E e \in Ends : Deliver(e) \/ \E m \in serving[e] : Serve(e, m)
<1>1. CASE UNCHANGED rpcVars
  BY <1>1 DEF rpcVars, QuietStep
<1>2. CASE FrameForgets
  BY <1>2 DEF FrameForgets
<1>3. CASE GoLive
  BY <1>3 DEF GoLive, EmitStep, WireInv
<1>4. ASSUME NEW tok \in Tokens, RefreshArrives(tok) PROVE EmitStep \/ QuietStep
  BY <1>4 DEF RefreshArrives, EmitStep, QuietStep
<1>5. CASE Handshake
  BY <1>5 DEF Handshake, QuietStep
<1>6. CASE ReceiveToken
  BY <1>6 DEF ReceiveToken, TakeStep
<1>7. ASSUME NEW c \in Calls, Call(c) \/ GiveUp(c) PROVE Get(c) \/ CallTimesOut(c)
  BY <1>7 DEF Call, GiveUp
<1>8. ASSUME NEW e \in Ends, Message(e) \/ \E m \in serving[e] : Answer(e, m)
      PROVE  Deliver(e) \/ \E m \in serving[e] : Serve(e, m)
  BY <1>8 DEF Message, Answer
<1>. QED BY <1>1, <1>2, <1>3, <1>4, <1>5, <1>6, <1>7, <1>8
  DEF Next, vars, TokenArrives, EmbedFails, IframeLoads, RefreshStarts, RefreshFails,
      Unmount, RolesArrive, RolesRefused, PageStays, FrameReloads

LEMMA GetKept ==
  ASSUME RpcInv, NEW c \in Calls, Get(c)
  PROVE  CallInv' /\ IdInv' /\ OwnAnswer'
         /\ queue' \in [Ends -> Seq(Messages(messageId'))]
         /\ serving' \in [Ends -> SUBSET CallMessages(messageId')]
<1>. DEFINE e == Caller[c]
            id == NewMessageId(e)
<1>1. /\ e \in Ends /\ OtherEnd(e) \in Ends
  BY CallerAssumption DEF OtherEnd
<1>2. /\ id \in Ids /\ id # NoId /\ id.from = e /\ id.n = incrementor[e]
      /\ incrementor[e] \in Nat
  BY <1>1, NoIdAssumption DEF NewMessageId, Ids, RpcInv, CallInv
<1>3. /\ call[c] = "idle" /\ messageId[c] = NoId
      /\ call' = [call EXCEPT ![c] = "waiting"]
      /\ messageId' = [messageId EXCEPT ![c] = id]
      /\ incrementor' = [incrementor EXCEPT ![e] = @ + 1]
      /\ queue' = Posted(queue, OtherEnd(e), GetMessage(id, c))
      /\ answer' = answer /\ serving' = serving
  BY DEF Get, RpcInv, CallInv
<1>4. CallInv'
  <2>1. incrementor' \in [Ends -> Nat]
    BY <1>1, <1>2, <1>3 DEF RpcInv, CallInv
  <2>2. messageId' \in [Calls -> Ids \cup {NoId}]
    BY <1>2, <1>3 DEF RpcInv, CallInv
  <2>3. DOMAIN call' = Calls /\ DOMAIN answer' = Calls
    BY <1>3 DEF RpcInv, CallInv
  <2>4. \A d \in Calls : d # c => call'[d] = call[d] /\ messageId'[d] = messageId[d]
    BY <1>3
  <2>5. call'[c] = "waiting" /\ messageId'[c] = id
    BY <1>3 DEF RpcInv, CallInv
  <2>. QED BY <1>2, <2>1, <2>2, <2>3, <2>4, <2>5 DEF RpcInv, CallInv
<1>5. IdInv'
  <2>1. \A d \in Calls : d # c => messageId'[d] = messageId[d]
    BY <1>3
  <2>2. messageId'[c] = id
    BY <1>3 DEF RpcInv, CallInv
  <2>3. \A d \in Calls : /\ Caller[d] \in Ends
                         /\ incrementor[Caller[d]] \in Nat
                         /\ incrementor'[Caller[d]] = IF Caller[d] = e
                              THEN incrementor[Caller[d]] + 1 ELSE incrementor[Caller[d]]
    BY <1>1, <1>3, CallerAssumption DEF RpcInv, CallInv
  <2>4. \A d \in Calls : messageId[d] # NoId => messageId[d] \in Ids /\ messageId[d].n \in Nat
    BY DEF RpcInv, CallInv, Ids
  <2>5. ASSUME NEW d \in Calls, messageId'[d] # NoId
        PROVE  messageId'[d].from = Caller[d] /\ messageId'[d].n < incrementor'[Caller[d]]
    <3>1. CASE d = c
      BY <1>2, <2>2, <2>3, <3>1
    <3>2. CASE d # c
      BY <2>1, <2>3, <2>4, <2>5, <3>2 DEF RpcInv, IdInv
    <3>. QED BY <3>1, <3>2
  <2>6. ASSUME NEW d \in Calls, d # c PROVE messageId[d] # id
    BY <1>2, <2>3, <2>4 DEF RpcInv, IdInv
  <2>. QED BY <2>1, <2>2, <2>5, <2>6 DEF RpcInv, IdInv
<1>6. Messages(messageId) \subseteq Messages(messageId')
      /\ CallMessages(messageId) \subseteq CallMessages(messageId')
  <2>1. ASSUME NEW m \in CallMessages(messageId) PROVE m \in CallMessages(messageId')
    <3>1. m.id \in Ids /\ m.body \in Calls /\ m.id = messageId[m.body]
      BY DEF CallMessages, CallMessage
    <3>2. m.body # c
      BY <1>3, <3>1, NoIdAssumption
    <3>3. messageId'[m.body] = messageId[m.body]
      BY <1>3, <3>2
    <3>. QED BY <3>1, <3>3 DEF CallMessages, CallMessage
  <2>. QED BY <2>1 DEF Messages
<1>7. GetMessage(id, c) \in Messages(messageId')
  <2>1. messageId'[c] = id
    BY <1>3 DEF RpcInv, CallInv
  <2>. QED BY <1>2, <2>1 DEF GetMessage, Messages, CallMessages, CallMessage
<1>8. queue \in [Ends -> Seq(Messages(messageId'))]
  <2>1. \A d \in Ends : queue[d] \in Seq(Messages(messageId'))
    BY <1>6 DEF RpcInv, WireInv
  <2>. QED BY <2>1 DEF RpcInv, WireInv
<1>9. queue' \in [Ends -> Seq(Messages(messageId'))]
  BY <1>1, <1>3, <1>7, <1>8, PostedTyped
<1>10. serving' \in [Ends -> SUBSET CallMessages(messageId')]
  BY <1>3, <1>6 DEF RpcInv, WireInv
<1>11. OwnAnswer'
  BY <1>3 DEF RpcInv, CallInv, OwnAnswer
<1>. QED BY <1>4, <1>5, <1>9, <1>10, <1>11

LEMMA DeliverKept ==
  ASSUME RpcInv, NEW e \in Ends, Deliver(e)
  PROVE  CallInv' /\ IdInv' /\ OwnAnswer'
         /\ queue' \in [Ends -> Seq(Messages(messageId'))]
         /\ serving' \in [Ends -> SUBSET CallMessages(messageId')]
<1>. DEFINE m == Head(queue[e])
<1>1. /\ queue' \in [Ends -> Seq(Messages(messageId))]
      /\ m \in Messages(messageId)
  BY TailTyped DEF Deliver, RpcInv, WireInv
<1>2. m \in CallMessages(messageId)
  <2>1. m.action # "emit"
    BY DEF Deliver
  <2>. QED BY <1>1, <2>1 DEF Messages, EmitMessages
<1>3. m.body \in Calls /\ m.id \in Ids /\ m.id = messageId[m.body]
  BY <1>2 DEF CallMessages, CallMessage
<1>4. \A c \in Calls : Matches(c, e, m) => c = m.body
  BY <1>3, NoIdAssumption DEF Matches, RpcInv, IdInv
<1>5. /\ incrementor' = incrementor /\ messageId' = messageId
      /\ call' = [c \in Calls |-> IF Matches(c, e, m) THEN Outcome(m) ELSE call[c]]
      /\ answer' = [c \in Calls |-> IF Matches(c, e, m) THEN m.body ELSE answer[c]]
      /\ serving' = IF m.action = "get"
                    THEN [serving EXCEPT ![e] = @ \cup {m}] ELSE serving
  BY DEF Deliver
<1>6. \A c \in Calls : /\ Matches(c, e, m) => call'[c] \in {"resolved", "rejected"} /\ answer'[c] = c
                       /\ ~Matches(c, e, m) => call'[c] = call[c] /\ answer'[c] = answer[c]
  BY <1>4, <1>5 DEF Outcome
<1>7. CallInv'
  BY <1>5, <1>6 DEF RpcInv, CallInv
<1>8. IdInv'
  BY <1>5 DEF RpcInv, IdInv
<1>9. OwnAnswer'
  BY <1>6 DEF RpcInv, OwnAnswer
<1>10. serving' \in [Ends -> SUBSET CallMessages(messageId)]
  <2>1. serving \in [Ends -> SUBSET CallMessages(messageId)]
    BY DEF RpcInv, WireInv
  <2>. QED BY <1>2, <1>5, <2>1
<1>. QED BY <1>1, <1>5, <1>7, <1>8, <1>9, <1>10

LEMMA ServeKept ==
  ASSUME RpcInv, NEW e \in Ends, NEW m \in serving[e], Serve(e, m)
  PROVE  /\ queue' \in [Ends -> Seq(Messages(messageId))]
         /\ serving' \in [Ends -> SUBSET CallMessages(messageId)]
         /\ UNCHANGED <<incrementor, messageId, call, answer>>
<1>1. m \in CallMessages(messageId)
  BY DEF RpcInv, WireInv
<1>2. \A kind \in {"reply", "error"} : AnswerMessage(kind, m.id, m.body) \in Messages(messageId)
  <2>1. m.body \in Calls /\ m.id \in Ids /\ m.id = messageId[m.body]
    BY <1>1 DEF CallMessages, CallMessage
  <2>. QED BY <2>1 DEF AnswerMessage, Messages, CallMessages, CallMessage
<1>3. OtherEnd(e) \in Ends
  BY DEF OtherEnd
<1>4. PICK kind \in {"reply", "error"} :
        queue' = Posted(queue, OtherEnd(e), AnswerMessage(kind, m.id, m.body))
  BY DEF Serve
<1>5. queue' \in [Ends -> Seq(Messages(messageId))]
  BY <1>2, <1>3, <1>4, PostedTyped DEF RpcInv, WireInv
<1>6. serving' = [serving EXCEPT ![e] = @ \ {m}]
      /\ UNCHANGED <<incrementor, messageId, call, answer>>
  BY DEF Serve
<1>. QED BY <1>5, <1>6 DEF RpcInv, WireInv

LEMMA PageEndsKept ==
  ASSUME RpcInv, FramePageEnds
  PROVE  CallInv' /\ IdInv' /\ OwnAnswer'
         /\ queue' \in [Ends -> Seq(Messages(messageId'))]
         /\ serving' \in [Ends -> SUBSET CallMessages(messageId')]
<1>1. /\ incrementor' = incrementor /\ messageId' = messageId /\ answer' = answer
      /\ queue' = [queue EXCEPT !["frame"] = <<>>]
      /\ serving' = [serving EXCEPT !["frame"] = {}]
      /\ DOMAIN call' = Calls
      /\ \A c \in Calls : call'[c] = call[c] \/ call'[c] = "gone"
  BY DEF FramePageEnds
<1>2. <<>> \in Seq(Messages(messageId))
  OBVIOUS
<1>3. queue' \in [Ends -> Seq(Messages(messageId))]
  BY <1>1, <1>2 DEF RpcInv, WireInv
<1>4. serving' \in [Ends -> SUBSET CallMessages(messageId)]
  BY <1>1 DEF RpcInv, WireInv
<1>5. CallInv' /\ IdInv' /\ OwnAnswer'
  BY <1>1 DEF RpcInv, CallInv, IdInv, OwnAnswer
<1>. QED BY <1>1, <1>3, <1>4, <1>5

LEMMA RpcKept == RpcInv /\ [Next]_vars => RpcInv'
<1>. SUFFICES ASSUME RpcInv, [Next]_vars PROVE RpcInv'
  OBVIOUS
<1>. DEFINE Kept == /\ CallInv' /\ IdInv' /\ OwnAnswer'
                    /\ queue' \in [Ends -> Seq(Messages(messageId'))]
                    /\ serving' \in [Ends -> SUBSET CallMessages(messageId')]
<1>1. token' \in Tokens \cup {"none"}
  BY TokenKept DEF RpcInv
<1>2. ASSUME UNCHANGED <<incrementor, messageId, call, answer>>
      PROVE  CallInv' /\ IdInv' /\ OwnAnswer'
  BY <1>2 DEF RpcInv, CallInv, IdInv, OwnAnswer
<1>3. ASSUME QuietStep PROVE Kept
  <2>1. UNCHANGED <<incrementor, messageId, call, answer>> /\ queue' = queue /\ serving' = serving
    BY <1>3 DEF QuietStep
  <2>2. /\ queue' \in [Ends -> Seq(Messages(messageId'))]
        /\ serving' \in [Ends -> SUBSET CallMessages(messageId')]
    BY <2>1 DEF RpcInv, WireInv
  <2>. QED BY <1>2, <2>1, <2>2
<1>4. ASSUME EmitStep PROVE Kept
  <2>1. PICK tok \in Tokens : EmitToken(tok)
    BY <1>4 DEF EmitStep
  <2>2. queue' \in [Ends -> Seq(Messages(messageId))]
    <3>1. queue \in [Ends -> Seq(Messages(messageId))] /\ "frame" \in Ends
      BY DEF RpcInv, WireInv
    <3>2. EmitMessage(tok) \in Messages(messageId)
      BY EmitTyped
    <3>. QED BY <2>1, <3>1, <3>2, PostedTyped DEF EmitToken
  <2>3. UNCHANGED <<incrementor, messageId, call, answer>> /\ serving' = serving
    BY <1>4 DEF EmitStep
  <2>4. serving' \in [Ends -> SUBSET CallMessages(messageId')]
    BY <2>3 DEF RpcInv, WireInv
  <2>. QED BY <1>2, <2>2, <2>3, <2>4
<1>5. ASSUME TakeStep PROVE Kept
  <2>1. UNCHANGED <<incrementor, messageId, call, answer>> /\ serving' = serving
    BY <1>5 DEF TakeStep
  <2>2. queue' \in [Ends -> Seq(Messages(messageId))]
    BY <1>5, TailTyped DEF TakeStep, RpcInv, WireInv
  <2>3. serving' \in [Ends -> SUBSET CallMessages(messageId')]
    BY <2>1 DEF RpcInv, WireInv
  <2>. QED BY <1>2, <2>1, <2>2, <2>3
<1>6. ASSUME NEW c \in Calls, CallTimesOut(c) PROVE Kept
  <2>1. /\ call[c] = "waiting" /\ call' = [call EXCEPT ![c] = "timed_out"]
        /\ UNCHANGED <<queue, incrementor, messageId, answer, serving>>
    BY <1>6 DEF CallTimesOut
  <2>2. CallInv' /\ IdInv' /\ OwnAnswer'
    BY <2>1 DEF RpcInv, CallInv, IdInv, OwnAnswer
  <2>3. /\ queue' \in [Ends -> Seq(Messages(messageId'))]
        /\ serving' \in [Ends -> SUBSET CallMessages(messageId')]
    BY <2>1 DEF RpcInv, WireInv
  <2>. QED BY <2>2, <2>3
<1>7. ASSUME NEW e \in Ends, NEW m \in serving[e], Serve(e, m) PROVE Kept
  BY <1>2, <1>7, ServeKept
<1>8. Kept
  BY <1>3, <1>4, <1>5, <1>6, <1>7, RpcSteps, GetKept, DeliverKept, PageEndsKept DEF RpcInv
<1>. QED BY <1>1, <1>8 DEF RpcInv, WireInv

LEMMA RpcStarts == Init => RpcInv
<1>. SUFFICES ASSUME Init PROVE RpcInv
  OBVIOUS
<1>1. CallInv /\ IdInv /\ OwnAnswer
  BY DEF Init, RpcInit, CallInv, IdInv, OwnAnswer
<1>2. <<>> \in Seq(Messages(messageId)) /\ token \in Tokens \cup {"none"}
  BY DEF Init
<1>. QED BY <1>1, <1>2 DEF Init, RpcInit, RpcInv, WireInv

(* However many calls both ends make, and however late their answers come,      *)
(* a call is settled only by what its own method produced.                      *)
THEOREM AnswersAreOwn == Spec => []OwnAnswer
<1>1. RpcInv => OwnAnswer
  BY DEF RpcInv
<1>. QED BY <1>1, RpcStarts, RpcKept, PTL DEF Spec

(* A call that was answered, refused or has timed out stays so: what comes      *)
(* later changes neither its outcome nor its answer.                            *)
THEOREM SettledForGood == Spec => SettledOnce
<1>. DEFINE Stays == \A c \in Calls : Settled(c) => call'[c] = call[c] /\ answer'[c] = answer[c]
<1>1. ASSUME RpcInv, [Next]_vars PROVE Stays
  <2>1. CASE QuietStep \/ EmitStep \/ TakeStep
    BY <2>1 DEF QuietStep, EmitStep, TakeStep
  <2>2. CASE FramePageEnds
    BY <2>2 DEF FramePageEnds, Settled
  <2>3. ASSUME NEW c \in Calls, Get(c) \/ CallTimesOut(c) PROVE Stays
    BY <2>3, <1>1 DEF Get, CallTimesOut, Settled, RpcInv, CallInv
  <2>4. ASSUME NEW e \in Ends, Deliver(e) PROVE Stays
    BY <2>4 DEF Deliver, Matches, Settled
  <2>5. ASSUME NEW e \in Ends, NEW m \in serving[e], Serve(e, m) PROVE Stays
    BY <2>5 DEF Serve
  <2>. QED BY <1>1, <2>1, <2>2, <2>3, <2>4, <2>5, RpcSteps DEF RpcInv
<1>2. RpcInv /\ [Next]_vars => [Stays]_vars
  BY <1>1
<1>. QED BY <1>2, RpcStarts, RpcKept, PTL DEF Spec, SettledOnce

-----------------------------------------------------------------------------
(* After unmount().                                                        *)

LEMMA NothingBegun ==
  ASSUME RefreshInv, embed = "unmounted", [Next]_vars
  PROVE  sentIn' = sentIn /\ ~timer' /\ (fetching' => fetching)
<1>1. timer = FALSE
  BY DEF RefreshInv, OneRefreshCycle
<1>2. CASE timer' = timer /\ fetching' = fetching /\ sentIn' = sentIn
  BY <1>1, <1>2
<1>3. ASSUME NEW tok \in Tokens, RefreshArrives(tok)
      PROVE  timer' = timer /\ fetching' = FALSE /\ sentIn' = sentIn
  BY <1>3 DEF RefreshArrives
<1>4. CASE RefreshFails
  BY <1>4 DEF RefreshFails
<1>. QED BY <1>1, <1>2, <1>3, <1>4
  DEF Next, vars, hostVars, TokenArrives, EmbedFails, IframeLoads, GoLive, RefreshStarts,
      Unmount, Handshake, ReceiveToken, RolesArrive, RolesRefused, PageStays,
      FrameReloads, Call, GiveUp, Message, Answer

(* A fetch that outlives unmount() ends without its token being emitted or the  *)
(* timer being set again, whatever calls are still under way.                   *)
THEOREM QuietAfterUnmount == Spec => UnmountedIsQuiet
<1>. DEFINE Quiet == embed = "unmounted" =>
                       sentIn' = sentIn /\ ~timer' /\ (fetching' => fetching)
<1>1. Init => RefreshInv
  BY DEF Init, RefreshInv, OneRefreshCycle
<1>2. RefreshInv /\ [Next]_vars => [Quiet]_vars
  BY NothingBegun
<1>. QED BY <1>1, <1>2, RefreshKept, PTL DEF Spec, UnmountedIsQuiet
-----------------------------------------------------------------------------
(* Types.  What the frame is configured with came over the wire; the rest of   *)
(* the ranges is kept by each step, or is part of what was shown above.         *)

RpcTypes == /\ started \in [Ends -> BOOLEAN] /\ alive \in BOOLEAN
            /\ call \in [Calls -> CallStates]

PageTypes == /\ mounted \in BOOLEAN /\ loaded \in BOOLEAN
             /\ client \in Tokens \cup {"none"} /\ blanked \in BOOLEAN
             /\ sentIn \in SUBSET Embeddings
             /\ answer \in [Calls -> Calls \cup {NoId}]

LEMMA RpcTypesKept == RpcTypes /\ [Next]_vars => RpcTypes'
<1>. SUFFICES ASSUME RpcTypes, [Next]_vars PROVE RpcTypes'
  OBVIOUS
<1>1. CASE /\ started' = started \/ \E e \in Ends : started' = [started EXCEPT ![e] = TRUE]
           /\ UNCHANGED <<alive, call>>
  BY <1>1 DEF RpcTypes
<1>2. CASE FramePageEnds
  <2>1. \A c \in Calls : call'[c] \in CallStates
    BY <1>2 DEF FramePageEnds, RpcTypes, CallStates
  <2>2. alive' = FALSE /\ started' = [started EXCEPT !["frame"] = FALSE]
        /\ call' = [c \in Calls |-> call'[c]]
    BY <1>2 DEF FramePageEnds
  <2>3. call' \in [Calls -> CallStates]
    BY <2>1, <2>2
  <2>. QED BY <2>2, <2>3 DEF RpcTypes
<1>3. ASSUME NEW c \in Calls, Get(c) PROVE RpcTypes'
  BY <1>3 DEF Get, RpcTypes, CallStates
<1>4. ASSUME NEW e \in Ends, Deliver(e) PROVE RpcTypes'
  <2>1. UNCHANGED <<started, alive>>
        /\ call' = [c \in Calls |-> IF Matches(c, e, Head(queue[e]))
                                    THEN Outcome(Head(queue[e])) ELSE call[c]]
    BY <1>4 DEF Deliver
  <2>2. Outcome(Head(queue[e])) \in CallStates
    BY DEF Outcome, CallStates
  <2>. QED BY <2>1, <2>2 DEF RpcTypes
<1>5. ASSUME NEW c \in Calls, CallTimesOut(c) PROVE RpcTypes'
  BY <1>5 DEF CallTimesOut, RpcTypes, CallStates
<1>6. ASSUME NEW e \in Ends, NEW m \in serving[e], Serve(e, m) PROVE RpcTypes'
  BY <1>6, <1>1 DEF Serve
<1>. QED BY <1>1, <1>2, <1>3, <1>4, <1>5, <1>6
  DEF Next, vars, rpcVars, TokenArrives, EmbedFails, IframeLoads, GoLive, RefreshStarts,
      RefreshArrives, RefreshFails, Unmount, Handshake, ReceiveToken, RolesArrive,
      RolesRefused, PageStays, FrameReloads, FrameForgets, Call, GiveUp, Message, Answer

LEMMA TakenTyped ==
  ASSUME RpcInv, NEW e \in Ends, queue[e] # <<>>
  PROVE  Head(queue[e]) \in Messages(messageId)
  BY TailTyped DEF RpcInv, WireInv

LEMMA AnswersTyped ==
  ASSUME answer \in [Calls -> Calls \cup {NoId}], RpcInv, [Next]_vars
  PROVE  answer' \in [Calls -> Calls \cup {NoId}]
<1>1. CASE answer' = answer
  BY <1>1
<1>2. ASSUME NEW e \in Ends, Deliver(e) PROVE answer' \in [Calls -> Calls \cup {NoId}]
  <2>1. /\ queue[e] # <<>> /\ Head(queue[e]).action # "emit"
        /\ answer' = [c \in Calls |-> IF Matches(c, e, Head(queue[e]))
                                      THEN Head(queue[e]).body ELSE answer[c]]
    BY <1>2 DEF Deliver
  <2>2. Head(queue[e]).body \in Calls
    BY <2>1, TakenTyped DEF Messages, CallMessages, CallMessage, EmitMessages
  <2>. QED BY <2>1, <2>2
<1>3. ASSUME NEW c \in Calls, Get(c) \/ CallTimesOut(c) PROVE answer' = answer
  BY <1>3 DEF Get, CallTimesOut
<1>4. ASSUME NEW e \in Ends, NEW m \in serving[e], Serve(e, m) PROVE answer' = answer
  BY <1>4 DEF Serve
<1>. QED BY <1>1, <1>2, <1>3, <1>4, RpcSteps
  DEF RpcInv, QuietStep, EmitStep, TakeStep, FramePageEnds

LEMMA PageTypesKept == PageTypes /\ RefreshInv /\ RpcInv /\ [Next]_vars => PageTypes'
<1>. SUFFICES ASSUME PageTypes, RefreshInv, RpcInv, [Next]_vars PROVE PageTypes'
  OBVIOUS
<1>1. mounted' \in BOOLEAN /\ loaded' \in BOOLEAN
  BY DEF PageTypes, Next, vars, hostVars, TokenArrives, EmbedFails, IframeLoads, GoLive,
         RefreshStarts, RefreshArrives, RefreshFails, Unmount, Handshake, ReceiveToken,
         RolesArrive, RolesRefused, PageStays, FrameReloads, Call, GiveUp, Message, Answer
<1>2. /\ client' = client \/ client' = "none" \/ ReceiveToken
      /\ blanked' = blanked \/ blanked' \in BOOLEAN
  BY DEF Next, vars, frameVars, FrameForgets, TokenArrives, EmbedFails, IframeLoads, GoLive,
         RefreshStarts, RefreshArrives, RefreshFails, Unmount, Handshake, ReceiveToken,
         RolesArrive, RolesRefused, PageStays, FrameReloads, Call, GiveUp, Message, Answer
<1>3. ASSUME ReceiveToken PROVE client' \in Tokens
  <2>1. queue["frame"] # <<>> /\ Head(queue["frame"]).action = "emit"
        /\ client' = Head(queue["frame"]).body
    BY <1>3 DEF ReceiveToken
  <2>. QED BY <2>1, TakenTyped DEF Messages, CallMessages, CallMessage, EmitMessages
<1>4. sentIn' = sentIn \/ sentIn' = sentIn \cup {embed}
  BY DEF Next, vars, hostVars, EmitToken, TokenArrives, EmbedFails, IframeLoads, GoLive,
         RefreshStarts, RefreshArrives, RefreshFails, Unmount, Handshake, ReceiveToken,
         RolesArrive, RolesRefused, PageStays, FrameReloads, Call, GiveUp, Message, Answer
<1>5. sentIn' \in SUBSET Embeddings
  BY <1>4 DEF PageTypes, RefreshInv, Embeddings
<1>6. answer' \in [Calls -> Calls \cup {NoId}]
  BY AnswersTyped DEF PageTypes
<1>7. client' \in Tokens \cup {"none"} /\ blanked' \in BOOLEAN
  BY <1>2, <1>3 DEF PageTypes
<1>. QED BY <1>1, <1>5, <1>6, <1>7 DEF PageTypes

LEMMA WireTyped ==
  ASSUME RpcInv
  PROVE  /\ queue \in [Ends -> Seq(CallMessage \cup EmitMessages(Tokens))]
         /\ serving \in [Ends -> SUBSET CallMessage]
<1>1. Messages(messageId) \subseteq CallMessage \cup EmitMessages(Tokens)
      /\ CallMessages(messageId) \subseteq CallMessage
  BY DEF Messages, CallMessages
<1>2. ASSUME NEW e \in Ends PROVE queue[e] \in Seq(CallMessage \cup EmitMessages(Tokens))
  <2>1. queue[e] \in Seq(Messages(messageId))
    BY DEF RpcInv, WireInv
  <2>. QED BY <1>1, <2>1
<1>. QED BY <1>1, <1>2 DEF RpcInv, WireInv

(* Every variable, those of the channel included, keeps its range, however     *)
(* many calls and tokens cross the channel; at most one request for roles is    *)
(* under way.                                                                   *)
THEOREM TypeCorrect == Spec => []TypeOK
<1>1. Init => RpcTypes /\ PageTypes /\ RefreshInv /\ StartInv
  <2>1. Init => RefreshInv
    BY DEF Init, RefreshInv, OneRefreshCycle
  <2>2. Init => StartInv
    BY NoneAsked, Zenon DEF Init, StartInv, OneStart
  <2>3. Init => PageTypes
    BY DEF Init, RpcInit, PageTypes
  <2>4. Init => started \in [Ends -> BOOLEAN] /\ alive \in BOOLEAN
    BY DEF Init, RpcInit
  <2>5. Init => call \in [Calls -> CallStates]
    BY DEF Init, RpcInit, CallStates
  <2>. QED BY <2>1, <2>2, <2>3, <2>4, <2>5 DEF RpcTypes
<1>2. RpcTypes /\ PageTypes /\ RefreshInv /\ StartInv /\ RpcInv => TypeOK
  <2>. SUFFICES ASSUME RpcTypes, PageTypes, RefreshInv, StartInv, RpcInv PROVE TypeOK
    OBVIOUS
  <2>1. asking \in [Tokens -> 0..1]
    <3>1. asking \in [Tokens -> Nat] /\ asking["good"] + asking["bad"] <= 1
      BY DEF StartInv, OneStart
    <3>2. \A tok \in Tokens : asking[tok] \in 0..1
      BY <3>1 DEF Tokens
    <3>. QED BY <3>1, <3>2
  <2>2. token \in Tokens \cup {"none"}
    BY DEF RpcInv, WireInv
  <2>3. embed \in Embeddings /\ fetching \in BOOLEAN /\ timer \in BOOLEAN
    BY DEF RefreshInv, Embeddings
  <2>4. appStarted \in BOOLEAN /\ rendered \in BOOLEAN
    BY DEF StartInv
  <2>5. RpcTypeOK
    BY WireTyped, Zenon DEF RpcTypeOK, RpcTypes, PageTypes, RpcInv, CallInv
  <2>. QED BY <2>1, <2>2, <2>3, <2>4, <2>5, WireTyped, Zenon DEF TypeOK, PageTypes
<1>. QED BY <1>1, <1>2, RpcStarts, RpcKept, RefreshKept, StartKept, RpcTypesKept,
            PageTypesKept, PTL DEF Spec
=============================================================================
