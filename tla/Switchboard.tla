---------------------------- MODULE Switchboard ----------------------------
(***************************************************************************)
(* The two ends of the MessageChannel between a host page and the embedded *)
(* dashboard's iframe: calls with a reply (get), and messages without one  *)
(* (emit).  Source: ax-bi-frontend/packages/ax-bi-switchboard.             *)
(*                                                                         *)
(* Each end is a Switchboard object on one MessagePort; every get attaches *)
(* a further listener to the same port, so a message is seen by the        *)
(* object's own listener and by the listener of every call still waiting.  *)
(***************************************************************************)
EXTENDS Naturals, Sequences

CONSTANTS Calls,   \* get() calls that may be made, by either end
          Caller,  \* which end makes a call
          NoId     \* a call that has not been sent has no message id

Ends == {"host", "frame"}
OtherEnd(e) == IF e = "host" THEN "frame" ELSE "host"

ASSUME CallerAssumption == Caller \in [Calls -> Ends]

Ids == [from : Ends, n : Nat]

ASSUME NoIdAssumption == NoId \notin Ids

VARIABLES
  started,      \* the port delivers (messages wait until start())
  queue,        \* messages on their way to an end, in order
  alive,        \* the page holding the frame's end exists
  incrementor,  \* per end: number of the next call
  messageId,    \* per call: the id it waits for
  call,         \* per call: idle, waiting, resolved, rejected, timed_out or gone
  answer,       \* per call: the call whose method produced what settled it
  serving       \* get messages whose method is being executed (awaited)

rpcVars == <<started, queue, alive, incrementor, messageId, call, answer, serving>>

\* Bug...: what a plausible slip in this code would do; no action uses them.
\* PROJECT.json says which definition each one stands in for, and which
\* property notices.
BugSameId(e) == [from |-> e, n |-> 1]

\* `m_${name}_${id}`: the two ends have different names, kept here as the end.
NewMessageId(e) == [from |-> e, n |-> incrementor[e]]

GetMessage(id, c)         == [action |-> "get", id |-> id, body |-> c]
AnswerMessage(kind, id, c) == [action |-> kind, id |-> id, body |-> c]
EmitMessage(p)            == [action |-> "emit", id |-> NoId, body |-> p]

CallMessage == [action : {"get", "reply", "error"}, id : Ids, body : Calls]
EmitMessages(P) == [action : {"emit"}, id : {NoId}, body : P]

CallStates == {"idle", "waiting", "resolved", "rejected", "timed_out", "gone"}

\* The queues also hold what the ends emit.
RpcTypeOK ==
  /\ started \in [Ends -> BOOLEAN] /\ alive \in BOOLEAN
  /\ incrementor \in [Ends -> Nat]
  /\ messageId \in [Calls -> Ids \cup {NoId}]
  /\ call \in [Calls -> CallStates]
  /\ answer \in [Calls -> Calls \cup {NoId}]
  /\ serving \in [Ends -> SUBSET CallMessage]

\* postMessage from the other end; a port whose page is gone swallows it.
Posted(q, e, m) ==
  IF e = "frame" /\ ~alive THEN q ELSE [q EXCEPT ![e] = Append(@, m)]

RpcInit ==
  /\ started = [e \in Ends |-> FALSE]
  /\ queue = [e \in Ends |-> <<>>]
  /\ alive = TRUE
  /\ incrementor = [e \in Ends |-> 1]
  /\ messageId = [c \in Calls |-> NoId]
  /\ call = [c \in Calls |-> "idle"]
  /\ answer = [c \in Calls |-> NoId]
  /\ serving = [e \in Ends |-> {}]

-----------------------------------------------------------------------------
\* get(): allocate an id, attach the listener, start the port, send.
Get(c) ==
  LET e == Caller[c] IN
  /\ call[c] = "idle"
  /\ call' = [call EXCEPT ![c] = "waiting"]
  /\ messageId' = [messageId EXCEPT ![c] = NewMessageId(e)]
  /\ incrementor' = [incrementor EXCEPT ![e] = @ + 1]
  /\ started' = [started EXCEPT ![e] = TRUE]
  /\ queue' = Posted(queue, OtherEnd(e), GetMessage(NewMessageId(e), c))
  /\ UNCHANGED <<alive, answer, serving>>

Matches(c, e, m) ==
  Caller[c] = e /\ call[c] = "waiting" /\ m.id = messageId[c]

\* What a listener makes of a message that carries its id.
Outcome(m) == IF m.action = "reply" THEN "resolved" ELSE "rejected"

\* A get, reply or error message reaches every listener of the port.
Deliver(e) ==
  LET m == Head(queue[e]) IN
  /\ started[e] /\ queue[e] # <<>> /\ m.action # "emit"
  /\ queue' = [queue EXCEPT ![e] = Tail(@)]
  /\ call' = [c \in Calls |-> IF Matches(c, e, m) THEN Outcome(m) ELSE call[c]]
  /\ answer' = [c \in Calls |-> IF Matches(c, e, m) THEN m.body ELSE answer[c]]
  /\ serving' = IF m.action = "get"
                THEN [serving EXCEPT ![e] = @ \cup {m}] ELSE serving
  /\ UNCHANGED <<started, alive, incrementor, messageId>>

BugRepliesAndFails(e, m) ==
  /\ m \in serving[e]
  /\ serving' = [serving EXCEPT ![e] = @ \ {m}]
  /\ queue' = Posted(Posted(queue, OtherEnd(e), AnswerMessage("reply", m.id, m.body)),
                     OtherEnd(e), AnswerMessage("error", m.id, m.body))
  /\ UNCHANGED <<started, alive, incrementor, messageId, call, answer>>

\* The method's promise settles: its result, or an error if it threw.
Serve(e, m) ==
  /\ m \in serving[e]
  /\ serving' = [serving EXCEPT ![e] = @ \ {m}]
  /\ \E kind \in {"reply", "error"} :
       queue' = Posted(queue, OtherEnd(e), AnswerMessage(kind, m.id, m.body))
  /\ UNCHANGED <<started, alive, incrementor, messageId, call, answer>>

\* The timer of a get fires first.
CallTimesOut(c) ==
  /\ call[c] = "waiting"
  /\ call' = [call EXCEPT ![c] = "timed_out"]
  /\ UNCHANGED <<started, queue, alive, incrementor, messageId, answer, serving>>

\* The frame's page goes away (removed from the host page, or reloaded):
\* what it was told, was doing and was waiting for is lost.
FramePageEnds ==
  /\ alive' = FALSE
  /\ started' = [started EXCEPT !["frame"] = FALSE]
  /\ queue' = [queue EXCEPT !["frame"] = <<>>]
  /\ serving' = [serving EXCEPT !["frame"] = {}]
  /\ call' = [c \in Calls |-> IF Caller[c] = "frame" /\ call[c] \in {"idle", "waiting"}
                              THEN "gone" ELSE call[c]]
  /\ UNCHANGED <<incrementor, messageId, answer>>

-----------------------------------------------------------------------------
Settled(c) == call[c] \in {"resolved", "rejected", "timed_out", "gone"}

(* A call is settled by a message only with the outcome of its own method, *)
(* however many calls of both ends share the channel and however late or   *)
(* out of order the answers come (the messageId comparison in get).        *)
OwnAnswer == \A c \in Calls : call[c] \in {"resolved", "rejected"} => answer[c] = c

\* Where a call is: on its way, being executed, or its answer on the way back.
OnItsWay(c, e, kinds) ==
  \E i \in DOMAIN queue[e] : queue[e][i].action \in kinds /\ queue[e][i].body = c
Asked(c)    == OnItsWay(c, OtherEnd(Caller[c]), {"get"})
Serving(c)  == \E m \in serving[OtherEnd(Caller[c])] : m.body = c
Answered(c) == OnItsWay(c, Caller[c], {"reply", "error"})

PlaceOf(c) == IF Answered(c) THEN "answered"
              ELSE IF Serving(c) THEN "serving"
              ELSE IF Asked(c) THEN "asked" ELSE "none"

(* Each call on its own is a remote call: whatever else crosses the channel,  *)
(* however late answers come and whichever page goes away, its method is      *)
(* executed at most once and its answer is used at most once.                 *)
RemoteCallOf(c) == INSTANCE RemoteCall WITH call <- call[c], place <- PlaceOf(c)
RefinesRemoteCall ==
  /\ \A c \in Calls : RemoteCallOf(c)!Init
  /\ [][\A c \in Calls : [RemoteCallOf(c)!Next]_(RemoteCallOf(c)!callVars)]_rpcVars
=============================================================================
