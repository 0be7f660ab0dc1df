-------------------------- MODULE EmbeddedSession --------------------------
(***************************************************************************)
(* A dashboard embedded in a host page: embedDashboard() of the SDK        *)
(* (ax-bi-embedded-sdk) mounts the iframe, fetches a guest token, sends it *)
(* over the Switchboard and keeps it fresh; the embedded page              *)
(* (ax-bi-frontend/src/embedded) starts the application when it has one.   *)
(***************************************************************************)
EXTENDS Switchboard

CONSTANT MaxQueue   \* bound: messages waiting for the frame

ASSUME QueueAssumption == MaxQueue \in Nat

Tokens == {"good", "bad"}   \* bad: refused by the server, not decodable

VARIABLES
  embed,       \* embedDashboard(): embedding, live, failed or unmounted
  mounted,     \* the iframe is in the host page
  loaded,      \* its load event fired: the port was handed over
  token,       \* the initial token, "none" until it was fetched
  fetching,    \* a fetchGuestToken() the SDK waits for
  timer,       \* the refresh timer is set
  sentIn,      \* states of the embedding in which a token was emitted
  client,      \* the token AxBIClient is configured with in the frame
  appStarted,  \* `started` in the embedded page
  asking,      \* requests for the user's roles in flight, by the token they carry
  rendered,    \* the dashboard is rendered
  blanked      \* it was taken down by a `beforeunload` of a page that stayed

hostVars  == <<embed, mounted, loaded, token, fetching, timer, sentIn>>
frameVars == <<client, appStarted, asking, rendered, blanked>>
vars == <<rpcVars, hostVars, frameVars>>

NoRequest == [tok \in Tokens |-> 0]

Embeddings == {"embedding", "live", "failed", "unmounted"}

TypeOK ==
  /\ RpcTypeOK
  /\ queue \in [Ends -> Seq(CallMessage \cup EmitMessages(Tokens))]
  /\ embed \in Embeddings /\ sentIn \in SUBSET Embeddings
  /\ mounted \in BOOLEAN /\ loaded \in BOOLEAN
  /\ fetching \in BOOLEAN /\ timer \in BOOLEAN
  /\ token \in Tokens \cup {"none"} /\ client \in Tokens \cup {"none"}
  /\ appStarted \in BOOLEAN /\ asking \in [Tokens -> 0..1]
  /\ rendered \in BOOLEAN /\ blanked \in BOOLEAN

Init ==
  /\ RpcInit
  /\ embed = "embedding" /\ mounted = TRUE /\ loaded = FALSE
  /\ token = "none" /\ fetching = TRUE /\ timer = FALSE
  /\ sentIn = {}
  /\ client = "none" /\ appStarted = FALSE /\ asking = NoRequest /\ rendered = FALSE
  /\ blanked = FALSE

EmitToken(tok) ==
  /\ queue' = Posted(queue, "frame", EmitMessage(tok))
  /\ sentIn' = sentIn \cup {embed}
RoomForToken == Len(queue["frame"]) < MaxQueue

\* The end of the page takes everything it knew with it.
FrameForgets ==
  /\ FramePageEnds
  /\ client' = "none" /\ appStarted' = FALSE /\ asking' = NoRequest
  /\ rendered' = FALSE /\ blanked' = FALSE

-----------------------------------------------------------------------------
(* The host page: embedDashboard().                                        *)

\* fetchGuestToken() resolves while embedding.
TokenArrives ==
  /\ embed = "embedding" /\ fetching
  /\ token' \in Tokens
  /\ fetching' = FALSE
  /\ UNCHANGED <<rpcVars, frameVars, embed, mounted, loaded, timer, sentIn>>

\* It rejects or times out: the iframe is taken down again.
EmbedFails ==
  /\ embed = "embedding" /\ fetching
  /\ embed' = "failed" /\ fetching' = FALSE /\ mounted' = FALSE
  /\ FrameForgets
  /\ UNCHANGED <<loaded, token, timer, sentIn>>

\* The load event: create the channel, post the frame its port.
IframeLoads ==
  /\ mounted /\ ~loaded
  /\ loaded' = TRUE
  /\ UNCHANGED <<rpcVars, frameVars, embed, mounted, token, fetching, timer, sentIn>>

\* Promise.all has both: send the token, then compute when to refresh it,
\* which throws on a token that cannot be decoded.
GoLive ==
  /\ embed = "embedding" /\ loaded /\ token # "none"
  /\ EmitToken(token)
  /\ \/ /\ token = "good"
        /\ embed' = "live" /\ timer' = TRUE
        /\ started' = [started EXCEPT !["host"] = TRUE]
     \/ /\ token = "bad"
        /\ embed' = "failed"
        /\ UNCHANGED <<timer, started>>
  /\ UNCHANGED <<alive, incrementor, messageId, call, answer, serving>>
  /\ UNCHANGED <<frameVars, mounted, loaded, token, fetching>>

\* refreshGuestToken() is called by its timer.
RefreshStarts ==
  /\ timer
  /\ timer' = FALSE
  /\ fetching' = (embed # "unmounted")
  /\ UNCHANGED <<rpcVars, frameVars, embed, mounted, loaded, token, sentIn>>

\* Bug...: what a plausible slip in this code would do; no action uses them.
\* PROJECT.json says which definition each one stands in for, and which
\* property notices.
BugSendsUnmounted(tok) ==
  /\ embed \in {"live", "unmounted"} /\ fetching
  /\ fetching' = FALSE
  /\ RoomForToken /\ EmitToken(tok)
  /\ timer' = (embed = "live")
  /\ UNCHANGED <<started, alive, incrementor, messageId, call, answer, serving>>
  /\ UNCHANGED <<frameVars, embed, mounted, loaded, token>>

\* The fetch resolves. Whether or not the token can be decoded it is sent
\* first; the timer is set for its expiry, or by the catch for a retry.
RefreshArrives(tok) ==
  /\ embed \in {"live", "unmounted"} /\ fetching
  /\ fetching' = FALSE
  /\ \/ /\ embed = "live" /\ RoomForToken
        /\ EmitToken(tok)
        /\ timer' = TRUE
     \/ /\ embed = "unmounted"
        /\ UNCHANGED <<queue, timer, sentIn>>
  /\ UNCHANGED <<started, alive, incrementor, messageId, call, answer, serving>>
  /\ UNCHANGED <<frameVars, embed, mounted, loaded, token>>

BugNoRetry ==
  /\ embed \in {"live", "unmounted"} /\ fetching
  /\ fetching' = FALSE
  /\ UNCHANGED <<rpcVars, frameVars, embed, mounted, loaded, token, timer, sentIn>>

\* The fetch rejects or times out.
RefreshFails ==
  /\ embed \in {"live", "unmounted"} /\ fetching
  /\ fetching' = FALSE
  /\ timer' = (embed = "live")
  /\ UNCHANGED <<rpcVars, frameVars, embed, mounted, loaded, token, sentIn>>

Unmount ==
  /\ embed = "live"
  /\ embed' = "unmounted" /\ timer' = FALSE /\ mounted' = FALSE
  /\ FrameForgets
  /\ UNCHANGED <<loaded, token, fetching, sentIn>>

-----------------------------------------------------------------------------
(* The embedded page.                                                      *)

\* The window message with the port: Switchboard.init, defineMethod, start.
Handshake ==
  /\ loaded /\ alive /\ ~started["frame"]
  /\ started' = [started EXCEPT !["frame"] = TRUE]
  /\ UNCHANGED <<queue, alive, incrementor, messageId, call, answer, serving>>
  /\ UNCHANGED <<hostVars, frameVars>>

BugStartsAgain ==
  /\ started["frame"] /\ queue["frame"] # <<>>
  /\ Head(queue["frame"]).action = "emit"
  /\ queue' = [queue EXCEPT !["frame"] = Tail(@)]
  /\ client' = Head(queue["frame"]).body
  /\ appStarted' = TRUE /\ asking' = [asking EXCEPT ![client'] = @ + 1]
  /\ UNCHANGED <<started, alive, incrementor, messageId, call, answer, serving>>
  /\ UNCHANGED <<hostVars, rendered, blanked>>

\* The guestToken method: setupGuestClient, start().
ReceiveToken ==
  /\ started["frame"] /\ queue["frame"] # <<>>
  /\ Head(queue["frame"]).action = "emit"
  /\ queue' = [queue EXCEPT !["frame"] = Tail(@)]
  /\ client' = Head(queue["frame"]).body
  /\ \/ /\ appStarted
        /\ UNCHANGED <<appStarted, asking>>
     \/ /\ ~appStarted
        /\ appStarted' = TRUE /\ asking' = [asking EXCEPT ![client'] = @ + 1]
  /\ UNCHANGED <<started, alive, incrementor, messageId, call, answer, serving>>
  /\ UNCHANGED <<hostVars, rendered, blanked>>

\* getMeWithRole() resolves: its token was good.
RolesArrive ==
  /\ asking["good"] > 0
  /\ asking' = [asking EXCEPT !["good"] = @ - 1]
  /\ rendered' = TRUE
  /\ UNCHANGED <<rpcVars, hostVars, client, appStarted, blanked>>

BugStaysStarted(tok) ==
  /\ asking[tok] > 0
  /\ asking' = [asking EXCEPT ![tok] = @ - 1]
  /\ UNCHANGED <<rpcVars, hostVars, client, appStarted, rendered, blanked>>

\* It rejects; the guard is reset so that a later token retries.
RolesRefused(tok) ==
  /\ asking[tok] > 0
  /\ asking' = [asking EXCEPT ![tok] = @ - 1]
  /\ appStarted' = FALSE
  /\ UNCHANGED <<rpcVars, hostVars, client, rendered, blanked>>

\* The page's `beforeunload` handler unmounts the dashboard.  The browser
\* fires the event before it knows that the page will end: on a mailto: link,
\* a download, or a departure the user then declines, the page stays, with
\* `started` set.
PageStays ==
  /\ alive /\ rendered
  /\ rendered' = FALSE /\ blanked' = TRUE
  /\ UNCHANGED <<rpcVars, hostVars, client, appStarted, asking>>

\* The page in the iframe is reloaded. The load event hands the new page a
\* port of a new channel, but the SDK goes on using the old one.
FrameReloads ==
  /\ mounted /\ loaded /\ alive
  /\ FrameForgets
  /\ UNCHANGED hostVars

-----------------------------------------------------------------------------
HostMayCall(c)  == Caller[c] = "host" /\ embed \in {"live", "unmounted"}
FrameMayCall(c) == Caller[c] = "frame" /\ rendered

Call(c) ==
  /\ HostMayCall(c) \/ FrameMayCall(c)
  /\ Get(c)
  /\ UNCHANGED <<hostVars, frameVars>>

Message(e) == Deliver(e) /\ UNCHANGED <<hostVars, frameVars>>
Answer(e, m) == Serve(e, m) /\ UNCHANGED <<hostVars, frameVars>>
GiveUp(c) == CallTimesOut(c) /\ UNCHANGED <<hostVars, frameVars>>

Next ==
  \/ TokenArrives \/ EmbedFails \/ IframeLoads \/ GoLive
  \/ RefreshStarts \/ RefreshFails \/ Unmount
  \/ \E tok \in Tokens : RefreshArrives(tok) \/ RolesRefused(tok)
  \/ Handshake \/ ReceiveToken \/ RolesArrive \/ PageStays \/ FrameReloads
  \/ \E c \in Calls : Call(c) \/ GiveUp(c)
  \/ \E e \in Ends : Message(e) \/ \E m \in serving[e] : Answer(e, m)

Spec == Init /\ [][Next]_vars

\* Timers fire, events and messages are delivered.
Fairness ==
  /\ WF_vars(IframeLoads) /\ WF_vars(Handshake) /\ WF_vars(GoLive)
  /\ WF_vars(ReceiveToken) /\ WF_vars(RefreshStarts)
  /\ \A e \in Ends : WF_vars(Message(e))
  /\ \A c \in Calls : WF_vars(GiveUp(c))

\* What the code leaves to others.  Some day the host's callback supplies good
\* tokens only, if not every time it is asked.
HostRecovers ==
  /\ <>[][~RefreshArrives("bad")]_vars
  /\ SF_vars(RefreshArrives("good"))

\* Nor does the server refuse good tokens for ever.  That a request for the
\* roles ends at all is not assumed: it has no timeout.
ServerRecovers == <>[][~RolesRefused("good")]_vars

FairSpec == Spec /\ Fairness /\ HostRecovers /\ ServerRecovers

-----------------------------------------------------------------------------
(* A live session has exactly one refresh cycle: a timer or a fetch, never *)
(* both and never neither, however fetches fail, time out or return a      *)
(* token that cannot be decoded (refreshGuestToken and its catch).         *)
OneRefreshCycle ==
  /\ embed = "live" => timer # fetching
  /\ embed # "live" => ~timer

(* The embedded page never starts the application twice at once, although  *)
(* tokens keep arriving while the first start is under way or has failed.  *)
OneStart ==
  /\ asking["good"] + asking["bad"] <= 1
  /\ asking # NoRequest => appStarted /\ ~rendered

(* Once unmounted, a fetch that was under way ends without its token being *)
(* emitted or the timer being set, and none is begun.                      *)
UnmountedIsQuiet ==
  [][embed = "unmounted" => sentIn' = sentIn /\ ~timer' /\ (fetching' => fetching)]_vars

(* A settled call stays as it was settled: late answers change nothing.    *)
SettledOnce ==
  [][\A c \in Calls : Settled(c) => call'[c] = call[c] /\ answer'[c] = answer[c]]_vars

(* A live session shows its dashboard, even if tokens or the first start   *)
(* fail, provided the host and the server recover and no request for the   *)
(* roles hangs.  It may lose it again to an unmount, a reload of the page  *)
(* or a `beforeunload` that does not end the page: start() is then not run *)
(* a second time.                                                          *)
DashboardComesUp ==
  \/ <>[](asking # NoRequest)
  \/ embed = "live" ~> (rendered \/ embed = "unmounted" \/ ~alive \/ blanked)
=============================================================================
