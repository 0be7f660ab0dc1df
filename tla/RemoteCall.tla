----------------------------- MODULE RemoteCall ------------------------------
(* What get() of a Switchboard promises for one call: the method on the other   *)
(* end is executed at most once, for a call that was made; its outcome settles  *)
(* the call if the call still waits, and nothing else does but its timer and    *)
(* the end of the caller's page.                                                *)
(* Switchboard is shown to implement this specification.                        *)

VARIABLES
  call,   \* the caller's promise
  place   \* how far the call came: none, asked, serving or answered

callVars == <<call, place>>

Init == call = "idle" /\ place = "none"

\* The request is on its way, unless nobody is there to receive it.
Ask == /\ call = "idle" /\ place = "none"
       /\ call' = "waiting"
       /\ place' \in {"asked", "none"}

Execute == /\ place = "asked" /\ place' = "serving"
           /\ UNCHANGED call

Answer == /\ place = "serving" /\ place' \in {"answered", "none"}
          /\ UNCHANGED call

\* The answer reaches the caller, which may have given up.
Settle == /\ place = "answered" /\ place' = "none"
          /\ IF call = "waiting" THEN call' \in {"resolved", "rejected"}
                                 ELSE UNCHANGED call

GiveUp == /\ call = "waiting" /\ call' = "timed_out"
          /\ UNCHANGED place

\* One of the pages goes away, and with it what it was to do or to learn.
Lose == /\ place' \in {place, "none"}
        /\ \/ UNCHANGED call
           \/ call \in {"idle", "waiting"} /\ call' = "gone"

Next == Ask \/ Execute \/ Answer \/ Settle \/ GiveUp \/ Lose

Spec == Init /\ [][Next]_callVars
==============================================================================
