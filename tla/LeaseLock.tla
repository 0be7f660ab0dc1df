------------------------------ MODULE LeaseLock ------------------------------
(* What a lock with leases promises to the code inside `with lock():` blocks,   *)
(* and what TaskExecutor and TaskSubscription take their task lock for: it is   *)
(* free or some client's, and it goes from one client to the next only by being *)
(* free in between, because it was given back or because the lease lapsed.      *)
(* DistributedLock is shown to implement this specification.                    *)
CONSTANT Clients

VARIABLE holders   \* who may rely on the lock

Init == holders = {}

Take(c) == holders = {} /\ holders' = {c}

\* The client releases the lock, dies, or has had it for as long as it may.
Give(c) == holders = {c} /\ holders' = {}

Next == \E c \in Clients : Take(c) \/ Give(c)

Spec == Init /\ [][Next]_holders
==============================================================================
