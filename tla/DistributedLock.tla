--------------------------- MODULE DistributedLock ---------------------------
(* One distributed lock (axbi/distributed_lock, axbi/commands/distributed_lock)*)
(* on one key, taken by several clients through either backend:               *)
(*   "redis"  SET NX EX, compare-and-delete; the server's clock alone counts  *)
(*   "kv"     a row of the key_value table, whose expiry every client judges   *)
(*            by its own clock                                                 *)
(* Time is kept as distances: what is left of the entry's life, and how long   *)
(* ago a client's acquisition was.  Skew[c] is how far the clock of c is ahead *)
(* of the slowest one.                                                         *)
(*                                                                             *)
(* The owner token is fresh for every acquisition.  A client makes one          *)
(* acquisition at a time and takes the lock only when no live entry is left, so *)
(* the client's name stands for its token.                                      *)
EXTENDS Naturals

CONSTANTS Clients, Backend, TTL, MaxSkew, Skew, NoOwner

ASSUME BackendAssumption == Backend \in {"redis", "kv"}
ASSUME TimeAssumption    == TTL \in Nat /\ MaxSkew \in Nat /\ TTL > MaxSkew
ASSUME SkewAssumption    == /\ Skew \in [Clients -> 0..MaxSkew]
                            /\ Backend = "redis" => \A c \in Clients : Skew[c] = 0
ASSUME OwnerAssumption   == NoOwner \notin Clients

VARIABLES owner,    \* whose token the lock entry holds, or NoOwner
          left,     \* time until expires_on, by the slowest clock
          holding,  \* the clients inside their `with` block
          elapsed   \* per client: time since its last acquisition, up to Horizon

vars == <<owner, left, holding, elapsed>>

Horizon == TTL + MaxSkew

Init == /\ owner = NoOwner /\ left = 0
        /\ holding = {} /\ elapsed = [c \in Clients |-> Horizon]

\* Operators named Bug... are faulty variants; nothing in the specification uses
\* them.  PROJECT.json says which definition each one stands in for.
BugExpiresEarly(c) == Backend = "kv" /\ left <= Skew[c] + 1

\* What c takes for an expired entry; redis removes expired keys itself.
Expired(c) == Backend = "kv" /\ left <= Skew[c]

BugFree(c) == TRUE

\* A key that does not exist, or a row that delete_expired_lock_entries removes.
Free(c) == owner = NoOwner \/ Expired(c)

\* SET key token NX EX ttl, or the insert of the row with expires_on = now + ttl.
\* A taken lock raises without changing anything.
PutEntry(c) == /\ c \notin holding /\ Free(c)
               /\ owner' = c
               /\ left' = TTL + Skew[c]

Acquire(c) == /\ PutEntry(c)
              /\ holding' = holding \cup {c}
              /\ elapsed' = [elapsed EXCEPT ![c] = 0]

\* The entry is made but the answer is lost: acquisition fails for the client,
\* nobody will release the entry.
AcquireUnanswered(c) == PutEntry(c) /\ UNCHANGED <<holding, elapsed>>

BugOwns(c) == ~Expired(c)

\* The release finds its own token, not yet expired.
Owns(c) == owner = c /\ ~Expired(c)

Release(c) == /\ c \in holding
              /\ holding' = holding \ {c}
              /\ owner' = IF Owns(c) THEN NoOwner ELSE owner
              /\ UNCHANGED <<left, elapsed>>

\* The client dies, or its release fails: redis errors are logged, KV errors raised.
Abandon(c) == /\ c \in holding
              /\ holding' = holding \ {c}
              /\ UNCHANGED <<owner, left, elapsed>>

\* Whoever takes the lock of another key removes the expired rows of all keys.
CleanUp(c) == /\ owner # NoOwner /\ Expired(c)
              /\ owner' = NoOwner
              /\ UNCHANGED <<left, holding, elapsed>>

BugNoExpiry == /\ left' = left /\ owner' = owner
               /\ elapsed' = [c \in Clients |-> IF elapsed[c] < Horizon THEN elapsed[c] + 1
                                                ELSE Horizon]
               /\ UNCHANGED holding
\* A unit of time passes.
Tick == /\ left' = IF left = 0 THEN 0 ELSE left - 1
        /\ owner' = IF Backend = "redis" /\ left' = 0 THEN NoOwner ELSE owner
        /\ elapsed' = [c \in Clients |-> IF elapsed[c] < Horizon THEN elapsed[c] + 1
                                         ELSE Horizon]
        /\ UNCHANGED holding

Next == \/ \E c \in Clients : \/ Acquire(c) \/ AcquireUnanswered(c)
                              \/ Release(c) \/ Abandon(c) \/ CleanUp(c)
        \/ Tick

Spec == Init /\ [][Next]_vars
FairSpec == Spec /\ WF_vars(Tick)

------------------------------------------------------------------------------
\* Every variable stays in its range.
TypeOK == /\ owner \in Clients \cup {NoOwner}
          /\ left \in 0..Horizon
          /\ holding \in SUBSET Clients
          /\ elapsed \in [Clients -> 0..Horizon]

\* The lease c was given, less what other clocks may be ahead of its own.
InLease(c) == c \in holding /\ elapsed[c] + MaxSkew < TTL + Skew[c]

\* Within its lease a client is the owner on record: no expiry clean-up, lost
\* answer or late release of somebody else took the lock away from it.
LeaseHolderOwns == \A c \in Clients : InLease(c) => owner = c

\* Two clients are never both within their leases (locks.py: mutual exclusion).
MutualExclusion == \A c, d \in Clients : InLease(c) /\ InLease(d) => c = d

\* Leases follow one another like the owners of a lock: whatever the clocks, lost
\* answers and late releases, one begins only when there is none (locks.py,
\* commands/distributed_lock).
Lease == INSTANCE LeaseLock WITH holders <- {c \in Clients : InLease(c)}
RefinesLeaseLock == Lease!Spec

\* An entry with more than a unit of time to live by every clock is removed by its
\* owner's release only, not by whoever cleans up, nor by the late release of an
\* earlier holder whose lease has expired.
OnlyOwnerReleases ==
  [][\A c \in Clients : (owner = c /\ owner' # c /\ left > MaxSkew + 1)
        => c \in holding /\ c \notin holding']_vars

\* The lock of a client that died, or whose release failed, lapses with its TTL
\* and can be taken again (distributed_lock/__init__.py: prevent deadlocks from
\* crashed processes).
AbandonedLockLapses ==
  \A c \in Clients :
    (owner = c /\ c \notin holding) ~> (owner # c \/ c \in holding \/ \E d \in Clients : Free(d))
==============================================================================
