----------------------- MODULE DistributedLockProofs -----------------------
(* The safety of the distributed lock, for any clients, any TTL and any clocks *)
(* that differ by less than it.                                                *)
EXTENDS DistributedLock, TLAPS

(* A client inside its lease is on record, and the entry has as much life left  *)
(* as the lease: TTL + Skew[c] at the start, one less for every unit of time.   *)
LeaseInv == \A c \in Clients :
              InLease(c) => owner = c /\ left = (TTL + Skew[c]) - elapsed[c]

Inv == TypeOK /\ LeaseInv

USE BackendAssumption, TimeAssumption, SkewAssumption, OwnerAssumption DEF Horizon

LEMMA InitInv == Init => Inv
  BY DEF Init, Inv, TypeOK, LeaseInv, InLease

(* An entry that somebody may remove is one no other lease relies on. *)
LEMMA FreeMeansNoLease ==
  ASSUME Inv, NEW c \in Clients, Free(c), NEW d \in Clients
  PROVE  ~InLease(d)
<1>1. SUFFICES ASSUME InLease(d) PROVE FALSE
  OBVIOUS
<1>2. owner = d /\ left = (TTL + Skew[d]) - elapsed[d]
  BY <1>1 DEF Inv, LeaseInv
<1>3. Skew[c] \in 0..MaxSkew /\ Skew[d] \in 0..MaxSkew /\ elapsed[d] \in Nat
  BY DEF Inv, TypeOK
<1>4. left > MaxSkew
  BY <1>1, <1>2, <1>3 DEF InLease
<1>5. Expired(c)
  BY <1>2 DEF Free
<1>. QED
  BY <1>3, <1>4, <1>5 DEF Expired, Inv, TypeOK

LEMMA PutEntryKeepsTypes ==
  ASSUME TypeOK, NEW c \in Clients, PutEntry(c)
  PROVE  owner' \in Clients \cup {NoOwner} /\ left' \in 0..Horizon
<1>1. Skew[c] \in 0..MaxSkew
  OBVIOUS
<1>. QED
  BY <1>1 DEF PutEntry, TypeOK

LEMMA NextInv == Inv /\ [Next]_vars => Inv'
<1>. SUFFICES ASSUME Inv, [Next]_vars PROVE Inv'
  OBVIOUS
<1>1. ASSUME NEW c \in Clients, Acquire(c) PROVE Inv'
  <2>1. TypeOK'
    BY <1>1, PutEntryKeepsTypes DEF Acquire, TypeOK, Inv
  <2>2. ASSUME NEW d \in Clients, InLease(d)' PROVE (owner = d /\ left = (TTL + Skew[d]) - elapsed[d])'
    <3>1. CASE d = c
      BY <1>1, <3>1 DEF Acquire, PutEntry, Inv, TypeOK
    <3>2. CASE d # c
      <4>1. InLease(d)
        BY <1>1, <2>2, <3>2 DEF Acquire, InLease, Inv, TypeOK
      <4>2. ~InLease(d)
        BY <1>1, FreeMeansNoLease DEF Acquire, PutEntry
      <4>. QED BY <4>1, <4>2
    <3>. QED BY <3>1, <3>2
  <2>. QED BY <2>1, <2>2 DEF Inv, LeaseInv
<1>2. ASSUME NEW c \in Clients, AcquireUnanswered(c) PROVE Inv'
  <2>1. TypeOK'
    BY <1>2, PutEntryKeepsTypes DEF AcquireUnanswered, TypeOK, Inv
  <2>2. ASSUME NEW d \in Clients PROVE ~InLease(d)'
    <3>1. ~InLease(d)
      BY <1>2, FreeMeansNoLease DEF AcquireUnanswered, PutEntry
    <3>. QED BY <1>2, <3>1 DEF AcquireUnanswered, InLease
  <2>. QED BY <2>1, <2>2 DEF Inv, LeaseInv
<1>3. ASSUME NEW c \in Clients, Release(c) PROVE Inv'
  <2>1. TypeOK'
    BY <1>3 DEF Release, TypeOK, Inv
  <2>2. ASSUME NEW d \in Clients, InLease(d)' PROVE (owner = d /\ left = (TTL + Skew[d]) - elapsed[d])'
    <3>1. d # c /\ InLease(d)
      BY <1>3, <2>2 DEF Release, InLease
    <3>2. owner = d /\ left = (TTL + Skew[d]) - elapsed[d]
      BY <3>1 DEF Inv, LeaseInv
    <3>3. owner' = d
      BY <1>3, <3>1, <3>2 DEF Release, Owns
    <3>. QED BY <1>3, <3>2, <3>3 DEF Release
  <2>. QED BY <2>1, <2>2 DEF Inv, LeaseInv
<1>4. ASSUME NEW c \in Clients, Abandon(c) PROVE Inv'
  <2>1. TypeOK'
    BY <1>4 DEF Abandon, TypeOK, Inv
  <2>2. ASSUME NEW d \in Clients, InLease(d)' PROVE InLease(d)
    BY <1>4, <2>2 DEF Abandon, InLease
  <2>. QED BY <1>4, <2>1, <2>2 DEF Inv, LeaseInv, Abandon
<1>5. ASSUME Tick PROVE Inv'
  <2>1. TypeOK'
    BY <1>5 DEF Tick, TypeOK, Inv
  <2>2. ASSUME NEW d \in Clients, InLease(d)' PROVE (owner = d /\ left = (TTL + Skew[d]) - elapsed[d])'
    <3>1. Skew[d] \in 0..MaxSkew /\ elapsed[d] \in 0..Horizon /\ left \in 0..Horizon
      BY DEF Inv, TypeOK
    <3>2. elapsed'[d] = IF elapsed[d] < Horizon THEN elapsed[d] + 1 ELSE Horizon
      BY <1>5 DEF Tick
    <3>3. d \in holding /\ elapsed'[d] + MaxSkew < TTL + Skew[d]
      BY <1>5, <2>2 DEF Tick, InLease
    <3>4. elapsed[d] < Horizon /\ elapsed'[d] = elapsed[d] + 1
      BY <3>1, <3>2, <3>3
    <3>5. InLease(d)
      BY <3>1, <3>3, <3>4 DEF InLease
    <3>6. owner = d /\ left = (TTL + Skew[d]) - elapsed[d]
      BY <3>5 DEF Inv, LeaseInv
    <3>7. left > 1
      BY <3>1, <3>3, <3>4, <3>6
    <3>8. left' = left - 1 /\ left' # 0
      BY <1>5, <3>1, <3>7 DEF Tick
    <3>9. owner' = d
      BY <1>5, <3>6, <3>8 DEF Tick
    <3>. QED BY <3>1, <3>4, <3>6, <3>8, <3>9
  <2>. QED BY <2>1, <2>2 DEF Inv, LeaseInv
<1>7. ASSUME NEW c \in Clients, CleanUp(c) PROVE Inv'
  <2>1. TypeOK'
    BY <1>7 DEF CleanUp, TypeOK, Inv
  <2>2. ASSUME NEW d \in Clients PROVE ~InLease(d)'
    <3>1. ~InLease(d)
      BY <1>7, FreeMeansNoLease DEF CleanUp, Free
    <3>. QED BY <1>7, <3>1 DEF CleanUp, InLease
  <2>. QED BY <2>1, <2>2 DEF Inv, LeaseInv
<1>6. CASE UNCHANGED vars
  <2>1. \A d \in Clients : InLease(d)' <=> InLease(d)
    BY <1>6 DEF vars, InLease
  <2>. QED BY <1>6, <2>1 DEF vars, Inv, TypeOK, LeaseInv
<1>. QED BY <1>1, <1>2, <1>3, <1>4, <1>5, <1>6, <1>7 DEF Next

LEMMA Invariance == Spec => []Inv
  BY InitInv, NextInv, PTL DEF Spec

(* Every variable keeps its range, for any number of clients. *)
THEOREM TypeCorrect == Spec => []TypeOK
<1>1. Inv => TypeOK
  BY DEF Inv
<1>. QED BY <1>1, Invariance, PTL

(* A client within its lease is the owner on record: neither the expiry clean-up *)
(* of the key_value rows, nor an unanswered acquisition, nor the late release of *)
(* an earlier holder takes the lock from it.                                     *)
THEOREM LeaseIsSafe == Spec => []LeaseHolderOwns
<1>1. Inv => LeaseHolderOwns
  BY DEF Inv, LeaseInv, LeaseHolderOwns
<1>. QED BY <1>1, Invariance, PTL

(* No two clients are within their leases at once. *)
THEOREM Exclusion == Spec => []MutualExclusion
<1>1. Inv => MutualExclusion
  BY DEF Inv, LeaseInv, MutualExclusion
<1>. QED BY <1>1, Invariance, PTL

(* An entry with more than a unit of time to live by every clock leaves the      *)
(* table by its owner's release.                                                 *)
THEOREM ReleaseIsOwnersAlone == Spec => OnlyOwnerReleases
<1>. DEFINE Owned == \A c \in Clients : (owner = c /\ owner' # c /\ left > MaxSkew + 1)
                        => c \in holding /\ c \notin holding'
<1>1. Inv /\ [Next]_vars => [Owned]_vars
  <2>. SUFFICES ASSUME Inv, Next, NEW c \in Clients, owner = c, owner' # c, left > MaxSkew + 1
                PROVE  c \in holding /\ c \notin holding'
    BY DEF Owned
  <2>1. ASSUME NEW d \in Clients, PutEntry(d) PROVE FALSE
    <3>1. Skew[d] \in 0..MaxSkew
      OBVIOUS
    <3>. QED BY <2>1, <3>1 DEF PutEntry, Free, Expired, Inv, TypeOK
  <2>2. ASSUME NEW d \in Clients, Release(d) PROVE c \in holding /\ c \notin holding'
    BY <2>2 DEF Release, Owns
  <2>3. ASSUME NEW d \in Clients, Abandon(d) PROVE FALSE
    BY <2>3 DEF Abandon
  <2>4. ASSUME Tick PROVE FALSE
    BY <2>4 DEF Tick, Inv, TypeOK
  <2>5. ASSUME NEW d \in Clients, CleanUp(d) PROVE FALSE
    <3>1. Skew[d] \in 0..MaxSkew
      OBVIOUS
    <3>. QED BY <2>5, <3>1 DEF CleanUp, Expired, Inv, TypeOK
  <2>. QED BY <2>1, <2>2, <2>3, <2>4, <2>5 DEF Next, Acquire, AcquireUnanswered
<1>. QED BY <1>1, Invariance, PTL DEF Spec, OnlyOwnerReleases

-----------------------------------------------------------------------------
(* Leases implement a lock.                                                     *)

Holders == {c \in Clients : InLease(c)}

LEMMA LeaseBegins ==
  ASSUME Inv, NEW c \in Clients, Acquire(c)
  PROVE  Holders = {} /\ Holders' \in {{}, {c}}
<1>1. \A d \in Clients : ~InLease(d)
  BY FreeMeansNoLease DEF Acquire, PutEntry
<1>2. ASSUME NEW d \in Clients, d # c PROVE ~InLease(d)'
  BY <1>1, <1>2 DEF Acquire, InLease, Inv, TypeOK
<1>. QED BY <1>1, <1>2 DEF Holders

LEMMA LeaseEnds ==
  ASSUME Inv, UNCHANGED vars \/ Tick \/ \E c \in Clients :
           AcquireUnanswered(c) \/ Release(c) \/ Abandon(c) \/ CleanUp(c)
  PROVE  Holders' \subseteq Holders
<1>. SUFFICES ASSUME NEW d \in Clients, InLease(d)' PROVE InLease(d)
  BY DEF Holders
<1>1. CASE UNCHANGED <<holding, elapsed>>
  BY <1>1 DEF InLease
<1>2. ASSUME NEW c \in Clients, Release(c) \/ Abandon(c) PROVE InLease(d)
  BY <1>2 DEF Release, Abandon, InLease
<1>3. CASE Tick
  <2>1. elapsed[d] \in 0..Horizon /\ Skew[d] \in 0..MaxSkew
    BY DEF Inv, TypeOK
  <2>2. elapsed'[d] = (IF elapsed[d] < Horizon THEN elapsed[d] + 1 ELSE Horizon) /\ holding' = holding
    BY <1>3 DEF Tick
  <2>. QED BY <2>1, <2>2 DEF InLease
<1>. QED BY <1>1, <1>2, <1>3 DEF vars, AcquireUnanswered, CleanUp

LEMMA OneHolder == Inv => Holders = {} \/ \E c \in Clients : Holders = {c}
  BY DEF Inv, LeaseInv, Holders

(* For any clients, TTL and clocks, the leases behave like one lock: nobody's    *)
(* begins before the last one was given back, abandoned or over.                 *)
THEOREM LeasesAreALock == Spec => RefinesLeaseLock
<1>1. Init => Lease!Init
  BY DEF Init, Lease!Init, InLease
<1>2. Inv /\ [Next]_vars => [Lease!Next]_(Holders)
  <2>. SUFFICES ASSUME Inv, [Next]_vars PROVE Lease!Next \/ Holders' = Holders
    OBVIOUS
  <2>1. ASSUME NEW c \in Clients, Acquire(c) PROVE Lease!Take(c) \/ Holders' = Holders
    BY <2>1, LeaseBegins DEF Lease!Take, Holders
  <2>2. ASSUME Holders' \subseteq Holders PROVE Lease!Next \/ Holders' = Holders
    <3>1. CASE Holders = {}
      BY <2>2, <3>1
    <3>2. ASSUME NEW c \in Clients, Holders = {c} PROVE Lease!Give(c) \/ Holders' = Holders
      BY <2>2, <3>2 DEF Lease!Give, Holders
    <3>. QED BY <3>1, <3>2, OneHolder DEF Lease!Next
  <2>. QED BY <2>1, <2>2, LeaseEnds DEF Next, Lease!Next
<1>3. Inv /\ [Next]_vars => [Lease!Next]_({c \in Clients : InLease(c)})
  BY <1>2 DEF Holders
<1>. QED BY <1>1, <1>3, Invariance, PTL DEF Spec, RefinesLeaseLock, Lease!Spec
=============================================================================
