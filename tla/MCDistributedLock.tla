-------------------------- MODULE MCDistributedLock --------------------------
(* Small instances of DistributedLock for TLC. *)
EXTENDS DistributedLock, TLC

CONSTANTS a, b, c3
SkewedClocks == (a :> 0) @@ (b :> 1) @@ (c3 :> 2)
OneClock     == (a :> 0) @@ (b :> 0) @@ (c3 :> 0)
==============================================================================
