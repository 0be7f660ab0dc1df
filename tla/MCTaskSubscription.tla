------------------------- MODULE MCTaskSubscription -------------------------
(* Small instances of TaskSubscription for TLC. *)
EXTENDS TaskSubscription, TLC

CONSTANTS ann, bob, root
Symmetry == Permutations({ann, bob})
=============================================================================
