--------------------------- MODULE MCTaskExecutor ---------------------------
(* Small instances of TaskExecutor for TLC. *)
EXTENDS TaskExecutor, TLC

CONSTANTS u1, u2
Symmetry == Permutations({u1, u2})
=============================================================================
