--------------------------- MODULE MCAsyncEvents ---------------------------
(* A small instance of AsyncEvents for TLC: one job that ends well, one that fails. *)
EXTENDS AsyncEvents, TLC

CONSTANTS j1, j2
TwoJobs == {j1, j2}
GoodAndBad == (j1 :> "done") @@ (j2 :> "error")
=============================================================================
