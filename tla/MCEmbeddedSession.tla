------------------------- MODULE MCEmbeddedSession -------------------------
(* Small instances of EmbeddedSession for TLC. *)
EXTENDS EmbeddedSession, TLC

CONSTANTS size, mask, link
TwoEnds == (size :> "host") @@ (mask :> "host") @@ (link :> "frame")
=============================================================================
