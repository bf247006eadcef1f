------------------------- MODULE MCMessagePublisher -------------------------
(***************************************************************************)
(* MessagePublisher for TLC.                                               *)
(***************************************************************************)
EXTENDS MessagePublisher

CONSTANTS c1, c2, c3, k1, k2, x, y
=============================================================================
