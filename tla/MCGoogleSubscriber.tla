------------------------- MODULE MCGoogleSubscriber -------------------------
(***************************************************************************)
(* GoogleSubscriber for TLC: three deliveries.                             *)
(***************************************************************************)
EXTENDS GoogleSubscriber

CONSTANTS d1, d2, d3

MCDeliveries == {d1, d2, d3}
=============================================================================
