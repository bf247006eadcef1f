---------------------------- MODULE MCDispatcher ----------------------------
(***************************************************************************)
(* Dispatcher for TLC: three deliveries compete for the slots.             *)
(***************************************************************************)
EXTENDS Dispatcher, TLC

CONSTANTS d1, d2, d3

MCDeliveries == {d1, d2, d3}

\* Deliveries are interchangeable.  Only for the run without liveness.
Symmetry == Permutations(MCDeliveries)
=============================================================================
