----------------------------- MODULE MCPipeline -----------------------------
(***************************************************************************)
(* Pipeline for TLC: two middlewares of the engine and one of the route,   *)
(* each of any kind, and two messages.                                     *)
(***************************************************************************)
EXTENDS Pipeline

CONSTANTS c1, c2, m1, m2, r1

MCRouteLayers == <<r1>>

\* Messages are interchangeable, and so are middlewares before they have a kind.
Symmetry == Permutations({c1, c2}) \cup Permutations({m1, m2})
=============================================================================
