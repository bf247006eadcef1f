--------------------------- MODULE PublisherPool ---------------------------
(***************************************************************************)
(* What the MessagePublisher of core/publisher/publisher.go promises about *)
(* the publishers of its destinations: each destination gets at most one,  *)
(* created on first use; Close ends the pool, closes each of them once and *)
(* then nothing is created any more.                                       *)
(***************************************************************************)
CONSTANT Destinations

VARIABLES state,    \* state[d]: "absent", "open" or "closed"
          phase     \* "open", "closing" or "closed"

vars == <<state, phase>>

Init ==
    /\ state = [d \in Destinations |-> "absent"]
    /\ phase = "open"

Create(d) ==
    /\ phase = "open"
    /\ state[d] = "absent"
    /\ state' = [state EXCEPT ![d] = "open"]
    /\ UNCHANGED phase

BeginClose ==
    /\ phase = "open"
    /\ phase' = "closing"
    /\ UNCHANGED state

CloseOne(d) ==
    /\ phase = "closing"
    /\ state[d] = "open"
    /\ state' = [state EXCEPT ![d] = "closed"]
    /\ UNCHANGED phase

EndClose ==
    /\ phase = "closing"
    /\ \A d \in Destinations : state[d] # "open"
    /\ phase' = "closed"
    /\ UNCHANGED state

Next ==
    \/ BeginClose
    \/ EndClose
    \/ \E d \in Destinations : Create(d) \/ CloseOne(d)

Spec == Init /\ [][Next]_vars
=============================================================================
