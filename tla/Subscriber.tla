----------------------------- MODULE Subscriber -----------------------------
(***************************************************************************)
(* What a Subscriber promises (core/subscriber/subscriber.go): Receive     *)
(* gives every message it receives to the handler, acks it when the        *)
(* handler returns nil and nacks it when the handler returns an error or   *)
(* panics; at most MaxInFlight messages are in progress; once ctx is done  *)
(* a received message may be nacked without being handled; and Receive     *)
(* returns only when no message is in progress.                            *)
(*                                                                         *)
(* There are no goroutines, slots or counters here.  Dispatcher.tla, which *)
(* has them, is shown to implement this specification.                     *)
(***************************************************************************)
EXTENDS Naturals, FiniteSets

CONSTANTS Deliveries,      \* the messages the broker may hand to Receive
          MaxInFlight,     \* how many of them are in progress at once
          AckMayFail       \* TRUE when the broker may refuse an ack or a nack

VARIABLES status,          \* status[d]: how far delivery d is
          ctxDone,         \* the context given to Receive is done
          receive          \* "running" or "returned"

vars == <<status, ctxDone, receive>>

InProgress == {"handling", "succeeded", "failed"}
Settled    == {"acked", "nacked"}
Status     == {"unseen", "lost"} \cup InProgress \cup Settled

\* The results a settling call may have: the broker takes it, or refuses it and
\* the delivery stays unacknowledged at the broker ("lost" to this consumer).
Settling(s) == {s} \cup (IF AckMayFail THEN {"lost"} ELSE {})

Active == {d \in Deliveries : status[d] \in InProgress}

TypeOK ==
    /\ status \in [Deliveries -> Status]
    /\ ctxDone \in BOOLEAN
    /\ receive \in {"running", "returned"}

Init ==
    /\ status = [d \in Deliveries |-> "unseen"]
    /\ ctxDone = FALSE
    /\ receive = "running"

Shutdown ==
    /\ ~ctxDone
    /\ ctxDone' = TRUE
    /\ UNCHANGED <<status, receive>>

Start(d) ==
    /\ receive = "running"
    /\ status[d] = "unseen"
    /\ Cardinality(Active) < MaxInFlight
    /\ status' = [status EXCEPT ![d] = "handling"]
    /\ UNCHANGED <<ctxDone, receive>>

Reject(d) ==
    /\ receive = "running"
    /\ ctxDone
    /\ status[d] = "unseen"
    /\ \E s \in Settling("nacked") : status' = [status EXCEPT ![d] = s]
    /\ UNCHANGED <<ctxDone, receive>>

HandlerEnds(d) ==
    /\ status[d] = "handling"
    /\ \E s \in {"succeeded", "failed"} : status' = [status EXCEPT ![d] = s]
    /\ UNCHANGED <<ctxDone, receive>>

Acknowledge(d) ==
    /\ \/ /\ status[d] = "succeeded"
          /\ \E s \in Settling("acked") : status' = [status EXCEPT ![d] = s]
       \/ /\ status[d] = "failed"
          /\ \E s \in Settling("nacked") : status' = [status EXCEPT ![d] = s]
    /\ UNCHANGED <<ctxDone, receive>>

\* An ack the broker refused may be followed by a nack of the same delivery.
AckRefused(d) ==
    /\ AckMayFail
    /\ status[d] = "succeeded"
    /\ status' = [status EXCEPT ![d] = "failed"]
    /\ UNCHANGED <<ctxDone, receive>>

Return ==
    /\ receive = "running"
    /\ Active = {}
    /\ receive' = "returned"
    /\ UNCHANGED <<status, ctxDone>>

Next ==
    \/ Shutdown
    \/ Return
    \/ \E d \in Deliveries :
          \/ Start(d)
          \/ Reject(d)
          \/ HandlerEnds(d)
          \/ Acknowledge(d)
          \/ AckRefused(d)

Spec == Init /\ [][Next]_vars
=============================================================================
