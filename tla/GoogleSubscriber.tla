-------------------------- MODULE GoogleSubscriber --------------------------
(***************************************************************************)
(* Receive of google/subscriber.go, and beside it the receiving loops of   *)
(* the other subscribers: the two ways in which the code uses a            *)
(* Dispatcher.  A loop calls Dispatch and Wait (Dispatcher.tla).  Google   *)
(* gives the Pub/Sub client a callback that calls Handle and nothing else: *)
(* no slot, no WaitGroup and no nack of what was not handled.  The client  *)
(* calls it in a goroutine per message, limits them itself                 *)
(* (MaxOutstandingMessages), and waits for them before its Receive         *)
(* returns; slots and wg stand for its flow control and its wait group.    *)
(***************************************************************************)
EXTENDS Dispatcher

VARIABLE callbacks   \* Receive is the one of Google

GoogleInit == Init /\ callbacks \in BOOLEAN

\* The client runs the callback for d; one that was scheduled before ctx was done
\* still runs after it.
Callback(d) ==
    /\ loop = "receiving"
    /\ pc[d] = "idle"
    /\ slots < MaxInFlight
    /\ slots' = slots + 1
    /\ wg' = wg + 1
    /\ pc' = [pc EXCEPT ![d] = "handler"]
    /\ UNCHANGED <<outcome, expired, settled, panicking, ctxDone, loop, crashed>>

\* pubMsg.Ack and pubMsg.Nack have no result: with a client, AckMayFail is FALSE.
HandleStep(d) == DeadlineExpires(d) \/ HandlerEnds(d) \/ Settle(d) \/ Finish(d)

\* The client's Receive stops when ctx is done, or with an error, and returns after
\* the callbacks have returned; so does Receive, with the error if there is one.
ClientReceive == CtxDone \/ Wait \/ WaitReturns

GoogleNext ==
    /\ IF callbacks
       THEN \/ ~crashed /\ (ClientReceive \/ \E d \in Deliveries : Callback(d) \/ HandleStep(d))
            \/ Terminated
       ELSE Next
    /\ UNCHANGED callbacks

\* Fairness as in Dispatcher: the client stops once ctx is done.
GoogleFairSpec == GoogleInit /\ [][GoogleNext]_<<vars, callbacks>> /\ Fairness
=============================================================================
