--------------------------- MODULE AmqpSubscriber ---------------------------
(***************************************************************************)
(* The AMQP subscriber (amqp/subscriber.go) with its messages, over the    *)
(* connection and the channel of AmqpChannel: a message is delivered on    *)
(* one channel of the broker, waits in the client, is dispatched and       *)
(* handled, and is acked or nacked on the channel it came from, which may  *)
(* be lost or closed by then.                                              *)
(*                                                                         *)
(* Handler and acknowledgement are one step: a channel that ends between   *)
(* them is one that ends while the handler still runs.  Dispatcher has     *)
(* them apart.                                                             *)
(*                                                                         *)
(* External, as the code uses it: the queue.  It takes back what is        *)
(* unacked on a channel when the channel ends.  A prefetch count would     *)
(* only delay deliveries.                                                  *)
(***************************************************************************)
EXTENDS AmqpChannel

CONSTANTS
    N,            \* messages in the queue
    MaxInFlight,  \* WithMaxInFlight
    MaxStops      \* bound: how many of Stops hold at once

ASSUME SubscriberAssumption ==
    /\ N \in Nat
    /\ MaxInFlight \in Nat \ {0}
    /\ MaxStops \in Nat

Messages == 1 .. N

VARIABLES
    autoAck,    \* WithAutoAck
    requeue,    \* not WithNoRequeueOnNack
    holder,     \* holder[m]: the channel m is unacked on, 0 when it is in the queue
    gone,       \* the messages the broker has done with
    copy,       \* copy[m][j]: where in the client the m delivered on channel j is
    outcome     \* outcome[m]: the best a handler has done with m

optionVars  == <<autoAck, requeue>>
messageVars == <<holder, gone, copy, outcome>>
allVars     == <<vars, optionVars, messageVars>>

Outcome == {"none", "started", "failed", "succeeded"}
Place == {"none", "feed", "hand", "dispatching", "handling"}

DeliveryTypeOK ==
    /\ TypeOK
    /\ autoAck \in BOOLEAN
    /\ requeue \in BOOLEAN
    /\ holder \in [Messages -> {0} \cup Chans]
    /\ gone \subseteq Messages
    /\ \A m \in gone : holder[m] = 0
    /\ copy \in [Messages -> [Chans -> Place]]
    /\ outcome \in [Messages -> Outcome]

SubscriberInit ==
    /\ Init
    /\ autoAck \in BOOLEAN
    /\ requeue \in {TRUE, autoAck}   \* it makes no difference with autoAck
    /\ holder = [m \in Messages |-> 0]
    /\ gone = {}
    /\ copy = [m \in Messages |-> [j \in Chans |-> "none"]]
    /\ outcome = [m \in Messages |-> "none"]

InQueue == {m \in Messages : holder[m] = 0 /\ m \notin gone}
At(place) == {d \in Messages \X Chans : copy[d[1]][d[2]] = place}
Put(d, place) == copy' = [copy EXCEPT ![d[1]][d[2]] = place]

----------------------------------------------------------------------------
\* The queue.

\* With autoAck the broker has done with a message when it sends it.
Deliver(m) ==
    /\ Consuming /\ ~cancelled /\ ~ctxDone
    /\ m \in InQueue
    /\ Put(<<m, consumingOn>>, "feed")
    /\ IF autoAck THEN gone' = gone \cup {m} /\ UNCHANGED holder
                  ELSE holder' = [holder EXCEPT ![m] = consumingOn] /\ UNCHANGED gone
    /\ UNCHANGED <<vars, optionVars, outcome>>

\* Whatever ends a channel, what is unacked on it returns to the queue.
TakesBack ==
    /\ holder' = [m \in Messages |->
                     IF holder[m] # 0 /\ chanState'[holder[m]] # "open" THEN 0
                     ELSE holder[m]]
    /\ UNCHANGED <<optionVars, gone, copy, outcome>>

ChannelEnds ==
    /\ ConnLost \/ ChanLost \/ CloseChannel \/ ConnClose \/ QueueNotFound
    /\ TakesBack

----------------------------------------------------------------------------
\* The feeding goroutine of Consume.

ForwardMessage ==
    /\ Forward
    /\ \E m \in Messages : /\ copy[m][consumingOn] = "feed"
                           /\ Put(<<m, consumingOn>>, "hand")
    /\ UNCHANGED <<optionVars, holder, gone, outcome>>

HandOverMessage ==
    /\ HandOver
    /\ \E d \in At("hand") : Put(d, "dispatching")
    /\ UNCHANGED <<optionVars, holder, gone, outcome>>

\* The message in hand is given up: it is neither acked nor nacked.
SendGivesUpMessage ==
    /\ SendGivesUp
    /\ \E d \in At("hand") : Put(d, "none")
    /\ UNCHANGED <<optionVars, holder, gone, outcome>>

\* d is closed: after its last message when the consumer was cancelled, and at once
\* when the channel was lost.
FeedEndsEmpty ==
    /\ FeedEnds
    /\ Consuming => \A m \in Messages : copy[m][consumingOn] # "feed"
    /\ copy' = [m \in Messages |->
                   [copy[m] EXCEPT ![consumingOn] = IF @ = "feed" THEN "none" ELSE @]]
    /\ UNCHANGED <<optionVars, holder, gone, outcome>>

----------------------------------------------------------------------------
\* Dispatch, the handler, and delivery().Ack and Nack.

\* On a channel that has ended both fail, and they do nothing under autoAck.
CanSettle(d) == ~autoAck /\ holder[d[1]] = d[2]

Ack(d) ==
    /\ holder' = [holder EXCEPT ![d[1]] = IF CanSettle(d) THEN 0 ELSE @]
    /\ gone' = IF CanSettle(d) THEN gone \cup {d[1]} ELSE gone

NackAcks(d) == Ack(d)

Nack(d) ==
    /\ holder' = [holder EXCEPT ![d[1]] = IF CanSettle(d) THEN 0 ELSE @]
    /\ gone' = IF CanSettle(d) /\ ~requeue THEN gone \cup {d[1]} ELSE gone

SlotFree == Cardinality(At("handling")) < MaxInFlight

DispatchStarts(d) ==
    /\ d \in At("dispatching")
    /\ DispatchReturns
    /\ SlotFree
    /\ Put(d, "handling")
    /\ outcome' = [outcome EXCEPT ![d[1]] = IF @ = "none" THEN "started" ELSE @]
    /\ UNCHANGED <<optionVars, holder, gone>>

\* ctx is done: the message is nacked without having been handled.
DispatchRejects(d) ==
    /\ d \in At("dispatching")
    /\ DispatchReturns
    /\ ctxDone
    /\ Put(d, "none")
    /\ Nack(d)
    /\ UNCHANGED <<optionVars, outcome>>

HandlerSucceedsNacked(d) ==
    /\ d \in At("handling")
    /\ Put(d, "none")
    /\ outcome' = [outcome EXCEPT ![d[1]] = "succeeded"]
    /\ Nack(d)
    /\ UNCHANGED <<vars, optionVars>>

\* An Ack on an open channel does not fail.
HandlerSucceeds(d) ==
    /\ d \in At("handling")
    /\ Put(d, "none")
    /\ outcome' = [outcome EXCEPT ![d[1]] = "succeeded"]
    /\ Ack(d)
    /\ UNCHANGED <<vars, optionVars>>

\* Bound: once for each message.
HandlerFails(d) ==
    /\ d \in At("handling")
    /\ outcome[d[1]] = "started"
    /\ outcome' = [outcome EXCEPT ![d[1]] = "failed"]
    /\ Put(d, "none")
    /\ Nack(d)
    /\ UNCHANGED <<vars, optionVars>>

\* The deferred d.Wait() waits for the handlers.
ReceiveReturnsWaited ==
    /\ ReceiveReturns
    /\ At("handling") = {}
    /\ UNCHANGED <<optionVars, messageVars>>

----------------------------------------------------------------------------
WatchStep   == (ConnWatchStep \/ ChanWatchStep) /\ UNCHANGED <<optionVars, messageVars>>
DecideStep  == /\ \/ ConsumeStarts \/ ConsumeRefused
                  \/ CheckChannel \/ Decide \/ PauseGivesUp \/ ConsumeAgain
               /\ UNCHANGED <<optionVars, messageVars>>
SelectStep  == (ReceiveCtxDone \/ ReceiveClosed) /\ UNCHANGED <<optionVars, messageVars>>
Asked       == (BrokerCancels \/ CtxDone \/ CloseFlag) /\ UNCHANGED <<optionVars, messageVars>>

\* The reasons to stop that hold: a run with all of them is several shorter ones.
Stops == {r \in {"ctx", "channel", "connection", "broker"} :
             \/ r = "ctx" /\ ctxDone
             \/ r = "channel" /\ closed
             \/ r = "connection" /\ connClosed
             \/ r = "broker" /\ cancelled}
FeedStep    == ForwardMessage \/ HandOverMessage \/ SendGivesUpMessage \/ FeedEndsEmpty
DispatchStep(d) == DispatchStarts(d) \/ DispatchRejects(d)

SubscriberNext ==
    \/ (Asked \/ ChannelEnds) /\ Cardinality(Stops') <= MaxStops
    \/ WatchStep
    \/ DecideStep
    \/ SelectStep
    \/ FeedStep
    \/ ReceiveReturnsWaited
    \/ \E m \in Messages : Deliver(m)
    \/ \E d \in Messages \X Chans :
          \/ DispatchStep(d)
          \/ HandlerSucceeds(d)
          \/ HandlerFails(d)

SubscriberSpec == SubscriberInit /\ [][SubscriberNext]_allVars

(***************************************************************************)
(* Fairness: as in AmqpChannel; the broker delivers what is in the queue,  *)
(* and handlers return.                                                    *)
(***************************************************************************)
SubscriberFairness ==
    /\ WF_allVars(WatchStep)
    /\ WF_allVars(CloseChannel /\ TakesBack)
    /\ WF_allVars(DecideStep)
    /\ WF_allVars(FeedStep)
    /\ WF_allVars(SelectStep)
    /\ WF_allVars(ReceiveReturnsWaited)
    /\ \A m \in Messages : WF_allVars(Deliver(m))
    /\ \A d \in Messages \X Chans :
          WF_allVars(DispatchStep(d)) /\ WF_allVars(HandlerSucceeds(d))

SubscriberFairSpec == SubscriberSpec /\ SubscriberFairness

----------------------------------------------------------------------------
\* "Messages the broker already delivered but that were not handled yet are
\* requeued" (USAGE_PATTERNS.md): with manual acknowledgements the broker lets go of
\* a message only after a handler succeeded with it, or, without requeueing, after a
\* handler had it, whatever is lost, closed or given up meanwhile.  One exception:
\* a message that waits for a slot when ctx is done is nacked, which without
\* requeueing drops it unhandled.
LeavesOnlyAfterSuccess ==
    ~autoAck => \A m \in gone :
        \/ outcome[m] = "succeeded"
        \/ ~requeue /\ (outcome[m] # "none" \/ ctxDone)

\* Redelivery is for failures and lost channels: while the first channel is open, no
\* message is handled again once a handler succeeded with it; and with autoAck none
\* is handled twice at all.
SucceededIsNotRedelivered ==
    [][\A d \in Messages \X Chans :
          /\ d \notin At("handling")
          /\ copy'[d[1]][d[2]] = "handling"
          /\ outcome[d[1]] = "succeeded" \/ (autoAck /\ outcome[d[1]] # "none")
          => chanState[1] # "open" /\ ~autoAck]_allVars

\* "Message processing continues even through network disruptions: Receive
\* consumes the queue again once the channel is reconnected" (USAGE_PATTERNS.md):
\* every message of the queue is handled with success in the end, or, without
\* requeueing, handled, unless Receive was stopped.
EventuallyHandled ==
    \A m \in Messages :
        ~autoAck ~> \/ outcome[m] = "succeeded"
                    \/ ~requeue /\ outcome[m] # "none"
                    \/ Stopped

\* What does hold of it: so it is when no loss came before the watcher of what was
\* lost had called NotifyClose.
HandledUnlessLossMissed == <>LossMissed \/ EventuallyHandled
=============================================================================
