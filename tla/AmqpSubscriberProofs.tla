------------------------ MODULE AmqpSubscriberProofs ------------------------
(***************************************************************************)
(* Theorems about AmqpSubscriber.tla, for any number of messages, losses   *)
(* of connections and channels, and handlers.                              *)
(***************************************************************************)
EXTENDS AmqpSubscriber, TLAPS

(***************************************************************************)
(* The inductive invariant.  Which channel holds a message matters for     *)
(* when it is delivered again, not for how it leaves: the broker lets go   *)
(* of it by an Ack or a Nack, which only a handler or a rejection sends.   *)
(* So it is enough that every step keeps what is known of the outcome.     *)
(***************************************************************************)

\* The part of the types that the argument needs.
Known ==
    /\ gone \subseteq Messages
    /\ copy \in [Messages -> [Chans -> Place]]
    /\ outcome \in [Messages -> Outcome]

\* What is with a handler is known to have been handled.
HandledIsKnown ==
    \A m \in Messages, j \in Chans : copy[m][j] = "handling" => outcome[m] # "none"

SInv == Known /\ HandledIsKnown /\ LeavesOnlyAfterSuccess

----------------------------------------------------------------------------
\* What the helpers of the actions leave in the variables.

\* Put moves one copy of one message.
LEMMA CopyPut ==
    ASSUME Known, NEW m \in Messages, NEW j \in Chans, NEW p \in Place, Put(<<m, j>>, p)
    PROVE  /\ copy' \in [Messages -> [Chans -> Place]]
           /\ \A n \in Messages, k \in Chans :
                 copy'[n][k] = IF n = m /\ k = j THEN p ELSE copy[n][k]
<1>1. copy' = [copy EXCEPT ![m][j] = p]
    BY DEF Put
<1>2. QED
    BY <1>1 DEF Known

\* The places a copy may be in, and the outcomes of a message.
LEMMA Values ==
    /\ \A p \in {"none", "feed", "hand", "dispatching", "handling"} : p \in Place
    /\ \A o \in {"none", "started", "failed", "succeeded"} : o \in Outcome
BY DEF Place, Outcome

\* A copy in a place is a pair of a message and a channel.
LEMMA CopyAt ==
    ASSUME NEW p, NEW d \in At(p)
    PROVE  \E m \in Messages, j \in Chans : d = <<m, j>> /\ copy[m][j] = p
BY DEF At

----------------------------------------------------------------------------
\* Every step keeps the invariant.

\* It is enough that an outcome is never made worse than success, and that what
\* gets to a handler, and what leaves the queue for good, is accounted for.
LEMMA KeepsInvariant ==
    ASSUME SInv, Known', UNCHANGED optionVars, ctxDone => ctxDone',
           \A m \in Messages : \/ outcome'[m] = outcome[m]
                               \/ outcome[m] # "succeeded" /\ outcome'[m] # "none"
                               \/ outcome'[m] = "succeeded",
           \A m \in Messages, j \in Chans :
              copy'[m][j] = "handling" => copy[m][j] = "handling" \/ outcome'[m] # "none",
           ~autoAck => \A m \in gone' : \/ m \in gone
                                        \/ outcome'[m] = "succeeded"
                                        \/ ~requeue /\ (outcome'[m] # "none" \/ ctxDone')
    PROVE  SInv'
<1>1. HandledIsKnown'
    BY DEF SInv, HandledIsKnown
<1>2. LeavesOnlyAfterSuccess'
    BY DEF SInv, LeavesOnlyAfterSuccess, Known, optionVars
<1>3. QED
    BY <1>1, <1>2 DEF SInv

\* A context that is done stays done.
LEMMA CtxStaysDone == [SubscriberNext]_allVars => (ctxDone => ctxDone')
BY DEF SubscriberNext, allVars, vars, Asked, ChannelEnds, ConnLost, ChanLost, CloseChannel,
       ConnClose, QueueNotFound, WatchStep, ConnWatchStep, ChanWatchStep, ConnRegister,
       ConnNotified, ConnRedial, ChanRegister, ChanNotified, ChanReopen, DecideStep,
       ConsumeStarts, ConsumeRefused, CheckChannel, Decide, PauseGivesUp, ConsumeAgain,
       Moves, SelectStep, ReceiveCtxDone, ReceiveClosed, BrokerCancels, CtxDone, CloseFlag,
       FeedStep, ForwardMessage, HandOverMessage, SendGivesUpMessage, FeedEndsEmpty, Forward,
       HandOver, SendGivesUp, FeedEnds, DispatchStep, DispatchStarts, DispatchRejects,
       DispatchReturns, ReceiveReturnsWaited, ReceiveReturns, Deliver, HandlerSucceeds,
       HandlerFails

\* Initially nothing is handled and nothing is gone.
LEMMA Initially == SubscriberInit => SInv
<1>1. SubscriberInit => Known
    BY Values DEF SubscriberInit, Known
<1>2. QED
    BY <1>1 DEF SubscriberInit, SInv, HandledIsKnown, LeavesOnlyAfterSuccess

\* Steps that only move a copy to where it is not handled.
LEMMA CopyMoves ==
    ASSUME SInv, [SubscriberNext]_allVars, UNCHANGED <<optionVars, gone, outcome>>,
           NEW m \in Messages, NEW j \in Chans, NEW p \in Place,
           p # "handling", Put(<<m, j>>, p)
    PROVE  SInv'
<1>1. /\ copy' \in [Messages -> [Chans -> Place]]
      /\ \A n \in Messages, k \in Chans :
            copy'[n][k] = IF n = m /\ k = j THEN p ELSE copy[n][k]
    BY CopyPut DEF SInv
<1>2. Known'
    BY <1>1 DEF SInv, Known
<1>3. QED
    BY <1>1, <1>2, CtxStaysDone, KeepsInvariant

\* Every step keeps SInv.
LEMMA Step ==
    ASSUME SInv, [SubscriberNext]_allVars
    PROVE  SInv'
<1>1. ctxDone => ctxDone'
    BY CtxStaysDone
<1>2. CASE UNCHANGED <<optionVars, gone, copy, outcome>>
    <2>1. Known'
        BY <1>2 DEF SInv, Known
    <2>2. QED
        BY <1>1, <1>2, <2>1, KeepsInvariant
<1>3. ASSUME NEW m \in Messages, Deliver(m) PROVE SInv'
    <2>1. /\ copy' = [copy EXCEPT ![m][consumingOn] = "feed"]
          /\ gone' \subseteq gone \cup {m} /\ (~autoAck => gone' = gone)
          /\ UNCHANGED <<optionVars, outcome>>
        BY <1>3 DEF Deliver, Put
    <2>2. /\ copy' \in [Messages -> [Chans -> Place]]
          /\ \A n \in Messages, j \in Chans :
                copy'[n][j] = "handling" => copy[n][j] = "handling"
        BY <2>1, Values DEF SInv, Known
    <2>3. Known'
        BY <2>1, <2>2 DEF SInv, Known
    <2>4. QED
        BY <1>1, <2>1, <2>2, <2>3, KeepsInvariant
<1>4. CASE ForwardMessage
    <2>1. PICK m \in Messages : copy[m][consumingOn] = "feed" /\ Put(<<m, consumingOn>>, "hand")
        BY <1>4 DEF ForwardMessage
    <2>2. /\ copy' \in [Messages -> [Chans -> Place]]
          /\ \A n \in Messages, j \in Chans :
                copy'[n][j] = "handling" => copy[n][j] = "handling"
        BY <2>1, Values DEF SInv, Known, Put
    <2>3. UNCHANGED <<optionVars, gone, outcome>>
        BY <1>4 DEF ForwardMessage
    <2>4. Known'
        BY <2>2, <2>3 DEF SInv, Known
    <2>5. QED
        BY <1>1, <2>2, <2>3, <2>4, KeepsInvariant
<1>5. CASE HandOverMessage
    <2>1. PICK d \in At("hand") : Put(d, "dispatching")
        BY <1>5 DEF HandOverMessage
    <2>2. PICK m \in Messages, j \in Chans : d = <<m, j>>
        BY <2>1, CopyAt
    <2>3. QED
        BY <1>5, <2>1, <2>2, CopyMoves, Values DEF HandOverMessage
<1>6. CASE SendGivesUpMessage
    <2>1. PICK d \in At("hand") : Put(d, "none")
        BY <1>6 DEF SendGivesUpMessage
    <2>2. PICK m \in Messages, j \in Chans : d = <<m, j>>
        BY <2>1, CopyAt
    <2>3. QED
        BY <1>6, <2>1, <2>2, CopyMoves, Values DEF SendGivesUpMessage
<1>7. CASE FeedEndsEmpty
    <2>1. /\ copy' = [m \in Messages |->
                         [copy[m] EXCEPT ![consumingOn] = IF @ = "feed" THEN "none" ELSE @]]
          /\ UNCHANGED <<optionVars, gone, outcome>>
        BY <1>7 DEF FeedEndsEmpty
    <2>2. \A m \in Messages : copy'[m] \in [Chans -> Place]
        BY <2>1, Values DEF SInv, Known
    <2>3. \A m \in Messages, j \in Chans : copy'[m][j] = "handling" => copy[m][j] = "handling"
        BY <2>1 DEF SInv, Known
    <2>4. Known'
        BY <2>1, <2>2 DEF SInv, Known
    <2>5. QED
        BY <1>1, <2>1, <2>3, <2>4, KeepsInvariant
<1>8. ASSUME NEW d \in Messages \X Chans, DispatchStarts(d) PROVE SInv'
    <2>1. PICK m \in Messages, j \in Chans : d = <<m, j>>
        OBVIOUS
    <2>2. /\ Put(<<m, j>>, "handling")
          /\ outcome' = [outcome EXCEPT ![m] = IF @ = "none" THEN "started" ELSE @]
          /\ UNCHANGED <<optionVars, gone>>
        BY <1>8, <2>1 DEF DispatchStarts
    <2>3. /\ copy' \in [Messages -> [Chans -> Place]]
          /\ \A n \in Messages, k \in Chans :
                copy'[n][k] = IF n = m /\ k = j THEN "handling" ELSE copy[n][k]
        BY <2>2, CopyPut, Values DEF SInv
    <2>4. /\ outcome' \in [Messages -> Outcome]
          /\ outcome'[m] # "none"
          /\ \A n \in Messages : \/ outcome'[n] = outcome[n]
                                 \/ outcome[n] # "succeeded" /\ outcome'[n] # "none"
        BY <2>2, Values DEF SInv, Known
    <2>5. Known'
        BY <2>2, <2>3, <2>4 DEF SInv, Known
    <2>6. QED
        BY <1>1, <2>2, <2>3, <2>4, <2>5, KeepsInvariant
<1>9. ASSUME NEW m \in Messages, NEW j \in Chans, Put(<<m, j>>, "none"), UNCHANGED optionVars,
             outcome' \in [Messages -> Outcome],
             \A n \in Messages : \/ outcome'[n] = outcome[n]
                                 \/ outcome[n] # "succeeded" /\ outcome'[n] # "none"
                                 \/ outcome'[n] = "succeeded",
             gone' \subseteq gone \cup {m},
             m \in gone' => \/ m \in gone
                            \/ outcome'[m] = "succeeded"
                            \/ ~requeue /\ (outcome'[m] # "none" \/ ctxDone')
      PROVE  SInv'
    <2>1. /\ copy' \in [Messages -> [Chans -> Place]]
          /\ \A n \in Messages, k \in Chans :
                copy'[n][k] = IF n = m /\ k = j THEN "none" ELSE copy[n][k]
        BY <1>9, CopyPut, Values DEF SInv
    <2>2. Known'
        BY <1>9, <2>1 DEF SInv, Known
    <2>3. QED
        BY <1>1, <1>9, <2>1, <2>2, KeepsInvariant
<1>10. ASSUME NEW d \in Messages \X Chans, DispatchRejects(d) PROVE SInv'
    <2>1. PICK m \in Messages, j \in Chans : d = <<m, j>>
        OBVIOUS
    <2>2. /\ Put(<<m, j>>, "none") /\ ctxDone /\ UNCHANGED <<optionVars, outcome>>
          /\ gone' = IF CanSettle(d) /\ ~requeue THEN gone \cup {m} ELSE gone
        BY <1>10, <2>1 DEF DispatchRejects, Nack
    <2>3. QED
        BY <1>1, <1>9, <2>2 DEF SInv, Known
<1>11. ASSUME NEW d \in Messages \X Chans, HandlerSucceeds(d) PROVE SInv'
    <2>1. PICK m \in Messages, j \in Chans : d = <<m, j>>
        OBVIOUS
    <2>2. /\ Put(<<m, j>>, "none") /\ UNCHANGED optionVars
          /\ outcome' = [outcome EXCEPT ![m] = "succeeded"]
          /\ gone' \subseteq gone \cup {m}
        BY <1>11, <2>1 DEF HandlerSucceeds, Ack
    <2>3. /\ outcome' \in [Messages -> Outcome]
          /\ outcome'[m] = "succeeded"
          /\ \A n \in Messages : outcome'[n] = outcome[n] \/ outcome'[n] = "succeeded"
        BY <2>2, Values DEF SInv, Known
    <2>4. QED
        BY <1>9, <2>2, <2>3
<1>12. ASSUME NEW d \in Messages \X Chans, HandlerFails(d) PROVE SInv'
    <2>1. PICK m \in Messages, j \in Chans : d = <<m, j>>
        OBVIOUS
    <2>2. /\ Put(<<m, j>>, "none") /\ UNCHANGED optionVars
          /\ outcome[m] = "started"
          /\ outcome' = [outcome EXCEPT ![m] = "failed"]
          /\ gone' = IF CanSettle(d) /\ ~requeue THEN gone \cup {m} ELSE gone
        BY <1>12, <2>1 DEF HandlerFails, Nack
    <2>3. /\ outcome' \in [Messages -> Outcome]
          /\ outcome'[m] # "none"
          /\ \A n \in Messages : \/ outcome'[n] = outcome[n]
                                 \/ outcome[n] # "succeeded" /\ outcome'[n] # "none"
        BY <2>2, Values DEF SInv, Known
    <2>4. QED
        BY <1>9, <2>2, <2>3
<1>13. \/ UNCHANGED <<optionVars, gone, copy, outcome>>
       \/ FeedStep
       \/ \E m \in Messages : Deliver(m)
       \/ \E d \in Messages \X Chans :
             DispatchStep(d) \/ HandlerSucceeds(d) \/ HandlerFails(d)
    BY DEF SubscriberNext, allVars, messageVars, Asked, ChannelEnds, TakesBack, WatchStep,
           DecideStep, SelectStep, ReceiveReturnsWaited
<1>14. QED
    BY <1>2, <1>3, <1>4, <1>5, <1>6, <1>7, <1>8, <1>10, <1>11, <1>12, <1>13
    DEF FeedStep, DispatchStep

----------------------------------------------------------------------------
\* With manual acknowledgements the broker lets go of a message only after a handler
\* succeeded with it, or, without requeueing, after a handler had it or a rejection
\* at shutdown, however often connection and channel are lost or closed (Ack and
\* Nack of delivery, the feeding goroutine of Consume).
THEOREM AtLeastOnce == SubscriberSpec => []LeavesOnlyAfterSuccess
<1>1. SInv /\ [SubscriberNext]_allVars => SInv'
    BY Step
<1>2. SInv => LeavesOnlyAfterSuccess
    BY DEF SInv
<1>3. QED
    BY Initially, <1>1, <1>2, PTL DEF SubscriberSpec

----------------------------------------------------------------------------
(***************************************************************************)
(* The subscriber with its messages implements AmqpChannel.tla: each step  *)
(* is a step of the connection, the channel, Consume or Receive, or leaves *)
(* them alone.  So what holds of the channel holds of the subscriber.      *)
(***************************************************************************)

\* Each step of the subscriber, one after the other.
LEMMA ChannelStep ==
    ASSUME [SubscriberNext]_allVars
    PROVE  [Next]_vars
<1>1. CASE UNCHANGED vars
    BY <1>1
<1>2. CASE Asked \/ ChannelEnds
    BY <1>2 DEF Asked, ChannelEnds, Next
<1>3. CASE WatchStep \/ DecideStep \/ SelectStep
    BY <1>3 DEF WatchStep, DecideStep, SelectStep, Next, ConsumeStep, ReceiveStep
<1>4. CASE FeedStep
    BY <1>4 DEF FeedStep, ForwardMessage, HandOverMessage, SendGivesUpMessage, FeedEndsEmpty,
                Next, ConsumeStep
<1>5. CASE ReceiveReturnsWaited
    BY <1>5 DEF ReceiveReturnsWaited, Next, ReceiveStep
<1>6. ASSUME NEW m \in Messages, Deliver(m) PROVE UNCHANGED vars
    BY <1>6 DEF Deliver
<1>7. ASSUME NEW d, DispatchStep(d) PROVE Next
    BY <1>7 DEF DispatchStep, DispatchStarts, DispatchRejects, Next, ReceiveStep
<1>8. ASSUME NEW d, HandlerSucceeds(d) \/ HandlerFails(d) PROVE UNCHANGED vars
    BY <1>8 DEF HandlerSucceeds, HandlerFails
<1>9. QED
    BY <1>1, <1>2, <1>3, <1>4, <1>5, <1>6, <1>7, <1>8 DEF SubscriberNext, allVars

\* Adding the messages restricts the reconnecting client and adds nothing to it.
THEOREM RefinesChannel == SubscriberSpec => Spec
<1>1. SubscriberInit => Init
    BY DEF SubscriberInit
<1>2. [SubscriberNext]_allVars => [Next]_vars
    BY ChannelStep
<1>3. QED
    BY <1>1, <1>2, PTL DEF SubscriberSpec, Spec

----------------------------------------------------------------------------
(***************************************************************************)
(* The types of AmqpChannel.tla.                                           *)
(***************************************************************************)

\* The numbers of connections and channels start at 1.
LEMMA FirstNumber == 1 \in Conns /\ 1 \in Chans
BY BoundsAssumption DEF Conns, Chans

\* The channels of a connection that ends: the others stay as they were, and none
\* that was made is unmade.
LEMMA EndedChannels ==
    ASSUME TypeOK, NEW i, NEW end \in {"lost", "closed"}
    PROVE  /\ EndChannelsOf(i, end) \in [Chans -> State]
           /\ \A j \in Chans : \/ EndChannelsOf(i, end)[j] = chanState[j]
                               \/ chanState[j] = "open" /\ EndChannelsOf(i, end)[j] = end
BY DEF TypeOK, EndChannelsOf, State

\* The first connection and the first channel are open.
LEMMA TypeInit == Init => TypeOK
<1> SUFFICES ASSUME Init PROVE TypeOK
    OBVIOUS
<1>1. connState \in [Conns -> State] /\ chanState \in [Chans -> State]
    BY DEF Init, State
<1>2. /\ conn \in Conns /\ channel \in Chans /\ consumingOn \in Chans
      /\ chanConn \in [Chans -> Conns]
    BY FirstNumber DEF Init
<1>3. chanState[channel] = "open" /\ chanState[consumingOn] = "open" /\ connState[conn] = "open"
    BY FirstNumber DEF Init
<1>4. losses \in 0 .. MaxLosses
    BY BoundsAssumption DEF Init
<1>5. QED
    BY <1>1, <1>2, <1>3, <1>4 DEF Init, TypeOK, Watch, Consumer, Receive, Returned

\* Every step keeps the types; no pointer is ever to something that was not made.
LEMMA TypeStep ==
    ASSUME TypeOK, [Next]_vars
    PROVE  TypeOK'
<1> USE DEF TypeOK, connVars, chanVars, closeVars, consumeVars
<1>1. CASE UNCHANGED vars
    BY <1>1 DEF vars
<1>2. CASE ConnLost
    <2>1. /\ chanState' \in [Chans -> State]
          /\ \A j \in Chans : chanState[j] # "none" => chanState'[j] # "none"
        BY <1>2, EndedChannels DEF ConnLost
    <2>2. connState' \in [Conns -> State] /\ connState'[conn] # "none"
        BY <1>2 DEF ConnLost, State
    <2>3. losses' \in 0 .. MaxLosses
        BY <1>2, BoundsAssumption DEF ConnLost
    <2>4. QED
        BY <1>2, <2>1, <2>2, <2>3 DEF ConnLost
<1>3. CASE ChanLost \/ QueueNotFound
    <2>1. /\ chanState' \in [Chans -> State]
          /\ \A j \in Chans : chanState[j] # "none" => chanState'[j] # "none"
        BY <1>3 DEF ChanLost, QueueNotFound, State
    <2>2. losses' \in 0 .. MaxLosses
        <3>1. losses < MaxLosses /\ losses' = losses + 1
            BY <1>3 DEF ChanLost, QueueNotFound
        <3>2. QED
            BY <3>1, BoundsAssumption
    <2>3. QED
        BY <1>3, <2>1, <2>2 DEF ChanLost, QueueNotFound, Receive, Returned
<1>4. CASE BrokerCancels \/ CtxDone \/ CloseFlag
    BY <1>4 DEF BrokerCancels, CtxDone, CloseFlag
<1>5. CASE CloseChannel
    <2>1. /\ chanState' \in [Chans -> State]
          /\ \A j \in Chans : chanState[j] # "none" => chanState'[j] # "none"
        BY <1>5 DEF CloseChannel, State
    <2>2. QED
        BY <1>5, <2>1 DEF CloseChannel
<1>6. CASE ConnClose
    <2>1. /\ chanState' \in [Chans -> State]
          /\ \A j \in Chans : chanState[j] # "none" => chanState'[j] # "none"
        BY <1>6, EndedChannels DEF ConnClose
    <2>2. connState' \in [Conns -> State] /\ connState'[conn] # "none"
        BY <1>6 DEF ConnClose, State
    <2>3. QED
        BY <1>6, <2>1, <2>2 DEF ConnClose
<1>7. CASE ConnRegister \/ ConnNotified
    BY <1>7 DEF ConnRegister, ConnNotified, Watch
<1>8. CASE ConnRedial
    BY <1>8 DEF ConnRedial, Watch, State
<1>9. CASE ChanRegister \/ ChanNotified
    BY <1>9 DEF ChanRegister, ChanNotified, Watch
<1>10. CASE ChanReopen
    <2>1. PICK j \in Chans : /\ chanState[j] = "none"
                             /\ chanState' = [chanState EXCEPT ![j] = "open"]
                             /\ chanConn' = [chanConn EXCEPT ![j] = conn]
                             /\ channel' = j
        BY <1>10 DEF ChanReopen
    <2>2. /\ chanState' \in [Chans -> State] /\ chanConn' \in [Chans -> Conns]
          /\ \A k \in Chans : chanState[k] # "none" => chanState'[k] # "none"
          /\ chanState'[channel'] # "none"
        BY <2>1 DEF State
    <2>3. QED
        BY <1>10, <2>1, <2>2 DEF ChanReopen, Watch
<1>11. CASE ConsumeStep \/ Forward
    <2>1. CASE ConsumeStarts \/ ConsumeAgain
        BY <2>1 DEF ConsumeStarts, ConsumeAgain, Moves, Consumer, Receive
    <2>2. CASE ConsumeRefused
        BY <2>2 DEF ConsumeRefused, Receive, Returned
    <2>3. CASE HandOver \/ SendGivesUp \/ FeedEnds \/ Forward
        BY <2>3 DEF HandOver, SendGivesUp, FeedEnds, Forward, Moves, Consumer, Receive
    <2>4. CASE CheckChannel \/ Decide \/ PauseGivesUp
        BY <2>4 DEF CheckChannel, Decide, PauseGivesUp, Moves, Consumer
    <2>5. QED
        BY <1>11, <2>1, <2>2, <2>3, <2>4 DEF ConsumeStep
<1>12. CASE ReceiveStep
    BY <1>12 DEF ReceiveStep, DispatchReturns, ReceiveCtxDone, ReceiveClosed, ReceiveReturns,
                 Receive, Returned
<1>13. QED
    BY <1>1, <1>2, <1>3, <1>4, <1>5, <1>6, <1>7, <1>8, <1>9, <1>10, <1>11, <1>12
    DEF Next, ConnWatchStep, ChanWatchStep

\* The reconnecting connection, its channel, Consume and Receive keep their types,
\* and c.Connection, ch.Channel and consumingOn always point to something that was
\* opened, however often the connection and the channel are lost.
THEOREM ChannelTypeCorrect == Spec => []TypeOK
<1>1. TypeOK /\ [Next]_vars => TypeOK'
    BY TypeStep
<1>2. QED
    BY <1>1, TypeInit, PTL DEF Spec

----------------------------------------------------------------------------
(***************************************************************************)
(* Receive fails only when it was stopped.  An amqp.Channel that has ended *)
(* stays ended, so a Consume that finds its channel open after the feed    *)
(* was closed knows that the broker, or ctx, cancelled it; and a Consume   *)
(* that has ended does not start again.                                    *)
(***************************************************************************)
StopInv ==
    /\ consumer = "exited" => ctxDone \/ closed \/ cancelled
    /\ consumer = "checking" /\ chanState[consumingOn] = "open" => ctxDone \/ cancelled
    /\ receive \in {"failing", "ErrChannelClosed"} =>
          consumer = "exited" /\ (closed \/ cancelled)

\* A channel is opened once, and what is lost stays lost.
LEMMA ChannelsEndOnce ==
    ASSUME TypeOK, [Next]_vars
    PROVE  \A j \in Chans : /\ chanState'[j] = "open" => chanState[j] \in {"open", "none"}
                            /\ chanState[j] = "lost" => chanState'[j] = "lost"
                            /\ chanState[j] # "none" => chanState'[j] # "none"
<1> USE DEF TypeOK, chanVars
<1>1. CASE UNCHANGED chanState
    BY <1>1
<1>2. CASE ConnLost \/ ConnClose
    BY <1>2, EndedChannels DEF ConnLost, ConnClose
<1>3. CASE ChanLost \/ QueueNotFound \/ CloseChannel \/ ChanReopen
    BY <1>3 DEF ChanLost, QueueNotFound, CloseChannel, ChanReopen
<1>4. CASE BrokerCancels \/ CtxDone \/ CloseFlag \/ ConnWatchStep \/ ChanRegister \/ ChanNotified
             \/ ReceiveStep \/ UNCHANGED vars
    <2>1. UNCHANGED chanState
        BY <1>4 DEF BrokerCancels, CtxDone, CloseFlag, ConnWatchStep, ConnRegister, ConnNotified,
                    ConnRedial, ChanRegister, ChanNotified, ReceiveStep, DispatchReturns,
                    ReceiveCtxDone, ReceiveClosed, ReceiveReturns, vars
    <2>2. QED
        BY <1>1, <2>1
<1>5. CASE Forward \/ ConsumeStep
    <2>1. UNCHANGED chanState
        BY <1>5 DEF Forward, ConsumeStep, ConsumeStarts, ConsumeRefused, HandOver, SendGivesUp,
                    FeedEnds, CheckChannel, Decide, PauseGivesUp, ConsumeAgain, Moves
    <2>2. QED
        BY <1>1, <2>1
<1>6. QED
    BY <1>2, <1>3, <1>4, <1>5 DEF Next, ChanWatchStep

\* Every step keeps StopInv.
LEMMA StopStep ==
    ASSUME TypeOK, StopInv, [Next]_vars
    PROVE  StopInv'
<1> USE DEF StopInv, TypeOK, connVars, chanVars, closeVars, consumeVars
<1>1. CASE ConnLost \/ ChanLost \/ CloseChannel \/ ConnClose \/ ConnWatchStep \/ ChanWatchStep
             \/ UNCHANGED vars
    <2>1. UNCHANGED <<consumer, consumingOn, cancelled, closed, receive, ctxDone>>
        BY <1>1 DEF ConnLost, ChanLost, CloseChannel, ConnClose, ConnWatchStep, ConnRegister,
                    ConnNotified, ConnRedial, ChanWatchStep, ChanRegister, ChanNotified,
                    ChanReopen, vars
    <2>2. chanState'[consumingOn] = "open" => chanState[consumingOn] = "open"
        BY ChannelsEndOnce
    <2>3. QED
        BY <2>1, <2>2
<1>2. CASE BrokerCancels \/ CtxDone \/ CloseFlag
    BY <1>2 DEF BrokerCancels, CtxDone, CloseFlag
<1>3. CASE QueueNotFound \/ ConsumeRefused
    <2>1. /\ UNCHANGED <<consumer, consumingOn, cancelled, closed, ctxDone>>
          /\ receive' = "consume error"
        BY <1>3 DEF QueueNotFound, ConsumeRefused
    <2>2. chanState'[consumingOn] = "open" => chanState[consumingOn] = "open"
        BY ChannelsEndOnce
    <2>3. QED
        BY <2>1, <2>2
<1>4. CASE ConsumeStarts \/ ConsumeAgain
    BY <1>4 DEF ConsumeStarts, ConsumeAgain, Moves
<1>5. CASE Forward \/ HandOver \/ SendGivesUp
    BY <1>5 DEF Forward, HandOver, SendGivesUp, Moves
<1>6. CASE FeedEnds \/ CheckChannel
    BY <1>6 DEF FeedEnds, FeedClosed, CheckChannel, Moves
<1>7. CASE Decide \/ PauseGivesUp
    BY <1>7 DEF Decide, PauseGivesUp, Moves
<1>8. CASE ReceiveStep
    BY <1>8 DEF ReceiveStep, DispatchReturns, ReceiveCtxDone, ReceiveClosed, ReceiveReturns
<1>9. QED
    BY <1>1, <1>2, <1>3, <1>4, <1>5, <1>6, <1>7, <1>8 DEF Next, ConsumeStep

\* A network failure alone never makes Receive return ErrChannelClosed: whatever is
\* lost, and however often, it fails only after the developer's Close or after the
\* broker cancelled its consumer (the goroutine of Consume, and Receive).
THEOREM FailsOnlyStopped == Spec => []FailsOnlyWhenStopped
<1>1. Init => StopInv
    BY DEF Init, StopInv
<1>2. TypeOK /\ StopInv /\ [Next]_vars => StopInv'
    BY StopStep
<1>3. StopInv => FailsOnlyWhenStopped
    BY DEF StopInv, FailsOnlyWhenStopped
<1>4. QED
    BY <1>1, <1>2, <1>3, ChannelTypeCorrect, PTL DEF Spec

----------------------------------------------------------------------------
(***************************************************************************)
(* The types of AmqpSubscriber.tla.                                        *)
(***************************************************************************)

\* What the broker holds for a channel, and what it has done with.
HeldTypeOK ==
    /\ autoAck \in BOOLEAN
    /\ requeue \in BOOLEAN
    /\ holder \in [Messages -> {0} \cup Chans]
    /\ \A m \in gone : holder[m] = 0

\* A delivery, an ack, a nack and the end of a channel move a message to one place.
LEMMA HeldStep ==
    ASSUME TypeOK, Known, HeldTypeOK, [SubscriberNext]_allVars
    PROVE  HeldTypeOK'
<1> USE DEF HeldTypeOK, Known, optionVars, messageVars
<1>1. CASE UNCHANGED <<optionVars, holder, gone>>
    BY <1>1
<1>2. CASE ChannelEnds
    BY <1>2 DEF ChannelEnds, TakesBack
<1>3. ASSUME NEW m \in Messages, Deliver(m) PROVE HeldTypeOK'
    BY <1>3 DEF Deliver, InQueue, TypeOK
<1>4. ASSUME NEW d \in Messages \X Chans, Ack(d) \/ Nack(d), UNCHANGED optionVars
      PROVE  HeldTypeOK'
    <2>1. d[1] \in Messages
        OBVIOUS
    <2>2. CASE CanSettle(d)
        <3>1. holder' = [holder EXCEPT ![d[1]] = 0] /\ gone' \subseteq gone \cup {d[1]}
            BY <1>4, <2>2 DEF Ack, Nack
        <3>2. QED
            BY <1>4, <2>1, <3>1
    <2>3. CASE ~CanSettle(d)
        <3>1. holder' = holder /\ gone' = gone
            BY <1>4, <2>1, <2>3 DEF Ack, Nack
        <3>2. QED
            BY <1>4, <3>1
    <2>4. QED
        BY <2>2, <2>3
<1>5. ASSUME NEW d \in Messages \X Chans,
             DispatchStep(d) \/ HandlerSucceeds(d) \/ HandlerFails(d)
      PROVE  HeldTypeOK'
    BY <1>1, <1>4, <1>5
    DEF DispatchStep, DispatchStarts, DispatchRejects, HandlerSucceeds, HandlerFails
<1>6. CASE Asked \/ WatchStep \/ DecideStep \/ SelectStep \/ FeedStep \/ ReceiveReturnsWaited
             \/ UNCHANGED allVars
    <2>1. UNCHANGED <<optionVars, holder, gone>>
        BY <1>6 DEF Asked, WatchStep, DecideStep, SelectStep, FeedStep, ForwardMessage,
                    HandOverMessage, SendGivesUpMessage, FeedEndsEmpty, ReceiveReturnsWaited,
                    allVars
    <2>2. QED
        BY <1>1, <2>1
<1>7. QED
    BY <1>2, <1>3, <1>5, <1>6 DEF SubscriberNext

\* SInv, the types of the channel and of what is held, in every reachable state.
LEMMA SubscriberInv == SubscriberSpec => [](TypeOK /\ SInv /\ HeldTypeOK)
<1>1. SubscriberInit => HeldTypeOK
    BY FirstNumber DEF SubscriberInit, HeldTypeOK
<1>2. SInv /\ [SubscriberNext]_allVars => SInv'
    BY Step
<1>3. SInv /\ TypeOK /\ HeldTypeOK /\ [SubscriberNext]_allVars => HeldTypeOK'
    BY HeldStep DEF SInv
<1>4. QED
    BY <1>1, <1>2, <1>3, Initially, RefinesChannel, ChannelTypeCorrect, PTL DEF SubscriberSpec

\* The broker's and the subscriber's view of every message keep their types; a
\* message the broker has done with is unacked nowhere.
THEOREM DeliveryTypeCorrect == SubscriberSpec => []DeliveryTypeOK
<1>1. TypeOK /\ SInv /\ HeldTypeOK => DeliveryTypeOK
    BY DEF SInv, Known, HeldTypeOK, DeliveryTypeOK
<1>2. QED
    BY <1>1, SubscriberInv, PTL

----------------------------------------------------------------------------
(***************************************************************************)
(* What succeeded is not delivered again while the first channel is open.  *)
(* As long as it is open it is the channel of everything; a message in the *)
(* client is then unacked on it, so the ack of a handler that succeeded is *)
(* accepted and the message is gone.  With autoAck a message is gone when  *)
(* it is delivered, so there is one copy of it at most.                    *)
(***************************************************************************)
FirstChannel ==
    /\ chanState[1] # "none"
    /\ chanWatch = "retrying" => chanState[channel] = "lost"
    /\ chanState[1] = "open" => channel = 1 /\ consumingOn = 1

ManualOnFirst ==
    chanState[1] = "open" =>
        /\ \A m \in Messages, j \in Chans : copy[m][j] # "none" => j = 1
        /\ ~autoAck => \A m \in Messages :
              /\ copy[m][1] # "none" => holder[m] = 1
              /\ outcome[m] = "succeeded" => m \in gone

\* Where a copy is before a handler has it.
Waiting == {"feed", "hand", "dispatching"}

AutoOnce ==
    autoAck => \A m \in Messages :
        /\ m \notin gone => outcome[m] = "none" /\ \A j \in Chans : copy[m][j] = "none"
        /\ \A j, k \in Chans : copy[m][j] # "none" /\ copy[m][k] # "none" => j = k
        /\ \A j \in Chans : copy[m][j] \in Waiting => outcome[m] = "none"

RInv == FirstChannel /\ ManualOnFirst /\ AutoOnce

\* Initially there is one channel, and no copy of any message.
LEMMA RedeliverInit == SubscriberInit => RInv
BY FirstNumber
DEF SubscriberInit, Init, RInv, FirstChannel, ManualOnFirst, AutoOnce, Waiting

\* A watcher reopens only what was lost, so channel 1 stays the one in use.
LEMMA FirstChannelStep ==
    ASSUME TypeOK, FirstChannel, [Next]_vars
    PROVE  /\ FirstChannel'
           /\ chanState'[1] = "open" => chanState[1] = "open"
<1> USE DEF FirstChannel, TypeOK, connVars, chanVars, closeVars, consumeVars
<1>1. /\ chanState'[1] = "open" => chanState[1] = "open"
      /\ chanState'[1] # "none"
      /\ chanState[channel] = "lost" => chanState'[channel] = "lost"
    BY FirstNumber, ChannelsEndOnce
<1>2. CASE UNCHANGED <<chanWatch, channel, consumingOn>>
    BY <1>1, <1>2
<1>3. CASE ChanRegister \/ ChanNotified
    BY <1>1, <1>3 DEF ChanRegister, ChanNotified
<1>4. CASE ChanReopen
    BY <1>1, <1>4 DEF ChanReopen
<1>5. CASE ConsumeStarts \/ ConsumeAgain
    BY <1>1, <1>5 DEF ConsumeStarts, ConsumeAgain, Moves
<1>6. CASE \/ ConnLost \/ ChanLost \/ BrokerCancels \/ CtxDone \/ CloseFlag \/ CloseChannel
           \/ ConnClose \/ QueueNotFound \/ ConnWatchStep \/ ReceiveStep \/ UNCHANGED vars
    <2>1. UNCHANGED <<chanWatch, channel, consumingOn>>
        BY <1>6 DEF ConnLost, ChanLost, BrokerCancels, CtxDone, CloseFlag, CloseChannel, ConnClose,
                    QueueNotFound, ConnWatchStep, ConnRegister, ConnNotified, ConnRedial,
                    ReceiveStep, DispatchReturns, ReceiveCtxDone, ReceiveClosed, ReceiveReturns,
                    vars
    <2>2. QED
        BY <1>2, <2>1
<1>7. CASE \/ Forward \/ ConsumeRefused \/ HandOver \/ SendGivesUp \/ FeedEnds \/ CheckChannel
           \/ Decide \/ PauseGivesUp
    <2>1. UNCHANGED <<chanWatch, channel, consumingOn>>
        BY <1>7 DEF Forward, ConsumeRefused, HandOver, SendGivesUp, FeedEnds, CheckChannel,
                    Decide, PauseGivesUp, Moves
    <2>2. QED
        BY <1>2, <2>1
<1>8. QED
    BY <1>3, <1>4, <1>5, <1>6, <1>7 DEF Next, ChanWatchStep, ConsumeStep

\* A step that moves copies towards the handler, or drops them.
LEMMA CopiesAdvance ==
    ASSUME RInv, FirstChannel', chanState'[1] = "open" => chanState[1] = "open",
           UNCHANGED <<autoAck, gone, outcome>>,
           \A m \in Messages : holder'[m] = holder[m] \/ chanState'[1] # "open" \/ holder[m] # 1,
           \A m \in Messages, j \in Chans :
               \/ copy'[m][j] = copy[m][j]
               \/ copy'[m][j] = "none"
               \/ copy[m][j] \in Waiting /\ copy'[m][j] \in Waiting
    PROVE  RInv'
<1>1. \A m \in Messages, j \in Chans : copy'[m][j] # "none" => copy[m][j] # "none"
    BY DEF Waiting
<1>2. \A m \in Messages, j \in Chans : copy'[m][j] \in Waiting => copy[m][j] \in Waiting
    BY DEF Waiting
<1>3. ManualOnFirst'
    BY <1>1, FirstNumber DEF RInv, ManualOnFirst
<1>4. AutoOnce'
    BY <1>1, <1>2 DEF RInv, AutoOnce
<1>5. QED
    BY <1>3, <1>4 DEF RInv

\* A message delivered from the queue has no copy, as far as that matters.
LEMMA DeliverStep ==
    ASSUME TypeOK, Known, HeldTypeOK, RInv, FirstChannel', NEW m \in Messages, Deliver(m)
    PROVE  RInv'
<1>1. /\ copy' \in [Messages -> [Chans -> Place]]
      /\ \A n \in Messages, k \in Chans :
            copy'[n][k] = IF n = m /\ k = consumingOn THEN "feed" ELSE copy[n][k]
    BY Values DEF TypeOK, Known, Deliver, Put
<1>2. /\ consumingOn \in Chans /\ chanState[consumingOn] = "open"
      /\ UNCHANGED <<chanState, autoAck, outcome>>
      /\ holder[m] = 0 /\ m \notin gone
    BY DEF TypeOK, Deliver, Consuming, InQueue, vars, chanVars, optionVars
<1>3. ManualOnFirst'
    <2> SUFFICES ASSUME chanState[1] = "open" PROVE ManualOnFirst'
        BY <1>2 DEF ManualOnFirst
    <2>1. consumingOn = 1
        BY DEF RInv, FirstChannel
    <2>2. \A n \in Messages, j \in Chans : copy'[n][j] # "none" => j = 1
        BY <1>1, <2>1 DEF RInv, ManualOnFirst
    <2>3. ASSUME ~autoAck, NEW n \in Messages
          PROVE  /\ copy'[n][1] # "none" => holder'[n] = 1
                 /\ outcome'[n] = "succeeded" => n \in gone'
        <3>1. holder' = [holder EXCEPT ![m] = 1] /\ gone' = gone
            BY <2>1, <2>3 DEF Deliver
        <3>2. QED
            BY <1>1, <1>2, <2>1, <2>3, <3>1, FirstNumber DEF RInv, ManualOnFirst, HeldTypeOK
    <2>4. QED
        BY <1>2, <2>2, <2>3 DEF ManualOnFirst
<1>4. AutoOnce'
    <2> SUFFICES ASSUME autoAck, NEW n \in Messages
                 PROVE  /\ n \notin gone' =>
                              outcome'[n] = "none" /\ \A j \in Chans : copy'[n][j] = "none"
                        /\ \A j, k \in Chans : copy'[n][j] # "none" /\ copy'[n][k] # "none" => j = k
                        /\ \A j \in Chans : copy'[n][j] \in Waiting => outcome'[n] = "none"
        BY <1>2 DEF AutoOnce
    <2>1. gone' = gone \cup {m}
        BY DEF Deliver
    <2>2. CASE n = m
        <3>1. outcome[n] = "none" /\ \A j \in Chans : copy[n][j] = "none"
            BY <1>2, <2>2 DEF RInv, AutoOnce
        <3>2. QED
            BY <1>1, <1>2, <2>1, <2>2, <3>1
    <2>3. CASE n # m
        BY <1>1, <1>2, <2>1, <2>3 DEF RInv, AutoOnce
    <2>4. QED
        BY <2>2, <2>3
<1>5. QED
    BY <1>3, <1>4 DEF RInv

\* The start of a handler.
LEMMA StartStep ==
    ASSUME Known, HeldTypeOK, RInv, FirstChannel', chanState'[1] = "open" => chanState[1] = "open",
           NEW m \in Messages, NEW j \in Chans, DispatchStarts(<<m, j>>)
    PROVE  RInv'
<1>1. /\ copy' \in [Messages -> [Chans -> Place]]
      /\ \A n \in Messages, k \in Chans :
            copy'[n][k] = IF n = m /\ k = j THEN "handling" ELSE copy[n][k]
    BY CopyPut, Values DEF DispatchStarts
<1>2. /\ copy[m][j] = "dispatching"
      /\ UNCHANGED <<autoAck, holder, gone>>
      /\ \A n \in Messages : n # m => outcome'[n] = outcome[n]
      /\ outcome'[m] = IF outcome[m] = "none" THEN "started" ELSE outcome[m]
    BY DEF DispatchStarts, At, optionVars, Known
<1>3. ManualOnFirst'
    BY <1>1, <1>2, FirstNumber DEF RInv, ManualOnFirst
<1>4. AutoOnce'
    <2> SUFFICES ASSUME autoAck, NEW n \in Messages
                 PROVE  /\ n \notin gone =>
                              outcome'[n] = "none" /\ \A k \in Chans : copy'[n][k] = "none"
                        /\ \A h, k \in Chans : copy'[n][h] # "none" /\ copy'[n][k] # "none" => h = k
                        /\ \A k \in Chans : copy'[n][k] \in Waiting => outcome'[n] = "none"
        BY <1>2 DEF AutoOnce
    <2>1. CASE n = m
        <3>1. m \in gone
            BY <1>2 DEF RInv, AutoOnce
        <3>2. \A k \in Chans : k # j => copy[m][k] = "none"
            BY <1>2 DEF RInv, AutoOnce
        <3>3. QED
            BY <1>1, <2>1, <3>1, <3>2 DEF Waiting
    <2>2. CASE n # m
        BY <1>1, <1>2, <2>2 DEF RInv, AutoOnce
    <2>3. QED
        BY <2>1, <2>2
<1>5. QED
    BY <1>3, <1>4 DEF RInv

\* The end of a copy, with an ack or a nack. Only a handler that succeeded acks, and
\* on the first channel its ack is accepted.
LEMMA EndStep ==
    ASSUME Known, HeldTypeOK, RInv, FirstChannel', chanState'[1] = "open" => chanState[1] = "open",
           NEW m \in Messages, NEW j \in Chans,
           copy[m][j] # "none", Put(<<m, j>>, "none"), UNCHANGED autoAck,
           Ack(<<m, j>>) \/ Nack(<<m, j>>),
           \A n \in Messages : n # m => outcome'[n] = outcome[n],
           copy[m][j] # "handling" => outcome'[m] = outcome[m],
           outcome'[m] = "succeeded" => outcome[m] = "succeeded" \/ Ack(<<m, j>>)
    PROVE  RInv'
<1>1. /\ copy' \in [Messages -> [Chans -> Place]]
      /\ \A n \in Messages, k \in Chans :
            copy'[n][k] = IF n = m /\ k = j THEN "none" ELSE copy[n][k]
    BY CopyPut, Values
<1>2. /\ \A n \in Messages : n # m => holder'[n] = holder[n]
      /\ gone \subseteq gone' /\ gone' \subseteq gone \cup {m}
      /\ autoAck => gone' = gone
    BY DEF Ack, Nack, CanSettle, HeldTypeOK
<1>3. ManualOnFirst'
    <2> SUFFICES ASSUME chanState[1] = "open" PROVE ManualOnFirst'
        BY DEF ManualOnFirst
    <2>1. j = 1
        BY DEF RInv, ManualOnFirst
    <2>2. \A n \in Messages, k \in Chans : copy'[n][k] # "none" => k = 1
        BY <1>1 DEF RInv, ManualOnFirst
    <2>3. ASSUME ~autoAck, NEW n \in Messages
          PROVE  /\ copy'[n][1] # "none" => holder'[n] = 1
                 /\ outcome'[n] = "succeeded" => n \in gone'
        <3>1. CASE n # m
            BY <1>1, <1>2, <2>3, <3>1, FirstNumber DEF RInv, ManualOnFirst
        <3>2. CASE n = m
            <4>1. copy'[n][1] = "none"
                BY <1>1, <2>1, <3>2
            <4>2. holder[m] = 1
                BY <2>1, <2>3 DEF RInv, ManualOnFirst
            <4>3. Ack(<<m, j>>) => m \in gone'
                BY <2>1, <2>3, <4>2 DEF Ack, CanSettle
            <4>4. QED
                BY <1>2, <2>3, <3>2, <4>1, <4>3 DEF RInv, ManualOnFirst
        <3>3. QED
            BY <3>1, <3>2
    <2>4. QED
        BY <2>2, <2>3 DEF ManualOnFirst
<1>4. AutoOnce'
    <2> SUFFICES ASSUME autoAck, NEW n \in Messages
                 PROVE  /\ n \notin gone =>
                              outcome'[n] = "none" /\ \A k \in Chans : copy'[n][k] = "none"
                        /\ \A h, k \in Chans : copy'[n][h] # "none" /\ copy'[n][k] # "none" => h = k
                        /\ \A k \in Chans : copy'[n][k] \in Waiting => outcome'[n] = "none"
        BY <1>2 DEF AutoOnce
    <2>1. CASE n = m
        <3>1. m \in gone
            BY DEF RInv, AutoOnce
        <3>2. \A k \in Chans : k # j => copy[m][k] = "none"
            BY DEF RInv, AutoOnce
        <3>3. \A k \in Chans : copy'[m][k] = "none"
            BY <1>1, <3>2
        <3>4. QED
            BY <2>1, <3>1, <3>3 DEF Waiting
    <2>2. CASE n # m
        BY <1>1, <2>2 DEF RInv, AutoOnce
    <2>3. QED
        BY <2>1, <2>2
<1>5. QED
    BY <1>3, <1>4 DEF RInv

\* Every step keeps RInv.
LEMMA RedeliverStep ==
    ASSUME TypeOK, Known, HeldTypeOK, RInv, [SubscriberNext]_allVars
    PROVE  RInv'
<1>1. FirstChannel' /\ (chanState'[1] = "open" => chanState[1] = "open")
    BY ChannelStep, FirstChannelStep DEF RInv
<1>2. CASE UNCHANGED <<optionVars, messageVars>>
    BY <1>1, <1>2, CopiesAdvance DEF optionVars, messageVars
<1>3. CASE ChannelEnds
    <2>1. \A m \in Messages : holder'[m] = holder[m] \/ chanState'[1] # "open" \/ holder[m] # 1
        BY <1>3 DEF ChannelEnds, TakesBack
    <2>2. UNCHANGED <<autoAck, gone, copy, outcome>>
        BY <1>3 DEF ChannelEnds, TakesBack, optionVars
    <2>3. QED
        BY <1>1, <2>1, <2>2, CopiesAdvance
<1>4. CASE FeedStep
    <2>1. UNCHANGED <<autoAck, holder, gone, outcome>>
        BY <1>4 DEF FeedStep, ForwardMessage, HandOverMessage, SendGivesUpMessage, FeedEndsEmpty,
                    optionVars
    <2>2. ASSUME NEW m \in Messages, NEW j \in Chans, NEW p \in Waiting \cup {"none"},
                 copy[m][j] \in Waiting, Put(<<m, j>>, p)
          PROVE  RInv'
        <3>1. p \in Place
            BY Values DEF Waiting
        <3>2. \A n \in Messages, k \in Chans :
                  copy'[n][k] = IF n = m /\ k = j THEN p ELSE copy[n][k]
            BY <2>2, <3>1, CopyPut
        <3>3. QED
            BY <1>1, <2>1, <2>2, <3>2, CopiesAdvance
    <2>3. CASE ForwardMessage
        <3>1. PICK m \in Messages : /\ copy[m][consumingOn] = "feed"
                                    /\ Put(<<m, consumingOn>>, "hand")
            BY <2>3 DEF ForwardMessage
        <3>2. PICK j \in Chans : j = consumingOn
            BY DEF TypeOK
        <3>3. QED
            BY <2>2, <3>1, <3>2 DEF Waiting
    <2>4. CASE HandOverMessage
        <3>1. PICK d \in At("hand") : Put(d, "dispatching")
            BY <2>4 DEF HandOverMessage
        <3>2. QED
            BY <2>2, <3>1, CopyAt DEF Waiting
    <2>5. CASE SendGivesUpMessage
        <3>1. PICK d \in At("hand") : Put(d, "none")
            BY <2>5 DEF SendGivesUpMessage
        <3>2. QED
            BY <2>2, <3>1, CopyAt DEF Waiting
    <2>6. CASE FeedEndsEmpty
        <3>1. copy' = [m \in Messages |->
                          [copy[m] EXCEPT ![consumingOn] = IF @ = "feed" THEN "none" ELSE @]]
            BY <2>6 DEF FeedEndsEmpty
        <3>2. \A n \in Messages, k \in Chans :
                  copy'[n][k] = copy[n][k] \/ copy'[n][k] = "none"
            BY <3>1 DEF Known
        <3>3. QED
            BY <1>1, <2>1, <3>2, CopiesAdvance
    <2>7. QED
        BY <1>4, <2>3, <2>4, <2>5, <2>6 DEF FeedStep
<1>5. ASSUME NEW m \in Messages, Deliver(m) PROVE RInv'
    BY <1>1, <1>5, DeliverStep
<1>6. ASSUME NEW m \in Messages, NEW j \in Chans,
             \/ DispatchStep(<<m, j>>)
             \/ HandlerSucceeds(<<m, j>>)
             \/ HandlerFails(<<m, j>>)
      PROVE  RInv'
    <2>1. CASE DispatchStarts(<<m, j>>)
        BY <1>1, <2>1, StartStep
    <2>2. CASE DispatchRejects(<<m, j>>)
        BY <1>1, <2>2, EndStep DEF DispatchRejects, At, optionVars
    <2>3. CASE HandlerSucceeds(<<m, j>>)
        BY <1>1, <2>3, EndStep DEF HandlerSucceeds, At, optionVars, Known
    <2>4. CASE HandlerFails(<<m, j>>)
        BY <1>1, <2>4, EndStep DEF HandlerFails, At, optionVars, Known
    <2>5. QED
        BY <1>6, <2>1, <2>2, <2>3, <2>4 DEF DispatchStep
<1>7. QED
    BY <1>2, <1>3, <1>4, <1>5, <1>6
    DEF SubscriberNext, allVars, Asked, WatchStep, DecideStep, SelectStep, ReceiveReturnsWaited

\* A handler that starts: while the first channel is open its message has not been
\* handled with success before, and with autoAck not at all.
LEMMA StartsFresh ==
    ASSUME Known, HeldTypeOK, RInv, [SubscriberNext]_allVars
    PROVE  \A d \in Messages \X Chans :
              /\ d \notin At("handling")
              /\ copy'[d[1]][d[2]] = "handling"
              /\ outcome[d[1]] = "succeeded" \/ (autoAck /\ outcome[d[1]] # "none")
              => chanState[1] # "open" /\ ~autoAck
<1> SUFFICES ASSUME NEW m \in Messages, NEW j \in Chans,
                    copy[m][j] # "handling", copy'[m][j] = "handling",
                    outcome[m] = "succeeded" \/ (autoAck /\ outcome[m] # "none")
             PROVE  chanState[1] # "open" /\ ~autoAck
    BY DEF At
<1>1. DispatchStarts(<<m, j>>)
    <2>1. CASE UNCHANGED copy
        BY <2>1
    <2>2. ASSUME NEW n \in Messages, NEW k \in Chans, NEW p \in Place, Put(<<n, k>>, p)
          PROVE  p = "handling" /\ n = m /\ k = j
        BY <2>2, CopyPut
    <2>3. ASSUME NEW n \in Messages, NEW k \in Chans,
                 \/ DispatchStep(<<n, k>>)
                 \/ HandlerSucceeds(<<n, k>>)
                 \/ HandlerFails(<<n, k>>)
          PROVE  DispatchStarts(<<m, j>>)
        BY <2>2, <2>3, Values
        DEF DispatchStep, DispatchStarts, DispatchRejects, HandlerSucceeds, HandlerFails
    <2>4. ASSUME NEW n \in Messages, Deliver(n) \/ Put(<<n, consumingOn>>, "hand") PROVE FALSE
        <3>1. copy' = [copy EXCEPT ![n][consumingOn] = "feed"]
                \/ copy' = [copy EXCEPT ![n][consumingOn] = "hand"]
            BY <2>4 DEF Deliver, Put
        <3>2. QED
            BY <3>1 DEF Known
    <2>5. CASE FeedStep
        <3>1. CASE ForwardMessage
            BY <2>4, <3>1 DEF ForwardMessage
        <3>2. CASE HandOverMessage \/ SendGivesUpMessage
            BY <2>2, <3>2, CopyAt, Values DEF HandOverMessage, SendGivesUpMessage
        <3>3. CASE FeedEndsEmpty
            BY <3>3 DEF FeedEndsEmpty, Known
        <3>4. QED
            BY <2>5, <3>1, <3>2, <3>3 DEF FeedStep
    <2>6. \/ UNCHANGED copy
          \/ FeedStep
          \/ \E n \in Messages : Deliver(n)
          \/ \E d \in Messages \X Chans :
                DispatchStep(d) \/ HandlerSucceeds(d) \/ HandlerFails(d)
        BY DEF SubscriberNext, allVars, messageVars, Asked, ChannelEnds, TakesBack, WatchStep,
               DecideStep, SelectStep, ReceiveReturnsWaited
    <2>7. ASSUME NEW d \in Messages \X Chans,
                 DispatchStep(d) \/ HandlerSucceeds(d) \/ HandlerFails(d)
          PROVE  DispatchStarts(<<m, j>>)
        <3>1. PICK n \in Messages, k \in Chans : d = <<n, k>>
            OBVIOUS
        <3>2. QED
            BY <2>3, <2>7, <3>1
    <2>8. QED
        BY <2>1, <2>4, <2>5, <2>6, <2>7
<1>2. copy[m][j] = "dispatching"
    BY <1>1 DEF DispatchStarts, At
<1>3. ~autoAck
    BY <1>2 DEF RInv, AutoOnce, Waiting
<1>4. ASSUME chanState[1] = "open" PROVE FALSE
    <2>1. j = 1 /\ holder[m] = 1 /\ m \in gone
        BY <1>2, <1>3, <1>4 DEF RInv, ManualOnFirst
    <2>2. QED
        BY <2>1 DEF HeldTypeOK
<1>5. QED
    BY <1>3, <1>4

\* While the channel of Receive is not lost, a message is not handled again once a
\* handler succeeded with it; with WithAutoAck no message is handled twice, whatever
\* is lost. Redelivery is for nacks and for channels that ended before the ack.
THEOREM NotRedelivered == SubscriberSpec => SucceededIsNotRedelivered
<1>1. TypeOK /\ SInv /\ HeldTypeOK /\ RInv /\ [SubscriberNext]_allVars => RInv'
    BY RedeliverStep DEF SInv
<1>2. SInv /\ HeldTypeOK /\ RInv /\ [SubscriberNext]_allVars
        => [\A d \in Messages \X Chans :
               /\ d \notin At("handling")
               /\ copy'[d[1]][d[2]] = "handling"
               /\ outcome[d[1]] = "succeeded" \/ (autoAck /\ outcome[d[1]] # "none")
               => chanState[1] # "open" /\ ~autoAck]_allVars
    BY StartsFresh DEF SInv
<1>3. QED
    BY <1>1, <1>2, RedeliverInit, SubscriberInv, PTL
    DEF SubscriberSpec, SucceededIsNotRedelivered
=============================================================================
