---------------------------- MODULE AmqpChannel ----------------------------
(***************************************************************************)
(* The reconnecting AMQP client: ReconnectingConnection                    *)
(* (amqp/connection.go), ReconnectingChannel with Consume                  *)
(* (amqp/channel.go), and the loop of Subscriber.Receive that reads from   *)
(* it (amqp/subscriber.go).                                                *)
(*                                                                         *)
(* Goroutines: the watcher of the connection, the watcher of the channel,  *)
(* the forwarder started by Consume, the loop of Receive, and the          *)
(* developer who calls Close.  Every amqp.Connection and amqp.Channel the  *)
(* library makes has a number; a lost one is never reused.  The messages   *)
(* themselves are added by AmqpSubscriber.                                 *)
(*                                                                         *)
(* External, as the code uses it: the broker and amqp091-go.  NotifyClose  *)
(* on something open delivers an error when it is lost and closes the      *)
(* receiver when it is closed; on something that is no longer open it      *)
(* closes the receiver at once.                                            *)
(***************************************************************************)
EXTENDS Naturals, FiniteSets

CONSTANT MaxLosses   \* bound: how often the connection or the channel is lost

ASSUME BoundsAssumption == MaxLosses \in Nat

\* One is there at first, one replaces each lost one, and one more is there to be
\* made by mistake.
Conns == 1 .. MaxLosses + 2
Chans == 1 .. MaxLosses + 2

VARIABLES
    connState,    \* connState[i]: "none", "open", "lost" or "closed"
    conn,         \* c.Connection
    connWatch,    \* the watcher of the connection
    connClosed,   \* the developer has called Close of the connection
    chanState,    \* chanState[j]: as connState
    chanConn,     \* chanConn[j]: the connection channel j was opened on
    channel,      \* ch.Channel
    chanWatch,    \* the watcher of the channel
    closed,       \* ch.closed
    closeCall,    \* the developer's call of ReconnectingChannel.Close
    consumer,     \* where the goroutine of Consume is
    consumingOn,  \* its channel
    cancelled,    \* the broker has cancelled its consumer
    receive,      \* where Receive is; "starting" until Consume returns
    losses,       \* how often something was lost
    ctxDone       \* the context given to Receive is done

connVars    == <<connState, conn, connWatch, connClosed>>
chanVars    == <<chanState, chanConn, channel, chanWatch>>
closeVars   == <<closed, closeCall>>
consumeVars == <<consumer, consumingOn, cancelled>>
vars == <<connVars, chanVars, closeVars, consumeVars, receive, losses, ctxDone>>

State    == {"none", "open", "lost", "closed"}
Returned == {"nil", "ErrChannelClosed", "consume error"}
Watch    == {"register", "listening", "retrying", "exited"}
Consumer == {"none", "forwarding", "sending", "checking", "deciding", "pausing", "exited"}
Receive  == {"starting", "receiving", "dispatching", "stopping", "failing"} \cup Returned

\* The pointers c.Connection, ch.Channel and consumingOn are never nil.
TypeOK ==
    /\ connState \in [Conns -> State]
    /\ conn \in Conns
    /\ connWatch \in Watch
    /\ connClosed \in BOOLEAN
    /\ chanState \in [Chans -> State]
    /\ chanConn \in [Chans -> Conns]
    /\ channel \in Chans
    /\ \A x \in {chanState[channel], chanState[consumingOn], connState[conn]} : x # "none"
    /\ chanWatch \in Watch
    /\ closed \in BOOLEAN
    /\ closeCall \in {"none", "flagged", "done"}
    /\ consumer \in Consumer
    /\ consumingOn \in Chans
    /\ cancelled \in BOOLEAN
    /\ receive \in Receive
    /\ losses \in 0 .. MaxLosses
    /\ ctxDone \in BOOLEAN

\* Dial and Channel() have returned.  Each has started its watcher, a goroutine that
\* has yet to call NotifyClose.
Init ==
    /\ connState = [i \in Conns |-> IF i = 1 THEN "open" ELSE "none"]
    /\ conn = 1
    /\ connWatch = "register"
    /\ connClosed = FALSE
    /\ chanState = [j \in Chans |-> IF j = 1 THEN "open" ELSE "none"]
    /\ chanConn = [j \in Chans |-> 1]
    /\ channel = 1
    /\ chanWatch = "register"
    /\ closed = FALSE
    /\ closeCall = "none"
    /\ consumer = "none"
    /\ consumingOn = 1
    /\ cancelled = FALSE
    /\ receive = "starting"
    /\ losses = 0
    /\ ctxDone = FALSE

\* The state of the channels when connection i ends with it.
EndChannelsOf(i, end) ==
    [j \in Chans |-> IF chanConn[j] = i /\ chanState[j] = "open" THEN end
                     ELSE chanState[j]]

----------------------------------------------------------------------------
\* The network and the broker.  What is lost after Receive has returned is left out.

ConnLost ==
    /\ connState[conn] = "open"
    /\ receive \notin Returned
    /\ losses < MaxLosses
    /\ losses' = losses + 1
    /\ connState' = [connState EXCEPT ![conn] = "lost"]
    /\ chanState' = EndChannelsOf(conn, "lost")
    /\ UNCHANGED <<conn, connWatch, connClosed, chanConn, channel, chanWatch, closeVars,
                   consumeVars, receive, ctxDone>>

ChanLost ==
    /\ chanState[channel] = "open"
    /\ receive \notin Returned
    /\ losses < MaxLosses
    /\ losses' = losses + 1
    /\ chanState' = [chanState EXCEPT ![channel] = "lost"]
    /\ UNCHANGED <<connVars, chanConn, channel, chanWatch, closeVars, consumeVars, receive,
                   ctxDone>>

\* The broker cancels the consumer, for example because its queue was deleted.
BrokerCancels ==
    /\ consumer \in {"forwarding", "sending"}
    /\ chanState[consumingOn] = "open"
    /\ ~cancelled
    /\ cancelled' = TRUE
    /\ UNCHANGED <<connVars, chanVars, closeVars, consumer, consumingOn, receive,
                   losses, ctxDone>>

----------------------------------------------------------------------------
\* ReconnectingConnection.watchDisconnects.  `connection` is read once, before
\* the loop, so NotifyClose always asks the first connection.
WatchedConn == 1

ConnRegister ==
    /\ connWatch = "register"
    /\ connWatch' = IF connState[WatchedConn] = "open" THEN "listening" ELSE "exited"
    /\ UNCHANGED <<connState, conn, connClosed, chanVars, closeVars, consumeVars, receive,
                   losses, ctxDone>>

ConnNotified ==
    /\ connWatch = "listening"
    /\ connState[WatchedConn] \in {"lost", "closed"}
    /\ connWatch' = IF connState[WatchedConn] = "lost" THEN "retrying" ELSE "exited"
    /\ UNCHANGED <<connState, conn, connClosed, chanVars, closeVars, consumeVars, receive,
                   losses, ctxDone>>

\* amqp.Dial succeeds; while it fails the loop waits and tries again.
ConnRedial ==
    /\ connWatch = "retrying"
    /\ \E i \in Conns :
          /\ connState[i] = "none"
          /\ \A h \in 1 .. i - 1 : connState[h] # "none"
          /\ connState' = [connState EXCEPT ![i] = "open"]
          /\ conn' = i
    /\ connWatch' = "register"
    /\ UNCHANGED <<connClosed, chanVars, closeVars, consumeVars, receive,
                   losses, ctxDone>>

----------------------------------------------------------------------------
\* ReconnectingChannel.watchDisconnects.

ChanRegister ==
    /\ chanWatch = "register"
    /\ chanWatch' = IF chanState[channel] = "open" THEN "listening" ELSE "exited"
    /\ UNCHANGED <<connVars, chanState, chanConn, channel, closeVars, consumeVars, receive,
                   losses, ctxDone>>

ChanNotified ==
    /\ chanWatch = "listening"
    /\ chanState[channel] \in {"lost", "closed"}
    /\ chanWatch' = IF chanState[channel] = "lost" /\ ~closed THEN "retrying" ELSE "exited"
    /\ UNCHANGED <<connVars, chanState, chanConn, channel, closeVars, consumeVars, receive,
                   losses, ctxDone>>

\* connection.Connection.Channel() succeeds; it fails while that connection is
\* not open, and is tried again, whether or not Close has been called meanwhile.
ChanReopenUnchecked ==
    /\ chanWatch = "retrying"
    /\ \E j \in Chans :
          /\ chanState[j] = "none"
          /\ chanState' = IF connState[conn] = "open"
                          THEN [chanState EXCEPT ![j] = "open"] ELSE chanState
          /\ chanConn' = [chanConn EXCEPT ![j] = conn]
          /\ channel' = j
    /\ chanWatch' = "register"
    /\ UNCHANGED <<connVars, closeVars, consumeVars, receive, losses, ctxDone>>

ChanReopen ==
    /\ chanWatch = "retrying"
    /\ connState[conn] = "open"
    /\ \E j \in Chans :
          /\ chanState[j] = "none"
          /\ \A h \in 1 .. j - 1 : chanState[h] # "none"
          /\ chanState' = [chanState EXCEPT ![j] = "open"]
          /\ chanConn' = [chanConn EXCEPT ![j] = conn]
          /\ channel' = j
    /\ chanWatch' = "register"
    /\ UNCHANGED <<connVars, closeVars, consumeVars, receive,
                   losses, ctxDone>>

----------------------------------------------------------------------------
\* ReconnectingChannel.Close: the flag first, then the channel of that moment.

CloseFlag ==
    /\ closeCall = "none"
    /\ ~closed
    /\ closed' = TRUE
    /\ closeCall' = "flagged"
    /\ UNCHANGED <<connVars, chanVars, consumeVars, receive,
                   losses, ctxDone>>

CloseChannel ==
    /\ closeCall = "flagged"
    /\ closeCall' = "done"
    /\ chanState' = IF chanState[channel] = "open"
                    THEN [chanState EXCEPT ![channel] = "closed"] ELSE chanState
    /\ UNCHANGED <<connVars, chanConn, channel, chanWatch, closed, consumeVars, receive,
                   losses, ctxDone>>

\* The promoted Close of the current amqp.Connection: nothing of
\* ReconnectingConnection remembers it.
ConnClose ==
    /\ ~connClosed
    /\ connClosed' = TRUE
    /\ IF connState[conn] = "open"
       THEN /\ connState' = [connState EXCEPT ![conn] = "closed"]
            /\ chanState' = EndChannelsOf(conn, "closed")
       ELSE UNCHANGED <<connState, chanState>>
    /\ UNCHANGED <<conn, connWatch, chanConn, channel, chanWatch, closeVars, consumeVars,
                   receive, losses, ctxDone>>

----------------------------------------------------------------------------
\* The goroutine of Consume.  d is closed when its channel is not open, when the
\* broker cancelled the consumer, and when ctx is done (ConsumeWithContext then
\* cancels it).
FeedClosed == chanState[consumingOn] # "open" \/ cancelled \/ ctxDone

Moves(place) ==
    /\ consumer' = place
    /\ UNCHANGED <<connVars, chanVars, closeVars, losses, ctxDone>>

\* Receive calls Consume, which consumes on the channel of this moment.
ConsumeStarts ==
    /\ receive = "starting"
    /\ chanState[channel] = "open"
    /\ consumingOn' = channel
    /\ Moves("forwarding")
    /\ receive' = "receiving"
    /\ UNCHANGED cancelled

\* Receive returns its error.
ConsumeRefused ==
    /\ receive = "starting"
    /\ chanState[channel] # "open"
    /\ receive' = "consume error"
    /\ UNCHANGED <<connVars, chanVars, closeVars, consumeVars, losses, ctxDone>>

\* ErrQueueNotFound: the broker has closed the channel too.
QueueNotFound ==
    /\ receive = "starting"
    /\ chanState[channel] = "open"
    /\ losses < MaxLosses
    /\ losses' = losses + 1
    /\ chanState' = [chanState EXCEPT ![channel] = "lost"]
    /\ receive' = "consume error"
    /\ UNCHANGED <<connVars, chanConn, channel, chanWatch, closeVars, consumeVars, ctxDone>>

\* `for msg := range d`: a message, possibly one that was buffered before the
\* feed was closed.
Forward ==
    /\ consumer = "forwarding"
    /\ Moves("sending")
    /\ UNCHANGED <<consumingOn, cancelled, receive>>

\* `deliveries <- msg`, taken by the select of Receive, which calls Dispatch.
HandOver ==
    /\ consumer = "sending"
    /\ receive = "receiving"
    /\ Moves("forwarding")
    /\ receive' = "dispatching"
    /\ UNCHANGED <<consumingOn, cancelled>>

SendGivesUpMissing == FALSE

\* `case <-ctx.Done()`: the message in hand is dropped.
SendGivesUp ==
    /\ consumer = "sending"
    /\ ctxDone
    /\ Moves("exited")
    /\ UNCHANGED <<consumingOn, cancelled, receive>>

FeedEnds ==
    /\ consumer = "forwarding"
    /\ FeedClosed
    /\ Moves("checking")
    /\ UNCHANGED <<consumingOn, cancelled, receive>>

\* `!consumingOn.IsClosed()`: the broker, or ctx, cancelled the consumer.
CheckChannelSkipped ==
    /\ consumer = "checking"
    /\ Moves("exited")
    /\ UNCHANGED <<consumingOn, cancelled, receive>>

CheckChannel ==
    /\ consumer = "checking"
    /\ Moves(IF chanState[consumingOn] = "open" THEN "exited" ELSE "deciding")
    /\ UNCHANGED <<consumingOn, cancelled, receive>>

\* `ctx.Err() != nil || ch.IsClosed()`, before every new attempt to consume.
DecideIgnoresClose ==
    /\ consumer = "deciding"
    /\ Moves(IF ctxDone THEN "exited" ELSE "pausing")
    /\ UNCHANGED <<consumingOn, cancelled, receive>>

Decide ==
    /\ consumer = "deciding"
    /\ Moves(IF ctxDone \/ closed THEN "exited" ELSE "pausing")
    /\ UNCHANGED <<consumingOn, cancelled, receive>>

PauseGivesUp ==
    /\ consumer = "pausing"
    /\ ctxDone
    /\ Moves("exited")
    /\ UNCHANGED <<consumingOn, cancelled, receive>>

ConsumeAgainStale ==
    /\ consumer = "pausing"
    /\ Moves(IF chanState[consumingOn] = "open" THEN "forwarding" ELSE "deciding")
    /\ UNCHANGED <<consumingOn, cancelled, receive>>

\* The pause ends: consume on the channel of this moment.
ConsumeAgain ==
    /\ consumer = "pausing"
    /\ consumingOn' = channel
    /\ \/ /\ chanState[channel] = "open"
          /\ Moves("forwarding")
          /\ cancelled' = FALSE
       \/ /\ chanState[channel] # "open"
          /\ Moves("deciding")
          /\ UNCHANGED cancelled
    /\ UNCHANGED receive

----------------------------------------------------------------------------
\* Receive.

CtxDone ==
    /\ ~ctxDone
    /\ ctxDone' = TRUE
    /\ UNCHANGED <<connVars, chanVars, closeVars, consumeVars, receive, losses>>

\* Dispatch gets a slot or gives up.
DispatchReturns ==
    /\ receive = "dispatching"
    /\ receive' = "receiving"
    /\ UNCHANGED <<connVars, chanVars, closeVars, consumeVars, losses, ctxDone>>

ReceiveCtxDone ==
    /\ receive = "receiving"
    /\ ctxDone
    /\ receive' = "stopping"
    /\ UNCHANGED <<connVars, chanVars, closeVars, consumeVars, losses, ctxDone>>

\* The deliveries channel is closed: nil if ctx is done, else ErrChannelClosed.
ReceiveClosed ==
    /\ receive = "receiving"
    /\ consumer = "exited"
    /\ receive' = IF ctxDone THEN "stopping" ELSE "failing"
    /\ UNCHANGED <<connVars, chanVars, closeVars, consumeVars, losses, ctxDone>>

\* The deferred d.Wait() returns.
ReceiveReturns ==
    /\ receive \in {"stopping", "failing"}
    /\ receive' = IF receive = "stopping" THEN "nil" ELSE "ErrChannelClosed"
    /\ UNCHANGED <<connVars, chanVars, closeVars, consumeVars, losses, ctxDone>>

----------------------------------------------------------------------------
ConnWatchStep == ConnRegister \/ ConnNotified \/ ConnRedial
ChanWatchStep == ChanRegister \/ ChanNotified \/ ChanReopen
ConsumeStep ==
    \/ ConsumeStarts
    \/ ConsumeRefused
    \/ HandOver
    \/ SendGivesUp
    \/ FeedEnds
    \/ CheckChannel
    \/ Decide
    \/ PauseGivesUp
    \/ ConsumeAgain
ReceiveStep == DispatchReturns \/ ReceiveCtxDone \/ ReceiveClosed \/ ReceiveReturns

Next ==
    \/ ConnLost
    \/ ChanLost
    \/ BrokerCancels
    \/ CtxDone
    \/ CloseFlag
    \/ CloseChannel
    \/ ConnClose
    \/ QueueNotFound
    \/ Forward
    \/ ConnWatchStep
    \/ ChanWatchStep
    \/ ConsumeStep
    \/ ReceiveStep

Spec == Init /\ [][Next]_vars

(***************************************************************************)
(* Fairness: goroutines that can run do, retries end by succeeding once    *)
(* what they ask for is there (the broker comes back), and the feed ends:  *)
(* a closed channel holds no endless supply of buffered messages.  A case  *)
(* of a select that is ready again and again is taken.                     *)
(***************************************************************************)
Fairness ==
    /\ WF_vars(ConnWatchStep)
    /\ WF_vars(ChanWatchStep)
    /\ WF_vars(CloseChannel)
    /\ WF_vars(ConsumeStep)
    /\ SF_vars(FeedEnds)
    /\ SF_vars(SendGivesUp)
    /\ WF_vars(ReceiveStep)
    /\ SF_vars(ReceiveCtxDone)

FairSpec == Spec /\ Fairness

----------------------------------------------------------------------------
\* "ErrChannelClosed is returned by Receive when the deliveries stop while ctx is
\* not done": once Receive consumes, a network failure alone never makes it return
\* that error; only the developer's Close or a cancelled consumer does.  A loss
\* before its first Consume is another error, the one that Consume returns.
FailsOnlyWhenStopped ==
    receive \in {"failing", "ErrChannelClosed"} => closed \/ cancelled

\* Once ctx is done, Receive returns and its forwarder ends.
ShutdownCompletes ==
    ctxDone ~> (receive \in Returned /\ consumer \in {"none", "exited"})

NotConsuming == consumer \in {"none", "exited"}

\* "The returned deliveries channel is closed ... when the channel is closed by
\* the developer" (channel.go), said of a Consume that had returned its deliveries
\* before Close was called.
CloseEndsConsume == <>(~closed /\ ~NotConsuming) => (closed ~> NotConsuming)

\* What does hold of it: Consume outlives Close only on a channel that was opened
\* by the watcher while, or after, Close ran.
CloseEndsConsumeUnlessReopened ==
    closed ~> (NotConsuming \/ (closeCall = "done" /\ chanState[channel] = "open"))

\* "It is also closed when the broker cancels the consumer while the channel
\* stays open" (channel.go).
CancelEndsConsume == cancelled ~> (NotConsuming \/ chanState[consumingOn] # "open")

\* Both ways in which the deliveries channel is closed while ctx is not done.
ConsumeEnds == CloseEndsConsumeUnlessReopened /\ CancelEndsConsume

Consuming == consumer \in {"forwarding", "sending"} /\ chanState[consumingOn] = "open"
Stopped   == ctxDone \/ closed \/ connClosed \/ receive \in Returned \/ consumer = "exited"

\* What the code has now was lost before its watcher has called NotifyClose.
LossMissed ==
    \/ connWatch = "register" /\ connState[conn] = "lost"
    \/ chanWatch = "register" /\ chanState[channel] = "lost"

\* "Automatic connection and channel reconnection" (USAGE_PATTERNS.md): when the
\* failures are over the connection is open, unless the developer closed it.  It is
\* said of losses that come when the watchers listen.
ConnectionReconnects ==
    <>LossMissed \/ <>[](connState[conn] = "open" \/ connClosed)
=============================================================================
