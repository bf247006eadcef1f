------------------------- MODULE ChannelSubscriber -------------------------
(***************************************************************************)
(* ChannelSubscriber.Receive and drain (core/subscriber/channel.go), with  *)
(* the ChannelPublisher (core/publisher/channel.go) that feeds its input   *)
(* channel.  The receiving loop and the goroutines of the Dispatcher are   *)
(* those of Dispatcher.tla; here the loop's select, the retry channel and  *)
(* the drain loop are added.                                               *)
(*                                                                         *)
(* Every attempt to handle a message is a delivery <<m, k>> of its own,    *)
(* since dispatch gives the Dispatcher a copy of the message.              *)
(***************************************************************************)
EXTENDS Naturals, FiniteSets, Sequences

CONSTANTS
    Messages,        \* the messages published to the input channel
    MaxInFlight,     \* ChannelSubscriber.maxInFlight, at least 1
    InputCap,        \* capacity of the input channel
    MaxAttempts,     \* bound: the handler succeeds at the latest at this attempt
    Nil              \* a nil *message.Message

ASSUME ChannelAssumption ==
    /\ MaxInFlight \in Nat \ {0}
    /\ InputCap \in Nat \ {0}
    /\ MaxAttempts \in Nat \ {0}
    /\ Nil \notin Messages

Attempts == Messages \X (1 .. MaxAttempts)

VARIABLES
    pc, outcome, expired, settled, panicking, slots, wg, ctxDone, loop, crashed,
    input,       \* the buffer of the input channel
    closed,      \* the input channel is closed
    sent,        \* what was sent to the input channel, Nil included
    retry,       \* the buffer of the retry channel
    mode         \* where Receive is: "receive", "stop", "drain" or "drainTake"

D == INSTANCE Dispatcher WITH
        Deliveries       <- Attempts,
        HasTimeout       <- FALSE,
        AckMayFail       <- FALSE,
        CallbackMayPanic <- FALSE

dispatcherVars == <<pc, outcome, expired, settled, panicking, slots, wg, ctxDone,
                    loop, crashed>>
channelVars == <<input, closed, sent, retry, mode>>
vars == <<dispatcherVars, channelVars>>

\* The comments in the code say that at most MaxInFlight + 1 messages are ever
\* retried, and that a send to the retry channel never blocks.
RetryCap == MaxInFlight + 1

TypeOK ==
    /\ D!TypeOK
    /\ input \in Seq(Messages \cup {Nil})
    /\ Len(input) <= InputCap
    /\ closed \in BOOLEAN
    /\ sent \subseteq Messages \cup {Nil}
    /\ retry \in Seq(Messages)
    /\ Len(retry) <= RetryCap
    /\ mode \in {"receive", "stop", "drain", "drainTake"}

Init ==
    /\ D!Init
    /\ input = <<>>
    /\ closed = FALSE
    /\ sent = {}
    /\ retry = <<>>
    /\ mode = "receive"

----------------------------------------------------------------------------
\* The publisher.  It closes the channel after its own sends.

Send(m) ==
    /\ m \notin sent
    /\ ~closed
    /\ Len(input) < InputCap
    /\ input' = Append(input, m)
    /\ sent' = sent \cup {m}
    /\ UNCHANGED <<dispatcherVars, closed, retry, mode>>

CloseInput ==
    /\ ~closed
    /\ closed' = TRUE
    /\ UNCHANGED <<dispatcherVars, input, sent, retry, mode>>

----------------------------------------------------------------------------
\* The loop of Receive.

InSelect == mode = "receive" /\ loop = "receiving" /\ D!LoopFree

\* A message is taken from the retry channel and dispatched: a new attempt.
TakeRetry ==
    /\ retry # <<>>
    /\ \E k \in 1 .. MaxAttempts :
          /\ \A j \in 1 .. k - 1 : pc[<<Head(retry), j>>] # "idle"
          /\ D!Dispatch(<<Head(retry), k>>)
    /\ retry' = Tail(retry)

\* `case <-ctx.Done()`: wait for the deliveries in flight.
SelectCtxDone ==
    /\ InSelect
    /\ ctxDone
    /\ D!Wait
    /\ mode' = "stop"
    /\ UNCHANGED <<input, closed, sent, retry>>

\* `case msg := <-retry`.
SelectRetry ==
    /\ InSelect
    /\ TakeRetry
    /\ UNCHANGED <<input, closed, sent, mode>>

\* `case msg, ok := <-c.inputCh`, with a message.
SelectInput ==
    /\ InSelect
    /\ input # <<>>
    /\ Head(input) # Nil
    /\ D!Dispatch(<<Head(input), 1>>)
    /\ input' = Tail(input)
    /\ UNCHANGED <<closed, sent, retry, mode>>

\* A nil message is skipped.
SelectNil ==
    /\ InSelect
    /\ input # <<>>
    /\ Head(input) = Nil
    /\ input' = Tail(input)
    /\ UNCHANGED <<dispatcherVars, closed, sent, retry, mode>>

SelectClosedMissing ==
    /\ InSelect
    /\ input = <<>>
    /\ closed
    /\ UNCHANGED vars

\* The input channel is closed and empty: drain starts, with d.Wait().
SelectClosed ==
    /\ InSelect
    /\ input = <<>>
    /\ closed
    /\ D!Wait
    /\ mode' = "drain"
    /\ UNCHANGED <<input, closed, sent, retry>>

StopReturnsWithoutWait ==
    /\ mode = "stop"
    /\ loop = "waiting"
    /\ loop' = "returned"
    /\ UNCHANGED <<pc, outcome, expired, settled, panicking, slots, wg, ctxDone, crashed>>
    /\ UNCHANGED channelVars

StopReturns ==
    /\ mode = "stop"
    /\ D!WaitReturns
    /\ UNCHANGED channelVars

----------------------------------------------------------------------------
\* The loop of drain.

\* Wait has returned; ctx is done, or nothing is left to handle again.
DrainReturnsEarly ==
    /\ mode = "drain"
    /\ D!WaitReturns
    /\ UNCHANGED channelVars

DrainReturns ==
    /\ mode = "drain"
    /\ ctxDone \/ retry = <<>>
    /\ D!WaitReturns
    /\ UNCHANGED channelVars

\* Wait has returned, ctx is not done and a nacked message is left.
DrainContinues ==
    /\ mode = "drain"
    /\ retry # <<>>
    /\ D!WaitContinues
    /\ mode' = "drainTake"
    /\ UNCHANGED <<input, closed, sent, retry>>

DrainTake ==
    /\ mode = "drainTake"
    /\ TakeRetry
    /\ mode' = "drain"
    /\ UNCHANGED <<input, closed, sent>>

\* Dispatch has returned: the loop of drain calls Wait again.
DrainWait ==
    /\ mode = "drain"
    /\ D!Wait
    /\ UNCHANGED channelVars

----------------------------------------------------------------------------
\* Dispatch, Handle and the goroutines.

\* The end of the handler, with the bound on the attempts.
HandlerEnds(d) ==
    /\ \/ D!HandlerSucceeds(d)
       \/ d[2] < MaxAttempts /\ (D!HandlerFails(d) \/ D!HandlerPanics(d))
    /\ UNCHANGED channelVars

\* Delivery.Nack sends the message to retry, and blocks while it is full.
NackSendsCopy(d) ==
    /\ D!RejectNack(d) \/ D!Nack(d) \/ D!RecoverNack(d)
    /\ Len(retry) < RetryCap
    /\ retry' = Append(retry, d)
    /\ UNCHANGED <<input, closed, sent, mode>>

NackDropsOnShutdown(d) ==
    /\ D!RejectNack(d) \/ D!Nack(d) \/ D!RecoverNack(d)
    /\ Len(retry) < RetryCap
    /\ retry' = IF ctxDone THEN retry ELSE Append(retry, d[1])
    /\ UNCHANGED <<input, closed, sent, mode>>

Nack(d) ==
    /\ D!RejectNack(d) \/ D!Nack(d) \/ D!RecoverNack(d)
    /\ Len(retry) < RetryCap
    /\ retry' = Append(retry, d[1])
    /\ UNCHANGED <<input, closed, sent, mode>>

\* The steps that do not touch the retry channel.
Proceed(d) ==
    /\ \/ D!AcquireSlot(d)
       \/ D!GiveUpSlot(d)
       \/ D!Ack(d)
       \/ D!Finish(d)
    /\ UNCHANGED channelVars

CtxDone ==
    /\ D!CtxDone
    /\ UNCHANGED channelVars

LoopStep ==
    \/ SelectCtxDone
    \/ SelectRetry
    \/ SelectInput
    \/ SelectNil
    \/ SelectClosed
    \/ StopReturns
    \/ DrainReturns
    \/ DrainContinues
    \/ DrainTake
    \/ DrainWait

DeliveryStep(d) == HandlerEnds(d) \/ Nack(d) \/ Proceed(d)

Terminated ==
    /\ crashed \/ loop = "returned"
    /\ UNCHANGED vars

Next ==
    \/ /\ ~crashed
       /\ \/ \E m \in Messages \cup {Nil} : Send(m)
          \/ CloseInput
          \/ CtxDone
          \/ LoopStep
          \/ \E d \in Attempts : DeliveryStep(d)
    \/ Terminated

Spec == Init /\ [][Next]_vars

(***************************************************************************)
(* Fairness: Go runs every goroutine that can run, and picks at random     *)
(* among the ready cases of a select, so a case that is ready again and    *)
(* again is taken (strong fairness).  Handlers return: nothing in          *)
(* ChannelSubscriber ends one that does not.                               *)
(***************************************************************************)
Fairness ==
    /\ WF_vars(~crashed /\ LoopStep)
    /\ SF_vars(~crashed /\ SelectCtxDone)
    /\ SF_vars(~crashed /\ SelectRetry)
    /\ \A d \in Attempts : WF_vars(~crashed /\ DeliveryStep(d))

FairSpec == Spec /\ Fairness

----------------------------------------------------------------------------
\* How often m is waiting in a channel, being dispatched or handled, or acked.
InSequence(s, m) == Cardinality({i \in 1 .. Len(s) : s[i] = m})
Unsettled(m) == {k \in 1 .. MaxAttempts :
                    /\ settled[<<m, k>>] = "no"
                    /\ pc[<<m, k>>] # "idle"}
Acked(m) == {k \in 1 .. MaxAttempts : settled[<<m, k>>] = "acked"}

\* No message is lost or doubled: a message sent to the input channel is at every
\* moment in exactly one place: the input channel, the retry channel, one
\* unsettled attempt, or acked by one attempt. So two attempts of one message
\* never run together, and an acked message is never handled again.
InOnePlace ==
    \A m \in Messages :
        InSequence(input, m) + InSequence(retry, m)
            + Cardinality(Unsettled(m)) + Cardinality(Acked(m))
          = IF m \in sent THEN 1 ELSE 0

\* When Receive returns because the input channel was closed, and not because
\* ctx is done, every message sent was acked: drain leaves nothing behind.
DrainedAll ==
    loop = "returned" /\ ~ctxDone =>
        \A m \in sent \ {Nil} : Acked(m) # {}

\* Receive returns once ctx is done.
ShutdownCompletes == ctxDone ~> (loop = "returned" \/ crashed)

\* Receive returns once ctx is done or the input channel is closed, in whatever order
\* the two happen and whatever is nacked meanwhile. It holds as long as the retry
\* channel has room for every message that may be nacked; with MaxInFlight + 2
\* messages the loop can wait for ever in the nack of Dispatch.
StopCompletes == (ctxDone \/ closed) ~> (loop = "returned" \/ crashed)

\* The loop uses the dispatcher as Dispatcher.tla says a loop does.
ImplementsDispatcher == D!Spec
=============================================================================
