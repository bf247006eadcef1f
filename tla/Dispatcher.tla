----------------------------- MODULE Dispatcher -----------------------------
(***************************************************************************)
(* The Dispatcher of core/subscriber/dispatcher.go: the receiving loop of  *)
(* a Subscriber implementation calls Dispatch for each delivery, one       *)
(* goroutine per delivery runs Handle while it holds a slot, and Wait      *)
(* blocks the loop until the WaitGroup is zero.                            *)
(*                                                                         *)
(* Processes: the receiving loop, one goroutine per delivery, whoever      *)
(* cancels the context of Receive, and the deadline timers.  A step is one *)
(* operation another process can observe: a channel operation, a WaitGroup *)
(* operation, the end of the handler, or a call to the broker.             *)
(***************************************************************************)
EXTENDS Naturals, FiniteSets

CONSTANTS
    Deliveries,        \* the deliveries the loop may receive
    MaxInFlight,       \* DispatchOptions.MaxInFlight, after NewDispatcher's default
    HasTimeout,        \* DispatchOptions.ProcessingTimeout > 0
    AckMayFail,        \* the broker may refuse an ack or a nack
    CallbackMayPanic   \* OnAckError and OnNackError are set and may panic

\* NewDispatcher replaces a MaxInFlight <= 0, so it is at least 1.
ASSUME MaxInFlightAssumption == MaxInFlight \in Nat \ {0}

ASSUME OptionsAssumption ==
    /\ HasTimeout \in BOOLEAN
    /\ AckMayFail \in BOOLEAN
    /\ CallbackMayPanic \in BOOLEAN

VARIABLES
    pc,          \* pc[d]: where the delivery is, see PC
    outcome,     \* outcome[d]: how the handler ended
    expired,     \* expired[d]: the deadline of the message context has passed
    settled,     \* settled[d]: what the broker has accepted for the delivery
    panicking,   \* panicking[d]: a panic unwinds the delivery's goroutine
    slots,       \* len(d.slots)
    wg,          \* the counter of d.wg
    ctxDone,     \* the context given to Receive is done
    loop,        \* the receiving loop: "receiving", "waiting", "returned"
    crashed      \* a panic has ended the process

vars == <<pc, outcome, expired, settled, panicking, slots, wg, ctxDone, loop,
          crashed>>

(***************************************************************************)
(* The places of a delivery:                                               *)
(*   idle       not received yet                                           *)
(*   select     the loop is in the select of Dispatch                      *)
(*   rejecting  the loop is about to nack it inside Dispatch               *)
(*   handler    its goroutine runs the handler                             *)
(*   ack, nack  its goroutine is about to call Ack or Nack                 *)
(*   recovery   the deferred recover is about to call Nack                 *)
(*   handled    Handle has ended; the slot is still held                   *)
(*   released   the slot is free, wg.Done has not run                      *)
(*   done       nothing is left to do                                      *)
(***************************************************************************)
InHandle == {"handler", "ack", "nack", "recovery"}
Holding  == InHandle \cup {"handled"}
Counted  == Holding \cup {"released"}
InLoop   == {"select", "rejecting"}
PC       == {"idle", "done"} \cup InLoop \cup Counted

InFlight == {d \in Deliveries : pc[d] \in Holding}
Pending  == {d \in Deliveries : pc[d] \in Counted}

Outcome == {"none", "nil", "error", "ctxErr", "panic"}

TypeOK ==
    /\ pc \in [Deliveries -> PC]
    /\ outcome \in [Deliveries -> Outcome]
    /\ expired \in [Deliveries -> BOOLEAN]
    /\ settled \in [Deliveries -> {"no", "acked", "nacked"}]
    /\ panicking \in [Deliveries -> BOOLEAN]
    /\ slots \in Nat
    /\ wg \in Nat
    /\ ctxDone \in BOOLEAN
    /\ loop \in {"receiving", "waiting", "returned"}
    /\ crashed \in BOOLEAN

Init ==
    /\ pc = [d \in Deliveries |-> "idle"]
    /\ outcome = [d \in Deliveries |-> "none"]
    /\ expired = [d \in Deliveries |-> FALSE]
    /\ settled = [d \in Deliveries |-> "no"]
    /\ panicking = [d \in Deliveries |-> FALSE]
    /\ slots = 0
    /\ wg = 0
    /\ ctxDone = FALSE
    /\ loop = "receiving"
    /\ crashed = FALSE

----------------------------------------------------------------------------
(***************************************************************************)
(* A context is the set of events that cancel it: "receive" (the context   *)
(* given to Receive is done) and "deadline" (the processing timeout of the *)
(* delivery).  The context of a delivered message comes from Receive.      *)
(***************************************************************************)
DeliveryCtx == {"receive"}
WithoutCancel(ctx) == {}

AckCtxInherited == DeliveryCtx
AckCtx == WithoutCancel(DeliveryCtx)

MsgCtxInherited == DeliveryCtx \cup (IF HasTimeout THEN {"deadline"} ELSE {})
MsgCtx == AckCtx \cup (IF HasTimeout THEN {"deadline"} ELSE {})

Cancelled(ctx, d) ==
    \/ "receive" \in ctx /\ ctxDone
    \/ "deadline" \in ctx /\ expired[d]

\* A call to the broker under a context may succeed unless the context is
\* cancelled, and may fail when it is, or when the broker refuses it.
CallSucceeds(ctx, d) == ~Cancelled(ctx, d)
CallFails(ctx, d) == AckMayFail \/ Cancelled(ctx, d)

----------------------------------------------------------------------------
\* The receiving loop.  It runs one Dispatch at a time.
LoopFree == \A d \in Deliveries : pc[d] \notin InLoop

CtxDone ==
    /\ ~ctxDone
    /\ ctxDone' = TRUE
    /\ UNCHANGED <<pc, outcome, expired, settled, panicking, slots, wg, loop, crashed>>

\* The loop received d and calls Dispatch: ctx.Err() decides whether the
\* select is entered at all.
Dispatch(d) ==
    /\ loop = "receiving"
    /\ LoopFree
    /\ pc[d] = "idle"
    /\ pc' = [pc EXCEPT ![d] = IF ctxDone THEN "rejecting" ELSE "select"]
    /\ UNCHANGED <<outcome, expired, settled, panicking, slots, wg, ctxDone, loop, crashed>>

\* `case d.slots <- struct{}{}`.  wg.Add(1) and the go statement follow in the
\* same goroutine that will call Wait, and touch nothing the handling
\* goroutines wait for, so they are part of this step.
AcquireSlotUnbounded(d) ==
    /\ pc[d] = "select"
    /\ slots' = slots + 1
    /\ wg' = wg + 1
    /\ pc' = [pc EXCEPT ![d] = "handler"]
    /\ UNCHANGED <<outcome, expired, settled, panicking, ctxDone, loop, crashed>>

AcquireSlotUncounted(d) ==
    /\ pc[d] = "select"
    /\ slots < MaxInFlight
    /\ slots' = slots + 1
    /\ pc' = [pc EXCEPT ![d] = "handler"]
    /\ UNCHANGED <<outcome, expired, settled, panicking, wg, ctxDone, loop, crashed>>

AcquireSlot(d) ==
    /\ pc[d] = "select"
    /\ slots < MaxInFlight
    /\ slots' = slots + 1
    /\ wg' = wg + 1
    /\ pc' = [pc EXCEPT ![d] = "handler"]
    /\ UNCHANGED <<outcome, expired, settled, panicking, ctxDone, loop, crashed>>

\* `case <-ctx.Done()`.
GiveUpSlot(d) ==
    /\ pc[d] = "select"
    /\ ctxDone
    /\ pc' = [pc EXCEPT ![d] = "rejecting"]
    /\ UNCHANGED <<outcome, expired, settled, panicking, slots, wg, ctxDone, loop, crashed>>

\* The nack at the end of Dispatch succeeds.
RejectNack(d) ==
    /\ pc[d] = "rejecting"
    /\ CallSucceeds(WithoutCancel(DeliveryCtx), d)
    /\ settled' = [settled EXCEPT ![d] = "nacked"]
    /\ pc' = [pc EXCEPT ![d] = "done"]
    /\ UNCHANGED <<outcome, expired, panicking, slots, wg, ctxDone, loop, crashed>>

\* It fails.  Nothing recovers a panic of OnNackError in the receiving loop.
RejectNackFails(d) ==
    /\ pc[d] = "rejecting"
    /\ CallFails(WithoutCancel(DeliveryCtx), d)
    /\ pc' = [pc EXCEPT ![d] = "done"]
    /\ crashed' \in {FALSE, CallbackMayPanic}
    /\ UNCHANGED <<outcome, expired, settled, panicking, slots, wg, ctxDone, loop>>

\* The loop stops receiving, because ctx is done or the broker failed, or wants
\* to know that nothing is in flight, and calls Wait.
Wait ==
    /\ loop = "receiving"
    /\ LoopFree
    /\ loop' = "waiting"
    /\ UNCHANGED <<pc, outcome, expired, settled, panicking, slots, wg, ctxDone, crashed>>

\* Wait returns and so does Receive.
WaitReturns ==
    /\ loop = "waiting"
    /\ wg = 0
    /\ loop' = "returned"
    /\ UNCHANGED <<pc, outcome, expired, settled, panicking, slots, wg, ctxDone, crashed>>

\* Wait returns and the loop receives again, as the drain loop of
\* ChannelSubscriber does when ctx is not done.
WaitContinues ==
    /\ loop = "waiting"
    /\ wg = 0
    /\ ~ctxDone
    /\ loop' = "receiving"
    /\ UNCHANGED <<pc, outcome, expired, settled, panicking, slots, wg, ctxDone, crashed>>

----------------------------------------------------------------------------
\* Handle, in the goroutine of the delivery.

DeadlineExpires(d) ==
    /\ "deadline" \in MsgCtx
    /\ pc[d] \in InHandle
    /\ ~expired[d]
    /\ expired' = [expired EXCEPT ![d] = TRUE]
    /\ UNCHANGED <<pc, outcome, settled, panicking, slots, wg, ctxDone, loop, crashed>>

HandlerSucceeds(d) ==
    /\ pc[d] = "handler"
    /\ outcome' = [outcome EXCEPT ![d] = "nil"]
    /\ pc' = [pc EXCEPT ![d] = "ack"]
    /\ UNCHANGED <<expired, settled, panicking, slots, wg, ctxDone, loop, crashed>>

HandlerFails(d) ==
    /\ pc[d] = "handler"
    /\ outcome' = [outcome EXCEPT ![d] = "error"]
    /\ pc' = [pc EXCEPT ![d] = "nack"]
    /\ UNCHANGED <<expired, settled, panicking, slots, wg, ctxDone, loop, crashed>>

\* A handler that observes its context returns the context's error.
HandlerAborts(d) ==
    /\ pc[d] = "handler"
    /\ Cancelled(MsgCtx, d)
    /\ outcome' = [outcome EXCEPT ![d] = "ctxErr"]
    /\ pc' = [pc EXCEPT ![d] = "nack"]
    /\ UNCHANGED <<expired, settled, panicking, slots, wg, ctxDone, loop, crashed>>

HandlerPanicsUnnacked(d) ==
    /\ pc[d] = "handler"
    /\ outcome' = [outcome EXCEPT ![d] = "panic"]
    /\ panicking' = [panicking EXCEPT ![d] = TRUE]
    /\ pc' = [pc EXCEPT ![d] = "handled"]
    /\ UNCHANGED <<expired, settled, slots, wg, ctxDone, loop, crashed>>

HandlerPanics(d) ==
    /\ pc[d] = "handler"
    /\ outcome' = [outcome EXCEPT ![d] = "panic"]
    /\ panicking' = [panicking EXCEPT ![d] = TRUE]
    /\ pc' = [pc EXCEPT ![d] = "recovery"]
    /\ UNCHANGED <<expired, settled, slots, wg, ctxDone, loop, crashed>>

Ack(d) ==
    /\ pc[d] = "ack"
    /\ CallSucceeds(AckCtx, d)
    /\ settled' = [settled EXCEPT ![d] = "acked"]
    /\ pc' = [pc EXCEPT ![d] = "handled"]
    /\ UNCHANGED <<outcome, expired, panicking, slots, wg, ctxDone, loop, crashed>>

\* OnAckError gets the error.  If it panics, the deferred recover nacks.  A panic of Ack
\* itself is the same step: no Ack of the library panics once the broker has the ack.
AckFails(d) ==
    /\ pc[d] = "ack"
    /\ CallFails(AckCtx, d)
    /\ \/ /\ pc' = [pc EXCEPT ![d] = "handled"]
          /\ UNCHANGED panicking
       \/ /\ CallbackMayPanic
          /\ pc' = [pc EXCEPT ![d] = "recovery"]
          /\ panicking' = [panicking EXCEPT ![d] = TRUE]
    /\ UNCHANGED <<outcome, expired, settled, slots, wg, ctxDone, loop, crashed>>

\* Nack after an error of the handler, and `return`.
NackFallsThrough(d) ==
    /\ pc[d] = "nack"
    /\ CallSucceeds(AckCtx, d)
    /\ settled' = [settled EXCEPT ![d] = "nacked"]
    /\ pc' = [pc EXCEPT ![d] = "ack"]
    /\ UNCHANGED <<outcome, expired, panicking, slots, wg, ctxDone, loop, crashed>>

Nack(d) ==
    /\ pc[d] = "nack"
    /\ CallSucceeds(AckCtx, d)
    /\ settled' = [settled EXCEPT ![d] = "nacked"]
    /\ pc' = [pc EXCEPT ![d] = "handled"]
    /\ UNCHANGED <<outcome, expired, panicking, slots, wg, ctxDone, loop, crashed>>

\* OnNackError gets the error.  If it panics, the deferred recover nacks again.
NackFails(d) ==
    /\ pc[d] = "nack"
    /\ CallFails(AckCtx, d)
    /\ \/ /\ pc' = [pc EXCEPT ![d] = "handled"]
          /\ UNCHANGED panicking
       \/ /\ CallbackMayPanic
          /\ pc' = [pc EXCEPT ![d] = "recovery"]
          /\ panicking' = [panicking EXCEPT ![d] = TRUE]
    /\ UNCHANGED <<outcome, expired, settled, slots, wg, ctxDone, loop, crashed>>

\* The nack of the deferred recover; the panic continues whatever it returns,
\* and whether or not OnNackError panics too.
RecoverNack(d) ==
    /\ pc[d] = "recovery"
    /\ \/ CallSucceeds(AckCtx, d) /\ settled' = [settled EXCEPT ![d] = "nacked"]
       \/ CallFails(AckCtx, d) /\ UNCHANGED settled
    /\ pc' = [pc EXCEPT ![d] = "handled"]
    /\ UNCHANGED <<outcome, expired, panicking, slots, wg, ctxDone, loop, crashed>>

\* The deferred function of the goroutine: `<-d.slots`, then `d.wg.Done()`.
ReleaseSlotForgotten(d) ==
    /\ pc[d] = "handled"
    /\ pc' = [pc EXCEPT ![d] = "released"]
    /\ UNCHANGED <<outcome, expired, settled, panicking, slots, wg, ctxDone, loop, crashed>>

ReleaseSlot(d) ==
    /\ pc[d] = "handled"
    /\ slots' = slots - 1
    /\ pc' = [pc EXCEPT ![d] = "released"]
    /\ UNCHANGED <<outcome, expired, settled, panicking, wg, ctxDone, loop, crashed>>

WgDoneForgotten(d) ==
    /\ pc[d] = "released"
    /\ pc' = [pc EXCEPT ![d] = "done"]
    /\ UNCHANGED <<outcome, expired, settled, panicking, slots, wg, ctxDone, loop, crashed>>

WgDone(d) ==
    /\ pc[d] = "released"
    /\ wg' = wg - 1
    /\ pc' = [pc EXCEPT ![d] = "done"]
    /\ UNCHANGED <<outcome, expired, settled, panicking, slots, ctxDone, loop, crashed>>

\* Once its deferred functions have run, the panic ends the process.
PanicEndsProcess(d) ==
    /\ pc[d] = "done"
    /\ panicking[d]
    /\ crashed' = TRUE
    /\ UNCHANGED <<pc, outcome, expired, settled, panicking, slots, wg, ctxDone, loop>>

----------------------------------------------------------------------------
LoopStep(d) ==
    \/ Dispatch(d)
    \/ AcquireSlot(d)
    \/ GiveUpSlot(d)
    \/ RejectNack(d)
    \/ RejectNackFails(d)

HandlerEnds(d) ==
    \/ HandlerSucceeds(d)
    \/ HandlerFails(d)
    \/ HandlerAborts(d)
    \/ HandlerPanics(d)

Settle(d) ==
    \/ Ack(d)
    \/ AckFails(d)
    \/ Nack(d)
    \/ NackFails(d)
    \/ RecoverNack(d)

Finish(d) ==
    \/ ReleaseSlot(d)
    \/ WgDone(d)
    \/ PanicEndsProcess(d)

Terminated ==
    /\ crashed \/ loop = "returned"
    /\ UNCHANGED vars

Next ==
    \/ /\ ~crashed
       /\ \/ CtxDone
          \/ Wait
          \/ WaitReturns
          \/ WaitContinues
          \/ \E d \in Deliveries :
                \/ LoopStep(d)
                \/ DeadlineExpires(d)
                \/ HandlerEnds(d)
                \/ Settle(d)
                \/ Finish(d)
    \/ Terminated

Spec == Init /\ [][Next]_vars

(***************************************************************************)
(* Fairness.  Go runs every goroutine that can run, a running timer fires, *)
(* and the loop stops receiving once ctx is done.  Of the handler only one *)
(* thing is assumed: it returns once its context is cancelled.  Without a  *)
(* processing timeout nothing ends a handler, so liveness is checked with  *)
(* HasTimeout = TRUE.                                                      *)
(***************************************************************************)
LoopMoves(d) == AcquireSlot(d) \/ GiveUpSlot(d) \/ RejectNack(d) \/ RejectNackFails(d)

Fairness ==
    /\ WF_vars(~crashed /\ ctxDone /\ Wait)
    /\ WF_vars(~crashed /\ ctxDone /\ WaitReturns)
    /\ \A d \in Deliveries :
          /\ WF_vars(~crashed /\ LoopMoves(d))
          /\ WF_vars(~crashed /\ DeadlineExpires(d))
          /\ WF_vars(~crashed /\ HandlerAborts(d))
          /\ WF_vars(~crashed /\ Settle(d))
          /\ WF_vars(~crashed /\ Finish(d))

FairSpec == Spec /\ Fairness

----------------------------------------------------------------------------
\* At most MaxInFlight handlers run at once, and the free places of the slots
\* channel are exactly what the deliveries in flight leave: no path through
\* Handle (error, panic, refused ack) leaks a slot or frees one twice.
InFlightBounded ==
    /\ slots = Cardinality(InFlight)
    /\ slots <= MaxInFlight

\* The broker gets one answer for a delivery: once it accepted an ack or a nack
\* no call for the same delivery is on its way, from any of the three places of
\* Handle that settle it or from Dispatch.
SettledOnce ==
    \A d \in Deliveries :
        settled[d] # "no" => pc[d] \in {"handled", "released", "done"}

\* A handler that succeeded has its message acked, also when ctx is done or the
\* deadline passes between the end of the handler and the ack: with a broker
\* that refuses nothing, a finished delivery is acked if and only if its handler
\* returned nil.
AckedIffSucceeded ==
    ~AckMayFail =>
        \A d \in Deliveries :
            pc[d] \in {"handled", "released", "done"} =>
                settled[d] = IF outcome[d] = "nil" THEN "acked" ELSE "nacked"

\* The end of Receive's context never aborts a handler: only the processing
\* deadline does.
ShutdownKeepsHandlers ==
    \A d \in Deliveries : outcome[d] = "ctxErr" => expired[d]

\* When Receive has returned, the loop and the goroutines are done with every
\* delivery that was received: nothing is handled or acked afterwards.
ReturnedIsQuiet ==
    loop = "returned" => \A d \in Deliveries : pc[d] \in {"idle", "done"}

\* A shutdown ends: once ctx is done Receive returns, or a handler's panic ends
\* the process.
ShutdownCompletes == ctxDone ~> (loop = "returned" \/ crashed)

\* A delivery waiting in Dispatch gets a slot or is nacked: slots come back.
DispatchProgresses ==
    \A d \in Deliveries : pc[d] = "select" ~> (pc[d] # "select" \/ crashed)

----------------------------------------------------------------------------
\* What a delivery's place means to the broker and to the caller of Receive.
AbstractStatus(d) ==
    IF pc[d] \in {"idle", "select", "rejecting"} THEN "unseen"
    ELSE IF pc[d] = "handler" THEN "handling"
    ELSE IF pc[d] = "ack" THEN "succeeded"
    ELSE IF pc[d] \in {"nack", "recovery"} THEN "failed"
    ELSE IF settled[d] = "no" THEN "lost"
    ELSE settled[d]

S == INSTANCE Subscriber WITH
        status  <- [d \in Deliveries |-> AbstractStatus(d)],
        receive <- IF loop = "returned" THEN "returned" ELSE "running"

\* The dispatcher implements the contract of Subscriber.Receive.
ImplementsSubscriber == S!Spec
=============================================================================
