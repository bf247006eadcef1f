-------------------------- MODULE DispatcherProofs --------------------------
(***************************************************************************)
(* Theorems about Dispatcher.tla, for every set of deliveries (finite or   *)
(* not), every MaxInFlight and every choice of the options.                *)
(***************************************************************************)
EXTENDS Dispatcher, TLAPS, FiniteSetTheorems

(***************************************************************************)
(* The inductive invariant.  The bound on the handlers is a statement      *)
(* about a counter (slots), so the counter is tied to the set of places it *)
(* counts; the same holds of the WaitGroup.  The rest says what the single *)
(* thread of the receiving loop excludes.                                  *)
(***************************************************************************)

\* The channel and the WaitGroup count the goroutines.
Counts ==
    /\ IsFiniteSet(Pending)
    /\ slots = Cardinality(InFlight)
    /\ wg = Cardinality(Pending)
    /\ slots <= MaxInFlight

\* While the loop waits or has returned it is not in Dispatch, and it returns
\* only when no goroutine is left.
LoopExcludes ==
    /\ loop # "receiving" => LoopFree
    /\ loop = "returned" => Pending = {}

\* Only the end of ctx makes Dispatch reject a delivery.
RejectsAtShutdown == \A d \in Deliveries : pc[d] = "rejecting" => ctxDone

IInv ==
    /\ TypeOK
    /\ Counts
    /\ LoopExcludes
    /\ RejectsAtShutdown
    /\ SettledOnce

----------------------------------------------------------------------------
\* Lemmas on the sets that are counted.

\* InFlight is part of Pending.
LEMMA InFlightSubset ==
    /\ InFlight \subseteq Pending
    /\ IsFiniteSet(Pending) => IsFiniteSet(InFlight)
<1>1. InFlight \subseteq Pending
    BY DEF InFlight, Pending, Counted
<1>2. IsFiniteSet(Pending) => IsFiniteSet(InFlight)
    BY <1>1, FS_Subset
<1>3. QED
    BY <1>1, <1>2

\* A move of d inside, or outside, Holding and Counted changes no count.
LEMMA SameSets ==
    ASSUME NEW d \in Deliveries, NEW p,
           TypeOK,
           pc' = [pc EXCEPT ![d] = p],
           pc[d] \in Holding <=> p \in Holding,
           pc[d] \in Counted <=> p \in Counted
    PROVE  InFlight' = InFlight /\ Pending' = Pending
<1>1. \A e \in Deliveries : pc'[e] = IF e = d THEN p ELSE pc[e]
    BY DEF TypeOK
<1>2. InFlight' = InFlight
    BY <1>1 DEF InFlight
<1>3. Pending' = Pending
    BY <1>1 DEF Pending
<1>4. QED
    BY <1>2, <1>3

\* A step that leaves the counted sets and the counters alone keeps Counts.
LEMMA SameCounts ==
    ASSUME Counts,
           InFlight' = InFlight, Pending' = Pending, slots' = slots, wg' = wg
    PROVE  Counts'
BY DEF Counts

\* A goroutine starts: one more slot is held, one more is counted.
LEMMA AcquireCounts ==
    ASSUME NEW d \in Deliveries, TypeOK, Counts, AcquireSlot(d)
    PROVE  Counts'
<1>1. \A e \in Deliveries : pc'[e] = IF e = d THEN "handler" ELSE pc[e]
    BY DEF TypeOK, AcquireSlot
<1>2. InFlight' = InFlight \cup {d} /\ d \notin InFlight
    BY <1>1 DEF InFlight, Holding, InHandle, AcquireSlot
<1>3. Pending' = Pending \cup {d} /\ d \notin Pending
    BY <1>1 DEF Pending, Counted, Holding, InHandle, AcquireSlot
<1>4. IsFiniteSet(InFlight) /\ IsFiniteSet(Pending)
    BY InFlightSubset DEF Counts
<1>5. IsFiniteSet(Pending') /\ Cardinality(Pending') = Cardinality(Pending) + 1
    BY <1>3, <1>4, FS_AddElement
<1>6. Cardinality(InFlight') = Cardinality(InFlight) + 1
    BY <1>2, <1>4, FS_AddElement
<1>7. slots' = slots + 1 /\ wg' = wg + 1 /\ slots < MaxInFlight
    BY DEF AcquireSlot
<1>8. QED
    BY <1>5, <1>6, <1>7, MaxInFlightAssumption DEF Counts, TypeOK

\* A goroutine gives its slot back, and there is one to give back.
LEMMA ReleaseCounts ==
    ASSUME NEW d \in Deliveries, TypeOK, Counts, ReleaseSlot(d)
    PROVE  Counts' /\ slots' \in Nat
<1>1. \A e \in Deliveries : pc'[e] = IF e = d THEN "released" ELSE pc[e]
    BY DEF TypeOK, ReleaseSlot
<1>2. InFlight' = InFlight \ {d} /\ d \in InFlight
    BY <1>1 DEF InFlight, Holding, InHandle, ReleaseSlot
<1>3. Pending' = Pending
    BY <1>1 DEF Pending, Counted, Holding, InHandle, ReleaseSlot
<1>4. IsFiniteSet(InFlight)
    BY InFlightSubset DEF Counts
<1>5. IsFiniteSet(InFlight') /\ Cardinality(InFlight') = Cardinality(InFlight) - 1
    BY <1>2, <1>4, FS_RemoveElement
<1>6. Cardinality(InFlight') \in Nat
    BY <1>5, FS_CardinalityType
<1>7. slots' = slots - 1 /\ wg' = wg
    BY DEF ReleaseSlot
<1>8. QED
    BY <1>3, <1>5, <1>6, <1>7, MaxInFlightAssumption DEF Counts, TypeOK

\* A goroutine leaves the WaitGroup, which counted it.
LEMMA DoneCounts ==
    ASSUME NEW d \in Deliveries, TypeOK, Counts, WgDone(d)
    PROVE  Counts' /\ wg' \in Nat
<1>1. \A e \in Deliveries : pc'[e] = IF e = d THEN "done" ELSE pc[e]
    BY DEF TypeOK, WgDone
<1>2. InFlight' = InFlight
    BY <1>1 DEF InFlight, Holding, InHandle, WgDone
<1>3. Pending' = Pending \ {d} /\ d \in Pending
    BY <1>1 DEF Pending, Counted, Holding, InHandle, WgDone
<1>4. IsFiniteSet(Pending)
    BY DEF Counts
<1>5. IsFiniteSet(Pending') /\ Cardinality(Pending') = Cardinality(Pending) - 1
    BY <1>3, <1>4, FS_RemoveElement
<1>6. Cardinality(Pending') \in Nat
    BY <1>5, FS_CardinalityType
<1>7. wg' = wg - 1 /\ slots' = slots
    BY DEF WgDone
<1>8. QED
    BY <1>2, <1>5, <1>6, <1>7 DEF Counts

----------------------------------------------------------------------------
\* The case split every step proof uses.
LEMMA StepCases ==
    ASSUME [Next]_vars
    PROVE  \/ CtxDone \/ Wait \/ WaitReturns \/ WaitContinues
           \/ \E d \in Deliveries : LoopStep(d)
           \/ \E d \in Deliveries : DeadlineExpires(d)
           \/ \E d \in Deliveries : HandlerEnds(d)
           \/ \E d \in Deliveries : Settle(d)
           \/ \E d \in Deliveries : Finish(d)
           \/ UNCHANGED vars
BY DEF Next, Terminated

\* Every step keeps the types; the counters stay natural because of Counts.
LEMMA TypeStep ==
    ASSUME TypeOK, Counts, [Next]_vars
    PROVE  TypeOK'
<1> USE DEF TypeOK, PC, Outcome, Counted, Holding, InHandle, InLoop
<1>1. CASE CtxDone
    BY <1>1 DEF CtxDone
<1>2. CASE Wait
    BY <1>2 DEF Wait
<1>3. CASE WaitReturns
    BY <1>3 DEF WaitReturns
<1>4. CASE WaitContinues
    BY <1>4 DEF WaitContinues
<1>5. ASSUME NEW d \in Deliveries, LoopStep(d)
      PROVE  TypeOK'
    <2>1. CASE Dispatch(d)
        BY <2>1 DEF Dispatch
    <2>2. CASE AcquireSlot(d)
        BY <2>2 DEF AcquireSlot
    <2>3. CASE GiveUpSlot(d)
        BY <2>3 DEF GiveUpSlot
    <2>4. CASE RejectNack(d)
        BY <2>4 DEF RejectNack
    <2>5. CASE RejectNackFails(d)
        BY <2>5, OptionsAssumption DEF RejectNackFails
    <2>6. QED
        BY <1>5, <2>1, <2>2, <2>3, <2>4, <2>5 DEF LoopStep
<1>6. ASSUME NEW d \in Deliveries, DeadlineExpires(d)
      PROVE  TypeOK'
    BY <1>6 DEF DeadlineExpires
<1>7. ASSUME NEW d \in Deliveries, HandlerEnds(d)
      PROVE  TypeOK'
    <2>1. CASE HandlerSucceeds(d)
        BY <2>1 DEF HandlerSucceeds
    <2>2. CASE HandlerFails(d)
        BY <2>2 DEF HandlerFails
    <2>3. CASE HandlerAborts(d)
        BY <2>3 DEF HandlerAborts
    <2>4. CASE HandlerPanics(d)
        BY <2>4 DEF HandlerPanics
    <2>5. QED
        BY <1>7, <2>1, <2>2, <2>3, <2>4 DEF HandlerEnds
<1>8. ASSUME NEW d \in Deliveries, Settle(d)
      PROVE  TypeOK'
    <2>1. CASE Ack(d)
        BY <2>1 DEF Ack
    <2>2. CASE AckFails(d)
        BY <2>2 DEF AckFails
    <2>3. CASE Nack(d)
        BY <2>3 DEF Nack
    <2>4. CASE NackFails(d)
        BY <2>4 DEF NackFails
    <2>5. CASE RecoverNack(d)
        BY <2>5 DEF RecoverNack
    <2>6. QED
        BY <1>8, <2>1, <2>2, <2>3, <2>4, <2>5 DEF Settle
<1>9. ASSUME NEW d \in Deliveries, Finish(d)
      PROVE  TypeOK'
    <2>1. CASE ReleaseSlot(d)
        BY <2>1, ReleaseCounts DEF ReleaseSlot
    <2>2. CASE WgDone(d)
        BY <2>2, DoneCounts DEF WgDone
    <2>3. CASE PanicEndsProcess(d)
        BY <2>3 DEF PanicEndsProcess
    <2>4. QED
        BY <1>9, <2>1, <2>2, <2>3 DEF Finish
<1>10. CASE UNCHANGED vars
    BY <1>10 DEF vars
<1>11. QED
    BY <1>1, <1>2, <1>3, <1>4, <1>5, <1>6, <1>7, <1>8, <1>9, <1>10, StepCases

\* Every step keeps the counts: three steps change what is counted, and every
\* other one moves at most one delivery inside, or outside, the counted places.
LEMMA CountsStep ==
    ASSUME TypeOK, Counts, [Next]_vars
    PROVE  Counts'
<1>1. ASSUME UNCHANGED <<pc, slots, wg>>
      PROVE  Counts'
    BY <1>1 DEF Counts, InFlight, Pending
<1>2. CASE CtxDone \/ Wait \/ WaitReturns \/ WaitContinues \/ UNCHANGED vars
    BY <1>1, <1>2 DEF CtxDone, Wait, WaitReturns, WaitContinues, vars
<1>3. ASSUME NEW d \in Deliveries, NEW p, pc' = [pc EXCEPT ![d] = p],
             pc[d] \in Holding <=> p \in Holding,
             pc[d] \in Counted <=> p \in Counted,
             UNCHANGED <<slots, wg>>
      PROVE  Counts'
    BY <1>3, SameSets, SameCounts
<1> USE DEF Counted, Holding, InHandle
<1>4. ASSUME NEW d \in Deliveries, LoopStep(d)
      PROVE  Counts'
    <2>1. CASE AcquireSlot(d)
        BY <2>1, AcquireCounts
    <2>2. CASE Dispatch(d)
        BY <2>2, <1>3 DEF Dispatch
    <2>3. CASE GiveUpSlot(d)
        BY <2>3, <1>3 DEF GiveUpSlot
    <2>4. CASE RejectNack(d)
        BY <2>4, <1>3 DEF RejectNack
    <2>5. CASE RejectNackFails(d)
        BY <2>5, <1>3 DEF RejectNackFails
    <2>6. QED
        BY <1>4, <2>1, <2>2, <2>3, <2>4, <2>5 DEF LoopStep
<1>5. ASSUME NEW d \in Deliveries, DeadlineExpires(d)
      PROVE  Counts'
    BY <1>1, <1>5 DEF DeadlineExpires
<1>6. ASSUME NEW d \in Deliveries, HandlerEnds(d)
      PROVE  Counts'
    BY <1>3, <1>6 DEF HandlerEnds, HandlerSucceeds, HandlerFails, HandlerAborts, HandlerPanics
<1>7. ASSUME NEW d \in Deliveries, Settle(d)
      PROVE  Counts'
    BY <1>3, <1>7 DEF Settle, Ack, AckFails, Nack, NackFails, RecoverNack
<1>8. ASSUME NEW d \in Deliveries, Finish(d)
      PROVE  Counts'
    <2>1. CASE ReleaseSlot(d)
        BY <2>1, ReleaseCounts
    <2>2. CASE WgDone(d)
        BY <2>2, DoneCounts
    <2>3. CASE PanicEndsProcess(d)
        BY <2>3, <1>1 DEF PanicEndsProcess
    <2>4. QED
        BY <1>8, <2>1, <2>2, <2>3 DEF Finish
<1>9. QED
    BY <1>2, <1>4, <1>5, <1>6, <1>7, <1>8, StepCases

\* Every step keeps the loop out of Dispatch while it waits, and the goroutines
\* away once it has returned: only the loop starts one.
LEMMA ExcludesStep ==
    ASSUME TypeOK, Counts, LoopExcludes, [Next]_vars
    PROVE  LoopExcludes'
<1> USE DEF LoopExcludes, LoopFree, Pending, TypeOK
<1>1. CASE CtxDone \/ Wait \/ WaitContinues \/ UNCHANGED vars
    BY <1>1 DEF CtxDone, Wait, WaitContinues, vars
<1>2. CASE WaitReturns
    <2>1. Pending = {}
        BY <1>2, FS_EmptySet DEF WaitReturns, Counts
    <2>2. QED
        BY <1>2, <2>1 DEF WaitReturns
<1> USE DEF Counted, Holding, InHandle, InLoop
<1>3. ASSUME NEW d \in Deliveries, LoopStep(d)
      PROVE  LoopExcludes'
    <2>1. loop = "receiving" /\ loop' = loop
        BY <1>3 DEF LoopStep, Dispatch, AcquireSlot, GiveUpSlot, RejectNack, RejectNackFails
    <2>2. QED
        BY <2>1
<1>4. ASSUME NEW d \in Deliveries, NEW p \in PC,
             pc' = [pc EXCEPT ![d] = p], p \notin InLoop, pc[d] \in Counted, loop' = loop
      PROVE  LoopExcludes'
    BY <1>4
<1>5. ASSUME NEW d \in Deliveries, DeadlineExpires(d)
      PROVE  LoopExcludes'
    BY <1>5 DEF DeadlineExpires
<1> USE DEF PC
<1>6. ASSUME NEW d \in Deliveries, HandlerEnds(d)
      PROVE  LoopExcludes'
    BY <1>4, <1>6 DEF HandlerEnds, HandlerSucceeds, HandlerFails, HandlerAborts, HandlerPanics
<1>7. ASSUME NEW d \in Deliveries, Settle(d)
      PROVE  LoopExcludes'
    BY <1>4, <1>7 DEF Settle, Ack, AckFails, Nack, NackFails, RecoverNack
<1>8. ASSUME NEW d \in Deliveries, Finish(d)
      PROVE  LoopExcludes'
    <2>1. CASE ReleaseSlot(d)
        BY <2>1, <1>4 DEF ReleaseSlot
    <2>2. CASE WgDone(d)
        BY <2>2, <1>4 DEF WgDone
    <2>3. CASE PanicEndsProcess(d)
        BY <2>3 DEF PanicEndsProcess
    <2>4. QED
        BY <1>8, <2>1, <2>2, <2>3 DEF Finish
<1>9. QED
    BY <1>1, <1>2, <1>3, <1>5, <1>6, <1>7, <1>8, StepCases

\* A step rejects a delivery only when ctx is done, and ctx stays done.
LEMMA RejectsStep ==
    ASSUME TypeOK, RejectsAtShutdown, [Next]_vars
    PROVE  RejectsAtShutdown'
<1> USE DEF RejectsAtShutdown, TypeOK
<1>1. CASE CtxDone \/ Wait \/ WaitReturns \/ WaitContinues \/ UNCHANGED vars
    BY <1>1 DEF CtxDone, Wait, WaitReturns, WaitContinues, vars
<1>2. ASSUME NEW d \in Deliveries, NEW p, pc' = [pc EXCEPT ![d] = p],
             p = "rejecting" => ctxDone, ctxDone' = ctxDone
      PROVE  RejectsAtShutdown'
    BY <1>2
<1>3. ASSUME NEW d \in Deliveries, LoopStep(d)
      PROVE  RejectsAtShutdown'
    BY <1>2, <1>3
    DEF LoopStep, Dispatch, AcquireSlot, GiveUpSlot, RejectNack, RejectNackFails
<1>4. ASSUME NEW d \in Deliveries, DeadlineExpires(d)
      PROVE  RejectsAtShutdown'
    BY <1>4 DEF DeadlineExpires
<1>5. ASSUME NEW d \in Deliveries, HandlerEnds(d)
      PROVE  RejectsAtShutdown'
    BY <1>2, <1>5 DEF HandlerEnds, HandlerSucceeds, HandlerFails, HandlerAborts, HandlerPanics
<1>6. ASSUME NEW d \in Deliveries, Settle(d)
      PROVE  RejectsAtShutdown'
    BY <1>2, <1>6 DEF Settle, Ack, AckFails, Nack, NackFails, RecoverNack
<1>7. ASSUME NEW d \in Deliveries, Finish(d)
      PROVE  RejectsAtShutdown'
    BY <1>2, <1>7 DEF Finish, ReleaseSlot, WgDone, PanicEndsProcess
<1>8. QED
    BY <1>1, <1>3, <1>4, <1>5, <1>6, <1>7, StepCases

\* A step that settles a delivery takes it to a place that settles nothing, and
\* no step leads back from there.
LEMMA SettledStep ==
    ASSUME TypeOK, SettledOnce, [Next]_vars
    PROVE  SettledOnce'
<1> USE DEF SettledOnce, TypeOK
<1>1. CASE CtxDone \/ Wait \/ WaitReturns \/ WaitContinues \/ UNCHANGED vars
    BY <1>1 DEF CtxDone, Wait, WaitReturns, WaitContinues, vars
<1>2. ASSUME NEW d \in Deliveries, LoopStep(d)
      PROVE  SettledOnce'
    BY <1>2 DEF LoopStep, Dispatch, AcquireSlot, GiveUpSlot, RejectNack, RejectNackFails
<1>3. ASSUME NEW d \in Deliveries, DeadlineExpires(d)
      PROVE  SettledOnce'
    BY <1>3 DEF DeadlineExpires
<1>4. ASSUME NEW d \in Deliveries, HandlerEnds(d)
      PROVE  SettledOnce'
    BY <1>4 DEF HandlerEnds, HandlerSucceeds, HandlerFails, HandlerAborts, HandlerPanics
<1>5. ASSUME NEW d \in Deliveries, Settle(d)
      PROVE  SettledOnce'
    <2>1. CASE Ack(d) \/ Nack(d)
        BY <2>1 DEF Ack, Nack
    <2>2. CASE AckFails(d) \/ NackFails(d)
        BY <2>2 DEF AckFails, NackFails
    <2>3. CASE RecoverNack(d)
        BY <2>3 DEF RecoverNack
    <2>4. QED
        BY <1>5, <2>1, <2>2, <2>3 DEF Settle
<1>6. ASSUME NEW d \in Deliveries, Finish(d)
      PROVE  SettledOnce'
    BY <1>6 DEF Finish, ReleaseSlot, WgDone, PanicEndsProcess
<1>7. QED
    BY <1>1, <1>2, <1>3, <1>4, <1>5, <1>6, StepCases

----------------------------------------------------------------------------
\* Initially nothing is counted.
LEMMA InitiallyIInv == Init => IInv
<1> SUFFICES ASSUME Init PROVE IInv
    OBVIOUS
<1>1. InFlight = {} /\ Pending = {}
    BY DEF Init, InFlight, Pending, Counted, Holding, InHandle
<1>2. TypeOK
    BY DEF Init, TypeOK, PC, Outcome
<1>3. Counts
    BY <1>1, FS_EmptySet, MaxInFlightAssumption DEF Init, Counts
<1>4. LoopExcludes /\ RejectsAtShutdown /\ SettledOnce
    BY DEF Init, LoopExcludes, RejectsAtShutdown, SettledOnce
<1>5. QED
    BY <1>2, <1>3, <1>4 DEF IInv

\* The inductive invariant holds of every behaviour of the dispatcher.
THEOREM Inductive == Spec => []IInv
<1>1. Init => IInv
    BY InitiallyIInv
<1>2. IInv /\ [Next]_vars => IInv'
    BY TypeStep, CountsStep, ExcludesStep, RejectsStep, SettledStep DEF IInv
<1>3. QED
    BY <1>1, <1>2, PTL DEF Spec

\* Every variable of the dispatcher keeps its type; the counters that the code
\* decrements never go below zero.
THEOREM TypeCorrect == Spec => []TypeOK
<1>1. IInv => TypeOK
    BY DEF IInv
<1>2. QED
    BY <1>1, Inductive, PTL

\* The slots channel bounds the handlers that run at once by MaxInFlight, and
\* every path through Handle gives back the one slot it took.
THEOREM BoundedInFlight == Spec => []InFlightBounded
<1>1. IInv => InFlightBounded
    BY DEF IInv, Counts, InFlightBounded
<1>2. QED
    BY <1>1, Inductive, PTL

\* Ack and Nack of one delivery never follow an answer that the broker accepted.
THEOREM SettlesOnce == Spec => []SettledOnce
<1>1. IInv => SettledOnce
    BY DEF IInv
<1>2. QED
    BY <1>1, Inductive, PTL

\* When Wait has let Receive return, no goroutine of a delivery is left.
THEOREM QuietWhenReturned == Spec => []ReturnedIsQuiet
<1>1. IInv => ReturnedIsQuiet
    BY DEF IInv, TypeOK, LoopExcludes, LoopFree, ReturnedIsQuiet, PC, InLoop, Counted, Pending
<1>2. QED
    BY <1>1, Inductive, PTL

----------------------------------------------------------------------------
(***************************************************************************)
(* What becomes of a message when the broker refuses nothing.  The         *)
(* strengthening ties each place to how the handler ended.                 *)
(***************************************************************************)
OutcomeInv ==
    ~AckMayFail =>
        \A d \in Deliveries :
            /\ pc[d] \in {"idle", "select", "rejecting", "handler"} => outcome[d] = "none"
            /\ pc[d] = "ack" => outcome[d] = "nil"
            /\ pc[d] \in {"nack", "recovery"} => outcome[d] # "nil"

\* A call under the ack context fails only when the broker refuses it: that
\* context is never cancelled.
LEMMA AckCtxNeverCancelled ==
    ASSUME NEW d
    PROVE  /\ CallFails(AckCtx, d) => AckMayFail
           /\ CallFails(WithoutCancel(DeliveryCtx), d) => AckMayFail
BY DEF CallFails, Cancelled, AckCtx, WithoutCancel

\* Every step keeps OutcomeInv and AckedIffSucceeded.
LEMMA OutcomeStep ==
    ASSUME TypeOK, OutcomeInv, AckedIffSucceeded, [Next]_vars
    PROVE  OutcomeInv' /\ AckedIffSucceeded'
<1> SUFFICES ASSUME ~AckMayFail PROVE OutcomeInv' /\ AckedIffSucceeded'
    BY DEF OutcomeInv, AckedIffSucceeded
<1> USE DEF OutcomeInv, AckedIffSucceeded, TypeOK
<1>1. CASE CtxDone \/ Wait \/ WaitReturns \/ WaitContinues \/ UNCHANGED vars
    BY <1>1 DEF CtxDone, Wait, WaitReturns, WaitContinues, vars
<1>2. ASSUME NEW d \in Deliveries, LoopStep(d)
      PROVE  OutcomeInv' /\ AckedIffSucceeded'
    <2>1. CASE RejectNackFails(d)
        BY <2>1, AckCtxNeverCancelled DEF RejectNackFails
    <2>2. CASE RejectNack(d)
        BY <2>2 DEF RejectNack
    <2>3. CASE Dispatch(d) \/ AcquireSlot(d) \/ GiveUpSlot(d)
        BY <2>3 DEF Dispatch, AcquireSlot, GiveUpSlot
    <2>4. QED
        BY <1>2, <2>1, <2>2, <2>3 DEF LoopStep
<1>3. ASSUME NEW d \in Deliveries, DeadlineExpires(d)
      PROVE  OutcomeInv' /\ AckedIffSucceeded'
    BY <1>3 DEF DeadlineExpires
<1>4. ASSUME NEW d \in Deliveries, HandlerEnds(d)
      PROVE  OutcomeInv' /\ AckedIffSucceeded'
    BY <1>4 DEF HandlerEnds, HandlerSucceeds, HandlerFails, HandlerAborts, HandlerPanics, Outcome
<1>5. ASSUME NEW d \in Deliveries, Settle(d)
      PROVE  OutcomeInv' /\ AckedIffSucceeded'
    <2>1. CASE AckFails(d) \/ NackFails(d)
        BY <2>1, AckCtxNeverCancelled DEF AckFails, NackFails
    <2>2. CASE Ack(d) \/ Nack(d)
        BY <2>2 DEF Ack, Nack
    <2>3. CASE RecoverNack(d)
        BY <2>3, AckCtxNeverCancelled DEF RecoverNack
    <2>4. QED
        BY <1>5, <2>1, <2>2, <2>3 DEF Settle
<1>6. ASSUME NEW d \in Deliveries, Finish(d)
      PROVE  OutcomeInv' /\ AckedIffSucceeded'
    BY <1>6 DEF Finish, ReleaseSlot, WgDone, PanicEndsProcess
<1>7. QED
    BY <1>1, <1>2, <1>3, <1>4, <1>5, <1>6, StepCases

\* With a broker that refuses nothing a finished delivery is acked if and only if
\* its handler returned nil, whenever ctx is done or the deadline passes.
THEOREM AckIffSuccess == Spec => []AckedIffSucceeded
<1>1. Init => OutcomeInv /\ AckedIffSucceeded
    BY DEF Init, OutcomeInv, AckedIffSucceeded
<1>2. TypeOK /\ OutcomeInv /\ AckedIffSucceeded /\ [Next]_vars
        => OutcomeInv' /\ AckedIffSucceeded'
    BY OutcomeStep
<1>3. QED
    BY <1>1, <1>2, TypeCorrect, PTL DEF Spec

\* The deadline of a message is what cancels its context: every step keeps it so.
LEMMA KeepsHandlersStep ==
    ASSUME TypeOK, ShutdownKeepsHandlers, [Next]_vars
    PROVE  ShutdownKeepsHandlers'
<1> USE DEF ShutdownKeepsHandlers, TypeOK
<1>1. CASE CtxDone \/ Wait \/ WaitReturns \/ WaitContinues \/ UNCHANGED vars
    BY <1>1 DEF CtxDone, Wait, WaitReturns, WaitContinues, vars
<1>2. ASSUME NEW d \in Deliveries,
             LoopStep(d) \/ Settle(d) \/ Finish(d)
      PROVE  UNCHANGED <<outcome, expired>>
    BY <1>2
    DEF LoopStep, Dispatch, AcquireSlot, GiveUpSlot, RejectNack, RejectNackFails, Settle,
        Ack, AckFails, Nack, NackFails, RecoverNack, Finish, ReleaseSlot, WgDone,
        PanicEndsProcess
<1>3. ASSUME NEW d \in Deliveries, DeadlineExpires(d)
      PROVE  ShutdownKeepsHandlers'
    BY <1>3 DEF DeadlineExpires
<1>4. ASSUME NEW d \in Deliveries, HandlerEnds(d)
      PROVE  ShutdownKeepsHandlers'
    <2>1. CASE HandlerAborts(d)
        <3>1. expired[d]
            BY <2>1 DEF HandlerAborts, Cancelled, MsgCtx, AckCtx, WithoutCancel
        <3>2. QED
            BY <2>1, <3>1 DEF HandlerAborts
    <2>2. CASE HandlerSucceeds(d) \/ HandlerFails(d) \/ HandlerPanics(d)
        BY <2>2 DEF HandlerSucceeds, HandlerFails, HandlerPanics
    <2>3. QED
        BY <1>4, <2>1, <2>2 DEF HandlerEnds
<1>5. QED
    BY <1>1, <1>2, <1>3, <1>4, StepCases

\* A handler is aborted by its own deadline only, never by the end of the context
\* given to Receive.
THEOREM HandlersSurviveShutdown == Spec => []ShutdownKeepsHandlers
<1>1. Init => ShutdownKeepsHandlers
    BY DEF Init, ShutdownKeepsHandlers
<1>2. TypeOK /\ ShutdownKeepsHandlers /\ [Next]_vars => ShutdownKeepsHandlers'
    BY KeepsHandlersStep
<1>3. QED
    BY <1>1, <1>2, TypeCorrect, PTL DEF Spec

----------------------------------------------------------------------------
(***************************************************************************)
(* The dispatcher implements Subscriber.tla.  Each step of the dispatcher  *)
(* changes the abstract status of one delivery, or of none.                *)
(***************************************************************************)
StatusOf == [d \in Deliveries |-> AbstractStatus(d)]

\* The instance counts with the same Cardinality.
LEMMA SameCardinality == \A T : S!Cardinality(T) = Cardinality(T)
BY DEF S!Cardinality, Cardinality

\* What has an abstract status in progress holds a slot.
LEMMA ActiveInFlight ==
    ASSUME TypeOK
    PROVE  S!Active \subseteq InFlight
BY DEF S!Active, S!InProgress, InFlight, Holding, InHandle, AbstractStatus, TypeOK

\* A step that moves d alone changes the status of d alone.
LEMMA StatusMoves ==
    ASSUME NEW d \in Deliveries, NEW p, NEW a, TypeOK,
           pc' = [pc EXCEPT ![d] = p],
           settled' = settled \/ settled' = [settled EXCEPT ![d] = a]
    PROVE  StatusOf' = [StatusOf EXCEPT ![d] = AbstractStatus(d)']
<1>1. \A e \in Deliveries : e # d => pc'[e] = pc[e] /\ settled'[e] = settled[e]
    BY DEF TypeOK
<1>2. \A e \in Deliveries : e # d => AbstractStatus(e)' = AbstractStatus(e)
    BY <1>1 DEF AbstractStatus
<1>3. QED
    BY <1>2 DEF StatusOf

\* Nothing the abstract specification sees changes.
Stutters == StatusOf' = StatusOf /\ ctxDone' = ctxDone /\ loop' = loop

\* Then it is a stuttering step of Subscriber.tla.
LEMMA StutterStep ==
    ASSUME Stutters
    PROVE  UNCHANGED S!vars
BY DEF Stutters, S!vars, StatusOf

\* A move that keeps the status of d is a stuttering step.
LEMMA SameStatus ==
    ASSUME NEW d \in Deliveries, NEW p, TypeOK,
           pc' = [pc EXCEPT ![d] = p], settled' = settled,
           AbstractStatus(d)' = AbstractStatus(d),
           ctxDone' = ctxDone, loop' = loop
    PROVE  UNCHANGED S!vars
<1>1. StatusOf' = [StatusOf EXCEPT ![d] = AbstractStatus(d)']
    BY StatusMoves
<1>2. StatusOf' = StatusOf
    BY <1>1 DEF StatusOf
<1>3. QED
    BY <1>2, StutterStep DEF Stutters

\* A goroutine that starts: Start, since slots counts more than the active ones.
LEMMA AcquireImplements ==
    ASSUME NEW d \in Deliveries, IInv, AcquireSlot(d)
    PROVE  S!Start(d)
<1>1. TypeOK /\ Counts /\ LoopExcludes
    BY DEF IInv
<1>2. AbstractStatus(d) = "unseen" /\ AbstractStatus(d)' = "handling"
    BY <1>1 DEF AcquireSlot, AbstractStatus, TypeOK
<1>3. StatusOf' = [StatusOf EXCEPT ![d] = "handling"]
    BY <1>1, <1>2, StatusMoves DEF AcquireSlot
<1>4. loop # "returned" /\ loop' # "returned"
    BY <1>1 DEF AcquireSlot, LoopExcludes, LoopFree, InLoop
<1>5. Cardinality(S!Active) < MaxInFlight
    <2>1. IsFiniteSet(InFlight)
        BY <1>1, InFlightSubset DEF Counts
    <2>2. IsFiniteSet(S!Active) /\ Cardinality(S!Active) <= Cardinality(InFlight)
        BY <1>1, <2>1, ActiveInFlight, FS_Subset
    <2>3. Cardinality(S!Active) \in Nat /\ Cardinality(InFlight) \in Nat
        BY <2>1, <2>2, FS_CardinalityType
    <2>4. Cardinality(InFlight) < MaxInFlight
        BY <1>1 DEF AcquireSlot, Counts
    <2>5. QED
        BY <2>2, <2>3, <2>4, MaxInFlightAssumption
<1>6. ctxDone' = ctxDone
    BY DEF AcquireSlot
<1>7. QED
    BY <1>2, <1>3, <1>4, <1>5, <1>6, SameCardinality DEF S!Start, StatusOf

\* Every other step of the loop inside Dispatch: Reject, or nothing to be seen.
LEMMA LoopImplements ==
    ASSUME NEW d \in Deliveries, IInv, LoopStep(d)
    PROVE  [S!Next]_S!vars
<1>1. TypeOK /\ LoopExcludes /\ RejectsAtShutdown /\ SettledOnce
    BY DEF IInv
<1>2. CASE AcquireSlot(d)
    BY <1>2, AcquireImplements DEF S!Next
<1>3. CASE Dispatch(d) \/ GiveUpSlot(d)
    <2>1. AbstractStatus(d)' = AbstractStatus(d)
        BY <1>1, <1>3 DEF Dispatch, GiveUpSlot, AbstractStatus, TypeOK
    <2>2. QED
        BY <1>1, <1>3, <2>1, SameStatus DEF Dispatch, GiveUpSlot
<1>4. CASE RejectNack(d) \/ RejectNackFails(d)
    <2>1. /\ loop # "returned" /\ loop' = loop
          /\ ctxDone /\ ctxDone' = ctxDone
          /\ AbstractStatus(d) = "unseen"
        BY <1>1, <1>4
        DEF RejectNack, RejectNackFails, LoopExcludes, LoopFree, InLoop, RejectsAtShutdown,
            AbstractStatus
    <2>2. StatusOf' = [StatusOf EXCEPT ![d] = AbstractStatus(d)']
        BY <1>1, <1>4, StatusMoves DEF RejectNack, RejectNackFails
    <2>3. AbstractStatus(d)' \in S!Settling("nacked")
        <3>1. CASE RejectNack(d)
            BY <1>1, <3>1 DEF RejectNack, AbstractStatus, TypeOK, S!Settling
        <3>2. CASE RejectNackFails(d)
            <4>1. AckMayFail
                BY <3>2, AckCtxNeverCancelled DEF RejectNackFails
            <4>2. settled'[d] = "no" /\ pc'[d] = "done"
                BY <1>1, <3>2 DEF RejectNackFails, SettledOnce, TypeOK
            <4>3. QED
                BY <4>1, <4>2 DEF AbstractStatus, S!Settling
        <3>3. QED
            BY <1>4, <3>1, <3>2
    <2>4. S!Reject(d)
        BY <2>1, <2>2, <2>3 DEF S!Reject, StatusOf
    <2>5. QED
        BY <2>4 DEF S!Next
<1>5. QED
    BY <1>2, <1>3, <1>4 DEF LoopStep

\* The end of the handler.
LEMMA HandlerImplements ==
    ASSUME NEW d \in Deliveries, IInv, HandlerEnds(d)
    PROVE  [S!Next]_S!vars
<1>1. TypeOK
    BY DEF IInv
<1>2. /\ loop' = loop /\ ctxDone' = ctxDone /\ settled' = settled
      /\ pc[d] = "handler"
      /\ \E p \in {"ack", "nack", "recovery"} : pc' = [pc EXCEPT ![d] = p]
    BY DEF HandlerEnds, HandlerSucceeds, HandlerFails, HandlerAborts, HandlerPanics
<1>3. AbstractStatus(d) = "handling" /\ AbstractStatus(d)' \in {"succeeded", "failed"}
    BY <1>1, <1>2 DEF AbstractStatus, TypeOK
<1>4. StatusOf' = [StatusOf EXCEPT ![d] = AbstractStatus(d)']
    BY <1>1, <1>2, StatusMoves
<1>5. S!HandlerEnds(d)
    BY <1>2, <1>3, <1>4 DEF S!HandlerEnds, StatusOf
<1>6. QED
    BY <1>5 DEF S!Next

\* The calls that settle a delivery: Acknowledge, or AckRefused when a callback
\* panics after a refused ack.
LEMMA SettleImplements ==
    ASSUME NEW d \in Deliveries, IInv, Settle(d)
    PROVE  [S!Next]_S!vars
<1>1. TypeOK /\ SettledOnce
    BY DEF IInv
<1>2. loop' = loop /\ ctxDone' = ctxDone
    BY DEF Settle, Ack, AckFails, Nack, NackFails, RecoverNack
<1>3. settled[d] = "no"
    BY <1>1 DEF Settle, Ack, AckFails, Nack, NackFails, RecoverNack, SettledOnce
<1>4. StatusOf' = [StatusOf EXCEPT ![d] = AbstractStatus(d)']
    BY <1>1, StatusMoves DEF Settle, Ack, AckFails, Nack, NackFails, RecoverNack
<1>5. CASE Ack(d)
    <2>1. AbstractStatus(d) = "succeeded" /\ AbstractStatus(d)' = "acked"
        BY <1>1, <1>5 DEF Ack, AbstractStatus, TypeOK
    <2>2. QED
        BY <1>2, <1>4, <2>1 DEF S!Next, S!Acknowledge, S!Settling, StatusOf
<1>6. CASE AckFails(d)
    <2>1. AckMayFail
        BY <1>6, AckCtxNeverCancelled DEF AckFails
    <2>2. AbstractStatus(d) = "succeeded" /\ AbstractStatus(d)' \in {"lost", "failed"}
        BY <1>1, <1>3, <1>6 DEF AckFails, AbstractStatus, TypeOK
    <2>3. S!Acknowledge(d) \/ S!AckRefused(d)
        BY <1>2, <1>4, <2>1, <2>2 DEF S!Acknowledge, S!AckRefused, S!Settling, StatusOf
    <2>4. QED
        BY <2>3 DEF S!Next
<1>7. CASE Nack(d)
    <2>1. AbstractStatus(d) = "failed" /\ AbstractStatus(d)' = "nacked"
        BY <1>1, <1>7 DEF Nack, AbstractStatus, TypeOK
    <2>2. QED
        BY <1>2, <1>4, <2>1 DEF S!Next, S!Acknowledge, S!Settling, StatusOf
<1>8. CASE NackFails(d)
    <2>1. AckMayFail
        BY <1>8, AckCtxNeverCancelled DEF NackFails
    <2>2. AbstractStatus(d) = "failed" /\ AbstractStatus(d)' \in {"lost", "failed"}
        BY <1>1, <1>3, <1>8 DEF NackFails, AbstractStatus, TypeOK
    <2>3. CASE AbstractStatus(d)' = "lost"
        BY <1>2, <1>4, <2>1, <2>2, <2>3 DEF S!Next, S!Acknowledge, S!Settling, StatusOf
    <2>4. CASE AbstractStatus(d)' = "failed"
        <3>1. StatusOf' = StatusOf
            BY <1>4, <2>2, <2>4 DEF StatusOf
        <3>2. QED
            BY <1>2, <3>1, StutterStep DEF Stutters
    <2>5. QED
        BY <2>2, <2>3, <2>4
<1>9. CASE RecoverNack(d)
    <2>1. AbstractStatus(d) = "failed"
        BY <1>9 DEF RecoverNack, AbstractStatus
    <2>2. AbstractStatus(d)' \in S!Settling("nacked")
        BY <1>1, <1>3, <1>9, AckCtxNeverCancelled
        DEF RecoverNack, AbstractStatus, TypeOK, S!Settling
    <2>3. QED
        BY <1>2, <1>4, <2>1, <2>2 DEF S!Next, S!Acknowledge, StatusOf
<1>10. QED
    BY <1>5, <1>6, <1>7, <1>8, <1>9 DEF Settle

\* The rest of the goroutine is not seen.
LEMMA FinishImplements ==
    ASSUME NEW d \in Deliveries, IInv, Finish(d)
    PROVE  UNCHANGED S!vars
<1>1. TypeOK
    BY DEF IInv
<1>2. CASE ReleaseSlot(d) \/ WgDone(d)
    <2>1. AbstractStatus(d)' = AbstractStatus(d)
        BY <1>1, <1>2 DEF ReleaseSlot, WgDone, AbstractStatus, TypeOK
    <2>2. QED
        BY <1>1, <1>2, <2>1, SameStatus DEF ReleaseSlot, WgDone
<1>3. CASE PanicEndsProcess(d)
    BY <1>3, StutterStep DEF PanicEndsProcess, Stutters, StatusOf, AbstractStatus
<1>4. QED
    BY <1>2, <1>3 DEF Finish

\* The steps that concern no single delivery: Shutdown, Return, or nothing.
LEMMA ReceiveImplements ==
    ASSUME IInv,
           CtxDone \/ Wait \/ WaitReturns \/ WaitContinues \/ UNCHANGED vars
    PROVE  [S!Next]_S!vars
<1> USE DEF StatusOf, AbstractStatus
<1>1. CASE CtxDone
    BY <1>1 DEF CtxDone, S!Next, S!Shutdown
<1>2. CASE Wait \/ WaitContinues
    <2>1. loop # "returned" /\ loop' # "returned"
        BY <1>2 DEF Wait, WaitContinues
    <2>2. UNCHANGED <<pc, settled, ctxDone>>
        BY <1>2 DEF Wait, WaitContinues
    <2>3. QED
        BY <2>1, <2>2 DEF S!vars
<1>3. CASE WaitReturns
    <2>1. Pending = {}
        BY <1>3, FS_EmptySet DEF IInv, Counts, WaitReturns
    <2>2. S!Active = {}
        BY <2>1, InFlightSubset, ActiveInFlight DEF IInv
    <2>3. S!Return
        BY <1>3, <2>2 DEF WaitReturns, S!Return
    <2>4. QED
        BY <2>3 DEF S!Next
<1>4. CASE UNCHANGED vars
    BY <1>4, StutterStep DEF vars, Stutters
<1>5. QED
    BY <1>1, <1>2, <1>3, <1>4

\* The dispatcher keeps the contract of Subscriber.Receive: in every behaviour
\* what the broker and the caller see is a behaviour of Subscriber.tla.
THEOREM RefinesSubscriber == Spec => ImplementsSubscriber
<1>1. Init => S!Init
    BY DEF Init, S!Init, AbstractStatus
<1>2. IInv /\ [Next]_vars => [S!Next]_S!vars
    <2> SUFFICES ASSUME IInv, [Next]_vars PROVE [S!Next]_S!vars
        OBVIOUS
    <2>1. ASSUME NEW d \in Deliveries, DeadlineExpires(d)
          PROVE  UNCHANGED S!vars
        BY <2>1, StutterStep DEF DeadlineExpires, Stutters, StatusOf, AbstractStatus
    <2>2. QED
        BY <2>1, StepCases, LoopImplements, HandlerImplements, SettleImplements,
           FinishImplements, ReceiveImplements
<1>3. QED
    BY <1>1, <1>2, Inductive, PTL DEF Spec, ImplementsSubscriber, S!Spec

=============================================================================
