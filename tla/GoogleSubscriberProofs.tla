----------------------- MODULE GoogleSubscriberProofs -----------------------
(***************************************************************************)
(* Theorems about GoogleSubscriber.tla, for every set of deliveries, limit *)
(* and choice of the options.  The callbacks of the Pub/Sub client take    *)
(* steps of the dispatcher, but for one: Callback starts Handle without a  *)
(* Dispatch before it.  So the invariants of DispatcherProofs carry over   *)
(* once Callback is shown to keep them.                                    *)
(***************************************************************************)
EXTENDS GoogleSubscriber, DispatcherProofs

\* A step of the client is one of the dispatcher, or a callback.
LEMMA GoogleCases ==
    ASSUME [GoogleNext]_<<vars, callbacks>>
    PROVE  [Next]_vars \/ \E d \in Deliveries : Callback(d)
BY DEF GoogleNext, ClientReceive, HandleStep, Next

\* A callback starts: the client counts one more of them, below its limit.
LEMMA CallbackCounts ==
    ASSUME NEW d \in Deliveries, TypeOK, Counts, Callback(d)
    PROVE  Counts'
<1>1. \A e \in Deliveries : pc'[e] = IF e = d THEN "handler" ELSE pc[e]
    BY DEF TypeOK, Callback
<1>2. InFlight' = InFlight \cup {d} /\ d \notin InFlight
    BY <1>1 DEF InFlight, Holding, InHandle, Callback
<1>3. Pending' = Pending \cup {d} /\ d \notin Pending
    BY <1>1 DEF Pending, Counted, Holding, InHandle, Callback
<1>4. IsFiniteSet(InFlight) /\ IsFiniteSet(Pending)
    BY InFlightSubset DEF Counts
<1>5. /\ IsFiniteSet(Pending') /\ Cardinality(Pending') = Cardinality(Pending) + 1
      /\ Cardinality(InFlight') = Cardinality(InFlight) + 1
    BY <1>2, <1>3, <1>4, FS_AddElement
<1>6. slots' = slots + 1 /\ wg' = wg + 1 /\ slots < MaxInFlight
    BY DEF Callback
<1>7. QED
    BY <1>5, <1>6, MaxInFlightAssumption DEF Counts, TypeOK

\* It keeps the invariant of the dispatcher: Receive has not returned, since the
\* client calls back only while its own Receive runs.
LEMMA CallbackStep ==
    ASSUME NEW d \in Deliveries, IInv, Callback(d)
    PROVE  IInv'
<1>1. TypeOK'
    BY DEF IInv, TypeOK, Callback, PC, Counted, Holding, InHandle
<1>2. Counts'
    BY CallbackCounts DEF IInv
<1>3. LoopExcludes'
    BY DEF IInv, LoopExcludes, Callback
<1>4. RejectsAtShutdown' /\ SettledOnce'
    BY DEF IInv, TypeOK, RejectsAtShutdown, SettledOnce, Callback
<1>5. QED
    BY <1>1, <1>2, <1>3, <1>4 DEF IInv

\* And the outcomes: what was never received has none.
LEMMA CallbackOutcome ==
    ASSUME NEW d \in Deliveries, TypeOK, OutcomeInv, AckedIffSucceeded,
           ShutdownKeepsHandlers, Callback(d)
    PROVE  OutcomeInv' /\ AckedIffSucceeded' /\ ShutdownKeepsHandlers'
BY DEF TypeOK, OutcomeInv, AckedIffSucceeded, ShutdownKeepsHandlers, Callback

\* What holds in every state, with callbacks and with a loop.
GInv == IInv /\ OutcomeInv /\ AckedIffSucceeded /\ ShutdownKeepsHandlers

\* The invariant holds in every state of Receive, of Google's and of a loop
\* (google/subscriber.go, the callback given to sub.Receive).
THEOREM GoogleInductive == GoogleFairSpec => []GInv
<1>1. GoogleInit => GInv
    <2>1. Init => IInv
        BY InitiallyIInv
    <2>2. QED
        BY <2>1 DEF GoogleInit, Init, GInv, OutcomeInv, AckedIffSucceeded, ShutdownKeepsHandlers
<1>2. GInv /\ [GoogleNext]_<<vars, callbacks>> => GInv'
    <2>1. GInv /\ [Next]_vars => GInv'
        BY TypeStep, CountsStep, ExcludesStep, RejectsStep, SettledStep, OutcomeStep,
           KeepsHandlersStep
        DEF GInv, IInv
    <2>2. ASSUME GInv, NEW d \in Deliveries, Callback(d) PROVE GInv'
        BY <2>2, CallbackStep, CallbackOutcome DEF GInv, IInv
    <2>3. QED
        BY <2>1, <2>2, GoogleCases
<1>3. QED
    BY <1>1, <1>2, PTL DEF GoogleFairSpec

\* pubMsg.Ack is called exactly when the handler succeeded, also for a callback that
\* the client runs after ctx is done (Receive of google/subscriber.go).
THEOREM GoogleAckIffSuccess == GoogleFairSpec => []AckedIffSucceeded
<1>1. GInv => AckedIffSucceeded
    BY DEF GInv
<1>2. QED
    BY GoogleInductive, <1>1, PTL

\* The end of Receive's context aborts no handler that a callback runs: Handle detaches
\* the context the client gives before it adds the deadline (dispatcher.go).
THEOREM GoogleHandlersSurvive == GoogleFairSpec => []ShutdownKeepsHandlers
<1>1. GInv => ShutdownKeepsHandlers
    BY DEF GInv
<1>2. QED
    BY GoogleInductive, <1>1, PTL

=============================================================================
