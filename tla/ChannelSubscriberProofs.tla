---------------------- MODULE ChannelSubscriberProofs ----------------------
(***************************************************************************)
(* Theorems about ChannelSubscriber.  Its loop implements Dispatcher.tla,  *)
(* so the theorems of DispatcherProofs hold of it; from them follows that  *)
(* no message is lost or doubled and that drain leaves nothing behind.     *)
(***************************************************************************)
EXTENDS ChannelSubscriber, FiniteSetTheorems, TLAPS

DP == INSTANCE DispatcherProofs WITH
        Deliveries       <- Attempts,
        HasTimeout       <- FALSE,
        AckMayFail       <- FALSE,
        CallbackMayPanic <- FALSE

\* Where Receive is, and what that says of the channels and of ctx.
ModeInv ==
    /\ mode = "stop" => ctxDone
    /\ mode \in {"drain", "drainTake"} => closed /\ input = <<>>
    /\ mode = "drainTake" => retry # <<>>
    /\ loop = "waiting" => mode \in {"stop", "drain"}
    /\ loop = "returned" =>
          \/ mode = "stop"
          \/ mode = "drain" /\ (ctxDone \/ retry = <<>>)

\* The types of the variables that ChannelSubscriber adds.
ChannelTypeOK ==
    /\ input \in Seq(Messages \cup {Nil})
    /\ Len(input) <= InputCap
    /\ closed \in BOOLEAN
    /\ sent \subseteq Messages \cup {Nil}
    /\ retry \in Seq(Messages)
    /\ Len(retry) <= RetryCap
    /\ mode \in {"receive", "stop", "drain", "drainTake"}

\* What the theorems about the dispatcher say here: its types, that an attempt is
\* settled once and by then with an answer, and that Receive returns when nothing
\* is going on any more.
DispatcherInv ==
    /\ D!TypeOK
    /\ D!SettledOnce
    /\ D!AckedIffSucceeded
    /\ D!ReturnedIsQuiet

----------------------------------------------------------------------------
(***************************************************************************)
(* The loop uses the dispatcher as Dispatcher.tla says.                    *)
(***************************************************************************)

\* Taking a message from the retry channel dispatches one of its attempts.
LEMMA TakeDispatches ==
    ASSUME ChannelTypeOK, TakeRetry
    PROVE  \E d \in Attempts : D!Dispatch(d) /\ d[1] = Head(retry)
<1>1. Head(retry) \in Messages
    BY DEF ChannelTypeOK, TakeRetry
<1>2. PICK k \in 1 .. MaxAttempts : D!Dispatch(<<Head(retry), k>>)
    BY DEF TakeRetry
<1>3. <<Head(retry), k>> \in Attempts /\ <<Head(retry), k>>[1] = Head(retry)
    BY <1>1 DEF Attempts
<1>4. QED
    BY <1>2, <1>3

\* The same for a message of the input channel.
LEMMA InputDispatches ==
    ASSUME ChannelTypeOK, SelectInput
    PROVE  /\ Head(input) \in Messages
           /\ <<Head(input), 1>> \in Attempts
           /\ D!Dispatch(<<Head(input), 1>>)
<1>1. Head(input) \in Messages
    BY DEF ChannelTypeOK, SelectInput
<1>2. <<Head(input), 1>> \in Attempts
    BY <1>1, ChannelAssumption DEF Attempts
<1>3. QED
    BY <1>1, <1>2 DEF SelectInput

\* A receive from a channel leaves no more than was there.
LEMMA ShorterTail ==
    ASSUME NEW T, NEW s \in Seq(T), NEW n \in Nat, s # <<>>, Len(s) <= n
    PROVE  Tail(s) \in Seq(T) /\ Len(Tail(s)) <= n
OBVIOUS

\* A step keeps the types of the channels.
LEMMA ChannelTypeStep ==
    ASSUME ChannelTypeOK, [Next]_vars
    PROVE  ChannelTypeOK'
<1> USE DEF ChannelTypeOK
<1>1. ASSUME NEW m \in Messages \cup {Nil}, Send(m)
      PROVE  ChannelTypeOK'
    BY <1>1, ChannelAssumption DEF Send
<1>2. CASE CloseInput \/ SelectCtxDone \/ SelectClosed \/ DrainContinues
    BY <1>2 DEF CloseInput, SelectCtxDone, SelectClosed, DrainContinues
<1>3. CASE SelectRetry \/ DrainTake
    <2>1. retry # <<>> /\ retry' = Tail(retry) /\ UNCHANGED <<input, closed, sent>>
        BY <1>3 DEF SelectRetry, DrainTake, TakeRetry
    <2>2. retry' \in Seq(Messages) /\ Len(retry') <= RetryCap
        BY <2>1, ShorterTail, ChannelAssumption DEF RetryCap
    <2>3. mode' \in {"receive", "stop", "drain", "drainTake"}
        BY <1>3 DEF SelectRetry, DrainTake
    <2>4. QED
        BY <2>1, <2>2, <2>3
<1>4. CASE SelectInput \/ SelectNil
    <2>1. input # <<>> /\ input' = Tail(input) /\ UNCHANGED <<closed, sent, retry, mode>>
        BY <1>4 DEF SelectInput, SelectNil
    <2>2. input' \in Seq(Messages \cup {Nil}) /\ Len(input') <= InputCap
        BY <2>1, ShorterTail, ChannelAssumption
    <2>3. QED
        BY <2>1, <2>2
<1>5. ASSUME NEW d \in Attempts, Nack(d)
      PROVE  ChannelTypeOK'
    BY <1>5, ChannelAssumption DEF Nack, Attempts, RetryCap
<1>6. CASE UNCHANGED channelVars
    BY <1>6 DEF channelVars
<1>7. ASSUME NEW d \in Attempts, HandlerEnds(d) \/ Proceed(d)
      PROVE  UNCHANGED channelVars
    BY <1>7 DEF HandlerEnds, Proceed
<1>8. CASE CtxDone \/ StopReturns \/ DrainReturns \/ DrainWait \/ UNCHANGED vars
    BY <1>6, <1>8 DEF CtxDone, StopReturns, DrainReturns, DrainWait, vars
<1>9. QED
    BY <1>1, <1>2, <1>3, <1>4, <1>5, <1>6, <1>7, <1>8
    DEF Next, LoopStep, DeliveryStep, Terminated

\* Every step is a step of the dispatcher or leaves it alone.
LEMMA DispatcherStep ==
    ASSUME ChannelTypeOK, [Next]_vars
    PROVE  [D!Next]_D!vars
<1>1. CASE UNCHANGED dispatcherVars
    BY <1>1 DEF dispatcherVars, D!vars
<1>2. CASE UNCHANGED vars
    BY <1>1, <1>2 DEF vars
<1>3. ASSUME NEW m \in Messages \cup {Nil}, ~crashed, Send(m)
      PROVE  [D!Next]_D!vars
    BY <1>1, <1>3 DEF Send
<1>4. CASE ~crashed /\ (CloseInput \/ SelectNil)
    BY <1>1, <1>4 DEF CloseInput, SelectNil
<1>5. CASE ~crashed /\ (CtxDone \/ SelectCtxDone \/ SelectClosed \/ StopReturns
                           \/ DrainReturns \/ DrainContinues \/ DrainWait)
    <2>1. D!CtxDone \/ D!Wait \/ D!WaitReturns \/ D!WaitContinues
        BY <1>5 DEF CtxDone, SelectCtxDone, SelectClosed, StopReturns, DrainReturns,
                    DrainContinues, DrainWait
    <2>2. QED
        BY <1>5, <2>1 DEF D!Next
<1>6. ASSUME NEW d \in Attempts, ~crashed, D!Dispatch(d)
      PROVE  [D!Next]_D!vars
    BY <1>6 DEF D!Next, D!LoopStep
<1>7. CASE ~crashed /\ (SelectRetry \/ DrainTake)
    BY <1>6, <1>7, TakeDispatches DEF SelectRetry, DrainTake
<1>8. CASE ~crashed /\ SelectInput
    BY <1>6, <1>8, InputDispatches
<1>9. ASSUME NEW d \in Attempts, ~crashed, DeliveryStep(d)
      PROVE  [D!Next]_D!vars
    <2>1. D!LoopStep(d) \/ D!HandlerEnds(d) \/ D!Settle(d) \/ D!Finish(d)
        BY <1>9 DEF DeliveryStep, HandlerEnds, Nack, Proceed, D!LoopStep, D!HandlerEnds,
                    D!Settle
    <2>2. QED
        BY <1>9, <2>1 DEF D!Next
<1>10. QED
    BY <1>2, <1>3, <1>4, <1>5, <1>7, <1>8, <1>9 DEF Next, LoopStep, Terminated

\* The types of the channels hold in every behaviour.
LEMMA ChannelTypes == Spec => []ChannelTypeOK
<1>1. Init => ChannelTypeOK
    <2>1. Len(<<>>) <= InputCap /\ Len(<<>>) <= RetryCap
        BY ChannelAssumption DEF RetryCap
    <2>2. <<>> \in Seq(Messages) /\ <<>> \in Seq(Messages \cup {Nil})
        OBVIOUS
    <2>3. QED
        BY <2>1, <2>2, Zenon DEF Init, ChannelTypeOK
<1>2. QED
    BY <1>1, ChannelTypeStep, PTL DEF Spec

\* The loop of Receive and drain, with its retry channel, calls Dispatch and Wait as
\* Dispatcher.tla says a receiving loop does: one at a time and never after it
\* returned.
THEOREM RefinesDispatcher == Spec => ImplementsDispatcher
<1>1. Init => D!Init
    BY DEF Init
<1>2. ChannelTypeOK /\ [Next]_vars => [D!Next]_D!vars
    BY DispatcherStep
<1>3. QED
    BY <1>1, <1>2, ChannelTypes, PTL DEF Spec, D!Spec, ImplementsDispatcher

----------------------------------------------------------------------------
(***************************************************************************)
(* What the dispatcher's theorems say of the ChannelSubscriber.  The two   *)
(* instances of Dispatcher.tla are the same formulas.                      *)
(***************************************************************************)

\* The assumptions of Dispatcher.tla hold: maxInFlight is at least 1.
LEMMA DispatcherAssumptions == DP!MaxInFlightAssumption /\ DP!OptionsAssumption
BY ChannelAssumption DEF DP!MaxInFlightAssumption, DP!OptionsAssumption

\* The definitions of the two instances agree: the sets of places,
LEMMA SamePlaces ==
    /\ D!InHandle = DP!InHandle
    /\ D!InLoop = DP!InLoop
    /\ D!Holding = DP!Holding
    /\ D!Counted = DP!Counted
    /\ D!PC = DP!PC
    /\ D!Outcome = DP!Outcome
BY DEF D!InHandle, DP!InHandle, D!InLoop, DP!InLoop, D!Holding, DP!Holding, D!Counted,
       DP!Counted, D!PC, DP!PC, D!Outcome, DP!Outcome

\* the contexts,
LEMMA SameContexts ==
    ASSUME NEW d
    PROVE  /\ D!CallSucceeds(D!AckCtx, d) <=> DP!CallSucceeds(DP!AckCtx, d)
           /\ D!CallFails(D!AckCtx, d) <=> DP!CallFails(DP!AckCtx, d)
           /\ D!CallSucceeds(D!WithoutCancel(D!DeliveryCtx), d)
                <=> DP!CallSucceeds(DP!WithoutCancel(DP!DeliveryCtx), d)
           /\ D!CallFails(D!WithoutCancel(D!DeliveryCtx), d)
                <=> DP!CallFails(DP!WithoutCancel(DP!DeliveryCtx), d)
           /\ D!Cancelled(D!MsgCtx, d) <=> DP!Cancelled(DP!MsgCtx, d)
           /\ D!MsgCtx = DP!MsgCtx
BY DEF D!CallSucceeds, DP!CallSucceeds, D!CallFails, DP!CallFails, D!Cancelled, DP!Cancelled,
       D!AckCtx, DP!AckCtx, D!MsgCtx, DP!MsgCtx, D!WithoutCancel, DP!WithoutCancel,
       D!DeliveryCtx, DP!DeliveryCtx

\* the steps of a delivery,
LEMMA SameDeliverySteps ==
    ASSUME NEW d
    PROVE  /\ D!LoopStep(d) <=> DP!LoopStep(d)
           /\ D!DeadlineExpires(d) <=> DP!DeadlineExpires(d)
           /\ D!HandlerEnds(d) <=> DP!HandlerEnds(d)
           /\ D!Settle(d) <=> DP!Settle(d)
           /\ D!Finish(d) <=> DP!Finish(d)
<1>1. D!LoopFree <=> DP!LoopFree
    BY SamePlaces DEF D!LoopFree, DP!LoopFree
<1>2. D!LoopStep(d) <=> DP!LoopStep(d)
    <2>1. /\ D!Dispatch(d) <=> DP!Dispatch(d)
          /\ D!AcquireSlot(d) <=> DP!AcquireSlot(d)
          /\ D!GiveUpSlot(d) <=> DP!GiveUpSlot(d)
          /\ D!RejectNack(d) <=> DP!RejectNack(d)
          /\ D!RejectNackFails(d) <=> DP!RejectNackFails(d)
        BY <1>1, SameContexts, Zenon
        DEF D!Dispatch, DP!Dispatch, D!AcquireSlot, DP!AcquireSlot, D!GiveUpSlot,
            DP!GiveUpSlot, D!RejectNack, DP!RejectNack, D!RejectNackFails, DP!RejectNackFails
    <2>2. QED
        BY <2>1 DEF D!LoopStep, DP!LoopStep
<1>3. D!DeadlineExpires(d) <=> DP!DeadlineExpires(d)
    BY SamePlaces, SameContexts, Zenon DEF D!DeadlineExpires, DP!DeadlineExpires
<1>4. D!HandlerEnds(d) <=> DP!HandlerEnds(d)
    <2>1. /\ D!HandlerSucceeds(d) <=> DP!HandlerSucceeds(d)
          /\ D!HandlerFails(d) <=> DP!HandlerFails(d)
          /\ D!HandlerAborts(d) <=> DP!HandlerAborts(d)
          /\ D!HandlerPanics(d) <=> DP!HandlerPanics(d)
        BY SameContexts, Zenon
        DEF D!HandlerSucceeds, DP!HandlerSucceeds, D!HandlerFails, DP!HandlerFails,
            D!HandlerAborts, DP!HandlerAborts, D!HandlerPanics, DP!HandlerPanics
    <2>2. QED
        BY <2>1 DEF D!HandlerEnds, DP!HandlerEnds
<1>5. D!Settle(d) <=> DP!Settle(d)
    <2>1. /\ D!Ack(d) <=> DP!Ack(d)
          /\ D!AckFails(d) <=> DP!AckFails(d)
          /\ D!Nack(d) <=> DP!Nack(d)
          /\ D!NackFails(d) <=> DP!NackFails(d)
          /\ D!RecoverNack(d) <=> DP!RecoverNack(d)
        BY SameContexts, Zenon
        DEF D!Ack, DP!Ack, D!AckFails, DP!AckFails, D!Nack, DP!Nack, D!NackFails,
            DP!NackFails, D!RecoverNack, DP!RecoverNack
    <2>2. QED
        BY <2>1 DEF D!Settle, DP!Settle
<1>6. D!Finish(d) <=> DP!Finish(d)
    BY Zenon DEF D!Finish, DP!Finish, D!ReleaseSlot, DP!ReleaseSlot, D!WgDone, DP!WgDone,
           D!PanicEndsProcess, DP!PanicEndsProcess
<1>7. QED
    BY <1>2, <1>3, <1>4, <1>5, <1>6

\* and so the specifications.
LEMMA SameSpec == D!Spec => DP!Spec
<1>1. D!Init => DP!Init
    BY DEF D!Init, DP!Init
<1>2. D!Next => DP!Next
    <2>1. D!CtxDone => DP!CtxDone
        BY DEF D!CtxDone, DP!CtxDone
    <2>2. D!Wait => DP!Wait
        BY SamePlaces DEF D!Wait, DP!Wait, D!LoopFree, DP!LoopFree
    <2>3. D!WaitReturns \/ D!WaitContinues => DP!WaitReturns \/ DP!WaitContinues
        BY DEF D!WaitReturns, DP!WaitReturns, D!WaitContinues, DP!WaitContinues
    <2>4. D!Terminated => DP!Terminated
        BY DEF D!Terminated, DP!Terminated, D!vars, DP!vars
    <2>5. QED
        BY <2>1, <2>2, <2>3, <2>4, SameDeliverySteps DEF D!Next, DP!Next
<1>3. [D!Next]_D!vars => [DP!Next]_DP!vars
    BY <1>2 DEF D!vars, DP!vars
<1>4. QED
    BY <1>1, <1>3, PTL DEF D!Spec, DP!Spec

\* The theorems about the dispatcher hold of the attempts.
LEMMA DispatcherHolds == Spec => []DispatcherInv
<1>1. DP!IInv /\ DP!AckedIffSucceeded /\ DP!ReturnedIsQuiet => DispatcherInv
    BY SamePlaces
    DEF DispatcherInv, DP!IInv, DP!TypeOK, D!TypeOK, DP!SettledOnce, D!SettledOnce,
        DP!AckedIffSucceeded, D!AckedIffSucceeded, DP!ReturnedIsQuiet, D!ReturnedIsQuiet
<1>2. DP!Spec => [](DP!IInv /\ DP!AckedIffSucceeded /\ DP!ReturnedIsQuiet)
    BY DispatcherAssumptions, DP!Inductive, DP!AckIffSuccess, DP!QuietWhenReturned, PTL
<1>3. QED
    BY <1>1, <1>2, SameSpec, RefinesDispatcher, PTL DEF ImplementsDispatcher

\* The variables of Receive, its channels and its dispatcher keep their types; the
\* retry channel never holds more than its capacity.
THEOREM TypeCorrect == Spec => []TypeOK
<1>1. ChannelTypeOK /\ DispatcherInv => TypeOK
    BY DEF ChannelTypeOK, DispatcherInv, TypeOK
<1>2. QED
    BY <1>1, ChannelTypes, DispatcherHolds, PTL

----------------------------------------------------------------------------
(***************************************************************************)
(* Counting the places of a message.                                       *)
(***************************************************************************)

\* The places of a sequence that hold m.
Places(s, m) == {i \in 1 .. Len(s) : s[i] = m}

\* They are finitely many.
LEMMA PlacesFinite ==
    ASSUME NEW T, NEW s \in Seq(T), NEW m
    PROVE  /\ IsFiniteSet(Places(s, m))
           /\ InSequence(s, m) = Cardinality(Places(s, m))
           /\ InSequence(s, m) \in Nat
<1>1. IsFiniteSet(1 .. Len(s))
    BY FS_Interval
<1>2. IsFiniteSet(Places(s, m))
    BY <1>1, FS_Subset DEF Places
<1>3. QED
    BY <1>2, FS_CardinalityType DEF InSequence, Places

\* A send adds one place for what is sent.
LEMMA AppendPlaces ==
    ASSUME NEW T, NEW s \in Seq(T), NEW x \in T, NEW m
    PROVE  InSequence(Append(s, x), m) = InSequence(s, m) + (IF x = m THEN 1 ELSE 0)
<1> DEFINE n == Len(s) + 1
<1>1. /\ Append(s, x) \in Seq(T) /\ Len(Append(s, x)) = n
      /\ \A i \in 1 .. Len(s) : Append(s, x)[i] = s[i]
      /\ Append(s, x)[n] = x
      /\ n \notin 1 .. Len(s) /\ 1 .. n = (1 .. Len(s)) \cup {n}
    OBVIOUS
<1>2. CASE x = m
    <2>1. Places(Append(s, x), m) = Places(s, m) \cup {n} /\ n \notin Places(s, m)
        BY <1>1, <1>2 DEF Places
    <2>2. Cardinality(Places(s, m) \cup {n}) = Cardinality(Places(s, m)) + 1
        BY <2>1, PlacesFinite, FS_AddElement
    <2>3. QED
        BY <1>1, <1>2, <2>1, <2>2, PlacesFinite
<1>3. CASE x # m
    <2>1. Places(Append(s, x), m) = Places(s, m)
        BY <1>1, <1>3 DEF Places
    <2>2. InSequence(Append(s, x), m) = InSequence(s, m) /\ InSequence(s, m) \in Nat
        BY <1>1, <2>1, PlacesFinite
    <2>3. QED
        BY <1>3, <2>2
<1>4. QED
    BY <1>2, <1>3

\* A receive takes the first place away.
LEMMA TailPlaces ==
    ASSUME NEW T, NEW s \in Seq(T), s # <<>>, NEW m
    PROVE  InSequence(s, m) = InSequence(Tail(s), m) + (IF Head(s) = m THEN 1 ELSE 0)
<1> DEFINE Rest == Places(s, m) \ {1}
           shift == [i \in Places(Tail(s), m) |-> i + 1]
<1>1. /\ Tail(s) \in Seq(T) /\ Len(Tail(s)) = Len(s) - 1 /\ Len(s) \in Nat \ {0}
      /\ \A i \in 1 .. Len(s) - 1 : Tail(s)[i] = s[i + 1]
      /\ Head(s) = s[1]
    OBVIOUS
<1>2. Cardinality(Rest) = InSequence(Tail(s), m)
    <2>1. shift \in Bijection(Places(Tail(s), m), Rest)
        <3>1. \A i \in Places(Tail(s), m) : i \in 1 .. Len(s) - 1 /\ i + 1 \in Rest
            BY <1>1 DEF Places
        <3>2. \A j \in Rest : j - 1 \in Places(Tail(s), m) /\ (j - 1) + 1 = j
            BY <1>1 DEF Places
        <3>3. \A i, j \in Places(Tail(s), m) : i # j => i + 1 # j + 1
            BY DEF Places
        <3>4. shift \in [Places(Tail(s), m) -> Rest]
            BY <3>1
        <3>5. \A j \in Rest : \E i \in Places(Tail(s), m) : shift[i] = j
            BY <3>2
        <3>6. \A i, j \in Places(Tail(s), m) : i # j => shift[i] # shift[j]
            BY <3>3
        <3>7. QED
            BY <3>4, <3>5, <3>6, Zenon DEF Bijection, Injection, Surjection, IsInjective
    <2>2. IsFiniteSet(Places(Tail(s), m))
        BY <1>1, PlacesFinite
    <2>3. ExistsBijection(Places(Tail(s), m), Rest)
        BY <2>1 DEF ExistsBijection
    <2>4. Cardinality(Rest) = Cardinality(Places(Tail(s), m))
        BY <2>2, <2>3, FS_Bijection
    <2>5. QED
        BY <1>1, <2>4, PlacesFinite
<1>3. IsFiniteSet(Rest) /\ InSequence(Tail(s), m) \in Nat
    BY <1>1, PlacesFinite, FS_RemoveElement
<1>4. CASE Head(s) = m
    <2>1. Places(s, m) = Rest \cup {1} /\ 1 \notin Rest
        BY <1>1, <1>4 DEF Places
    <2>2. Cardinality(Rest \cup {1}) = Cardinality(Rest) + 1
        BY <1>3, <2>1, FS_AddElement
    <2>3. QED
        BY <1>2, <1>4, <2>1, <2>2, PlacesFinite
<1>5. CASE Head(s) # m
    <2>1. Places(s, m) = Rest
        BY <1>1, <1>5 DEF Places
    <2>2. InSequence(s, m) = InSequence(Tail(s), m)
        BY <1>2, <2>1, PlacesFinite
    <2>3. QED
        BY <1>3, <1>5, <2>2
<1>6. QED
    BY <1>4, <1>5

\* What is left has a number of places too.
LEMMA ReceivedPlaces ==
    ASSUME NEW T, NEW s \in Seq(T), s # <<>>, NEW m
    PROVE  InSequence(Tail(s), m) \in Nat
<1>1. Tail(s) \in Seq(T)
    OBVIOUS
<1>2. QED
    BY <1>1, PlacesFinite

\* A set of attempts is finite, and grows and shrinks by one.
LEMMA AttemptCounts ==
    ASSUME NEW A, A \subseteq 1 .. MaxAttempts, NEW k \in 1 .. MaxAttempts
    PROVE  /\ IsFiniteSet(A) /\ Cardinality(A) \in Nat
           /\ k \notin A => Cardinality(A \cup {k}) = Cardinality(A) + 1
           /\ k \in A => Cardinality(A \ {k}) = Cardinality(A) - 1
<1>1. IsFiniteSet(A)
    <2>1. IsFiniteSet(1 .. MaxAttempts)
        BY FS_Interval, ChannelAssumption
    <2>2. QED
        BY <2>1, FS_Subset
<1>2. QED
    BY <1>1, FS_CardinalityType, FS_AddElement, FS_RemoveElement

\* An attempt is settled exactly when its Handle, or the nack of Dispatch, is over.
LEMMA SettledWhenOver ==
    ASSUME DispatcherInv, NEW d \in Attempts
    PROVE  settled[d] = "no" <=> pc[d] \notin {"handled", "released", "done"}
BY DEF DispatcherInv, D!SettledOnce, D!AckedIffSucceeded

\* The attempts of m, and the counts of their two sets, are natural numbers.
LEMMA CountTypes ==
    ASSUME NEW m
    PROVE  /\ Unsettled(m) \subseteq 1 .. MaxAttempts
           /\ Acked(m) \subseteq 1 .. MaxAttempts
           /\ Cardinality(Unsettled(m)) \in Nat
           /\ Cardinality(Acked(m)) \in Nat
<1>1. Unsettled(m) \subseteq 1 .. MaxAttempts /\ Acked(m) \subseteq 1 .. MaxAttempts
    BY DEF Unsettled, Acked
<1>2. 1 \in 1 .. MaxAttempts
    BY ChannelAssumption
<1>3. QED
    BY <1>1, <1>2, AttemptCounts

\* The same after a step.
LEMMA CountTypesAfter ==
    ASSUME NEW m
    PROVE  Cardinality(Unsettled(m)') \in Nat
<1>1. Unsettled(m)' \subseteq 1 .. MaxAttempts
    BY DEF Unsettled
<1>2. 1 \in 1 .. MaxAttempts
    BY ChannelAssumption
<1>3. QED
    BY <1>1, <1>2, AttemptCounts

\* A step of the goroutine of d that settles nothing.
LEMMA MovePlaces ==
    ASSUME DispatcherInv, NEW d \in Attempts, NEW p,
           pc[d] # "idle", p # "idle",
           pc' = [pc EXCEPT ![d] = p], settled' = settled,
           NEW m \in Messages
    PROVE  Unsettled(m)' = Unsettled(m) /\ Acked(m)' = Acked(m)
BY DEF DispatcherInv, D!TypeOK, Attempts, Unsettled, Acked

\* Dispatch starts an attempt: its message has one unsettled attempt more.
LEMMA DispatchPlaces ==
    ASSUME DispatcherInv, NEW d \in Attempts, D!Dispatch(d), NEW m \in Messages
    PROVE  /\ Cardinality(Unsettled(m)')
                = Cardinality(Unsettled(m)) + (IF m = d[1] THEN 1 ELSE 0)
           /\ Acked(m)' = Acked(m)
<1>1. settled[d] = "no" /\ settled' = settled /\ pc[d] = "idle"
    BY SettledWhenOver DEF D!Dispatch
<1>2. PICK p \in {"select", "rejecting"} : pc' = [pc EXCEPT ![d] = p]
    BY DEF D!Dispatch
<1>3. d = <<d[1], d[2]>> /\ d[2] \in 1 .. MaxAttempts
    BY DEF Attempts
<1>4. Acked(m)' = Acked(m)
    BY <1>1 DEF Acked
<1>5. CASE m = d[1]
    <2>1. Unsettled(m)' = Unsettled(m) \cup {d[2]} /\ d[2] \notin Unsettled(m)
        BY <1>1, <1>2, <1>3, <1>5 DEF DispatcherInv, D!TypeOK, Attempts, Unsettled
    <2>2. QED
        BY <1>3, <1>4, <1>5, <2>1, CountTypes, AttemptCounts
<1>6. CASE m # d[1]
    <2>1. Unsettled(m)' = Unsettled(m)
        BY <1>1, <1>2, <1>3, <1>6 DEF DispatcherInv, D!TypeOK, Attempts, Unsettled
    <2>2. QED
        BY <1>4, <1>6, <2>1, CountTypes
<1>7. QED
    BY <1>5, <1>6

\* An answer ends an unsettled attempt; an ack makes it an acked one.
LEMMA SettlePlaces ==
    ASSUME DispatcherInv, NEW d \in Attempts, NEW p, NEW a \in {"acked", "nacked"},
           pc[d] \notin {"idle", "handled", "released", "done"}, p # "idle",
           pc' = [pc EXCEPT ![d] = p], settled' = [settled EXCEPT ![d] = a],
           NEW m \in Messages
    PROVE  /\ Cardinality(Unsettled(m)) = Cardinality(Unsettled(m)') + (IF m = d[1] THEN 1 ELSE 0)
           /\ Cardinality(Acked(m)')
                = Cardinality(Acked(m)) + (IF m = d[1] /\ a = "acked" THEN 1 ELSE 0)
<1>1. settled[d] = "no"
    BY SettledWhenOver
<1>2. d = <<d[1], d[2]>> /\ d[2] \in 1 .. MaxAttempts
    BY DEF Attempts
<1>3. CASE m = d[1]
    <2>1. Unsettled(m)' = Unsettled(m) \ {d[2]} /\ d[2] \in Unsettled(m)
        BY <1>1, <1>2, <1>3 DEF DispatcherInv, D!TypeOK, Attempts, Unsettled
    <2>2. Cardinality(Unsettled(m)') = Cardinality(Unsettled(m)) - 1
        BY <1>2, <2>1, CountTypes, AttemptCounts
    <2>3. CASE a = "acked"
        <3>1. Acked(m)' = Acked(m) \cup {d[2]} /\ d[2] \notin Acked(m)
            BY <1>1, <1>2, <1>3, <2>3 DEF DispatcherInv, D!TypeOK, Attempts, Acked
        <3>2. Cardinality(Acked(m)') = Cardinality(Acked(m)) + 1
            BY <1>2, <3>1, CountTypes, AttemptCounts
        <3>3. QED
            BY <1>3, <2>2, <2>3, <3>2, CountTypes
    <2>4. CASE a = "nacked"
        <3>1. Acked(m)' = Acked(m)
            BY <1>1, <1>2, <1>3, <2>4 DEF DispatcherInv, D!TypeOK, Attempts, Acked
        <3>2. QED
            BY <1>3, <2>2, <2>4, <3>1, CountTypes
    <2>5. QED
        BY <2>3, <2>4
<1>4. CASE m # d[1]
    <2>1. Unsettled(m)' = Unsettled(m) /\ Acked(m)' = Acked(m)
        BY <1>1, <1>2, <1>4 DEF DispatcherInv, D!TypeOK, Attempts, Unsettled, Acked
    <2>2. QED
        BY <1>4, <2>1, CountTypes
<1>5. QED
    BY <1>3, <1>4

----------------------------------------------------------------------------
(***************************************************************************)
(* No message is lost or doubled.                                          *)
(***************************************************************************)

\* A change of the counts of m that keeps their sum keeps m in one place.
LEMMA SumKept ==
    ASSUME InOnePlace, UNCHANGED sent,
           \A m \in Messages :
               InSequence(input', m) + InSequence(retry', m)
                   + Cardinality(Unsettled(m)') + Cardinality(Acked(m)')
                 = InSequence(input, m) + InSequence(retry, m)
                   + Cardinality(Unsettled(m)) + Cardinality(Acked(m))
    PROVE  InOnePlace'
BY DEF InOnePlace

\* All counts are natural numbers.
LEMMA SumTypes ==
    ASSUME ChannelTypeOK, NEW m
    PROVE  /\ InSequence(input, m) \in Nat
           /\ InSequence(retry, m) \in Nat
           /\ Cardinality(Unsettled(m)) \in Nat
           /\ Cardinality(Acked(m)) \in Nat
BY PlacesFinite, CountTypes DEF ChannelTypeOK

\* A message taken from the retry channel: the place moves to a new attempt.
LEMMA RetryKeepsPlace ==
    ASSUME ChannelTypeOK, ChannelTypeOK', DispatcherInv, InOnePlace, TakeRetry,
           UNCHANGED <<input, sent>>
    PROVE  InOnePlace'
<1>1. PICK d \in Attempts : D!Dispatch(d) /\ d[1] = Head(retry)
    BY TakeDispatches
<1>2. retry \in Seq(Messages) /\ retry # <<>> /\ retry' = Tail(retry)
    BY DEF ChannelTypeOK, TakeRetry
<1>3. ASSUME NEW m \in Messages
      PROVE  InSequence(input', m) + InSequence(retry', m)
                 + Cardinality(Unsettled(m)') + Cardinality(Acked(m)')
               = InSequence(input, m) + InSequence(retry, m)
                 + Cardinality(Unsettled(m)) + Cardinality(Acked(m))
    <2>1. InSequence(retry, m) = InSequence(retry', m) + (IF m = d[1] THEN 1 ELSE 0)
        BY <1>1, <1>2, TailPlaces
    <2>2. /\ Cardinality(Unsettled(m)')
               = Cardinality(Unsettled(m)) + (IF m = d[1] THEN 1 ELSE 0)
          /\ Cardinality(Acked(m)') = Cardinality(Acked(m))
          /\ InSequence(input', m) = InSequence(input, m)
        BY <1>1, DispatchPlaces
    <2>3. InSequence(retry', m) \in Nat
        BY <1>2, ReceivedPlaces
    <2>4. QED
        BY <2>1, <2>2, <2>3, SumTypes
<1>4. QED
    BY <1>3, SumKept

\* A message taken from the input channel: likewise.
LEMMA InputKeepsPlace ==
    ASSUME ChannelTypeOK, DispatcherInv, InOnePlace, SelectInput
    PROVE  InOnePlace'
<1> DEFINE d == <<Head(input), 1>>
<1>1. d \in Attempts /\ D!Dispatch(d) /\ d[1] = Head(input)
    BY InputDispatches
<1>2. /\ input \in Seq(Messages \cup {Nil}) /\ input # <<>> /\ input' = Tail(input)
      /\ UNCHANGED <<sent, retry>>
    BY DEF ChannelTypeOK, SelectInput
<1> HIDE DEF d
<1>3. ASSUME NEW m \in Messages
      PROVE  InSequence(input', m) + InSequence(retry', m)
                 + Cardinality(Unsettled(m)') + Cardinality(Acked(m)')
               = InSequence(input, m) + InSequence(retry, m)
                 + Cardinality(Unsettled(m)) + Cardinality(Acked(m))
    <2>1. InSequence(input, m) = InSequence(input', m) + (IF m = d[1] THEN 1 ELSE 0)
        BY <1>1, <1>2, TailPlaces
    <2>2. /\ Cardinality(Unsettled(m)')
               = Cardinality(Unsettled(m)) + (IF m = d[1] THEN 1 ELSE 0)
          /\ Cardinality(Acked(m)') = Cardinality(Acked(m))
          /\ InSequence(retry', m) = InSequence(retry, m)
        BY <1>1, <1>2, DispatchPlaces
    <2>3. InSequence(input', m) \in Nat
        BY <1>2, ReceivedPlaces
    <2>4. QED
        BY <2>1, <2>2, <2>3, SumTypes
<1>4. QED
    BY <1>2, <1>3, SumKept

\* A nil message is nobody's place.
LEMMA NilKeepsPlace ==
    ASSUME ChannelTypeOK, InOnePlace, SelectNil
    PROVE  InOnePlace'
<1>1. /\ input \in Seq(Messages \cup {Nil}) /\ input # <<>> /\ input' = Tail(input)
      /\ Head(input) = Nil /\ UNCHANGED <<pc, settled, sent, retry>>
    BY DEF ChannelTypeOK, SelectNil, dispatcherVars
<1>2. ASSUME NEW m \in Messages
      PROVE  InSequence(input', m) = InSequence(input, m)
    <2>1. m # Head(input)
        BY <1>1, ChannelAssumption
    <2>2. InSequence(input', m) \in Nat
        BY <1>1, ReceivedPlaces
    <2>3. QED
        BY <1>1, <2>1, <2>2, TailPlaces
<1>3. ASSUME NEW m \in Messages
      PROVE  Unsettled(m)' = Unsettled(m) /\ Acked(m)' = Acked(m)
    BY <1>1 DEF Unsettled, Acked
<1>4. QED
    BY <1>1, <1>2, <1>3, SumKept

\* A send to the input channel: the first place of a message that had none.
LEMMA SendKeepsPlace ==
    ASSUME ChannelTypeOK, InOnePlace, NEW x \in Messages \cup {Nil}, Send(x)
    PROVE  InOnePlace'
<1>1. /\ input \in Seq(Messages \cup {Nil}) /\ input' = Append(input, x)
      /\ x \notin sent /\ sent' = sent \cup {x}
      /\ UNCHANGED <<pc, settled, retry>>
    BY DEF ChannelTypeOK, Send, dispatcherVars
<1>2. ASSUME NEW m \in Messages
      PROVE  InSequence(input', m) + InSequence(retry', m)
                 + Cardinality(Unsettled(m)') + Cardinality(Acked(m)')
               = IF m \in sent' THEN 1 ELSE 0
    <2>1. InSequence(input', m) = InSequence(input, m) + (IF m = x THEN 1 ELSE 0)
        BY <1>1, AppendPlaces
    <2>2. Unsettled(m)' = Unsettled(m) /\ Acked(m)' = Acked(m) /\ retry' = retry
        BY <1>1 DEF Unsettled, Acked
    <2>3. InSequence(input, m) + InSequence(retry, m)
              + Cardinality(Unsettled(m)) + Cardinality(Acked(m))
            = IF m \in sent THEN 1 ELSE 0
        BY DEF InOnePlace
    <2>4. m \in sent' <=> m \in sent \/ m = x
        BY <1>1
    <2>5. CASE m = x
        <3>1. InSequence(input, m) + InSequence(retry, m)
                  + Cardinality(Unsettled(m)) + Cardinality(Acked(m)) = 0
            BY <1>1, <2>3, <2>5
        <3>2. QED
            BY <2>1, <2>2, <2>4, <2>5, <3>1, SumTypes
    <2>6. CASE m # x
        BY <2>1, <2>2, <2>3, <2>4, <2>6, SumTypes
    <2>7. QED
        BY <2>5, <2>6
<1>3. QED
    BY <1>2 DEF InOnePlace

\* A nack: the attempt ends, and its message is in the retry channel again.
LEMMA NackKeepsPlace ==
    ASSUME ChannelTypeOK, DispatcherInv, InOnePlace, NEW d \in Attempts, Nack(d)
    PROVE  InOnePlace'
<1>1. /\ retry \in Seq(Messages) /\ retry' = Append(retry, d[1])
      /\ UNCHANGED <<input, sent>> /\ d[1] \in Messages
    BY DEF ChannelTypeOK, Nack, Attempts
<1>2. \E p \in {"handled", "done"} : pc' = [pc EXCEPT ![d] = p]
    BY DEF Nack, D!RejectNack, D!Nack, D!RecoverNack
<1>3. pc[d] \notin {"idle", "handled", "released", "done"}
    BY DEF Nack, D!RejectNack, D!Nack, D!RecoverNack
<1>4. settled' = [settled EXCEPT ![d] = "nacked"]
    <2>1. ~D!CallFails(D!AckCtx, d)
        BY DEF D!CallFails, D!Cancelled, D!AckCtx, D!WithoutCancel
    <2>2. QED
        BY <2>1 DEF Nack, D!RejectNack, D!Nack, D!RecoverNack
<1>5. ASSUME NEW m \in Messages
      PROVE  InSequence(input', m) + InSequence(retry', m)
                 + Cardinality(Unsettled(m)') + Cardinality(Acked(m)')
               = InSequence(input, m) + InSequence(retry, m)
                 + Cardinality(Unsettled(m)) + Cardinality(Acked(m))
    <2>1. InSequence(retry', m) = InSequence(retry, m) + (IF m = d[1] THEN 1 ELSE 0)
        BY <1>1, AppendPlaces
    <2>2. /\ Cardinality(Unsettled(m)) = Cardinality(Unsettled(m)') + (IF m = d[1] THEN 1 ELSE 0)
          /\ Cardinality(Acked(m)')
               = Cardinality(Acked(m)) + (IF m = d[1] /\ "nacked" = "acked" THEN 1 ELSE 0)
        BY <1>2, <1>3, <1>4, SettlePlaces
    <2>3. Cardinality(Unsettled(m)') \in Nat
        BY CountTypesAfter
    <2>4. QED
        BY <1>1, <2>1, <2>2, <2>3, SumTypes
<1>6. QED
    BY <1>1, <1>5, SumKept

\* An ack: the place becomes the acked attempt.
LEMMA AckKeepsPlace ==
    ASSUME ChannelTypeOK, DispatcherInv, InOnePlace, NEW d \in Attempts, D!Ack(d),
           UNCHANGED channelVars
    PROVE  InOnePlace'
<1>1. /\ pc[d] = "ack" /\ pc' = [pc EXCEPT ![d] = "handled"]
      /\ settled' = [settled EXCEPT ![d] = "acked"]
      /\ UNCHANGED <<input, retry, sent>>
    BY DEF D!Ack, channelVars
<1>2. ASSUME NEW m \in Messages
      PROVE  InSequence(input', m) + InSequence(retry', m)
                 + Cardinality(Unsettled(m)') + Cardinality(Acked(m)')
               = InSequence(input, m) + InSequence(retry, m)
                 + Cardinality(Unsettled(m)) + Cardinality(Acked(m))
    <2>1. /\ Cardinality(Unsettled(m)) = Cardinality(Unsettled(m)') + (IF m = d[1] THEN 1 ELSE 0)
          /\ Cardinality(Acked(m)')
               = Cardinality(Acked(m)) + (IF m = d[1] /\ "acked" = "acked" THEN 1 ELSE 0)
        BY <1>1, SettlePlaces
    <2>2. QED
        BY <1>1, <2>1, SumTypes, CountTypesAfter
<1>3. QED
    BY <1>1, <1>2, SumKept

\* A step that moves d and settles nothing keeps every place.
LEMMA MoveKeepsPlace ==
    ASSUME DispatcherInv, InOnePlace, NEW d \in Attempts, NEW p,
           pc[d] # "idle", p # "idle",
           pc' = [pc EXCEPT ![d] = p], settled' = settled,
           UNCHANGED channelVars
    PROVE  InOnePlace'
<1>1. \A m \in Messages : Unsettled(m)' = Unsettled(m) /\ Acked(m)' = Acked(m)
    BY MovePlaces
<1>2. UNCHANGED <<input, retry, sent>>
    BY DEF channelVars
<1>3. QED
    BY <1>1, <1>2, SumKept

\* A step that leaves the attempts and the channels alone.
LEMMA SameKeepsPlace ==
    ASSUME InOnePlace, UNCHANGED <<pc, settled, input, retry, sent>>
    PROVE  InOnePlace'
<1>1. \A m \in Messages : Unsettled(m)' = Unsettled(m) /\ Acked(m)' = Acked(m)
    BY DEF Unsettled, Acked
<1>2. QED
    BY <1>1, SumKept

\* Every step keeps every message in one place.
LEMMA OnePlaceStep ==
    ASSUME ChannelTypeOK, ChannelTypeOK', DispatcherInv, InOnePlace, [Next]_vars
    PROVE  InOnePlace'
<1>1. ASSUME NEW x \in Messages \cup {Nil}, Send(x)
      PROVE  InOnePlace'
    BY <1>1, SendKeepsPlace
<1>2. CASE SelectRetry \/ DrainTake
    BY <1>2, RetryKeepsPlace DEF SelectRetry, DrainTake
<1>3. CASE SelectInput
    BY <1>3, InputKeepsPlace
<1>4. CASE SelectNil
    BY <1>4, NilKeepsPlace
<1>5. CASE CloseInput \/ CtxDone \/ SelectCtxDone \/ SelectClosed \/ StopReturns
             \/ DrainReturns \/ DrainContinues \/ DrainWait \/ UNCHANGED vars
    <2>1. UNCHANGED <<pc, settled, input, retry, sent>>
        BY <1>5
        DEF CloseInput, CtxDone, SelectCtxDone, SelectClosed, StopReturns, DrainReturns,
            DrainContinues, DrainWait, vars, dispatcherVars, channelVars, D!CtxDone, D!Wait,
            D!WaitReturns, D!WaitContinues
    <2>2. QED
        BY <2>1, SameKeepsPlace
<1>6. ASSUME NEW d \in Attempts, HandlerEnds(d)
      PROVE  InOnePlace'
    <2>1. /\ pc[d] = "handler" /\ settled' = settled /\ UNCHANGED channelVars
          /\ \E p \in {"ack", "nack", "recovery"} : pc' = [pc EXCEPT ![d] = p]
        BY <1>6 DEF HandlerEnds, D!HandlerSucceeds, D!HandlerFails, D!HandlerPanics
    <2>2. QED
        BY <2>1, MoveKeepsPlace
<1>7. ASSUME NEW d \in Attempts, Nack(d)
      PROVE  InOnePlace'
    BY <1>7, NackKeepsPlace
<1>8. ASSUME NEW d \in Attempts, Proceed(d)
      PROVE  InOnePlace'
    <2>1. CASE D!Ack(d)
        BY <1>8, <2>1, AckKeepsPlace DEF Proceed
    <2>2. CASE D!PanicEndsProcess(d)
        BY <1>8, <2>2, SameKeepsPlace DEF Proceed, D!PanicEndsProcess, channelVars
    <2>3. CASE D!AcquireSlot(d) \/ D!GiveUpSlot(d) \/ D!ReleaseSlot(d) \/ D!WgDone(d)
        <3>1. /\ pc[d] \in {"select", "handled", "released"} /\ settled' = settled
              /\ \E p \in {"handler", "rejecting", "released", "done"} :
                    pc' = [pc EXCEPT ![d] = p]
            BY <2>3 DEF D!AcquireSlot, D!GiveUpSlot, D!ReleaseSlot, D!WgDone
        <3>2. QED
            BY <1>8, <3>1, MoveKeepsPlace DEF Proceed
    <2>4. QED
        BY <1>8, <2>1, <2>2, <2>3 DEF Proceed, D!Finish
<1>9. QED
    BY <1>1, <1>2, <1>3, <1>4, <1>5, <1>6, <1>7, <1>8
    DEF Next, LoopStep, DeliveryStep, Terminated

\* Initially nothing is sent and every message has no place.
LEMMA OnePlaceInit == Init => InOnePlace
<1> SUFFICES ASSUME Init, NEW m \in Messages
             PROVE  InSequence(input, m) + InSequence(retry, m)
                        + Cardinality(Unsettled(m)) + Cardinality(Acked(m)) = 0
    BY DEF Init, InOnePlace
<1>1. Places(<<>>, m) = {}
    BY DEF Places
<1>2. InSequence(<<>>, m) = 0
    BY <1>1, FS_EmptySet DEF InSequence, Places
<1>3. Unsettled(m) = {} /\ Acked(m) = {}
    BY DEF Init, D!Init, Unsettled, Acked, Attempts
<1>4. Cardinality(Unsettled(m)) = 0 /\ Cardinality(Acked(m)) = 0
    BY <1>3, FS_EmptySet
<1>5. QED
    BY <1>2, <1>4 DEF Init

\* A message sent to the input channel is never lost and never handled twice at the
\* same time: through nacks, new attempts, shutdown and drain it is in the input
\* channel, in the retry channel, in one unsettled attempt, or acked by one.
THEOREM MessageInOnePlace == Spec => []InOnePlace
<1>1. ChannelTypeOK /\ ChannelTypeOK' /\ DispatcherInv /\ InOnePlace /\ [Next]_vars
        => InOnePlace'
    BY OnePlaceStep
<1>2. QED
    BY <1>1, OnePlaceInit, ChannelTypes, DispatcherHolds, PTL DEF Spec

----------------------------------------------------------------------------
(***************************************************************************)
(* Drain leaves nothing behind.                                            *)
(***************************************************************************)

\* Every step keeps ModeInv.
LEMMA ModeStep ==
    ASSUME ChannelTypeOK, DispatcherInv, ModeInv, [Next]_vars
    PROVE  ModeInv'
<1> USE DEF ModeInv
<1>1. ASSUME NEW x \in Messages \cup {Nil}, Send(x)
      PROVE  ModeInv'
    BY <1>1 DEF Send, dispatcherVars, ChannelTypeOK
<1>2. CASE CloseInput \/ UNCHANGED vars
    BY <1>2 DEF CloseInput, vars, dispatcherVars, channelVars
<1>3. CASE CtxDone
    BY <1>3 DEF CtxDone, D!CtxDone, channelVars
<1>4. CASE SelectCtxDone \/ SelectClosed
    BY <1>4 DEF SelectCtxDone, SelectClosed, InSelect, D!Wait
<1>5. CASE SelectRetry \/ DrainTake
    <2>1. PICK d \in Attempts : D!Dispatch(d)
        BY <1>5, TakeDispatches DEF SelectRetry, DrainTake
    <2>2. QED
        BY <1>5, <2>1 DEF SelectRetry, DrainTake, InSelect, D!Dispatch
<1>6. CASE SelectInput \/ SelectNil
    BY <1>6 DEF SelectInput, SelectNil, InSelect, D!Dispatch, dispatcherVars
<1>7. CASE StopReturns \/ DrainReturns \/ DrainContinues \/ DrainWait
    BY <1>7 DEF StopReturns, DrainReturns, DrainContinues, DrainWait, D!WaitReturns,
                D!WaitContinues, D!Wait, channelVars
<1>8. ASSUME NEW d \in Attempts, Nack(d)
      PROVE  ModeInv'
    <2>1. loop # "returned" /\ UNCHANGED <<loop, ctxDone, input, closed, mode>>
        BY <1>8 DEF Nack, D!RejectNack, D!Nack, D!RecoverNack, DispatcherInv, D!ReturnedIsQuiet
    <2>2. retry' # <<>>
        BY <1>8 DEF Nack, ChannelTypeOK, Attempts
    <2>3. QED
        BY <2>1, <2>2
<1>9. ASSUME NEW d \in Attempts, HandlerEnds(d) \/ Proceed(d)
      PROVE  ModeInv'
    BY <1>9
    DEF HandlerEnds, Proceed, D!HandlerSucceeds, D!HandlerFails, D!HandlerPanics, D!AcquireSlot,
        D!GiveUpSlot, D!Ack, D!Finish, D!ReleaseSlot, D!WgDone, D!PanicEndsProcess, channelVars
<1>10. QED
    BY <1>1, <1>2, <1>3, <1>4, <1>5, <1>6, <1>7, <1>8, <1>9
    DEF Next, LoopStep, DeliveryStep, Terminated

\* Once Receive has returned without ctx done, the channels are empty and no attempt
\* is unsettled, so the one place of a message is an acked attempt.
LEMMA ReturnedDrained ==
    ASSUME ChannelTypeOK, DispatcherInv, ModeInv, InOnePlace
    PROVE  DrainedAll
<1> SUFFICES ASSUME loop = "returned", ~ctxDone, NEW m \in sent \ {Nil}, Acked(m) = {}
             PROVE  FALSE
    BY DEF DrainedAll
<1>1. m \in Messages
    BY DEF ChannelTypeOK
<1>2. input = <<>> /\ retry = <<>>
    BY DEF ModeInv
<1>3. InSequence(<<>>, m) = 0
    <2>1. Places(<<>>, m) = {}
        BY DEF Places
    <2>2. QED
        BY <2>1, FS_EmptySet DEF InSequence, Places
<1>4. Unsettled(m) = {}
    <2> SUFFICES ASSUME NEW k \in Unsettled(m) PROVE FALSE
        OBVIOUS
    <2>1. <<m, k>> \in Attempts /\ settled[<<m, k>>] = "no" /\ pc[<<m, k>>] # "idle"
        BY <1>1 DEF Unsettled, Attempts
    <2>2. pc[<<m, k>>] = "done"
        BY <2>1 DEF DispatcherInv, D!ReturnedIsQuiet
    <2>3. QED
        BY <2>1, <2>2, SettledWhenOver
<1>5. InSequence(input, m) + InSequence(retry, m)
          + Cardinality(Unsettled(m)) + Cardinality(Acked(m)) = 1
    BY <1>1 DEF InOnePlace
<1>6. Cardinality(Unsettled(m)) = 0 /\ Cardinality(Acked(m)) = 0
    BY <1>4, FS_EmptySet
<1>7. QED
    BY <1>2, <1>3, <1>5, <1>6

\* When Receive returns because the input channel was closed, every message sent to
\* it was handled and acked, however often it was nacked before.
THEOREM DrainLeavesNothing == Spec => []DrainedAll
<1>1. Init => ModeInv
    BY DEF Init, D!Init, ModeInv
<1>2. ChannelTypeOK /\ DispatcherInv /\ ModeInv /\ [Next]_vars => ModeInv'
    BY ModeStep
<1>3. ChannelTypeOK /\ DispatcherInv /\ ModeInv /\ InOnePlace => DrainedAll
    BY ReturnedDrained
<1>4. QED
    BY <1>1, <1>2, <1>3, ChannelTypes, DispatcherHolds, MessageInOnePlace, PTL DEF Spec

----------------------------------------------------------------------------
\* What the broker's side and the caller see of ChannelSubscriber is a behaviour of
\* Subscriber.tla, with every attempt a delivery: at most MaxInFlight handlers at
\* once, one answer per attempt, the right one, and a return that leaves none active.
THEOREM KeepsSubscriberContract == Spec => DP!ImplementsSubscriber
BY RefinesDispatcher, SameSpec, DispatcherAssumptions, DP!RefinesSubscriber, PTL
DEF ImplementsDispatcher
=============================================================================
