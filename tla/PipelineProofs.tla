--------------------------- MODULE PipelineProofs ---------------------------
(***************************************************************************)
(* Proofs about Pipeline.                                                  *)
(***************************************************************************)
EXTENDS Pipeline, SequenceTheorems, NaturalsInduction, WellFoundedInduction, TLAPS

\* A set of natural numbers that is not empty has a least element.
LEMMA LeastNatural ==
    ASSUME NEW S \in SUBSET Nat, S # {}
    PROVE  \E x \in S : \A y \in S : x <= y
<1> DEFINE R == OpToRel(<, Nat)
<1>1. \A x, y \in Nat : <<x, y>> \in R <=> x < y
    BY DEF OpToRel
<1>2. \E x \in S : \A y \in S : <<y, x>> \notin R
    <2> HIDE DEF R
    <2>1. IsWellFoundedOn(R, Nat)
        BY NatLessThanWellFounded DEF R
    <2>2. QED
        BY <2>1, WFMin, Zenon
<1>3. PICK x \in S : \A y \in S : <<y, x>> \notin R
    BY <1>2, Zenon
<1>4. ASSUME NEW y \in S PROVE x <= y
    <2>1. x \in Nat /\ y \in Nat
        OBVIOUS
    <2>2. ~(y < x)
        <3> HIDE DEF R
        <3>1. QED
            BY <1>1, <1>3, <2>1
    <2>3. QED
        BY <2>1, <2>2
<1>5. QED
    BY <1>4

\* One turn of the loop of Chain.Wrap: the layers from n - 1 turns, inside the
\* middleware that the next turn takes.
LEMMA OneTurn ==
    ASSUME NEW S, NEW mws \in Seq(S), NEW n \in 1 .. Len(mws)
    PROVE  SubSeq(mws, Len(mws) - n + 1, Len(mws))
             = <<mws[Len(mws) - n + 1]>> \o SubSeq(mws, Len(mws) - n + 2, Len(mws))
<1> DEFINE L == Len(mws)
           a == L - n + 1
           u == SubSeq(mws, a, L)
           t == SubSeq(mws, a + 1, L)
           v == <<mws[a]>> \o t
<1>1. L \in Nat /\ a \in 1 .. L /\ n = L - a + 1 /\ a + 1 \in 1 .. L + 1 /\ a + 1 = L - n + 2
    BY LenProperties
<1>2. u \in Seq(S) /\ Len(u) = n /\ \A i \in 1 .. n : u[i] = mws[a + i - 1]
    <2>1. a \in 1 .. L + 1 /\ L \in a - 1 .. L /\ L - a + 1 = n
        BY <1>1
    <2> HIDE DEF a, L
    <2>2. QED
        BY <2>1, SubSeqProperties DEF L
<1>3. t \in Seq(S) /\ Len(t) = n - 1 /\ \A i \in 1 .. n - 1 : t[i] = mws[a + i]
    <2>1. a + 1 \in 1 .. L + 1 /\ L \in a .. L /\ L - (a + 1) + 1 = n - 1
        BY <1>1
    <2> HIDE DEF a, L
    <2>2. QED
        BY <2>1, <1>1, SubSeqProperties DEF L
<1>4. <<mws[a]>> \in Seq(S) /\ Len(<<mws[a]>>) = 1 /\ <<mws[a]>>[1] = mws[a]
    BY <1>1
<1>5. v \in Seq(S) /\ Len(v) = n
      /\ v[1] = mws[a] /\ \A i \in 2 .. n : v[i] = t[i - 1]
    <2> HIDE DEF t, a
    <2>1. QED
        BY <1>3, <1>4, ConcatProperties
<1>6. \A i \in 1 .. n : u[i] = v[i]
    <2> HIDE DEF t, u, v, L
    <2>1. TAKE i \in 1 .. n
    <2>2. CASE i = 1
        BY <2>2, <1>1, <1>2, <1>5
    <2>3. CASE i # 1
        <3>1. i \in 2 .. n /\ i - 1 \in 1 .. n - 1 /\ a + (i - 1) = a + i - 1
            BY <2>3, <1>1
        <3>2. QED
            BY <3>1, <1>2, <1>3, <1>5
    <2>4. QED
        BY <2>2, <2>3
<1>7. u = v
    <2> HIDE DEF u, v
    <2>1. QED
        BY <1>2, <1>5, <1>6, SeqEqual
<1>8. QED
    BY <1>7, <1>1

\* Chain.Wrap puts the middleware that was added first outermost: the layers of the
\* function it returns are the middlewares in the order in which they were added.
LEMMA WrapKeepsOrder ==
    ASSUME NEW S, NEW mws \in Seq(S)
    PROVE  Wrap(mws) = mws
<1> DEFINE L == Len(mws)
           Turn(f, n) == IF n = 0 THEN <<>> ELSE <<mws[L - n + 1]>> \o f[n - 1]
           tails == [n \in 0 .. L |-> SubSeq(mws, L - n + 1, L)]
           wrapped == CHOOSE f : f = [n \in 0 .. L |-> Turn(f, n)]
<1>1. L \in Nat
    BY LenProperties
<1>2. \A n \in 0 .. L : tails[n] = Turn(tails, n)
    <2>1. TAKE n \in 0 .. L
    <2>2. CASE n = 0
        BY <2>2, <1>1, EmptySeq
    <2>3. CASE n # 0
        <3>1. n \in 1 .. L /\ n - 1 \in 0 .. L /\ L - (n - 1) + 1 = L - n + 2
            BY <2>3, <1>1
        <3>2. QED
            BY <3>1, <2>3, OneTurn
    <2>4. QED
        BY <2>2, <2>3
<1>3. tails = [n \in 0 .. L |-> Turn(tails, n)]
    BY <1>2
<1>4. wrapped = [n \in 0 .. L |-> Turn(wrapped, n)]
    <2>1. \E f : f = [n \in 0 .. L |-> Turn(f, n)]
        BY <1>3
    <2>2. QED
        BY <2>1
<1>5. \A n \in 0 .. L : wrapped[n] = tails[n]
    <2> DEFINE Bad == {n \in 0 .. L : wrapped[n] # tails[n]}
    <2>1. SUFFICES ASSUME Bad # {} PROVE FALSE
        OBVIOUS
    <2> HIDE DEF wrapped, tails
    <2>2. PICK n \in Bad : \A k \in Bad : n <= k
        <3>1. Bad \in SUBSET Nat
            BY <1>1
        <3> HIDE DEF Bad
        <3>2. QED
            BY <3>1, <2>1, LeastNatural
    <2>3. n \in 0 .. L /\ wrapped[n] # tails[n]
        OBVIOUS
    <2>4. wrapped[n] = Turn(wrapped, n) /\ tails[n] = Turn(tails, n)
        BY <2>3, <1>4, <1>3
    <2>5. n # 0
        BY <2>3, <2>4
    <2>6. n - 1 \in 0 .. L /\ n - 1 \notin Bad
        BY <1>1, <2>2, <2>3, <2>5
    <2>7. wrapped[n - 1] = tails[n - 1]
        BY <2>6
    <2>8. QED
        BY <2>3, <2>4, <2>5, <2>7
<1>6. wrapped[L] = SubSeq(mws, 1, L)
    <2>1. L \in 0 .. L /\ L - L + 1 = 1
        BY <1>1
    <2>2. tails[L] = SubSeq(mws, 1, L)
        BY <2>1
    <2> HIDE DEF wrapped, tails
    <2>3. QED
        BY <1>5, <2>1, <2>2
<1>7. SubSeq(mws, 1, L) = mws
    OBVIOUS
<1>8. Wrap(mws) = wrapped[L]
    BY DEF Wrap
<1>9. QED
    BY <1>6, <1>7, <1>8

----------------------------------------------------------------------------
\* The inductive invariant.

\* The types of the variables, without the bounds that the calls give them.
Types ==
    /\ engine \in {"publishing", "subscription"}
    /\ kind \in [Layers -> Kind]
    /\ unknown \in {"default", "ack", "panic"}
    /\ chain \in Seq(Added)
    /\ handlerFn \in Seq(Added) \cup {Unbuilt}
    /\ locked \in BOOLEAN
    /\ refused \subseteq Added
    /\ tick \in [Layers -> BOOLEAN]
    /\ passed \in [Layers -> 0 .. 1]
    /\ place \in [Calls -> Place]
    /\ stack \in [Calls -> Seq(Layers)]
    /\ pos \in [Calls -> Nat]
    /\ result \in [Calls -> Result]
    /\ origin \in [Calls -> Nat]
    /\ seen \in [Calls -> SUBSET Nat]
    /\ DOMAIN counted = Calls
    /\ verdict \in [Calls -> Verdict]
    /\ given \in [Calls -> Result]

\* The pipeline is built from all middlewares, and is never rebuilt.
BuiltFromAll == handlerFn # Unbuilt => handlerFn = chain

\* A tick that waits in the channel of a ticker has let no message through.
TickUnused == \A l \in Layers : tick[l] => passed[l] = 0

\* Nothing has come out of the layers of c.
NoResult(c) ==
    /\ result[c] = "none" /\ given[c] = "none" /\ origin[c] = 0
    /\ seen[c] = {} /\ counted[c] = <<>>

\* c runs the pipeline as it was built, with or without the layers of a route.
OnPath(c) == handlerFn # Unbuilt /\ stack[c] \in {chain, chain \o RouteLayers}

\* The layers that the result of c has crossed since it arose.
Crossed(c) == {i \in 1 .. Len(stack[c]) : pos[c] < i /\ i < origin[c]}

Outcome(c) == IF result[c] = "error" THEN "error" ELSE "nil"

\* What these layers have done with it.
OnErrorsToldOf(c) ==
    /\ seen[c] \subseteq 1 .. Len(stack[c])
    /\ result[c] = "nil" => seen[c] = {}
    /\ result[c] = "error" =>
          \A i \in Crossed(c) : kind[stack[c][i]] = "OnError" => i \in seen[c]

NotRecovered(c) ==
    result[c] = "panic" => \A i \in Crossed(c) : kind[stack[c][i]] # "ConvertPanicToError"

CountedOnce(c) ==
    /\ DOMAIN counted[c] \subseteq (1 .. Len(stack[c])) \X {"nil", "error"}
    /\ \A e \in DOMAIN counted[c] : counted[c][e] = 1 /\ pos[c] < e[1]
    /\ \A i \in Crossed(c) : kind[stack[c][i]] = "Metrics" =>
          /\ <<i, Outcome(c)>> \in DOMAIN counted[c]
          /\ \A e \in DOMAIN counted[c] : e[1] = i => e = <<i, Outcome(c)>>

FromTheHandler(c) ==
    /\ result[c] = "nil" => given[c] = "nil"
    /\ given[c] = "nil" => result[c] = "nil" \/ verdict[c] = "labels"

\* The result of c is on its way out, or has left.
Out(c) ==
    /\ OnPath(c)
    /\ result[c] # "none" /\ verdict[c] # "factory"
    /\ pos[c] < origin[c] /\ origin[c] <= Len(stack[c]) + 1
    /\ OnErrorsToldOf(c)
    /\ NotRecovered(c)
    /\ CountedOnce(c)
    /\ FromTheHandler(c)

CallOK(c) ==
    \/ place[c] = "idle" /\ NoResult(c) /\ verdict[c] = "none" /\ stack[c] = <<>> /\ pos[c] = 0
    \/ place[c] = "entering" /\ NoResult(c) /\ verdict[c] = "none" /\ OnPath(c)
       /\ pos[c] \in 1 .. Len(stack[c]) + 1
    \/ place[c] = "leaving" /\ Out(c)
    \/ place[c] = "done" /\ Out(c) /\ pos[c] = 0
    \/ place[c] = "done" /\ verdict[c] = "factory" /\ result[c] = "panic" /\ given[c] = "none"
       /\ stack[c] = <<>> /\ pos[c] = 0 /\ origin[c] = 0 /\ seen[c] = {} /\ counted[c] = <<>>

Inv ==
    /\ Types
    /\ BuiltFromAll
    /\ TickUnused
    /\ \A c \in Calls : CallOK(c)

\* A step leaves the call d alone.
CallSame(d) ==
    /\ place'[d] = place[d] /\ stack'[d] = stack[d] /\ pos'[d] = pos[d]
    /\ result'[d] = result[d] /\ origin'[d] = origin[d] /\ seen'[d] = seen[d]
    /\ counted'[d] = counted[d] /\ verdict'[d] = verdict[d] /\ given'[d] = given[d]

\* The initial states satisfy the invariant.
LEMMA InvInit ==
    Init => Inv
<1> SUFFICES ASSUME Init PROVE Inv
    OBVIOUS
<1>1. Types
    <2>1. <<>> \in Seq(Added) /\ <<>> \in Seq(Layers)
        OBVIOUS
    <2>2. unknown \in {"default", "ack", "panic"}
        BY DEF Init
    <2>3. seen \in [Calls -> SUBSET Nat] /\ DOMAIN counted = Calls
        BY DEF Init
    <2>4. /\ place \in [Calls -> Place] /\ stack \in [Calls -> Seq(Layers)] /\ pos \in [Calls -> Nat]
          /\ result \in [Calls -> Result] /\ origin \in [Calls -> Nat]
          /\ verdict \in [Calls -> Verdict] /\ given \in [Calls -> Result]
        BY <2>1 DEF Init, Place, Result, Verdict
    <2>5. tick \in [Layers -> BOOLEAN] /\ passed \in [Layers -> 0 .. 1]
        BY DEF Init
    <2>6. engine \in {"publishing", "subscription"} /\ kind \in [Layers -> Kind]
        BY DEF Init
    <2>7. /\ chain \in Seq(Added) /\ handlerFn \in Seq(Added) \cup {Unbuilt}
          /\ locked \in BOOLEAN /\ refused \subseteq Added
        BY <2>1 DEF Init
    <2>8. QED
        BY <2>2, <2>3, <2>4, <2>5, <2>6, <2>7 DEF Types
<1>2. BuiltFromAll
    BY DEF Init, BuiltFromAll
<1>3. TickUnused
    BY DEF Init, TickUnused
<1>4. \A c \in Calls : CallOK(c)
    BY DEF Init, CallOK, NoResult
<1>5. QED
    BY <1>1, <1>2, <1>3, <1>4 DEF Inv

\* While the pipeline is not built, no call is on it; a step that leaves a call and
\* the pipeline it may be on alone keeps what the invariant says about the call.
LEMMA CallKept ==
    ASSUME NEW d \in Calls, CallOK(d), CallSame(d), kind' = kind,
           handlerFn # Unbuilt => chain' = chain /\ handlerFn' = handlerFn
    PROVE  CallOK(d)'
<1>1. NoResult(d) => NoResult(d)'
    BY DEF NoResult, CallSame
<1>2. OnPath(d) => OnPath(d)'
    BY DEF OnPath, CallSame
<1>3. Crossed(d)' = Crossed(d) /\ Outcome(d)' = Outcome(d)
    BY DEF Crossed, Outcome, CallSame
<1>4. OnErrorsToldOf(d) => OnErrorsToldOf(d)'
    BY <1>3 DEF OnErrorsToldOf, CallSame
<1>5. NotRecovered(d) => NotRecovered(d)'
    BY <1>3 DEF NotRecovered, CallSame
<1>6. CountedOnce(d) => CountedOnce(d)'
    BY <1>3 DEF CountedOnce, CallSame
<1>7. FromTheHandler(d) => FromTheHandler(d)'
    BY DEF FromTheHandler, CallSame
<1>8. Out(d) => Out(d)'
    BY <1>2, <1>4, <1>5, <1>6, <1>7 DEF Out, CallSame
<1>9. QED
    BY <1>1, <1>2, <1>8 DEF CallOK, CallSame

\* A step of one call: what is left to show is about that call.
LEMMA OneCallStep ==
    ASSUME Inv, NEW c \in Calls, Types', TickUnused', CallOK(c)',
           UNCHANGED <<kind, chain, handlerFn>>,
           \A d \in Calls : d # c => CallSame(d)
    PROVE  Inv'
<1>1. BuiltFromAll'
    BY DEF Inv, BuiltFromAll
<1>2. ASSUME NEW d \in Calls PROVE CallOK(d)'
    <2>1. CASE d = c
        BY <2>1
    <2>2. CASE d # c
        <3>1. CallOK(d) /\ CallSame(d)
            BY <2>2 DEF Inv
        <3>2. QED
            BY <3>1, CallKept
    <2>3. QED
        BY <2>1, <2>2
<1>3. QED
    BY <1>1, <1>2 DEF Inv

\* A step that touches no call, and the pipeline only before it is built.
LEMMA NoCallStep ==
    ASSUME Inv, Types', TickUnused', BuiltFromAll', UNCHANGED <<kind, calls>>,
           handlerFn # Unbuilt => chain' = chain /\ handlerFn' = handlerFn
    PROVE  Inv'
<1>1. ASSUME NEW d \in Calls PROVE CallOK(d)'
    <2>1. CallOK(d) /\ CallSame(d)
        BY DEF Inv, calls, CallSame
    <2>2. QED
        BY <2>1, CallKept
<1>2. QED
    BY <1>1 DEF Inv

----------------------------------------------------------------------------
\* Building the pipeline.

\* AddMiddleware changes the chain only while there is no pipeline.
LEMMA AddMiddlewareStep ==
    ASSUME Inv, NEW m \in Added, AddMiddleware(m) PROVE Inv'
<1>1. Types'
    <2>1. chain' \in Seq(Added)
        <3>1. chain \in Seq(Added)
            BY DEF Inv, Types
        <3>2. chain' \in {chain, Append(chain, m)}
            BY DEF AddMiddleware
        <3>3. QED
            BY <3>1, <3>2, AppendProperties
    <2>2. refused' \subseteq Added
        BY DEF AddMiddleware, Inv, Types
    <2>3. QED
        BY <2>1, <2>2 DEF AddMiddleware, Inv, Types, config, tickers, calls
<1>2. TickUnused' /\ BuiltFromAll'
    BY DEF AddMiddleware, Inv, TickUnused, BuiltFromAll, tickers
<1>3. UNCHANGED <<kind, calls>> /\ (handlerFn # Unbuilt => chain' = chain /\ handlerFn' = handlerFn)
    BY DEF AddMiddleware, config
<1>4. QED
    BY <1>1, <1>2, <1>3, NoCallStep

\* Start builds the pipeline from the chain.
LEMMA StartStep ==
    ASSUME Inv, Start PROVE Inv'
<1>1. handlerFn' = chain
    BY WrapKeepsOrder DEF Start, Inv, Types
<1>2. Types'
    BY <1>1 DEF Start, Inv, Types, config, tickers, calls
<1>3. TickUnused' /\ BuiltFromAll'
    BY <1>1 DEF Start, Inv, TickUnused, BuiltFromAll, tickers
<1>4. UNCHANGED <<kind, calls>> /\ (handlerFn # Unbuilt => chain' = chain /\ handlerFn' = handlerFn)
    BY DEF Start, config
<1>5. QED
    BY <1>2, <1>3, <1>4, NoCallStep

\* A middleware that panics while it wraps leaves only the lock behind.
LEMMA StartPanicsStep ==
    ASSUME Inv, StartPanics PROVE Inv'
<1>1. Types'
    BY DEF StartPanics, Inv, Types, config, tickers, calls
<1>2. TickUnused' /\ BuiltFromAll'
    BY DEF StartPanics, Inv, TickUnused, BuiltFromAll, tickers
<1>3. UNCHANGED <<kind, calls>> /\ (handlerFn # Unbuilt => chain' = chain /\ handlerFn' = handlerFn)
    BY DEF StartPanics, config
<1>4. QED
    BY <1>1, <1>2, <1>3, NoCallStep

\* A ticker fires.
LEMMA TickStep ==
    ASSUME Inv, NEW l \in Layers, Tick(l) PROVE Inv'
<1>1. Types'
    BY DEF Tick, Inv, Types, config, building, calls
<1>2. TickUnused' /\ BuiltFromAll'
    BY DEF Tick, Inv, Types, TickUnused, BuiltFromAll, building
<1>3. UNCHANGED <<kind, calls>> /\ (handlerFn # Unbuilt => chain' = chain /\ handlerFn' = handlerFn)
    BY DEF Tick, config, building
<1>4. QED
    BY <1>1, <1>2, <1>3, NoCallStep

\* A call begins with the pipeline as it is, or as this call builds it.
LEMMA BeginsStep ==
    ASSUME Inv, NEW c \in Calls, place[c] = "idle", Begins(c, handlerFn'),
           UNCHANGED <<config, chain, locked, refused, tickers>>,
           handlerFn' = chain, handlerFn # Unbuilt => handlerFn' = handlerFn
    PROVE  Inv'
<1>1. chain \in Seq(Added) /\ chain \in Seq(Layers) /\ chain # Unbuilt
    <2>1. chain \in Seq(Added)
        BY DEF Inv, Types
    <2>2. Added \subseteq Layers
        BY DEF Layers
    <2>3. QED
        BY <2>1, <2>2, LayersAssumption
<1>2. Types'
    BY <1>1 DEF Begins, Inv, Types, config, tickers, Place
<1>3. TickUnused' /\ BuiltFromAll'
    BY DEF Inv, TickUnused, BuiltFromAll, tickers
<1>4. CallOK(c)'
    <2>1. NoResult(c) /\ verdict[c] = "none"
        BY DEF Inv, CallOK
    <2>2. NoResult(c)' /\ verdict'[c] = "none"
        BY <2>1 DEF Begins, NoResult
    <2>3. place'[c] = "entering" /\ stack'[c] = chain /\ pos'[c] = 1
        BY DEF Begins, Inv, Types
    <2>4. OnPath(c)'
        BY <1>1, <2>3 DEF OnPath
    <2>5. pos'[c] \in 1 .. Len(stack'[c]) + 1
        BY <1>1, <2>3
    <2>6. QED
        BY <2>2, <2>3, <2>4, <2>5 DEF CallOK
<1>5. ASSUME NEW d \in Calls, d # c PROVE CallOK(d)'
    <2>1. CallSame(d)
        BY <1>5 DEF Begins, Inv, Types, CallSame
    <2>2. CallOK(d) /\ kind' = kind
        BY DEF Inv, config
    <2>3. QED
        BY <2>1, <2>2, CallKept
<1>6. QED
    BY <1>2, <1>3, <1>4, <1>5 DEF Inv

\* Publish, which builds the pipeline when it is the first.
LEMMA PublishStep ==
    ASSUME Inv, NEW c \in Calls, Publish(c) PROVE Inv'
<1>1. handlerFn' = chain
    <2>1. CASE handlerFn = Unbuilt
        BY <2>1, WrapKeepsOrder DEF Publish, Inv, Types
    <2>2. CASE handlerFn # Unbuilt
        BY <2>2 DEF Publish, Inv, BuiltFromAll
    <2>3. QED
        BY <2>1, <2>2
<1>2. handlerFn # Unbuilt => handlerFn' = handlerFn
    BY DEF Publish
<1>3. QED
    BY <1>1, <1>2, BeginsStep DEF Publish

\* Deliver, which has the pipeline that Start built.
LEMMA DeliverStep ==
    ASSUME Inv, NEW c \in Calls, Deliver(c) PROVE Inv'
<1>1. handlerFn' = chain /\ handlerFn' = handlerFn
    BY DEF Deliver, Inv, BuiltFromAll, building
<1>2. UNCHANGED <<config, chain, locked, refused, tickers>>
    BY DEF Deliver, building
<1>3. QED
    BY <1>1, <1>2, BeginsStep DEF Deliver

\* The call whose middleware panics while the pipeline is built.
LEMMA PublishPanicsStep ==
    ASSUME Inv, NEW c \in Calls, PublishPanics(c) PROVE Inv'
<1>1. Types'
    BY DEF PublishPanics, Inv, Types, config, tickers, Place, Result, Verdict
<1>2. TickUnused' /\ UNCHANGED <<kind, chain, handlerFn>>
    BY DEF PublishPanics, Inv, TickUnused, tickers, config
<1>3. CallOK(c)'
    <2>1. NoResult(c) /\ stack[c] = <<>> /\ pos[c] = 0
        BY DEF PublishPanics, Inv, CallOK
    <2>2. QED
        BY <2>1 DEF PublishPanics, Inv, Types, CallOK, NoResult
<1>4. \A d \in Calls : d # c => CallSame(d)
    BY DEF PublishPanics, Inv, Types, CallSame
<1>5. QED
    BY <1>1, <1>2, <1>3, <1>4, OneCallStep

----------------------------------------------------------------------------
\* Going in.

\* A call that enters has no result yet.
LEMMA EnteringFacts ==
    ASSUME Inv, NEW c \in Calls, place[c] = "entering"
    PROVE  /\ NoResult(c) /\ verdict[c] = "none" /\ OnPath(c)
           /\ pos[c] \in 1 .. Len(stack[c]) + 1 /\ Len(stack[c]) \in Nat
<1>1. CallOK(c)
    BY DEF Inv
<1>2. Len(stack[c]) \in Nat
    BY DEF Inv, Types
<1>3. QED
    BY <1>1, <1>2 DEF CallOK

\* A call goes on to the next layer.
LEMMA OneFurther ==
    ASSUME Inv, NEW c \in Calls, Entering(c),
           pos' = [pos EXCEPT ![c] = @ + 1],
           UNCHANGED <<config, building, place, stack, result, origin, seen, counted, verdict, given>>,
           tick' \in [Layers -> BOOLEAN], passed' \in [Layers -> 0 .. 1], TickUnused'
    PROVE  Inv'
<1>1. NoResult(c) /\ verdict[c] = "none" /\ OnPath(c) /\ pos[c] \in 1 .. Len(stack[c])
    BY EnteringFacts DEF Entering
<1>2. Types'
    <2>1. pos' \in [Calls -> Nat]
        BY DEF Inv, Types
    <2>2. QED
        BY <2>1 DEF Inv, Types, config, building
<1>3. UNCHANGED <<kind, chain, handlerFn>>
    BY DEF config, building
<1>4. CallOK(c)'
    <2>1. NoResult(c)' /\ verdict'[c] = "none" /\ place'[c] = "entering"
        BY <1>1 DEF NoResult, Entering
    <2>2. OnPath(c)'
        BY <1>1, <1>3 DEF OnPath
    <2>3. pos'[c] = pos[c] + 1 /\ Len(stack[c]) \in Nat
        BY DEF Inv, Types
    <2>4. pos'[c] \in 1 .. Len(stack'[c]) + 1
        BY <1>1, <2>3
    <2>5. QED
        BY <2>1, <2>2, <2>4 DEF CallOK
<1>5. \A d \in Calls : d # c => CallSame(d)
    BY DEF Inv, Types, CallSame
<1>6. QED
    BY <1>2, <1>3, <1>4, <1>5, OneCallStep

\* A layer that calls next at once.
LEMMA EnterStep ==
    ASSUME Inv, NEW c \in Calls, Enter(c) PROVE Inv'
<1>1. tick' \in [Layers -> BOOLEAN] /\ passed' \in [Layers -> 0 .. 1] /\ TickUnused'
    BY DEF Enter, tickers, Inv, Types, TickUnused
<1>2. QED
    BY <1>1, OneFurther DEF Enter

\* Throttle: the tick is taken, and one message has passed since it came.
LEMMA EnterThrottleStep ==
    ASSUME Inv, NEW c \in Calls, EnterThrottle(c) PROVE Inv'
<1> DEFINE l == stack[c][pos[c]]
<1>1. l \in Layers
    BY EnteringFacts DEF EnterThrottle, Entering, Inv, Types
<1>2. tick[l] /\ passed[l] = 0
    BY <1>1 DEF EnterThrottle, Inv, TickUnused
<1>3. tick' = [tick EXCEPT ![l] = FALSE] /\ passed' = [passed EXCEPT ![l] = @ + 1]
    BY DEF EnterThrottle
<1> HIDE DEF l
<1>4. tick' \in [Layers -> BOOLEAN] /\ passed' \in [Layers -> 0 .. 1] /\ TickUnused'
    <2>1. tick' \in [Layers -> BOOLEAN]
        BY <1>1, <1>3 DEF Inv, Types
    <2>2. passed' = [passed EXCEPT ![l] = 1]
        BY <1>1, <1>2, <1>3 DEF Inv, Types
    <2>3. QED
        BY <1>1, <1>3, <2>1, <2>2 DEF Inv, Types, TickUnused
<1>5. QED
    BY <1>4, OneFurther DEF EnterThrottle

\* A result arises: no layer has been crossed.
LEMMA YieldsStep ==
    ASSUME Inv, NEW c \in Calls, NEW r \in {"nil", "error", "panic"},
           NEW who \in Verdict \ {"factory"}, place[c] = "entering", Yields(c, r, who)
    PROVE  Inv'
<1>1. NoResult(c) /\ OnPath(c) /\ pos[c] \in 1 .. Len(stack[c]) + 1 /\ Len(stack[c]) \in Nat
    BY EnteringFacts
<1>2. /\ place'[c] = "leaving" /\ result'[c] = r /\ given'[c] = r /\ verdict'[c] = who
      /\ origin'[c] = pos[c] /\ pos'[c] = pos[c] - 1 /\ stack'[c] = stack[c]
      /\ seen'[c] = {} /\ counted'[c] = <<>>
    BY <1>1 DEF Yields, Inv, Types, NoResult
<1>3. Types'
    <2>1. pos' \in [Calls -> Nat]
        BY <1>1 DEF Yields, Inv, Types
    <2>2. origin' \in [Calls -> Nat]
        BY <1>1 DEF Yields, Inv, Types
    <2>3. result' \in [Calls -> Result] /\ given' \in [Calls -> Result]
        BY DEF Yields, Inv, Types, Result
    <2>4. place' \in [Calls -> Place] /\ verdict' \in [Calls -> Verdict]
        BY DEF Yields, Inv, Types, Place
    <2>5. QED
        BY <2>1, <2>2, <2>3, <2>4 DEF Yields, Inv, Types, config, building, tickers
<1>4. UNCHANGED <<kind, chain, handlerFn>> /\ TickUnused'
    BY DEF Yields, config, building, tickers, Inv, TickUnused
<1>5. CallOK(c)'
    <2>1. Crossed(c)' = {}
        BY <1>1, <1>2 DEF Crossed
    <2>2. OnPath(c)'
        BY <1>1, <1>2, <1>4 DEF OnPath
    <2>3. OnErrorsToldOf(c)' /\ NotRecovered(c)'
        BY <1>2, <2>1 DEF OnErrorsToldOf, NotRecovered
    <2>4. CountedOnce(c)'
        <3>1. DOMAIN counted'[c] = {}
            BY <1>2
        <3>2. QED
            BY <3>1, <2>1 DEF CountedOnce
    <2>5. FromTheHandler(c)'
        BY <1>2 DEF FromTheHandler
    <2>6. Out(c)'
        BY <1>1, <1>2, <2>2, <2>3, <2>4, <2>5 DEF Out
    <2>7. QED
        BY <1>2, <2>6 DEF CallOK
<1>6. \A d \in Calls : d # c => CallSame(d)
    BY DEF Yields, Inv, Types, CallSame
<1>7. QED
    BY <1>3, <1>4, <1>5, <1>6, OneCallStep

\* ConditionalExecute, the handler and the router yield a result.
LEMMA DivertStep ==
    ASSUME Inv, NEW c \in Calls, Divert(c) PROVE Inv'
<1>1. PICK r \in {"nil", "error", "panic"} : Yields(c, r, "exec")
    BY DEF Divert
<1>2. place[c] = "entering" /\ "exec" \in Verdict \ {"factory"}
    BY DEF Divert, Entering, Verdict
<1>3. QED
    BY <1>1, <1>2, YieldsStep

\* The publisher, or the handler of a route.
LEMMA HandleStep ==
    ASSUME Inv, NEW c \in Calls, Handle(c) PROVE Inv'
<1>1. PICK r \in {"nil", "error", "panic"} : Yields(c, r, "handler")
    BY DEF Handle
<1>2. place[c] = "entering" /\ "handler" \in Verdict \ {"factory"}
    BY DEF Handle, AtEnd, Verdict
<1>3. QED
    BY <1>1, <1>2, YieldsStep

\* The router without a route.
LEMMA RouteUnknownStep ==
    ASSUME Inv, NEW c \in Calls, RouteUnknown(c) PROVE Inv'
<1>1. PICK r \in {"nil", "error", "panic"}, who \in Verdict \ {"factory"} : Yields(c, r, who)
    BY DEF RouteUnknown, Verdict
<1>2. place[c] = "entering"
    BY DEF RouteUnknown, AtRouter, AtEnd
<1>3. QED
    BY <1>1, <1>2, YieldsStep

\* The router wraps the handler of the route: the layers of the route come after
\* those of the engine, and the call is at the first of them.
LEMMA RouteKnownStep ==
    ASSUME Inv, NEW c \in Calls, RouteKnown(c) PROVE Inv'
<1>1. place[c] = "entering" /\ pos[c] = Len(stack[c]) + 1 /\ stack[c] = handlerFn
    BY DEF RouteKnown, AtRouter, AtEnd
<1>2. NoResult(c) /\ verdict[c] = "none" /\ OnPath(c) /\ handlerFn = chain
    BY <1>1, EnteringFacts DEF OnPath, Inv, BuiltFromAll
<1>3. chain \in Seq(Layers) /\ RouteLayers \in Seq(Layers)
    BY <1>1, <1>2, LayersAssumption DEF Inv, Types
<1>4. Wrap(RouteLayers) = RouteLayers
    BY <1>3, WrapKeepsOrder
<1>5. stack' = [stack EXCEPT ![c] = chain \o RouteLayers]
    BY <1>2, <1>4 DEF RouteKnown
<1>6. /\ chain \o RouteLayers \in Seq(Layers)
      /\ Len(chain \o RouteLayers) = Len(chain) + Len(RouteLayers)
      /\ Len(chain) \in Nat /\ Len(RouteLayers) \in Nat
    BY <1>3, ConcatProperties
<1>7. Types'
    BY <1>5, <1>6 DEF RouteKnown, Inv, Types, config, building, tickers
<1>8. UNCHANGED <<kind, chain, handlerFn>> /\ TickUnused'
    BY DEF RouteKnown, config, building, tickers, Inv, TickUnused
<1>9. CallOK(c)'
    <2>1. NoResult(c)' /\ verdict'[c] = "none" /\ place'[c] = "entering"
        BY <1>1, <1>2 DEF NoResult, RouteKnown
    <2>2. stack'[c] = chain \o RouteLayers /\ pos'[c] = Len(chain) + 1
        BY <1>1, <1>2, <1>5 DEF RouteKnown, Inv, Types
    <2>3. OnPath(c)'
        BY <1>2, <1>8, <2>2 DEF OnPath
    <2>4. pos'[c] \in 1 .. Len(stack'[c]) + 1
        BY <1>6, <2>2
    <2>5. QED
        BY <2>1, <2>3, <2>4 DEF CallOK
<1>10. \A d \in Calls : d # c => CallSame(d)
    BY DEF RouteKnown, Inv, Types, CallSame
<1>11. QED
    BY <1>7, <1>8, <1>9, <1>10, OneCallStep

----------------------------------------------------------------------------
\* Coming out.

\* One more copy of what was not there.
LEMMA AddedToBag ==
    ASSUME NEW B, NEW x, x \notin DOMAIN B, \A e \in DOMAIN B : B[e] = 1
    PROVE  /\ DOMAIN (B (+) SetToBag({x})) = DOMAIN B \cup {x}
           /\ \A e \in DOMAIN B \cup {x} : (B (+) SetToBag({x}))[e] = 1
BY DEF (+), SetToBag

\* A call that comes out of a layer is at a layer that its result has not crossed.
LEMMA LeavingFacts ==
    ASSUME Inv, NEW c \in Calls, Leaving(c)
    PROVE  /\ Out(c) /\ Len(stack[c]) \in Nat /\ pos[c] \in 1 .. Len(stack[c])
           /\ origin[c] \in Nat /\ stack[c][pos[c]] \in Layers
<1>1. CallOK(c) /\ Types
    BY DEF Inv
<1>2. Out(c)
    BY <1>1 DEF CallOK, Leaving
<1>3. Len(stack[c]) \in Nat /\ pos[c] \in Nat /\ origin[c] \in Nat
    BY <1>1 DEF Types
<1>4. pos[c] \in 1 .. Len(stack[c])
    BY <1>2, <1>3 DEF Out, Leaving
<1>5. QED
    BY <1>1, <1>2, <1>3, <1>4 DEF Types

\* A result that leaves the layer l as it was: l is crossed, too.
LEMMA CrossedGrows ==
    ASSUME Inv, NEW c \in Calls, Leaving(c), Leaves(c), origin'[c] = origin[c]
    PROVE  Crossed(c)' = Crossed(c) \cup {pos[c]}
<1>1. Out(c) /\ Len(stack[c]) \in Nat /\ pos[c] \in 1 .. Len(stack[c]) /\ origin[c] \in Nat
    BY LeavingFacts
<1>2. pos'[c] = pos[c] - 1 /\ stack'[c] = stack[c]
    BY DEF Leaves, Inv, Types
<1>3. pos[c] < origin[c]
    BY <1>1 DEF Out
<1>4. QED
    BY <1>1, <1>2, <1>3 DEF Crossed

\* A result that arises in the layer where the call is: no layer is crossed.
LEMMA CrossedNone ==
    ASSUME Inv, NEW c \in Calls, Leaving(c), Leaves(c), origin'[c] = pos[c]
    PROVE  Crossed(c)' = {}
<1>1. pos[c] \in Nat /\ pos'[c] = pos[c] - 1
    BY LeavingFacts DEF Leaves, Inv, Types
<1>2. QED
    BY <1>1 DEF Crossed

\* What is common to the layers that a result comes out of.
LEMMA LeavesStep ==
    ASSUME Inv, NEW c \in Calls, Leaving(c), Leaves(c),
           NEW r \in Result \ {"none"}, result' = [result EXCEPT ![c] = r],
           NEW o \in {origin[c], pos[c]}, origin' = [origin EXCEPT ![c] = o],
           NEW s \in SUBSET Nat, seen' = [seen EXCEPT ![c] = s],
           DOMAIN counted' = Calls, \A d \in Calls : d # c => counted'[d] = counted[d],
           NEW who \in Verdict \ {"factory"}, verdict' = [verdict EXCEPT ![c] = who],
           OnErrorsToldOf(c)', NotRecovered(c)', CountedOnce(c)', FromTheHandler(c)'
    PROVE  Inv'
<1>1. /\ Out(c) /\ Len(stack[c]) \in Nat /\ pos[c] \in 1 .. Len(stack[c])
      /\ origin[c] \in Nat
    BY LeavingFacts
<1>2. Types'
    <2>1. pos' \in [Calls -> Nat]
        BY <1>1 DEF Leaves, Inv, Types
    <2>2. origin' \in [Calls -> Nat]
        BY <1>1 DEF Inv, Types
    <2>3. result' \in [Calls -> Result] /\ verdict' \in [Calls -> Verdict]
        BY DEF Inv, Types
    <2>4. seen' \in [Calls -> SUBSET Nat] /\ DOMAIN counted' = Calls
        BY DEF Inv, Types
    <2>5. QED
        BY <2>1, <2>2, <2>3, <2>4 DEF Leaves, Inv, Types, config, building, tickers
<1>3. UNCHANGED <<kind, chain, handlerFn>> /\ TickUnused'
    BY DEF Leaves, config, building, tickers, Inv, TickUnused
<1>4. CallOK(c)'
    <2>1. /\ place'[c] = "leaving" /\ pos'[c] = pos[c] - 1 /\ stack'[c] = stack[c]
          /\ result'[c] = r /\ origin'[c] = o /\ verdict'[c] = who
        BY DEF Leaving, Leaves, Inv, Types
    <2>2. OnPath(c)'
        BY <1>1, <1>3, <2>1 DEF Out, OnPath
    <2>3. pos'[c] < origin'[c] /\ origin'[c] <= Len(stack'[c]) + 1
        BY <1>1, <2>1 DEF Out
    <2>4. Out(c)'
        BY <2>1, <2>2, <2>3 DEF Out
    <2>5. QED
        BY <2>1, <2>4 DEF CallOK
<1>5. \A d \in Calls : d # c => CallSame(d)
    BY DEF Leaves, Inv, Types, CallSame
<1>6. QED
    BY <1>2, <1>3, <1>4, <1>5, OneCallStep

\* Nothing was counted at the layer where the call is, or outside of it.
LEMMA CountedKept ==
    ASSUME Inv, NEW c \in Calls, Leaving(c), Leaves(c), counted' = counted
    PROVE  /\ DOMAIN counted'[c] \subseteq (1 .. Len(stack'[c])) \X {"nil", "error"}
           /\ \A e \in DOMAIN counted'[c] : counted'[c][e] = 1 /\ pos'[c] < e[1]
<1>1. CountedOnce(c) /\ pos[c] \in 1 .. Len(stack[c]) /\ Len(stack[c]) \in Nat
    BY LeavingFacts DEF Out
<1>2. pos'[c] = pos[c] - 1 /\ stack'[c] = stack[c]
    BY DEF Leaves, Inv, Types
<1>3. \A e \in DOMAIN counted[c] : e[1] \in Nat
    BY <1>1 DEF CountedOnce
<1>4. QED
    BY <1>1, <1>2, <1>3 DEF CountedOnce

\* A step that does not change these at c.
LEMMA SameAt ==
    ASSUME Inv, NEW c \in Calls
    PROVE  /\ result = [result EXCEPT ![c] = result[c]]
           /\ origin = [origin EXCEPT ![c] = origin[c]]
           /\ seen = [seen EXCEPT ![c] = seen[c]]
           /\ verdict = [verdict EXCEPT ![c] = verdict[c]]
           /\ DOMAIN counted = Calls
           /\ seen[c] \in SUBSET Nat /\ verdict[c] \in Verdict /\ result[c] \in Result
           /\ origin[c] \in {origin[c], pos[c]} /\ pos[c] \in {origin[c], pos[c]}
BY DEF Inv, Types

\* When the result arises in the layer, what the crossed layers did is nothing.
LEMMA ArisesHere ==
    ASSUME Inv, NEW c \in Calls, Leaving(c), Leaves(c), origin'[c] = pos[c],
           counted' = counted, seen'[c] \subseteq 1 .. Len(stack[c]),
           result'[c] = "nil" => seen'[c] = {}
    PROVE  OnErrorsToldOf(c)' /\ NotRecovered(c)' /\ CountedOnce(c)'
<1>1. Crossed(c)' = {}
    BY CrossedNone
<1>2. stack'[c] = stack[c]
    BY DEF Leaves
<1>3. OnErrorsToldOf(c)' /\ NotRecovered(c)'
    BY <1>1, <1>2 DEF OnErrorsToldOf, NotRecovered
<1>4. CountedOnce(c)'
    BY <1>1, CountedKept DEF CountedOnce
<1>5. QED
    BY <1>3, <1>4

\* ConvertPanicToError recovers: an error arises.
LEMMA LeaveRecoverStep ==
    ASSUME Inv, NEW c \in Calls, LeaveRecover(c) PROVE Inv'
<1>1. Leaving(c) /\ Leaves(c) /\ result[c] = "panic"
    BY DEF LeaveRecover
<1>2. Out(c)
    BY <1>1, LeavingFacts
<1>3. /\ result' = [result EXCEPT ![c] = "error"] /\ origin' = [origin EXCEPT ![c] = pos[c]]
      /\ UNCHANGED <<seen, counted, verdict, given>>
    BY DEF LeaveRecover, Leaves
<1>4. result'[c] = "error" /\ origin'[c] = pos[c]
    BY <1>3 DEF Inv, Types
<1>5. OnErrorsToldOf(c)' /\ NotRecovered(c)' /\ CountedOnce(c)'
    BY <1>1, <1>2, <1>3, <1>4, ArisesHere DEF Out, OnErrorsToldOf
<1>6. FromTheHandler(c)'
    BY <1>1, <1>2, <1>3, <1>4 DEF Out, FromTheHandler
<1>7. verdict[c] \in Verdict \ {"factory"} /\ "error" \in Result \ {"none"}
    BY <1>2, SameAt DEF Out, Result
<1>8. QED
    BY <1>1, <1>3, <1>5, <1>6, <1>7, SameAt, LeavesStep

\* OnError tells its errHandler, which returns or panics.
LEMMA LeaveOnErrorStep ==
    ASSUME Inv, NEW c \in Calls, LeaveOnError(c) PROVE Inv'
<1>1. Leaving(c) /\ Leaves(c) /\ result[c] = "error" /\ At(c) = "OnError"
    BY DEF LeaveOnError
<1>2. Out(c) /\ Len(stack[c]) \in Nat /\ pos[c] \in 1 .. Len(stack[c])
    BY <1>1, LeavingFacts
<1>3. /\ seen' = [seen EXCEPT ![c] = seen[c] \cup {pos[c]}]
      /\ UNCHANGED <<counted, verdict, given, kind>>
    BY DEF LeaveOnError, Leaves, config
<1>4. seen'[c] = seen[c] \cup {pos[c]} /\ stack'[c] = stack[c]
    BY <1>1, <1>3 DEF Inv, Types, Leaves
<1>5. seen[c] \cup {pos[c]} \in SUBSET Nat /\ seen'[c] \subseteq 1 .. Len(stack[c])
    BY <1>2, <1>4, SameAt DEF Out, OnErrorsToldOf
<1>6. verdict[c] \in Verdict \ {"factory"} /\ {"error", "panic"} \subseteq Result \ {"none"}
    BY <1>2, SameAt DEF Out, Result
<1>7. CASE UNCHANGED <<result, origin>>
    <2>1. Crossed(c)' = Crossed(c) \cup {pos[c]}
        BY <1>1, <1>7, CrossedGrows
    <2>2. kind'[stack'[c][pos[c]]] = "OnError"
        BY <1>1, <1>3, <1>4 DEF At
    <2>3. OnErrorsToldOf(c)' /\ NotRecovered(c)'
        BY <1>1, <1>2, <1>3, <1>4, <1>5, <1>7, <2>1 DEF Out, OnErrorsToldOf, NotRecovered
    <2>4. CountedOnce(c)'
        <3>1. Outcome(c)' = Outcome(c)
            BY <1>7 DEF Outcome
        <3>2. QED
            BY <1>1, <1>2, <1>3, <1>4, <2>1, <2>2, <3>1, CountedKept DEF Out, CountedOnce
    <2>5. FromTheHandler(c)'
        BY <1>2, <1>3, <1>7 DEF Out, FromTheHandler
    <2>6. result' = [result EXCEPT ![c] = "error"] /\ origin' = [origin EXCEPT ![c] = origin[c]]
        BY <1>1, <1>7, SameAt
    <2>7. QED
        BY <1>1, <1>3, <1>5, <1>6, <2>3, <2>4, <2>5, <2>6, SameAt, LeavesStep
<1>8. CASE result' = [result EXCEPT ![c] = "panic"] /\ origin' = [origin EXCEPT ![c] = pos[c]]
    <2>1. result'[c] = "panic" /\ origin'[c] = pos[c]
        BY <1>8 DEF Inv, Types
    <2>2. OnErrorsToldOf(c)' /\ NotRecovered(c)' /\ CountedOnce(c)'
        BY <1>1, <1>3, <1>5, <2>1, ArisesHere
    <2>3. FromTheHandler(c)'
        BY <1>1, <1>2, <1>3, <2>1 DEF Out, FromTheHandler
    <2>4. QED
        BY <1>1, <1>3, <1>5, <1>6, <1>8, <2>2, <2>3, SameAt, LeavesStep
<1>9. QED
    BY <1>7, <1>8 DEF LeaveOnError

\* A Prometheus middleware counts the message once, with the result it sees, or its
\* labels panic.
LEMMA LeaveMetricsStep ==
    ASSUME Inv, NEW c \in Calls, LeaveMetrics(c) PROVE Inv'
<1>1. Leaving(c) /\ Leaves(c) /\ At(c) = "Metrics"
    BY DEF LeaveMetrics
<1>2. Out(c) /\ Len(stack[c]) \in Nat /\ pos[c] \in 1 .. Len(stack[c])
    BY <1>1, LeavingFacts
<1>3. UNCHANGED <<seen, given, kind>> /\ stack'[c] = stack[c] /\ pos'[c] = pos[c] - 1
    BY DEF LeaveMetrics, Leaves, config, Inv, Types
<1>4. verdict[c] \in Verdict \ {"factory"} /\ {"panic", result[c]} \subseteq Result \ {"none"}
    BY <1>2, SameAt DEF Out, Result
<1>5. CASE /\ counted' = [counted EXCEPT ![c] = @ (+) SetToBag({Label(c)})]
           /\ UNCHANGED <<result, origin, verdict>>
    <2> DEFINE B == counted[c]
               x == <<pos[c], Outcome(c)>>
    <2>1. Label(c) = x
        BY DEF Label, Outcome
    <2>2. /\ B = counted[c] /\ CountedOnce(c)
          /\ DOMAIN B \subseteq (1 .. Len(stack[c])) \X {"nil", "error"}
          /\ \A e \in DOMAIN B : B[e] = 1 /\ pos[c] < e[1] /\ e[1] \in Nat
        BY <1>2 DEF Out, CountedOnce
    <2>3. x \notin DOMAIN B
        BY <1>2, <2>2
    <2>4. counted'[c] = B (+) SetToBag({x})
        BY <1>5, <2>1, SameAt
    <2>5. DOMAIN counted'[c] = DOMAIN B \cup {x} /\ \A e \in DOMAIN counted'[c] : counted'[c][e] = 1
        <3> HIDE DEF B, x
        <3>1. \A e \in DOMAIN B : B[e] = 1
            BY <2>2
        <3>2. /\ DOMAIN (B (+) SetToBag({x})) = DOMAIN B \cup {x}
              /\ \A e \in DOMAIN B \cup {x} : (B (+) SetToBag({x}))[e] = 1
            BY <2>3, <3>1, AddedToBag
        <3>3. QED
            BY <2>4, <3>2
    <2>6. Crossed(c)' = Crossed(c) \cup {pos[c]}
        BY <1>1, <1>5, CrossedGrows
    <2>7. Outcome(c)' = Outcome(c) /\ Outcome(c) \in {"nil", "error"}
        BY <1>5 DEF Outcome
    <2>8. kind[stack[c][pos[c]]] = "Metrics"
        BY <1>1 DEF At
    <2>9. OnErrorsToldOf(c)' /\ NotRecovered(c)'
        BY <1>2, <1>3, <1>5, <2>6, <2>8 DEF Out, OnErrorsToldOf, NotRecovered
    <2>10. CountedOnce(c)'
        <3>1. DOMAIN counted'[c] \subseteq (1 .. Len(stack'[c])) \X {"nil", "error"}
            BY <1>2, <1>3, <2>2, <2>5, <2>7
        <3>2. \A e \in DOMAIN counted'[c] : counted'[c][e] = 1 /\ pos'[c] < e[1]
            BY <1>2, <1>3, <2>2, <2>5
        <3>3. ASSUME NEW i \in Crossed(c)', kind'[stack'[c][i]] = "Metrics"
              PROVE  /\ <<i, Outcome(c)'>> \in DOMAIN counted'[c]
                     /\ \A e \in DOMAIN counted'[c] : e[1] = i => e = <<i, Outcome(c)'>>
            <4>1. CASE i = pos[c]
                BY <1>2, <2>2, <2>5, <2>7, <4>1
            <4>2. CASE i # pos[c]
                <5>1. i \in Crossed(c) /\ kind[stack[c][i]] = "Metrics"
                    BY <1>3, <2>6, <3>3, <4>2
                <5>2. /\ <<i, Outcome(c)>> \in DOMAIN B
                      /\ \A e \in DOMAIN B : e[1] = i => e = <<i, Outcome(c)>>
                    BY <2>2, <5>1 DEF CountedOnce
                <5>3. QED
                    BY <2>5, <2>7, <4>2, <5>2
            <4>3. QED
                BY <4>1, <4>2
        <3>4. QED
            BY <3>1, <3>2, <3>3 DEF CountedOnce
    <2>11. FromTheHandler(c)'
        BY <1>2, <1>3, <1>5 DEF Out, FromTheHandler
    <2>12. DOMAIN counted' = Calls /\ \A d \in Calls : d # c => counted'[d] = counted[d]
        BY <1>5, SameAt
    <2>13. QED
        BY <1>1, <1>3, <1>4, <1>5, <2>9, <2>10, <2>11, <2>12, SameAt, LeavesStep
<1>6. CASE /\ result' = [result EXCEPT ![c] = "panic"]
           /\ origin' = [origin EXCEPT ![c] = pos[c]]
           /\ verdict' = [verdict EXCEPT ![c] = "labels"]
           /\ UNCHANGED counted
    <2>1. result'[c] = "panic" /\ origin'[c] = pos[c] /\ verdict'[c] = "labels"
        BY <1>6 DEF Inv, Types
    <2>2. OnErrorsToldOf(c)' /\ NotRecovered(c)' /\ CountedOnce(c)'
        BY <1>1, <1>2, <1>3, <1>6, <2>1, ArisesHere DEF Out, OnErrorsToldOf
    <2>3. FromTheHandler(c)'
        BY <2>1 DEF FromTheHandler
    <2>4. "labels" \in Verdict \ {"factory"}
        BY DEF Verdict
    <2>5. QED
        BY <1>1, <1>3, <1>4, <1>6, <2>2, <2>3, <2>4, SameAt, LeavesStep
<1>7. QED
    BY <1>5, <1>6 DEF LeaveMetrics

\* A layer that passes the result on has nothing to do with it.
LEMMA LeaveStep ==
    ASSUME Inv, NEW c \in Calls, Leave(c) PROVE Inv'
<1>1. Leaving(c) /\ Leaves(c) /\ UNCHANGED <<result, origin, seen, counted, verdict>>
    BY DEF Leave
<1>2. Out(c) /\ Len(stack[c]) \in Nat /\ pos[c] \in 1 .. Len(stack[c])
    BY <1>1, LeavingFacts
<1>3. UNCHANGED <<given, kind>> /\ stack'[c] = stack[c]
    BY DEF Leave, Leaves, config
<1>4. verdict[c] \in Verdict \ {"factory"} /\ result[c] \in Result \ {"none"}
    BY <1>2, SameAt DEF Out
<1>5. Crossed(c)' = Crossed(c) \cup {pos[c]} /\ Outcome(c)' = Outcome(c)
    BY <1>1, CrossedGrows DEF Outcome
<1>6. /\ kind[stack[c][pos[c]]] # "Metrics"
      /\ result[c] = "error" => kind[stack[c][pos[c]]] # "OnError"
      /\ result[c] = "panic" => kind[stack[c][pos[c]]] # "ConvertPanicToError"
    BY DEF Leave, At
<1>7. OnErrorsToldOf(c)' /\ NotRecovered(c)'
    BY <1>1, <1>2, <1>3, <1>5, <1>6 DEF Out, OnErrorsToldOf, NotRecovered
<1>8. CountedOnce(c)'
    BY <1>1, <1>2, <1>3, <1>5, <1>6, CountedKept DEF Out, CountedOnce
<1>9. FromTheHandler(c)'
    BY <1>1, <1>2, <1>3 DEF Out, FromTheHandler
<1>10. QED
    BY <1>1, <1>4, <1>7, <1>8, <1>9, SameAt, LeavesStep

\* The result has crossed all layers outside of where it arose.
LEMMA ReturnStep ==
    ASSUME Inv, NEW c \in Calls, Return(c) PROVE Inv'
<1>1. Out(c) /\ pos[c] = 0
    BY DEF Return, Inv, CallOK
<1>2. Types'
    BY DEF Return, Inv, Types, Place, config, building, tickers
<1>3. UNCHANGED <<kind, chain, handlerFn>> /\ TickUnused'
    BY DEF Return, config, building, tickers, Inv, TickUnused
<1>4. CallOK(c)'
    <2>1. Out(c)'
        BY <1>1, <1>3 DEF Return, Out, OnPath, OnErrorsToldOf, NotRecovered, CountedOnce,
           FromTheHandler, Crossed, Outcome
    <2>2. place'[c] = "done" /\ pos'[c] = 0
        BY <1>1 DEF Return, Inv, Types
    <2>3. QED
        BY <2>1, <2>2 DEF CallOK
<1>5. \A d \in Calls : d # c => CallSame(d)
    BY DEF Return, Inv, Types, CallSame
<1>6. QED
    BY <1>2, <1>3, <1>4, <1>5, OneCallStep

----------------------------------------------------------------------------
\* Every step keeps the invariant.
LEMMA InvNext ==
    Inv /\ [Next]_vars => Inv'
<1> SUFFICES ASSUME Inv, [Next]_vars PROVE Inv'
    OBVIOUS
<1>1. CASE \E m \in Added : AddMiddleware(m)
    BY <1>1, AddMiddlewareStep
<1>2. CASE Start
    BY <1>2, StartStep
<1>3. CASE StartPanics
    BY <1>3, StartPanicsStep
<1>4. ASSUME NEW c \in Calls, CallStep(c) PROVE Inv'
    BY <1>4, PublishStep, PublishPanicsStep, DeliverStep, EnterStep, EnterThrottleStep,
       DivertStep, HandleStep, RouteKnownStep, RouteUnknownStep, LeaveRecoverStep,
       LeaveOnErrorStep, LeaveMetricsStep, LeaveStep, ReturnStep DEF CallStep
<1>5. CASE \E l \in Layers : Tick(l)
    BY <1>5, TickStep
<1>6. CASE UNCHANGED vars
    <2>1. UNCHANGED <<config, building, tickers, calls>>
        BY <1>6 DEF vars
    <2>2. Types' /\ TickUnused' /\ BuiltFromAll'
        BY <2>1 DEF Inv, Types, TickUnused, BuiltFromAll, config, building, tickers, calls
    <2>3. QED
        BY <2>1, <2>2, NoCallStep DEF config, building
<1>7. QED
    BY <1>1, <1>2, <1>3, <1>4, <1>5, <1>6 DEF Next, Terminated

\* The invariant holds in every reachable state.
LEMMA Invariant ==
    Spec => []Inv
<1>1. QED
    BY InvInit, InvNext, PTL DEF Spec

\* A call is inside the pipeline it runs, a result arises and errors are reported and
\* counted at layers that exist, and between two ticks a Throttle lets at most one
\* message through, of all calls together (middleware/flow.go).
THEOREM TypeCorrect ==
    Spec => []TypeOK
<1>1. ASSUME Inv PROVE TypeOK
    <2>1. Types
        BY <1>1 DEF Inv
    <2>2. ASSUME NEW c \in Calls
          PROVE  /\ pos[c] \in 0 .. Len(stack[c]) + 1
                 /\ origin[c] \in 0 .. Len(stack[c]) + 1
                 /\ seen[c] \subseteq 1 .. Len(stack[c])
                 /\ DOMAIN counted[c] \subseteq (1 .. Len(stack[c])) \X {"nil", "error"}
        <3>1. CallOK(c) /\ Len(stack[c]) \in Nat /\ pos[c] \in Nat /\ origin[c] \in Nat
            BY <1>1, <2>1 DEF Inv, Types
        <3>2. CASE Out(c)
            BY <3>1, <3>2 DEF Out, OnErrorsToldOf, CountedOnce
        <3>3. CASE ~Out(c)
            <4>1. /\ origin[c] = 0 /\ seen[c] = {} /\ counted[c] = <<>>
                  /\ pos[c] \in 0 .. Len(stack[c]) + 1
                BY <3>1, <3>3 DEF CallOK, NoResult
            <4>2. DOMAIN counted[c] = {}
                BY <4>1
            <4>3. QED
                BY <3>1, <4>1, <4>2
        <3>4. QED
            BY <3>2, <3>3
    <2>3. QED
        BY <2>1, <2>2 DEF Types, TypeOK
<1>2. QED
    BY Invariant, <1>1, PTL

\* Whatever the order in which AddMiddleware, Start and the calls get the lock, a call
\* runs through all middlewares that were added, in the order in which they were
\* (engine.go, chain.go).
THEOREM NoMiddlewareMissed ==
    Spec => []PipelineComplete
<1>1. ASSUME Inv PROVE PipelineComplete
    <2>1. SUFFICES ASSUME NEW c \in Calls, place[c] # "idle", verdict[c] # "factory"
                   PROVE  IsPrefix(chain, stack[c])
        BY DEF PipelineComplete
    <2>2. OnPath(c)
        BY <1>1, <2>1 DEF Inv, CallOK, Out
    <2>3. chain \in Seq(Layers) /\ RouteLayers \in Seq(Layers) /\ Len(chain) \in Nat
        <3>1. chain \in Seq(Added) /\ Added \subseteq Layers
            BY <1>1 DEF Inv, Types, Layers
        <3>2. QED
            BY <3>1, LayersAssumption
    <2>4. CASE stack[c] = chain
        BY <2>3, <2>4 DEF IsPrefix
    <2>5. CASE stack[c] = chain \o RouteLayers
        <3>1. Len(chain) <= Len(stack[c])
            BY <2>3, <2>5, ConcatProperties
        <3>2. SubSeq(stack[c], 1, Len(chain)) = SubSeq(chain, 1, Len(chain))
            BY <2>3, <2>5, ConcatProperties
        <3>3. QED
            BY <3>1, <3>2 DEF IsPrefix
    <2>6. QED
        BY <2>2, <2>4, <2>5 DEF OnPath
<1>2. QED
    BY Invariant, <1>1, PTL

\* A message is acknowledged, or its Publish returns nil, exactly when what the layers
\* wrap succeeded, or a layer or the router in its place (middleware/*.go, router.go).
THEOREM SuccessComesFromTheHandler ==
    Spec => []SuccessIsTheHandlers
<1>1. ASSUME Inv PROVE SuccessIsTheHandlers
    BY <1>1 DEF SuccessIsTheHandlers, Inv, CallOK, Out, FromTheHandler
<1>2. QED
    BY Invariant, <1>1, PTL

\* However panics of the handler, of errHandlers and of label producers follow each
\* other on the way out, what leaves the pipeline was reported to every OnError,
\* recovered by every ConvertPanicToError and counted once by every Prometheus
\* middleware outside of the layer where it arose.
THEOREM EveryErrorReported ==
    Spec => []ErrorsReported
<1>1. ASSUME Inv PROVE ErrorsReported
    <2>1. SUFFICES ASSUME NEW c \in Calls, place[c] = "done", verdict[c] # "factory"
                   PROVE
            LET outside == {i \in 1 .. Len(stack[c]) : i < origin[c]}
                Of(k)   == {i \in outside : kind[stack[c][i]] = k}
                label   == IF result[c] = "error" THEN "error" ELSE "nil" IN
            /\ result[c] = "error" => Of("OnError") \subseteq seen[c]
            /\ result[c] = "panic" => Of("ConvertPanicToError") = {}
            /\ result[c] = "nil" => seen[c] = {}
            /\ \A i \in Of("Metrics") :
                  /\ {e \in BagToSet(counted[c]) : e[1] = i} = {<<i, label>>}
                  /\ counted[c][<<i, label>>] = 1
        BY DEF ErrorsReported
    <2> DEFINE outside == {i \in 1 .. Len(stack[c]) : i < origin[c]}
               Of(k)   == {i \in outside : kind[stack[c][i]] = k}
               label   == IF result[c] = "error" THEN "error" ELSE "nil"
    <2>2. Out(c) /\ pos[c] = 0
        BY <1>1, <2>1 DEF Inv, CallOK
    <2>3. Crossed(c) = outside /\ Outcome(c) = label
        BY <2>2 DEF Crossed, Outcome
    <2>4. result[c] = "error" => Of("OnError") \subseteq seen[c]
        BY <2>2, <2>3 DEF Out, OnErrorsToldOf
    <2>5. result[c] = "panic" => Of("ConvertPanicToError") = {}
        BY <2>2, <2>3 DEF Out, NotRecovered
    <2>6. result[c] = "nil" => seen[c] = {}
        BY <2>2 DEF Out, OnErrorsToldOf
    <2>7. ASSUME NEW i \in Of("Metrics")
          PROVE  /\ {e \in BagToSet(counted[c]) : e[1] = i} = {<<i, label>>}
                 /\ counted[c][<<i, label>>] = 1
        <3>1. i \in Crossed(c) /\ kind[stack[c][i]] = "Metrics"
            BY <2>3
        <3>2. /\ <<i, label>> \in DOMAIN counted[c]
              /\ \A e \in DOMAIN counted[c] : e[1] = i => e = <<i, label>>
              /\ \A e \in DOMAIN counted[c] : counted[c][e] = 1
            <4> HIDE DEF label, Of
            <4>1. QED
                BY <2>2, <2>3, <3>1 DEF Out, CountedOnce
        <3>3. QED
            <4> HIDE DEF label, Of
            <4>1. QED
                BY <3>2 DEF BagToSet
    <2>8. QED
        BY <2>4, <2>5, <2>6, <2>7
<1>2. QED
    BY Invariant, <1>1, PTL
=============================================================================
