------------------------------ MODULE Pipeline ------------------------------
(***************************************************************************)
(* What a message goes through between the application and the publisher   *)
(* or subscriber: the middleware chain of a PublishingEngine               *)
(* (core/publisher/engine.go) or SubscriptionEngine                        *)
(* (core/subscriber/engine.go), built once under a lock by                 *)
(* middleware.Chain, and, when subscribing, the SubscriptionRouter         *)
(* (core/subscriber/router.go) with the middlewares of the chosen route.   *)
(*                                                                         *)
(* A handler function is the sequence of its layers, the outermost first.  *)
(* A call of it enters the layers one by one, reaches what it wraps, and   *)
(* leaves the layers again with a result: nil, an error, or a panic.       *)
(*                                                                         *)
(* Concurrent: the calls (Publish, or the handler goroutines of Receive),  *)
(* AddMiddleware, Start, and the tickers of Throttle.  What a critical     *)
(* section does is one step: nothing outside can see its middle.           *)
(***************************************************************************)
EXTENDS Naturals, Sequences, FiniteSets, Bags, SequencesExt

CONSTANTS
    Calls,          \* the messages published, or received
    Added,          \* the middlewares given to AddMiddleware of the engine
    RouteLayers,    \* the layers of the route, as its HandlerBuilder has them
    Unbuilt         \* handlerFn == nil

Layers == Added \cup ToSet(RouteLayers)

\* A route without layers is one whose handler the engine's chain wraps directly.
ASSUME LayersAssumption ==
    /\ RouteLayers # <<>> /\ RouteLayers \in Seq(Layers)
    /\ Unbuilt \notin Seq(Added)

VARIABLES
    engine,      \* "publishing" or "subscription"
    kind,        \* kind[l]: which middleware layer l is
    unknown,     \* what the router does without a route: "default", "ack", "panic"
    chain,       \* mc.middlewares
    handlerFn,   \* the handler function built from them
    locked,      \* the lock is held for ever by a panicked goroutine
    refused,     \* the middlewares whose AddMiddleware panicked
    tick,        \* tick[l]: the ticker of Throttle l holds a tick
    passed,      \* passed[l]: messages through Throttle l since the last tick
    place,       \* place[c]: where call c is
    stack,       \* stack[c]: the layers of the function it runs
    pos,         \* pos[c]: the layer it is at
    result,      \* result[c]: what it returns from there
    origin,      \* origin[c]: the position where that result arose
    seen,        \* seen[c]: the OnError layers whose errHandler was called
    counted,     \* counted[c]: how often Metrics counted it, by position and label
    verdict,     \* verdict[c]: who decided its fate
    given        \* given[c]: the result that decision was

config   == <<engine, kind, unknown>>
building == <<chain, handlerFn, locked, refused>>
tickers  == <<tick, passed>>
calls    == <<place, stack, pos, result, origin, seen, counted, verdict, given>>
vars     == <<config, building, tickers, calls>>

Kind    == {"ConvertPanicToError", "OnError", "Throttle", "ConditionalExecute", "Metrics"}
Place   == {"idle", "entering", "leaving", "done"}
Result  == {"none", "nil", "error", "panic"}
Verdict == {"none", "handler", "exec", "acked unknown", "no route", "factory", "labels"}

\* The router has a default handler, or acks unknown routes, or neither:
\* AddDefaultHandler panics when both are asked for.  "Throttle applies a global
\* throttle": between two ticks at most one message passes, of all the calls that
\* wait for it together.
TypeOK ==
    /\ engine \in {"publishing", "subscription"}
    /\ kind \in [Layers -> Kind]
    /\ unknown \in {"default", "ack", "panic"}
    /\ chain \in Seq(Added)
    /\ handlerFn \in Seq(Added) \cup {Unbuilt}
    /\ locked \in BOOLEAN
    /\ refused \subseteq Added
    /\ tick \in [Layers -> BOOLEAN]
    /\ passed \in [Layers -> 0 .. 1]
    /\ place \in [Calls -> Place]
    /\ stack \in [Calls -> Seq(Layers)]
    /\ \A c \in Calls : pos[c] \in 0 .. Len(stack[c]) + 1
    /\ result \in [Calls -> Result]
    /\ \A c \in Calls : origin[c] \in 0 .. Len(stack[c]) + 1
    /\ \A c \in Calls : seen[c] \subseteq 1 .. Len(stack[c])
    /\ \A c \in Calls : DOMAIN counted[c] \subseteq (1 .. Len(stack[c])) \X {"nil", "error"}
    /\ verdict \in [Calls -> Verdict]
    /\ given \in [Calls -> Result]

Init ==
    /\ engine \in {"publishing", "subscription"}
    /\ kind \in [Layers -> Kind]
    /\ unknown \in IF engine = "publishing" THEN {"panic"}
                   ELSE {"default", "ack", "panic"}
    /\ chain = <<>>
    /\ handlerFn = Unbuilt
    /\ locked = FALSE
    /\ refused = {}
    /\ tick = [l \in Layers |-> FALSE]
    /\ passed = [l \in Layers |-> 0]
    /\ place = [c \in Calls |-> "idle"]
    /\ stack = [c \in Calls |-> <<>>]
    /\ pos = [c \in Calls |-> 0]
    /\ result = [c \in Calls |-> "none"]
    /\ origin = [c \in Calls |-> 0]
    /\ seen = [c \in Calls |-> {}]
    /\ counted = [c \in Calls |-> <<>>]
    /\ verdict = [c \in Calls |-> "none"]
    /\ given = [c \in Calls |-> "none"]

----------------------------------------------------------------------------
\* Building the pipeline, under the lock of the engine.

\* Chain.Wrap: from the last middleware to the first, each wraps what it got.
\* wrapped[n] is `final` after n turns of the loop.
Wrap(mws) ==
    LET wrapped[n \in 0 .. Len(mws)] ==
            IF n = 0 THEN <<>> ELSE <<mws[Len(mws) - n + 1]>> \o wrapped[n - 1]
    IN wrapped[Len(mws)]

AddMiddlewareUnchecked(m) ==
    /\ ~locked
    /\ m \notin ToSet(chain) \cup refused
    /\ chain' = Append(chain, m)
    /\ UNCHANGED <<config, handlerFn, locked, refused, tickers, calls>>

\* It panics when the pipeline is built; the deferred Unlock runs all the same.
AddMiddleware(m) ==
    /\ ~locked
    /\ m \notin ToSet(chain) \cup refused
    /\ \/ /\ handlerFn = Unbuilt
          /\ chain' = Append(chain, m)
          /\ UNCHANGED refused
       \/ /\ handlerFn # Unbuilt
          /\ refused' = refused \cup {m}
          /\ UNCHANGED chain
    /\ UNCHANGED <<config, handlerFn, locked, tickers, calls>>

\* SubscriptionEngine.Start, which is called once; a second call panics and
\* changes nothing.
Start ==
    /\ engine = "subscription"
    /\ ~locked
    /\ handlerFn = Unbuilt
    /\ handlerFn' = Wrap(chain)
    /\ UNCHANGED <<config, chain, locked, refused, tickers, calls>>

\* A middleware panics while it wraps: the lock is never released.
StartPanics ==
    /\ engine = "subscription"
    /\ ~locked
    /\ handlerFn = Unbuilt
    /\ chain # <<>>
    /\ locked' = TRUE
    /\ UNCHANGED <<config, chain, handlerFn, refused, tickers, calls>>

Begins(c, layers) ==
    /\ place' = [place EXCEPT ![c] = "entering"]
    /\ stack' = [stack EXCEPT ![c] = layers]
    /\ pos' = [pos EXCEPT ![c] = 1]
    /\ UNCHANGED <<result, origin, seen, counted, verdict, given>>

\* PublishingEngine.Publish: the first call builds, and the others use it.
Publish(c) ==
    /\ engine = "publishing"
    /\ ~locked
    /\ place[c] = "idle"
    /\ handlerFn' = IF handlerFn = Unbuilt THEN Wrap(chain) ELSE handlerFn
    /\ Begins(c, handlerFn')
    /\ UNCHANGED <<config, chain, locked, refused, tickers>>

PublishPanics(c) ==
    /\ engine = "publishing"
    /\ ~locked
    /\ place[c] = "idle"
    /\ handlerFn = Unbuilt
    /\ chain # <<>>
    /\ locked' = TRUE
    /\ place' = [place EXCEPT ![c] = "done"]
    /\ result' = [result EXCEPT ![c] = "panic"]
    /\ verdict' = [verdict EXCEPT ![c] = "factory"]
    /\ UNCHANGED <<config, chain, handlerFn, refused, tickers, stack, pos, origin, seen,
                   counted, given>>

\* Receive hands a message to the function that Start built.
Deliver(c) ==
    /\ engine = "subscription"
    /\ handlerFn # Unbuilt
    /\ place[c] = "idle"
    /\ Begins(c, handlerFn)
    /\ UNCHANGED <<config, building, tickers>>

----------------------------------------------------------------------------
\* Going in.

At(c) == kind[stack[c][pos[c]]]

Entering(c) == place[c] = "entering" /\ pos[c] <= Len(stack[c])
AtEnd(c)    == place[c] = "entering" /\ pos[c] = Len(stack[c]) + 1

\* A result arises at the position where the call is, and is what the layers
\* around it see.
Yields(c, r, who) ==
    /\ place' = [place EXCEPT ![c] = "leaving"]
    /\ result' = [result EXCEPT ![c] = r]
    /\ origin' = [origin EXCEPT ![c] = pos[c]]
    /\ pos' = [pos EXCEPT ![c] = @ - 1]
    /\ verdict' = [verdict EXCEPT ![c] = who]
    /\ given' = [given EXCEPT ![c] = r]
    /\ UNCHANGED <<config, building, tickers, stack, seen, counted>>

\* A layer that calls next at once.
Enter(c) ==
    /\ Entering(c)
    /\ At(c) \in {"ConvertPanicToError", "OnError", "ConditionalExecute", "Metrics"}
    /\ pos' = [pos EXCEPT ![c] = @ + 1]
    /\ UNCHANGED <<config, building, tickers, place, stack, result, origin, seen, counted, verdict, given>>

\* Throttle: `<-ticker.C`, of the one ticker all calls share.
EnterThrottlePerCall(c) ==
    /\ Entering(c)
    /\ At(c) = "Throttle"
    /\ tick[stack[c][pos[c]]]
    /\ passed' = [passed EXCEPT ![stack[c][pos[c]]] = @ + 1]
    /\ pos' = [pos EXCEPT ![c] = @ + 1]
    /\ UNCHANGED <<config, building, tick, place, stack, result, origin, seen, counted, verdict, given>>

EnterThrottle(c) ==
    /\ Entering(c)
    /\ At(c) = "Throttle"
    /\ tick[stack[c][pos[c]]]
    /\ tick' = [tick EXCEPT ![stack[c][pos[c]]] = FALSE]
    /\ passed' = [passed EXCEPT ![stack[c][pos[c]]] = @ + 1]
    /\ pos' = [pos EXCEPT ![c] = @ + 1]
    /\ UNCHANGED <<config, building, place, stack, result, origin, seen, counted, verdict, given>>

\* The condition of ConditionalExecute holds: exec is called instead of next.
\* With ConditionalSkip, exec is a function that returns nil.
Divert(c) ==
    /\ Entering(c)
    /\ At(c) = "ConditionalExecute"
    /\ \E r \in {"nil", "error", "panic"} : Yields(c, r, "exec")

\* The publisher, or the handler of a route, with or without layers of its own.
Handle(c) ==
    /\ AtEnd(c)
    /\ \E r \in {"nil", "error", "panic"} : Yields(c, r, "handler")

\* The router is what the engine's chain wraps; behind it are the layers of the
\* route, and no router any more.
AtRouter(c) == engine = "subscription" /\ AtEnd(c) /\ stack[c] = handlerFn

\* There is a route for the key: its chain is wrapped for this message.
RouteKnown(c) ==
    /\ AtRouter(c)
    /\ stack' = [stack EXCEPT ![c] = handlerFn \o Wrap(RouteLayers)]
    /\ UNCHANGED <<config, building, tickers, place, pos, result, origin, seen, counted, verdict, given>>

\* No route, or one whose Handle was never called: the default handler, nil, or
\* a panic.
RouteUnknown(c) ==
    /\ AtRouter(c)
    /\ \/ unknown = "default" /\ \E r \in {"nil", "error", "panic"} : Yields(c, r, "handler")
       \/ unknown = "ack" /\ Yields(c, "nil", "acked unknown")
       \/ unknown = "panic" /\ Yields(c, "panic", "no route")

----------------------------------------------------------------------------
\* Coming out.

Leaving(c) == place[c] = "leaving" /\ pos[c] >= 1

Leaves(c) ==
    /\ pos' = [pos EXCEPT ![c] = @ - 1]
    /\ UNCHANGED <<config, building, tickers, place, stack, given>>

\* The recover of ConvertPanicToError sets the named result err.
LeaveRecoverLost(c) ==
    /\ Leaving(c)
    /\ At(c) = "ConvertPanicToError"
    /\ result[c] = "panic"
    /\ result' = [result EXCEPT ![c] = "nil"]
    /\ origin' = [origin EXCEPT ![c] = pos[c]]
    /\ UNCHANGED <<seen, counted, verdict>>
    /\ Leaves(c)

LeaveRecover(c) ==
    /\ Leaving(c)
    /\ At(c) = "ConvertPanicToError"
    /\ result[c] = "panic"
    /\ result' = [result EXCEPT ![c] = "error"]
    /\ origin' = [origin EXCEPT ![c] = pos[c]]
    /\ UNCHANGED <<seen, counted, verdict>>
    /\ Leaves(c)

\* OnError calls errHandler with an error and returns the error, unless
\* errHandler panics; a panic passes it by.
LeaveOnErrorSwallows(c) ==
    /\ Leaving(c)
    /\ At(c) = "OnError"
    /\ result[c] = "error"
    /\ seen' = [seen EXCEPT ![c] = @ \cup {pos[c]}]
    /\ result' = [result EXCEPT ![c] = "nil"]
    /\ UNCHANGED <<origin, counted, verdict>>
    /\ Leaves(c)

LeaveOnError(c) ==
    /\ Leaving(c)
    /\ At(c) = "OnError"
    /\ result[c] = "error"
    /\ seen' = [seen EXCEPT ![c] = @ \cup {pos[c]}]
    /\ \/ UNCHANGED <<result, origin>>
       \/ /\ result' = [result EXCEPT ![c] = "panic"]
          /\ origin' = [origin EXCEPT ![c] = pos[c]]
    /\ UNCHANGED <<counted, verdict>>
    /\ Leaves(c)

\* The deferred function of a Prometheus middleware counts what next returned; err is
\* still nil when next panicked.
Label(c) == <<pos[c], IF result[c] = "error" THEN "error" ELSE "nil">>

\* labelsProducer may panic: then nothing is counted.
LeaveMetrics(c) ==
    /\ Leaving(c)
    /\ At(c) = "Metrics"
    /\ \/ /\ counted' = [counted EXCEPT ![c] = @ (+) SetToBag({Label(c)})]
          /\ UNCHANGED <<result, origin, verdict>>
       \/ /\ result' = [result EXCEPT ![c] = "panic"]
          /\ origin' = [origin EXCEPT ![c] = pos[c]]
          /\ verdict' = [verdict EXCEPT ![c] = "labels"]
          /\ UNCHANGED counted
    /\ UNCHANGED seen
    /\ Leaves(c)

\* Every other layer passes the result on.
Leave(c) ==
    /\ Leaving(c)
    /\ ~(At(c) = "ConvertPanicToError" /\ result[c] = "panic")
    /\ ~(At(c) = "OnError" /\ result[c] = "error")
    /\ At(c) # "Metrics"
    /\ UNCHANGED <<result, origin, seen, counted, verdict>>
    /\ Leaves(c)

Return(c) ==
    /\ place[c] = "leaving"
    /\ pos[c] = 0
    /\ place' = [place EXCEPT ![c] = "done"]
    /\ UNCHANGED <<config, building, tickers, stack, pos, result, origin, seen, counted, verdict, given>>

----------------------------------------------------------------------------
\* The ticker of a Throttle fires; its channel holds one tick, and one that
\* finds it full is dropped.
Tick(l) ==
    /\ kind[l] = "Throttle"
    /\ ~tick[l]
    /\ tick' = [tick EXCEPT ![l] = TRUE]
    /\ passed' = [passed EXCEPT ![l] = 0]
    /\ UNCHANGED <<config, building, calls>>

\* Every call has returned, or waits for a lock that a panic left locked.
Terminated ==
    /\ locked \/ \A c \in Calls : place[c] = "done"
    /\ UNCHANGED vars

CallStep(c) ==
    \/ Publish(c)
    \/ PublishPanics(c)
    \/ Deliver(c)
    \/ Enter(c)
    \/ EnterThrottle(c)
    \/ Divert(c)
    \/ Handle(c)
    \/ RouteKnown(c)
    \/ RouteUnknown(c)
    \/ LeaveRecover(c)
    \/ LeaveOnError(c)
    \/ LeaveMetrics(c)
    \/ Leave(c)
    \/ Return(c)

Next ==
    \/ \E m \in Added : AddMiddleware(m)
    \/ Start
    \/ StartPanics
    \/ \E c \in Calls : CallStep(c)
    \/ \E l \in Layers : Tick(l)
    \/ Terminated

Spec == Init /\ [][Next]_vars

----------------------------------------------------------------------------
\* "middlewares will be executed in the order they are added" (README.md): every
\* call runs through every middleware whose AddMiddleware has returned, first
\* added outermost, however AddMiddleware races with the call that builds the
\* pipeline.
PipelineComplete ==
    \A c \in Calls :
        place[c] # "idle" /\ verdict[c] # "factory" => IsPrefix(chain, stack[c])

\* The engine reports success exactly when the publisher, the handler or what a
\* middleware or the router put in its place succeeded: no layer turns a failure
\* or a panic into an acknowledgement, or a success into a retry, except a
\* Prometheus middleware whose labels panic after the handler's success.
SuccessIsTheHandlers ==
    \A c \in Calls : place[c] = "done" =>
        /\ result[c] = "nil" => given[c] = "nil"
        /\ given[c] = "nil" => result[c] = "nil" \/ verdict[c] = "labels"

\* An error that leaves the pipeline was given to every OnError outside of where
\* it arose, a panic leaves it only when no ConvertPanicToError was around the
\* place where it arose, a message that succeeded reported nothing, and every
\* Prometheus middleware outside of that place counted the message once, an error as
\* an error.  (A panic is counted as a success: see Label.)
ErrorsReported ==
    \A c \in Calls : place[c] = "done" /\ verdict[c] # "factory" =>
        LET outside == {i \in 1 .. Len(stack[c]) : i < origin[c]}
            Of(k)   == {i \in outside : kind[stack[c][i]] = k}
            label   == IF result[c] = "error" THEN "error" ELSE "nil" IN
        /\ result[c] = "error" => Of("OnError") \subseteq seen[c]
        /\ result[c] = "panic" => Of("ConvertPanicToError") = {}
        /\ result[c] = "nil" => seen[c] = {}
        /\ \A i \in Of("Metrics") :
              /\ {e \in BagToSet(counted[c]) : e[1] = i} = {<<i, label>>}
              /\ counted[c][<<i, label>>] = 1
=============================================================================
