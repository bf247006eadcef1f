# TLA+ models of expedit

expedit is a Go library that puts one publishing and one subscribing interface, with
middlewares and a router, in front of AMQP (RabbitMQ), Redis streams and Google Pub/Sub.
This directory holds specifications of it, the TLC configurations that check them, and
machine-checked proofs of the safety properties of all its components. Paths below are
relative to the repository.

`PROJECT.json` says for every definition which lines of the code it stands for, and lists
the runs, mutants, hazards, findings and theorems.

## 1. The system

| Part | State | Operations | Talks to |
|---|---|---|---|
| `Subscriber` interface (`core/subscriber/subscriber.go`) | none | `Receive(ctx, handler)` | engines call it |
| `Dispatcher` (`core/subscriber/dispatcher.go`) | slots channel, WaitGroup, contexts | `Dispatch`, `Handle`, `Wait` | subscribers call it; it calls the handler and the delivery's `Ack`/`Nack` |
| `ChannelSubscriber`, `ChannelPublisher` (`core/.../channel.go`) | input channel, retry channel | `Receive`, `drain`, `Publish`, `Close` | `Dispatcher` |
| `MessagePublisher` (`core/publisher/publisher.go`) | cache of publishers, `closed`, RWMutex | `Publish`, `getPublisher`, `Close` | the three broker publishers are instances of it |
| Engines, `Chain` (`core/*/engine.go`, `middleware/chain.go`) | list of middlewares, built handler, mutex | `AddMiddleware`, `Start`, `Publish` | subscriber or publisher, router |
| Middlewares (`core/message/middleware`, `prometheus/middleware`) | a ticker (Throttle), counters | wrap a handler | the next layer |
| `SubscriptionRouter` (`core/subscriber/router.go`) | map of routes, default route | `AddHandler`, `AddDefaultHandler`, `HandlerFunc` | handlers |
| `ReconnectingConnection`, `ReconnectingChannel` (`amqp/connection.go`, `amqp/channel.go`) | current connection and channel, `closed` flag | `Dial`, `Channel`, `Consume`, `Close`, two watchers | amqp091-go |
| AMQP subscriber and publisher (`amqp/subscriber.go`, `publisher.go`, `headers.go`, `json.go`) | options | `Receive`, `Publish`, conversions | channel, `Dispatcher`, `MessagePublisher` |
| Redis subscriber and publisher (`redis/`) | claim cursor, start ID | `Receive`, `Publish`, conversions | go-redis, `Dispatcher`, `MessagePublisher` |
| Google subscriber and publisher (`google/`) | options | `Receive`, `Publish`, conversions | Pub/Sub client, `Dispatcher.Handle`, `MessagePublisher` |

What is hard here, and what each part must guarantee:

* **Dispatcher.** Handlers run in goroutines of their own while the receiving loop goes on;
  the context of `Receive` may end at any point, handlers may fail, panic or miss their
  deadline, and the broker may refuse the answer. It must bound the handlers in flight,
  settle each delivery once and as the handler decided, not cancel handlers at shutdown,
  lose no slot on any path, and return only when nothing is under way.
* **ChannelSubscriber.** A nack is a send on a channel that only the receiving loop reads.
  No message may be lost or doubled, and a closed input must be drained.
* **MessagePublisher.** A cache filled under a double-checked lock and emptied by `Close`:
  one publisher per destination, each closed once, nothing after `Close`.
* **Engines, middlewares, router.** A chain is built once, under a lock, in a race with
  `AddMiddleware`; a result crosses many layers: no failure may come out as a success.
* **AMQP.** Two watchers, the forwarder of `Consume`, the loop of `Receive` and the
  developer share pointers without a common lock, around losses at any moment; a message
  under way belongs to a channel that may have ended. None may be lost, none handled again
  without cause, and consuming must go on by itself.
* **Redis.** Messages are claimed by idle time, handlers bounded by processing time,
  consumers crash and replies are lost: nothing may be lost, nothing claimed while it is
  processed. Without a group, a position replaces the pending list: nothing may be skipped.
* **Google.** `Receive` leaves concurrency and waiting to the client and uses half of the
  dispatcher: what the dispatcher promises must not depend on the other half.
* **Conversions.** Metadata and payload change their form three times on their way; the
  router must see the key that was published, the handler the payload. Publishing changes
  the caller's message, and a retry starts from what is left of it.

## 2. Modules

| Module | Models | Composition |
|---|---|---|
| `Subscriber` | what `Receive` promises, without goroutines | abstract |
| `Dispatcher` | `dispatcher.go` | implements `Subscriber` (`ImplementsSubscriber`) |
| `DispatcherProofs` | theorems | extends `Dispatcher` |
| `ChannelSubscriber` | `channel.go` of both packages | instantiates `Dispatcher` with one delivery per attempt; implements it (`ImplementsDispatcher`) |
| `ChannelSubscriberProofs` | theorems | extends `ChannelSubscriber`, instantiates `DispatcherProofs` |
| `PublisherPool` | a pool whose operations are atomic | abstract |
| `MessagePublisher` | `publisher.go` | implements `PublisherPool` (`ImplementsPool`) |
| `MessagePublisherProofs` | theorems | extends `MessagePublisher` |
| `Pipeline` | engines, chain, router, middlewares, Prometheus middlewares | |
| `PipelineProofs` | theorems | extends `Pipeline` |
| `Transport` | conversions of all three brokers, publishing again | |
| `TransportProofs` | theorems | extends `Transport` |
| `AmqpChannel` | connection, channel, `Consume`, loop of `Receive` | |
| `AmqpSubscriber` | the messages of `amqp/subscriber.go`, the queue | extends `AmqpChannel`: its actions are conjoined with what they do to the messages |
| `AmqpSubscriberProofs` | theorems | extends `AmqpSubscriber` |
| `RedisSubscriber` | `redis/subscriber.go`, with and without a group | |
| `RedisSubscriberProofs` | theorems | extends `RedisSubscriber` |
| `GoogleSubscriber` | `Receive` of `google/subscriber.go` | extends `Dispatcher`: the callbacks of the client in place of its loop |
| `GoogleSubscriberProofs` | theorems | extends `GoogleSubscriber` and `DispatcherProofs` |
| `MC*` | constants and symmetry for TLC | |

**How state and steps correspond to the code.**

* `Dispatcher`: `pc[d]` is where delivery `d` is in `Dispatch` or `Handle`; `slots` and `wg`
  are the channel's length and the WaitGroup's counter, changed exactly where the code
  changes them. A step is one operation that another goroutine can see. A context is the
  set of events that cancel it, so that `WithoutCancel` and `WithTimeout` are operators on
  sets. A panic runs the deferred functions before it ends the process, as in Go.
* `ChannelSubscriber`: the ten steps of the two loops, each one case of a `select` or one
  return of `Wait`; a `Nack` blocks while `retry` is full.
* `MessagePublisher`: one step per critical section, except where the code calls out of the
  package with the lock held (creating, closing): there the lock is held over several
  steps. A publisher is named after the call that created it.
* `Pipeline`: a handler function is the sequence of its layers; a call goes in layer by
  layer, gets a result, and comes out with it. `Chain.Wrap` is a recursive function, with
  one turn of the loop for each of its values.
  `LeaveMetrics` is the deferred count: it happens on every way out, and a label producer
  that panics there replaces the result.
* `Transport`: a key is a sequence of parts, a value is its type and its text, a payload a
  base and the number of JSON encodings around it. These are what the conversions tell
  apart; the values include texts that a parser takes for another type. One message is
  published, perhaps again after an error or a success; `msg` is the caller's message as
  `Publish` left it, `wire` what the broker holds, which an error does not tell. `pending`
  and `paused` are the Pub/Sub client's background work and its paused ordering key.
* `AmqpChannel`: connections and channels are numbered; `conn`, `channel`, `consumingOn`
  and `WatchedConn` are the pointers the goroutines hold, stale or not.
* `AmqpSubscriber`: `copy[m][j]` is where in the client the message `m` is that was delivered
  on channel `j`, so an old copy may still be handled beside a new one; `holder[m]` is the
  channel on which the broker waits for its acknowledgement. Everything that ends a channel
  is conjoined with `TakesBack`, which returns what is unacked on it.
* `RedisSubscriber`: discrete time; a tick passes only when every goroutine waits. The
  server's pending list, idle times and cursor are modelled as the code uses them. `group`
  chooses the mode; `startID[c]` is the position of a `Receive` without a group.
* `GoogleSubscriber`: `callbacks` chooses who drives the dispatcher. The client's flow
  control and wait group take the places of `slots` and `wg`; no delivery is ever in
  `Dispatch`, and none is nacked without having been handled.

Definitions whose names end in a qualification of another (`NackFallsThrough` before
`Nack`, `AcquireSlotUnbounded` before `AcquireSlot`) are mutants: that definition with a
plausible bug. They are part of no specification; each is the evidence that a property can
fail, and `PROJECT.json` pairs them.

## 3. Runs

All passing runs are exhaustive. `Transport` is a short pass through pure functions and has no
type invariant.

| Run | Instance | Checks |
|---|---|---|
| `dispatcher` | 3 deliveries, 2 slots, timeout, refusing broker, panicking callbacks | `TypeOK`, `InFlightBounded`, `SettledOnce`, `ReturnedIsQuiet`, refinement `ImplementsSubscriber` |
| `dispatcher_live` | the same, a broker that refuses nothing; the loops and the Google callbacks | `AckedIffSucceeded`, `ShutdownKeepsHandlers`; liveness `ShutdownCompletes`, `DispatchProgresses` |
| `channel` | 2 messages, 2 slots, 2 attempts each | `TypeOK`, `InOnePlace`, `DrainedAll`, refinement `ImplementsDispatcher`; liveness `StopCompletes` |
| `channel_shutdown` | 3 messages, 1 slot | violated: `ShutdownCompletes` |
| `publisher` | 3 publishes, 2 closes, 2 destinations | `TypeOK`, `OnePublisherPerDestination`, `ClosedExactlyOnce`, `NoPublishAfterClose`, refinement `ImplementsPool`; liveness `CallsReturn` |
| `pipeline` | 2 messages, 2 engine layers and 1 route layer of any kind | `TypeOK` with the rate of a throttle, `PipelineComplete`, `SuccessIsTheHandlers`, `ErrorsReported` |
| `transport` | every broker, option, payload, metadata over 2 keys and 6 values, 2 attempts | `RouteSurvives`, `PublishedIsHandled`, `StillPublishable` |
| `amqp_channel` | 1 loss, 1 message, 1 slot, every pair of reasons to stop | `DeliveryTypeOK`, `FailsOnlyWhenStopped`, `LeavesOnlyAfterSuccess`, `SucceededIsNotRedelivered`; liveness `ShutdownCompletes`, `ConsumeEnds`, `HandledUnlessLossMissed` |
| `amqp_reconnect` | 2 losses | violated: `ConnectionReconnects` |
| `amqp_close` | 1 loss, a consumer that runs before `Close` | violated: `CloseEndsConsume` |
| `redis` | 2 consumers with and without a group, 2 messages, 2 slots, 2 faults | `TypeOK`, `NotClaimableWhileProcessed`, `LeavesOnlyAfterSuccess`, `ReadsEachOnce`; liveness `ShutdownCompletes`, `EventuallyAcked` |
| `redis_claim` | the same with 1 slot, no fault | violated: `NotClaimableWhileProcessed` |

**Bounds and why they are enough.** Three deliveries over two slots give one that waits for
a slot while two handlers interleave. Two messages with two attempts give a retry that meets
a first attempt; two slots leave the retry channel (`MaxInFlight + 1`) room for all of them,
and `channel_shutdown` has one message too many on purpose. Three publishes over two
destinations give two that race for one destination and a third beside them; the second
`Close` meets a pool that is closing or closed. Two layers outside the router and one
inside give every pair of neighbours, and two messages share one ticker. One loss of the
AMQP connection or channel, at every moment from the start of the watchers' goroutines on,
meets every state of the goroutines; a loss that comes before a watcher has registered, and
any second loss, is what the code does not survive (section 4). One message and one slot are
what a redelivery needs: the copy of the lost channel holds the slot that the new copy waits
for. `MaxStops = 2` lets any two of a done context, `Close` of the channel, `Close` of the
connection and a cancelled consumer happen in one run; three of them are a shorter run with
another at its end. Two consumers give a claimer and its victim; two faults cover a crash
after a failure. Two attempts in `Transport` are a publication and one after it, which may
meet whatever the first has left on the message, in the client or at the broker.

`CHECK_DEADLOCK FALSE` is set in four configurations. In the three AMQP ones the system
may really stop: everything closed or cancelled. In `channel_shutdown` a deadlock is what
the liveness property is about. The bounds in the guards are `MaxAttempts`
(`ChannelSubscriber`, `Transport`), `MaxLosses`, `MaxStops`, `MaxFaults` and `N`; a handler of
`AmqpSubscriber` fails once for each message. Two runs use symmetry
(`dispatcher`, `pipeline`); none of these checks liveness. `dispatcher` checks a
refinement under it whose property is the safety specification of `Subscriber`, symmetric
in the deliveries.

**Fairness.** Weak fairness for goroutines that can run: the Go scheduler. Strong fairness
for a case of a `select` that is ready again and again, since Go chooses among ready cases
at random. A handler is not assumed to return by itself in `Dispatcher`: it returns once its
deadline has passed, so liveness is checked with a processing timeout. In
`ChannelSubscriber`, which has no timeout, handlers are assumed to return; in
`RedisSubscriber`, a handler that is not failed by a fault succeeds in the end. In
`AmqpChannel`, a retry succeeds in the end once the broker is back; in `AmqpSubscriber`, the
broker delivers what is in the queue and handlers return. The callbacks of `GoogleSubscriber`
need no fairness to start, since the broker owes no message. `MessagePublisher`
assumes only that while a call can move some call does, nothing about the order in which
the mutex admits the waiting ones.

Properties whose name says "unless", and the exceptions in `Transport`
(`Rewritten`, `EncodedAgain`, `PayloadDropped`, `IDTaken`, `ContextLeft`, `PausedLate`), name
the cases in which the code does something else; dropping the exception makes the run fail.
The exceptions are not covered by the property that names them: `PublishedIsHandled` does not
catch the dropped marshalling error or the second encoding, and `StillPublishable` says of a
message that `ContextTimeout` left with a cancelled context only that it has that for no other
reason. Each obstacle has its own exception, so that a cancelled context excuses no paused
key and no refused ID.

## 4. What disagrees with the docs

1. `channel_shutdown`: a comment in `channel.go` says a send on `retry` never blocks. The
   select loop takes new messages while `retry` is not empty, so more than
   `maxInFlight+1` messages may be nacked; at shutdown `Dispatch` nacks in the only goroutine
   that reads `retry`, and `Receive` never returns.
2. `redis_claim`: a processing timeout below the idle timeout is said to keep other consumers
   from claiming a message that is processed. The idle time starts at the read, the timeout
   at the handler: a message that waited for a slot becomes claimable during its handler.
3. `amqp_reconnect`: the connection's watcher listens to the connection it started with,
   and after the first reconnection ends as if the developer had closed it.
4. `amqp_close`: `Close` during a reconnection closes the old channel; the watcher then
   installs a new one, and a consumer that was running before, and had looked at the flag
   before `Close` set it, goes on upon the new channel.
5. `LossMissed`, the exception of `HandledUnlessLossMissed`: `Dial` and `NewChannel` return before the goroutines of their watchers have
   called `NotifyClose`. A loss in this window, with a consumer that is already running,
   ends the watcher for good: its `NotifyClose` finds a channel that is closed and closes
   the receiver, which the watcher takes for the developer's `Close`. `Receive` promises to
   consume again, and retries for ever. Checking `EventuallyHandled` in place of
   `HandledUnlessLossMissed`, with `MaxStops = 0`, shows it with one loss.
6. `PausedLate`, an exception of `StillPublishable`: Google's `Publish` resumes its ordering key after every error, so that
   the caller can publish again. When its context ends first there is nothing to resume
   yet; the client fails and pauses the key afterwards, and the next `Publish` is refused.
7. Without a run: prefetch is not set on a reopened AMQP channel; `WithAckOnUnknownRoute`
   panics beside a default handler instead of having no effect; a documented header filter
   has another signature; Google's attribute parser turns `t` into `true`; a received Google
   message cannot be sent to a poison topic, since it has an ID; `Receive` of Redis returns
   the error of a context that is done while the group is created, not nil; with
   `WithNoRequeueOnNack` a message that waits for a slot at shutdown is dropped unhandled,
   where the guide says it is requeued.

`MaxLosses = 1` in `amqp_channel` is a consequence of 3: with two losses the connection stays
lost. The exception of `HandledUnlessLossMissed` is exactly the window of 5 (`LossMissed`: what
the code has now is lost, and its watcher has yet to register), which opens at the start and
again whenever a watcher has installed a replacement (`ChanRegister`, `ConnRegister`).
`ConnectionReconnects` has the same exception, so that `amqp_reconnect` shows the stale pointer
of 3 and not this window.

## 5. Proofs

Proved by TLAPS for every value of the constants (any set of deliveries, calls, closers,
destinations, consumers, calls and layers; any number of messages, attempts, losses and
faults; any limit and timeout; all options), from the assumptions about the constants, which
TLC evaluates in the runs: limits and sizes are natural numbers, at least one where the code
makes them so (`MaxInFlightAssumption`, `ChannelAssumption`, `SizeAssumption`,
`AttemptsAssumption`, `BoundsAssumption`, `SubscriberAssumption`), options are Booleans
(`OptionsAssumption`), the processing timeout is what `NewRedisSubscriber` demands
(`TimeoutAssumption`), a route has a layer (`LayersAssumption`), and the names that stand for
nil are different from the others (`NoneAssumption`, and in `ChannelAssumption` and
`LayersAssumption`).

**Dispatcher** (`DispatcherProofs`). `IInv` is the conjunction of `TypeOK`; `Counts`, which
ties the two counters to the sets of deliveries they count; `LoopExcludes`: while the
loop waits, nothing is in `Dispatch`, and when it has returned no goroutine is left;
`RejectsAtShutdown`; and `SettledOnce`. `InFlightBounded` is not inductive as it stands: a
counter that goes down by one stays right only if the set is known to be finite and to lose
exactly one element, and `ReturnedIsQuiet` needs that the WaitGroup counts the same
goroutines. From `IInv`: `TypeCorrect`, `BoundedInFlight`, `SettlesOnce`,
`QuietWhenReturned`. With `OutcomeInv`, which ties the place of a delivery to how its handler
ended: `AckIffSuccess`. `HandlersSurviveShutdown` is by the definition of the message context
and every step. `RefinesSubscriber` maps each step to a step of `Subscriber` or a stutter;
its guard `Cardinality(Active) < MaxInFlight` comes from `Counts`, and `Reject` is possible
only after the context has ended (`RejectsAtShutdown`).

**ChannelSubscriber** (`ChannelSubscriberProofs`). `RefinesDispatcher`: each of its steps is a
step of `Dispatcher`, with one delivery per attempt, or leaves the dispatcher alone. All that
is proved of the dispatcher then holds here (`DispatcherHolds` instantiates
`DispatcherProofs`), the contract of the `Subscriber` interface included
(`KeepsSubscriberContract`, two refinements composed). `MessageInOnePlace` counts: a message
is sent once, and each step moves one copy of it between the input, the retry channel and
the attempts; that an attempt whose `Nack` put the message back is settled no second time is
`SettledOnce` of the dispatcher. `DrainLeavesNothing` needs `ModeInv`, what the place of `Receive`
says of the channels and of the context: `drain` is entered when the input is closed and
empty and returns when `retry` is empty after `Wait`; with `MessageInOnePlace`
and a dispatcher that is quiet, an ack is the only place left for a message.

**MessagePublisher** (`MessagePublisherProofs`). `PInv` is `TypeOK`; `LockInv`: who is in a
critical section holds the lock, and only that call; `CacheInv`: what the cache says of the
publishers created, which is where the second look under the write lock is used;
`CloseInv`: how far the one working `Close` is; `LateInv`; `RightPublisher`; and
`OnePublisherPerDestination`. From it: `TypeCorrect`, `OnePublisher`, `ClosesAll`,
`LateRefused`, and `RefinesPool`.

**RedisSubscriber** (`RedisSubscriberProofs`). `IInv` is `TypeOK`; `AcksFollowSuccess`;
`TasksAreAdded`, by which a position that advances to a dispatched message stays in the
stream; `GroupIsThere`; `AloneInPlace`; `BatchHasNoGap`; and the two properties. With a group
a message leaves the pending list only by an XACK, so `AtLeastOnce` needs that XACK is
sent only after success, and that a read, also one whose reply is lost, adds to the pending
list all it moves the group's position over: `ReadNow` is the interval behind the position
(`FirstOfInterval`). Without a group, `startID = msg.ID` skips nothing only because the
batch is the interval behind `startID` and is dispatched from its beginning: `BatchHasNoGap`
gives `BatchBegins`, and `ReadsOnce` follows step by step. A lemma names what a step does to
one consumer (`Settles`, `Resolves`, `Dispatches`, `Gets`, `Dies`), so that the three
invariants are proved per effect and not per action.

`NotClaimableWhileProcessed` is false in general (`redis_claim`), and the proof says what is
missing: `NewRedisSubscriber` compares the two timeouts, but the idle time also counts the wait
for a slot. `NotClaimedUnlessItWaited` has the hypothesis `WaitsAtMost(w)`: a message that has
been delivered and is not yet with a handler has been idle for at most `w`. If the processing
timeout and `w` together stay below the idle timeout, no message is claimable while its
handler runs, for any number of messages and slots. The invariant is `IdleBounded(w)`: the
idle time of a message exceeds the age of its handler by at most `w`, and that age is at most
the processing timeout. `NotClaimedWhenNoneWaits` is the case `w = 0`, from the hypothesis
`NoneWaits`: a consumer that holds a batch has a free slot, so that a message is handed to its
handler at the instant it is read (`BatchIsDispatched`) and the check of the code is enough.

**AmqpSubscriber** (`AmqpSubscriberProofs`). `AtLeastOnce` needs little: that what is with a
handler is known to have been handled (`HandledIsKnown`), that a success is never
forgotten, and that a done context stays done. Who holds an unacked message does not matter,
nor how often the channel is lost.

`RefinesChannel` shows that the conjoined messages add nothing to the steps of
`AmqpChannel`, so what is proved of the channel holds with messages: `ChannelTypeCorrect`,
and `FailsOnlyStopped`, which is about `ErrChannelClosed` (a loss before the first `Consume` is
still that call's error, which `Receive` returns) and whose invariant `StopInv` says that a `Consume` that finds its
channel open after its deliveries ended was cancelled; it needs that an ended channel stays
ended (`ChannelsEndOnce`). `NotRedelivered` rests on `RInv`: while the first channel is open
every pointer still names it (`FirstChannel`), so that what is in the client is unacked
there and the ack of a success is accepted (`ManualOnFirst`); with `WithAutoAck` a message
has one copy, and the copy has met no handler before its own (`AutoOnce`).

**GoogleSubscriber** (`GoogleSubscriberProofs`). A step of the client is one of the
dispatcher, or `Callback`, which starts `Handle` without `Dispatch`. `Callback` is shown to
keep the invariants of `DispatcherProofs`, whose lemmas do the rest: `GoogleInductive`,
`GoogleAckIffSuccess`, `GoogleHandlersSurvive`.

**Pipeline** (`PipelineProofs`). Any number of layers, of any kind and in any order, outside
and inside the router, and any number of calls. `WrapKeepsOrder` is about the loop of
`Chain.Wrap`: wrapping from the last middleware to the first leaves the first one outermost.
It needs an induction over the number of turns, which is written as a proof about the least
turn that goes wrong. The invariant `Inv` is `Types`; `BuiltFromAll`, by which the pipeline in
use is the list of all middlewares; `TickUnused`; and for each call `CallOK`, which
follows it in and out. On its way out, `Crossed` are the layers between where the result arose
and where it is: each `OnError` among them has been told, no `ConvertPanicToError` among them
let a panic through, each metrics layer has counted it once and under its label, and a
success is the handler's. A layer that makes another result starts `Crossed` anew. From `Inv`:
`TypeCorrect`, `NoMiddlewareMissed`, `SuccessComesFromTheHandler`, `EveryErrorReported`.

**Transport** (`TransportProofs`). Any number of attempts, over the values of the model: the
keys, types and texts that the conversions tell apart are a fixed finite set. What is
proved in general of keys is that removing a prefix undoes adding it (`PrefixRoundTrip`). The
invariant: publishing again changes nothing but the ID, the context and the encodings
(`MessageKept`; adding the key of the context is idempotent, `SentFacts`), so everything the
broker holds, or the client will still send, is a copy of one message (`IsCopy`); and an
ordering key is paused only behind a publication that gave up (`PausedAfterTimeout`), which is
what `CanBePublishedAgain` needs to tell its obstacles apart. One
lemma per broker says what a subscriber finds in a copy (`AmqpRoute`, `GoogleRoute`,
`RedisRoute`, `RedisPayload`). From it: `RouteKeySurvives`, `PayloadArrives`,
`CanBePublishedAgain`.

Only model-checked: all liveness (`ShutdownCompletes`, `DispatchProgresses`, `StopCompletes`,
`CallsReturn`, `ConsumeEnds`, `HandledUnlessLossMissed`, `EventuallyAcked`), since fairness and
ENABLED are beyond the proof system. The refinement theorems are about the safety
specifications of `Subscriber`, `Dispatcher` and `PublisherPool`, which state no fairness.
Every invariant and every safety property of the passing runs is proved,
`NotClaimableWhileProcessed` under the hypotheses above.

## 6. Not modelled

* Routes added while messages are handled, an unsynchronised map write; publishing on a closed
  `ChannelPublisher`, which panics.
* AMQP: routing keys, priorities, mandatory and immediate flags, which the code passes on; the
  settings of connections and channels (the prefetch count only delays deliveries); delays
  of the retry strategies; a queue that is deleted while the channel is lost, for which
  `Consume` tries again for ever; `Publish`, which does not wait for a confirmation, on a
  channel that is being lost.
* Redis: `WithMaxlen` and `WithApprox`; a start ID beyond the end of the stream; the order of an ID the application chooses against
  those of other messages of the stream.
* Google: the flow control of the client beyond its limit, its retries, and the expiry of
  acknowledgement deadlines, which are the library's.
* Abstractions of the steps: in `AmqpSubscriber` a handler and its acknowledgement are one step,
  and an acknowledgement on an open channel does not fail (`Dispatcher` has both apart). In
  `RedisSubscriber` a consumer that claims a message whose handler it runs itself has one
  task for it, not two; that needs a message that became idle at its own consumer, and the
  safety properties do not depend on it. In `Dispatcher` a panic of `Ack` comes with an
  acknowledgement that did not take effect, since no `Ack` of the library panics after it did.
  In `Transport` the application of an AMQP subscriber with prefixed headers is taken to call
  `ExtractPrefixedMetadata`, as the subscriber leaves the raw headers on the message.
* Test doubles, emulators, load test helpers, examples.

## 7. Plan

1. *Composition*: an engine over `Dispatcher`, so that the result that leaves the chain
   decides the acknowledgement; `AmqpChannel` with `MaxLosses = 2` and the intended watcher.
2. *Proofs*: the composition of item 1 from `SuccessIsTheHandlers` and
   `AckedIffSucceeded`; an action property of `RedisSubscriber` about who may take a pending
   message; a bound for `WaitsAtMost(w)` from the count of XREADGROUP, the slots and the
   processing timeout, which is what an option check would need.
