-------------------------- MODULE RedisSubscriber --------------------------
(***************************************************************************)
(* The Redis subscriber (redis/subscriber.go): several Receive calls on    *)
(* one stream, of one consumer group or without a group.  Each creates the *)
(* group or resolves where it starts; with a group its loop claims what    *)
(* others left pending and reads what nobody has read, and without one it  *)
(* reads on from its own position.  Goroutines handle and acknowledge.     *)
(*                                                                         *)
(* Time is discrete.  Steps take no time: a Tick happens only when every   *)
(* goroutine waits, for a slot, for the handler, or in the blocking read,  *)
(* whose block timeout is one tick.  A handler runs for any number of      *)
(* ticks up to its deadline.  What is wrong under these assumptions is     *)
(* wrong a fortiori when steps are slower.                                 *)
(*                                                                         *)
(* External, as the code uses it: the Redis server.  Its pending entries   *)
(* list keeps, for each message delivered and not acked, how long it has   *)
(* been idle since it was last read or claimed.                            *)
(***************************************************************************)
EXTENDS Naturals, FiniteSets, FiniteSetsExt

CONSTANTS
    Consumers,          \* Receive calls on the stream
    Stable,             \* those that never crash, fail to read or stop
    N,                  \* bound: messages added to the stream
    MaxInFlight,        \* WithMaxInFlight
    BatchSize,          \* WithPendingMessageBatchSize
    IdleTimeout,        \* WithPendingMessageIdleTimeout, in ticks
    ProcessingTimeout,  \* WithProcessingTimeout, in ticks
    MaxFaults           \* bound: handler errors, lost acks, crashes, failed reads

\* NewRedisSubscriber rejects any other processing timeout in group mode.
ASSUME TimeoutAssumption ==
    /\ ProcessingTimeout \in Nat \ {0}
    /\ IdleTimeout \in Nat
    /\ ProcessingTimeout < IdleTimeout

ASSUME SizeAssumption ==
    /\ N \in Nat \ {0}
    /\ MaxInFlight \in Nat \ {0}
    /\ BatchSize \in Nat \ {0}
    /\ MaxFaults \in Nat
    /\ Stable \subseteq Consumers

Messages == 1 .. N

VARIABLES
    group,       \* WithConsumerGroup: the consumers are of one group
    added,       \* the stream holds the messages 1 .. added; without any it exists
                 \* only when a group was created with it
    groupExists, \* the group was created
    lastId,      \* last-delivered-id of the group
    pending,     \* the pending entries list
    idle,        \* idle[m], up to IdleTimeout
    loop,        \* loop[c]: where Receive is; "create" before its first call
    cursor,      \* cursor[c]: claimStart
    startID,     \* startID[c], which only a consumer without a group uses
    origin,      \* origin[c]: the first startID, or where the group started
    task,        \* task[c][m]: what consumer c does with m; "batch" when it was read
                 \* or claimed and waits for Dispatch, "done" when it is over and
                 \* the broker will not give it to c again
    age,         \* age[c][m]: how long its handler has been running
    ctxDone,     \* ctxDone[c]: the context given to Receive is done
    succeeded,   \* the messages a handler has succeeded with
    faults       \* how many faults have happened

groupVars  == <<groupExists, lastId, pending, idle>>
serverVars == <<group, added, groupVars>>
startVars  == <<startID, origin>>
loopVars   == <<loop, cursor, startVars>>
taskVars   == <<task, age>>
vars == <<serverVars, loopVars, taskVars, ctxDone, succeeded, faults>>

InLoop == {"claim", "dispatchClaimed", "read", "dispatchRead"}
Ended  == {"returned", "failed", "crashed"}
Loop   == {"create", "waiting"} \cup InLoop \cup Ended
Task   == {"none", "batch", "handling", "acking", "done"}

TypeOK ==
    /\ group \in BOOLEAN
    /\ added \in 0 .. N
    /\ groupExists \in BOOLEAN
    /\ groupExists => group
    /\ lastId \in 0 .. added
    /\ pending \subseteq 1 .. lastId
    /\ idle \in [Messages -> 0 .. IdleTimeout]
    /\ loop \in [Consumers -> Loop]
    /\ cursor \in [Consumers -> Messages]
    /\ startID \in [Consumers -> 0 .. added]
    /\ origin \in [Consumers -> 0 .. added]
    /\ task \in [Consumers -> [Messages -> Task]]
    /\ age \in [Consumers -> [Messages -> 0 .. ProcessingTimeout]]
    /\ ctxDone \in [Consumers -> BOOLEAN]
    /\ succeeded \subseteq Messages
    /\ faults \in 0 .. MaxFaults

Init ==
    /\ group \in BOOLEAN
    /\ added = 0
    /\ groupExists = FALSE
    /\ lastId = 0
    /\ pending = {}
    /\ idle = [m \in Messages |-> 0]
    /\ loop = [c \in Consumers |-> "create"]
    /\ cursor = [c \in Consumers |-> 1]
    /\ startID = [c \in Consumers |-> 0]
    /\ origin = [c \in Consumers |-> 0]
    /\ task = [c \in Consumers |-> [m \in Messages |-> "none"]]
    /\ age = [c \in Consumers |-> [m \in Messages |-> 0]]
    /\ ctxDone = [c \in Consumers |-> FALSE]
    /\ succeeded = {}
    /\ faults = 0

Fault == faults < MaxFaults /\ faults' = faults + 1

----------------------------------------------------------------------------
\* The publisher, and the end of a context.

Add ==
    /\ added < N
    /\ added' = added + 1
    /\ UNCHANGED <<group, groupVars, loopVars, taskVars, ctxDone, succeeded, faults>>

CtxDone(c) ==
    /\ c \notin Stable
    /\ ~ctxDone[c]
    /\ ctxDone' = [ctxDone EXCEPT ![c] = TRUE]
    /\ UNCHANGED <<serverVars, loopVars, taskVars, succeeded, faults>>

----------------------------------------------------------------------------
\* createConsumerGroup and resolveStartID.  Each Receive call has options of its
\* own: where it starts, which is "0", "$" or an ID of the stream, and whether it may
\* create the stream.

SetLoop(c, l) == loop' = [loop EXCEPT ![c] = l]

StartPositions == 0 .. added

CreateGroup(c) ==
    /\ group
    /\ loop[c] = "create"
    /\ ~ctxDone[c]
    /\ ~groupExists
    /\ \E position \in StartPositions :
          /\ lastId' = position
          /\ origin' = [k \in Consumers |-> position]
    /\ groupExists' = TRUE
    /\ SetLoop(c, "claim")
    /\ UNCHANGED <<group, added, pending, idle, cursor, startID, taskVars, ctxDone,
                   succeeded, faults>>

\* BUSYGROUP is no error: the group keeps the position it was created with.
GroupExists(c) ==
    /\ loop[c] = "create"
    /\ ~ctxDone[c]
    /\ groupExists
    /\ SetLoop(c, "claim")
    /\ UNCHANGED <<serverVars, cursor, startVars, taskVars, ctxDone, succeeded, faults>>

\* Receive returns every other error of the creation at once, the error of a done
\* context too: StreamDoesntExistErr without CreateStreamIfMissing.
CreateFails(c) ==
    /\ group
    /\ loop[c] = "create"
    /\ \/ ctxDone[c]
       \/ added = 0 /\ ~groupExists
    /\ SetLoop(c, "failed")
    /\ UNCHANGED <<serverVars, cursor, startVars, taskVars, ctxDone, succeeded, faults>>

\* "$" becomes the ID of the last message, and "0-0" when there is no stream.
ResolveStartID(c) ==
    /\ ~group
    /\ loop[c] = "create"
    /\ ~ctxDone[c]
    /\ \E position \in StartPositions :
          /\ startID' = [startID EXCEPT ![c] = position]
          /\ origin' = [origin EXCEPT ![c] = position]
    /\ SetLoop(c, "read")
    /\ UNCHANGED <<serverVars, cursor, taskVars, ctxDone, succeeded, faults>>

----------------------------------------------------------------------------
\* The loop of receive.

LoopEndsMissing(c) == FALSE

\* `for ctx.Err() == nil`, and the error of a read that begins when ctx is done,
\* which Receive drops.
LoopEnds(c) ==
    /\ loop[c] \in {"claim", "read"} \/ (loop[c] = "create" /\ ~group)
    /\ ctxDone[c]
    /\ SetLoop(c, "waiting")
    /\ UNCHANGED <<serverVars, cursor, startVars, taskVars, ctxDone, succeeded, faults>>

\* The server hands the messages of set s to a consumer of the group: they are
\* idle from this moment.
Assigns(s) ==
    /\ pending' = IF group THEN pending \cup s ELSE pending
    /\ idle' = [m \in Messages |-> IF m \in s THEN 0 ELSE idle[m]]

\* They wait for Dispatch in the order of their IDs.  A consumer that claims what its
\* own handler still works on has one task for both: the new one.
Delivers(c, s) ==
    /\ Assigns(s)
    /\ task' = [task EXCEPT ![c] =
                   [m \in Messages |-> IF m \in s THEN "batch" ELSE @[m]]]

\* The first n messages of a set.
FirstOf(n, s) == {m \in s : Cardinality({k \in s : k < m}) < n}

\* XAUTOCLAIM: from the cursor on, the first BatchSize messages idle for long
\* enough, whoever they are pending for; the new cursor is where a full batch
\* ended, or the start.
Claimed(c) ==
    FirstOf(BatchSize, {m \in pending : m >= cursor[c] /\ idle[m] >= IdleTimeout})

NextCursorAfter(s) == IF s = {} THEN 1 ELSE Max(s) + 1

NextCursor(s) ==
    LET rest == {m \in pending : \A k \in s : m > k} IN
    IF Cardinality(s) < BatchSize \/ rest = {} THEN 1 ELSE Min(rest)

ClaimNothing(c) ==
    /\ loop[c] = "claim"
    /\ ~ctxDone[c]
    /\ SetLoop(c, "dispatchClaimed")
    /\ UNCHANGED <<serverVars, cursor, startVars, taskVars, ctxDone, succeeded, faults>>

Claim(c) ==
    /\ loop[c] = "claim"
    /\ ~ctxDone[c]
    /\ Delivers(c, Claimed(c))
    /\ cursor' = [cursor EXCEPT ![c] = NextCursor(Claimed(c))]
    /\ SetLoop(c, "dispatchClaimed")
    /\ UNCHANGED <<group, added, groupExists, lastId, startVars, age, ctxDone, succeeded,
                   faults>>

\* XREADGROUP with ">" returns up to MaxInFlight messages nobody has read, XREAD
\* those after startID.
Unread(c)     == (IF group THEN lastId ELSE startID[c]) + 1 .. added
ReadLatest(c) == {m \in Unread(c) : m = added}
ReadNow(c)    == FirstOf(MaxInFlight, Unread(c))

Read(c) ==
    /\ loop[c] = "read"
    /\ Unread(c) # {}
    /\ Delivers(c, ReadNow(c))
    /\ lastId' = IF group THEN Max(ReadNow(c)) ELSE lastId
    /\ SetLoop(c, "dispatchRead")
    /\ UNCHANGED <<group, added, groupExists, cursor, startVars, age, ctxDone, succeeded,
                   faults>>

\* An error of the server ends receive; Receive returns it at once when the group
\* was not created.
ServerFails(c) ==
    /\ c \notin Stable
    /\ Fault
    /\ loop[c] \in {"create", "claim", "read"}
    /\ SetLoop(c, IF group /\ loop[c] = "create" THEN "failed" ELSE "waiting")
    /\ UNCHANGED <<serverVars, cursor, startVars, taskVars, ctxDone, succeeded>>

\* So does a lost reply, when the server has handed out messages already.
ReplyLost(c) ==
    /\ group
    /\ c \notin Stable
    /\ Fault
    /\ \/ /\ loop[c] = "claim"
          /\ Assigns(Claimed(c))
          /\ UNCHANGED lastId
       \/ /\ loop[c] = "read"
          /\ Unread(c) # {}
          /\ Assigns(ReadNow(c))
          /\ lastId' = Max(ReadNow(c))
    /\ SetLoop(c, "waiting")
    /\ UNCHANGED <<group, added, groupExists, cursor, startVars, taskVars, ctxDone,
                   succeeded>>

Batch(c)   == {m \in Messages : task[c][m] = "batch"}
Running(c) == {m \in Messages : task[c][m] \in {"handling", "acking"}}

Dispatching(c) == loop[c] \in {"dispatchClaimed", "dispatchRead"}

SetTask(c, m, t) == task' = [task EXCEPT ![c][m] = t]

\* With a group the server may give the message to c again.
Finish(c, m) == SetTask(c, m, IF group THEN "none" ELSE "done")

\* `startID = msg.ID`, once Dispatch has returned.
Advances(c, m) ==
    /\ startID' = IF group THEN startID ELSE [startID EXCEPT ![c] = m]
    /\ UNCHANGED <<loop, cursor, origin>>

\* Dispatch gets a slot, and the handler starts with a fresh deadline.
Start(c) ==
    /\ Dispatching(c)
    /\ Batch(c) # {}
    /\ Cardinality(Running(c)) < MaxInFlight
    /\ SetTask(c, Min(Batch(c)), "handling")
    /\ Advances(c, Min(Batch(c)))
    /\ age' = [age EXCEPT ![c][Min(Batch(c))] = 0]
    /\ UNCHANGED <<serverVars, ctxDone, succeeded, faults>>

\* ctx is done: Dispatch nacks, which does nothing; with a group the message stays
\* pending.
Reject(c) ==
    /\ Dispatching(c)
    /\ Batch(c) # {}
    /\ ctxDone[c]
    /\ Finish(c, Min(Batch(c)))
    /\ Advances(c, Min(Batch(c)))
    /\ UNCHANGED <<serverVars, age, ctxDone, succeeded, faults>>

BatchEnds(c) ==
    /\ Dispatching(c)
    /\ Batch(c) = {}
    /\ SetLoop(c, IF loop[c] = "dispatchRead" /\ group THEN "claim" ELSE "read")
    /\ UNCHANGED <<serverVars, cursor, startVars, taskVars, ctxDone, succeeded, faults>>

\* d.Wait() returns, and Receive with it.
Returns(c) ==
    /\ loop[c] = "waiting"
    /\ Running(c) = {}
    /\ SetLoop(c, "returned")
    /\ UNCHANGED <<serverVars, cursor, startVars, taskVars, ctxDone, succeeded, faults>>

\* The process of c dies; what it read stays pending on the server.
Crash(c) ==
    /\ c \notin Stable
    /\ Fault
    /\ loop[c] \notin Ended
    /\ SetLoop(c, "crashed")
    /\ task' = [task EXCEPT ![c] = [m \in Messages |-> "none"]]
    /\ UNCHANGED <<serverVars, cursor, startVars, age, ctxDone, succeeded>>

----------------------------------------------------------------------------
\* The handler and the acknowledgement.

HandlerSucceeds(c, m) ==
    /\ task[c][m] = "handling"
    /\ SetTask(c, m, "acking")
    /\ succeeded' = succeeded \cup {m}
    /\ UNCHANGED <<serverVars, loopVars, age, ctxDone, faults>>

\* An error or a panic: Nack does nothing.
HandlerFailsAcked(c, m) ==
    /\ task[c][m] = "handling"
    /\ Fault
    /\ Finish(c, m)
    /\ pending' = pending \ {m}
    /\ UNCHANGED <<group, added, groupExists, lastId, idle, loopVars, age, ctxDone,
                   succeeded>>

HandlerFails(c, m) ==
    /\ task[c][m] = "handling"
    /\ Fault
    /\ Finish(c, m)
    /\ UNCHANGED <<serverVars, loopVars, age, ctxDone, succeeded>>

\* XACK takes the message off the pending list, whoever it is pending for; without
\* a group nothing is called.
Ack(c, m) ==
    /\ task[c][m] = "acking"
    /\ Finish(c, m)
    /\ pending' = pending \ {m}
    /\ UNCHANGED <<group, added, groupExists, lastId, idle, loopVars, age, ctxDone,
                   succeeded, faults>>

\* XACK fails: the message stays pending and is handled again.
AckFails(c, m) ==
    /\ group
    /\ task[c][m] = "acking"
    /\ Fault
    /\ Finish(c, m)
    /\ UNCHANGED <<serverVars, loopVars, age, ctxDone, succeeded>>

----------------------------------------------------------------------------
\* Time.

\* c waits: in the read, for a slot, in d.Wait(), or for nothing any more; or
\* Receive was not called yet.
Blocked(c) ==
    \/ loop[c] = "create"
    \/ loop[c] = "read" /\ Unread(c) = {}
    \/ /\ Dispatching(c)
       /\ Batch(c) # {}
       /\ ~ctxDone[c]
       /\ Cardinality(Running(c)) >= MaxInFlight
    \/ loop[c] = "waiting" /\ Running(c) # {}
    \/ loop[c] \in Ended

\* The deadline of the message context: the handler returns when it is reached.
NoDeadline(c, m) == FALSE
AtDeadline(c, m) == age[c][m] >= ProcessingTimeout

Tick ==
    /\ \A c \in Consumers : Blocked(c)
    /\ \A c \in Consumers, m \in Messages :
          /\ task[c][m] # "acking"
          /\ task[c][m] = "handling" => ~AtDeadline(c, m)
    /\ idle' = [m \in Messages |->
                   IF m \in pending /\ idle[m] < IdleTimeout THEN idle[m] + 1
                   ELSE idle[m]]
    /\ age' = [c \in Consumers |-> [m \in Messages |->
                   IF task[c][m] = "handling" /\ age[c][m] < ProcessingTimeout
                   THEN age[c][m] + 1 ELSE age[c][m]]]
    /\ loop' = [c \in Consumers |->
                   IF loop[c] = "read" /\ group THEN "claim" ELSE loop[c]]
    /\ UNCHANGED <<group, added, groupExists, lastId, pending, cursor, startVars, task,
                   ctxDone, succeeded, faults>>

----------------------------------------------------------------------------
LoopStep(c) ==
    \/ CreateGroup(c)
    \/ GroupExists(c)
    \/ CreateFails(c)
    \/ ResolveStartID(c)
    \/ LoopEnds(c)
    \/ Claim(c)
    \/ Read(c)
    \/ Start(c)
    \/ Reject(c)
    \/ BatchEnds(c)
    \/ Returns(c)

Progress(c, m) == HandlerSucceeds(c, m) \/ Ack(c, m)

Next ==
    \/ Add
    \/ Tick
    \/ \E c \in Consumers :
          \/ CtxDone(c)
          \/ LoopStep(c)
          \/ ServerFails(c)
          \/ ReplyLost(c)
          \/ Crash(c)
          \/ \E m \in Messages :
                \/ Progress(c, m)
                \/ HandlerFails(c, m)
                \/ AckFails(c, m)

Spec == Init /\ [][Next]_vars

(***************************************************************************)
(* Fairness: time passes and goroutines that can run do.  A handler that   *)
(* is not failed by one of the MaxFaults faults succeeds in the end.       *)
(***************************************************************************)
Fairness ==
    /\ WF_vars(Tick)
    /\ \A c \in Consumers :
          /\ WF_vars(LoopStep(c))
          /\ \A m \in Messages : WF_vars(Progress(c, m))

FairSpec == Spec /\ Fairness

----------------------------------------------------------------------------
\* "otherwise another consumer could claim a message that is still being
\* processed" (subscriber.go): with the processing timeout that NewRedisSubscriber
\* demands, no message whose handler runs, or whose ack is under way, is idle for
\* so long that XAUTOCLAIM hands it out again.
NotClaimableWhileProcessed ==
    \A c \in Consumers, m \in Messages :
        task[c][m] \in {"handling", "acking"} /\ m \in pending => idle[m] < IdleTimeout

\* At-least-once: a message that was delivered leaves the pending list only after
\* a handler succeeded with it, whatever fails, crashes or is claimed meanwhile.
LeavesOnlyAfterSuccess ==
    \A c \in Consumers : groupExists =>
        \A m \in origin[c] + 1 .. lastId : m \in pending \cup succeeded

\* "so the messages added between two reads are not skipped" (subscriber.go): a
\* consumer without a group dispatches every message added after it has resolved
\* its start, each once, up to its position; and none before the start.
ReadsEachOnce ==
    \A c \in Consumers, m \in Messages : ~group /\ loop[c] # "crashed" =>
        /\ m <= origin[c] => task[c][m] = "none"
        /\ m \in origin[c] + 1 .. startID[c] => task[c][m] \in {"handling", "acking", "done"}
        /\ m > startID[c] => task[c][m] \in {"none", "batch"}

\* Receive returns once its context is done: it waits for one blocking read and
\* for the handlers in flight, and for nothing else.
ShutdownCompletes ==
    \A c \in Consumers : ctxDone[c] ~> loop[c] \in Ended

\* As long as one consumer stays in its loop, every message added after the start
\* is dealt with.  With a group it is in the end acked after a handler succeeded
\* with it, although it may be nacked, its ack or the reply that carries it may be
\* lost, and the consumer that read it may crash or stop; without one the consumer
\* dispatches it.
DealtWith(c, m) ==
    IF group THEN m <= lastId /\ m \notin pending ELSE m <= startID[c]

EventuallyAcked ==
    \A c \in Stable, m \in Messages :
        (loop[c] \in InLoop /\ origin[c] < m /\ m <= added) ~> DealtWith(c, m)
=============================================================================
