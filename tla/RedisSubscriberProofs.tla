----------------------- MODULE RedisSubscriberProofs -----------------------
(***************************************************************************)
(* Theorems about RedisSubscriber.tla, for any number of consumers and     *)
(* messages, every batch size, limit and timeout, and any number of        *)
(* faults.                                                                 *)
(***************************************************************************)
EXTENDS RedisSubscriber, TLAPS, FiniteSetTheorems

(***************************************************************************)
(* The inductive invariant.  With a group, nothing leaves the pending list *)
(* but by an XACK, so it is enough to know whose acks are sent.  Without   *)
(* one, startID = msg.ID skips nothing only because Dispatch is called in  *)
(* the order of the IDs, with batches that leave no gap behind startID.    *)
(***************************************************************************)

\* A message is acked only when a handler has succeeded with it.
AcksFollowSuccess ==
    \A c \in Consumers, m \in Messages : task[c][m] = "acking" => m \in succeeded

\* What a consumer has in hand was added, and it has nothing before its first read.
TasksAreAdded ==
    \A c \in Consumers, m \in Messages :
        task[c][m] # "none" => m <= added /\ loop[c] # "create"

\* A group is created before anything of it is read.
GroupIsThere ==
    /\ ~groupExists => pending = {}
    /\ \A c \in Consumers : group /\ loop[c] \in InLoop => groupExists

\* Without a group nothing is claimed, and a position never lies before the start.
AloneInPlace ==
    ~group => \A c \in Consumers :
        /\ loop[c] \notin {"claim", "dispatchClaimed"}
        /\ origin[c] <= startID[c]

\* A batch begins right after the position and has no gap.
BatchHasNoGap ==
    ~group => \A c \in Consumers, m \in Messages :
        task[c][m] = "batch" => \A k \in startID[c] + 1 .. m : task[c][k] = "batch"

IInv ==
    /\ TypeOK
    /\ AcksFollowSuccess
    /\ TasksAreAdded
    /\ GroupIsThere
    /\ AloneInPlace
    /\ BatchHasNoGap
    /\ LeavesOnlyAfterSuccess
    /\ ReadsEachOnce

----------------------------------------------------------------------------
\* Lemmas on sets of numbers.

\* A set of natural numbers has a least element.
LEMMA LeastNatural ==
    ASSUME NEW S \in SUBSET Nat, S # {}
    PROVE  \E x \in S : \A y \in S : x <= y
<1> DEFINE R == OpToRel(<, Nat)
<1>1. \A x, y \in Nat : <<x, y>> \in R <=> x < y
    BY DEF OpToRel
<1>2. \E x \in S : \A y \in S : <<y, x>> \notin R
    <2> HIDE DEF R
    <2>1. IsWellFoundedOn(R, Nat)
        BY NatLessThanWellFounded DEF R
    <2>2. QED
        BY <2>1, WFMin, Zenon
<1>3. PICK x \in S : \A y \in S : <<y, x>> \notin R
    BY <1>2, Zenon
<1>4. ASSUME NEW y \in S PROVE x <= y
    <2>1. x \in Nat /\ y \in Nat
        OBVIOUS
    <2>2. ~(y < x)
        <3> HIDE DEF R
        <3>1. QED
            BY <1>1, <1>3, <2>1
    <2>3. QED
        BY <2>1, <2>2
<1>5. QED
    BY <1>4, Zenon

\* Min of a set of natural numbers is its least element.
LEMMA MinIsLeast ==
    ASSUME NEW S \in SUBSET Nat, S # {}
    PROVE  Min(S) \in S /\ \A y \in S : Min(S) <= y
<1>1. \E x \in S : \A y \in S : x <= y
    BY LeastNatural
<1>2. QED
    BY <1>1 DEF Min

\* Max of a bounded set of natural numbers is its greatest element.
LEMMA MaxIsGreatest ==
    ASSUME NEW b \in Nat, NEW S \in SUBSET (0 .. b), S # {}
    PROVE  Max(S) \in S /\ \A y \in S : Max(S) >= y
<1> DEFINE T == {b - x : x \in S}
<1>1. T \in SUBSET Nat /\ T # {}
    <2>1. \A x \in S : b - x \in Nat
        OBVIOUS
    <2>2. T \in SUBSET Nat
        BY <2>1
    <2>3. QED
        BY <2>2
<1>2. PICK t \in T : \A u \in T : t <= u
    BY <1>1, LeastNatural
<1>3. PICK x \in S : t = b - x
    OBVIOUS
<1>4. \A y \in S : x >= y
    <2>1. TAKE y \in S
    <2>2. b - x <= b - y
        BY <1>2, <1>3
    <2>3. QED
        BY <2>2
<1>5. \E z \in S : \A y \in S : z >= y
    BY <1>4
<1>6. QED
    BY <1>5 DEF Max

\* The first n numbers of an interval are an interval with the same beginning.
LEMMA FirstOfInterval ==
    ASSUME NEW n \in Nat \ {0}, NEW a \in Nat, NEW b \in Nat
    PROVE  /\ FirstOf(n, a + 1 .. b) \subseteq a + 1 .. b
           /\ a < b => FirstOf(n, a + 1 .. b) # {}
           /\ \A m \in FirstOf(n, a + 1 .. b) : \A k \in a + 1 .. m :
                 k \in FirstOf(n, a + 1 .. b)
<1> DEFINE U == a + 1 .. b
           Below(m) == {k \in U : k < m}
<1>1. IsFiniteSet(U)
    BY FS_Interval
<1>2. \A m \in U : IsFiniteSet(Below(m)) /\ Cardinality(Below(m)) \in Nat
    BY <1>1, FS_Subset, FS_CardinalityType
<1>3. FirstOf(n, U) = {m \in U : Cardinality(Below(m)) < n}
    BY DEF FirstOf
<1>4. ASSUME a < b PROVE FirstOf(n, U) # {}
    <2>1. a + 1 \in U /\ Below(a + 1) = {}
        BY <1>4
    <2>2. Cardinality(Below(a + 1)) = 0
        BY <2>1, FS_EmptySet
    <2>3. QED
        <3> HIDE DEF U, Below
        <3>1. QED
            BY <1>3, <2>1, <2>2
<1>5. ASSUME NEW m \in FirstOf(n, U), NEW k \in a + 1 .. m
      PROVE  k \in FirstOf(n, U)
    <2>1. m \in U /\ Cardinality(Below(m)) < n
        BY <1>3
    <2>2. k \in U /\ Below(k) \subseteq Below(m)
        BY <2>1
    <2>3. Cardinality(Below(k)) <= Cardinality(Below(m))
        BY <1>2, <2>1, <2>2, FS_Subset
    <2>4. QED
        <3> HIDE DEF U, Below
        <3>1. QED
            BY <1>2, <1>3, <2>1, <2>2, <2>3
<1>6. QED
    BY <1>3, <1>4, <1>5

----------------------------------------------------------------------------
\* Lemmas on the sets of the model.

\* What c has read up to: the group, or c itself.
Position(c) == IF group THEN lastId ELSE startID[c]

\* A read returns what follows the position, without a gap; with a group the new
\* position is the last message of it.
LEMMA ReadFacts ==
    ASSUME TypeOK, NEW c \in Consumers
    PROVE  /\ Position(c) \in 0 .. added
           /\ Position(c) \in Nat
           /\ ReadNow(c) \subseteq Position(c) + 1 .. added
           /\ ReadNow(c) \subseteq Messages
           /\ \A m \in ReadNow(c) : \A k \in Position(c) + 1 .. m : k \in ReadNow(c)
           /\ Unread(c) # {} => /\ Max(ReadNow(c)) \in ReadNow(c)
                                /\ \A m \in ReadNow(c) : m <= Max(ReadNow(c))
                                /\ Max(ReadNow(c)) \in Position(c) + 1 .. added
<1>1. added \in 0 .. N /\ added \in Nat /\ N \in Nat /\ MaxInFlight \in Nat \ {0}
    BY SizeAssumption DEF TypeOK
<1>2. Position(c) \in 0 .. added /\ Position(c) \in Nat
    BY <1>1 DEF TypeOK, Position
<1>3. Unread(c) = Position(c) + 1 .. added
    BY DEF Unread, Position
<1>4. ReadNow(c) = FirstOf(MaxInFlight, Position(c) + 1 .. added)
    BY <1>3 DEF ReadNow
<1>5. /\ ReadNow(c) \subseteq Position(c) + 1 .. added
      /\ Position(c) < added => ReadNow(c) # {}
      /\ \A m \in ReadNow(c) : \A k \in Position(c) + 1 .. m : k \in ReadNow(c)
    <2> HIDE DEF Position
    <2>1. QED
        BY <1>1, <1>2, <1>4, FirstOfInterval
<1>6. ReadNow(c) \subseteq Messages /\ ReadNow(c) \subseteq 0 .. added
    BY <1>1, <1>2, <1>5 DEF Messages
<1>7. ASSUME Unread(c) # {}
      PROVE  /\ Max(ReadNow(c)) \in ReadNow(c)
             /\ \A m \in ReadNow(c) : m <= Max(ReadNow(c))
             /\ Max(ReadNow(c)) \in Position(c) + 1 .. added
    <2>1. ReadNow(c) # {}
        BY <1>1, <1>2, <1>3, <1>5, <1>7
    <2>2. Max(ReadNow(c)) \in ReadNow(c) /\ \A m \in ReadNow(c) : Max(ReadNow(c)) >= m
        BY <1>1, <1>6, <2>1, MaxIsGreatest
    <2>3. QED
        BY <1>1, <1>5, <1>6, <2>2
<1>8. QED
    BY <1>2, <1>5, <1>6, <1>7

\* The first message of a batch is one of it.
LEMMA BatchFacts ==
    ASSUME TypeOK, NEW c \in Consumers, Batch(c) # {}
    PROVE  /\ Min(Batch(c)) \in Messages
           /\ task[c][Min(Batch(c))] = "batch"
           /\ \A m \in Batch(c) : Min(Batch(c)) <= m
<1>1. Batch(c) \in SUBSET Nat
    BY SizeAssumption DEF Batch, Messages
<1>2. Min(Batch(c)) \in Batch(c) /\ \A m \in Batch(c) : Min(Batch(c)) <= m
    BY <1>1, MinIsLeast
<1>3. QED
    BY <1>2 DEF Batch

\* The cursor stays among the messages.
LEMMA CursorType ==
    ASSUME TypeOK, NEW s \in SUBSET Messages
    PROVE  NextCursor(s) \in Messages
<1> DEFINE rest == {m \in pending : \A k \in s : m > k}
<1>1. 1 \in Messages /\ pending \subseteq Messages /\ Messages \subseteq Nat
    BY SizeAssumption DEF TypeOK, Messages
<1>2. rest # {} => Min(rest) \in rest
    BY <1>1, MinIsLeast
<1>3. NextCursor(s) \in {1, Min(rest)} /\ (rest = {} => NextCursor(s) = 1)
    BY DEF NextCursor
<1>4. QED
    BY <1>1, <1>2, <1>3

----------------------------------------------------------------------------
\* Initially the invariant holds.
LEMMA InitIInv == Init => IInv
<1>1. SUFFICES ASSUME Init PROVE IInv
    OBVIOUS
<1>2. TypeOK
    <2>1. 1 \in Messages
        BY SizeAssumption DEF Messages
    <2>2. "none" \in Task /\ "create" \in Loop
        BY DEF Task, Loop
    <2>3. 0 \in 0 .. IdleTimeout /\ 0 \in 0 .. ProcessingTimeout /\ 0 \in 0 .. MaxFaults
        BY SizeAssumption, TimeoutAssumption
    <2>4. added \in 0 .. N /\ lastId \in 0 .. added /\ 0 \in 0 .. added
        BY <1>1, SizeAssumption DEF Init
    <2>5. QED
        BY <1>1, <2>1, <2>2, <2>3, <2>4 DEF Init, TypeOK
<1>3. /\ AcksFollowSuccess /\ TasksAreAdded
      /\ GroupIsThere /\ AloneInPlace /\ BatchHasNoGap
    BY <1>1
    DEF Init, AcksFollowSuccess, TasksAreAdded, GroupIsThere, AloneInPlace, BatchHasNoGap,
        InLoop
<1>4. LeavesOnlyAfterSuccess
    BY <1>1 DEF Init, LeavesOnlyAfterSuccess
<1>5. ReadsEachOnce
    BY <1>1, SizeAssumption DEF Init, ReadsEachOnce, Messages
<1>6. QED
    BY <1>2, <1>3, <1>4, <1>5 DEF IInv

----------------------------------------------------------------------------
\* What the helpers of the actions leave in the variables.

\* The values loop and task may take.
LEMMA Values ==
    /\ \A l \in {"create", "claim", "dispatchClaimed", "read", "dispatchRead", "waiting",
                 "returned", "failed", "crashed"} : l \in Loop
    /\ \A t \in {"none", "batch", "handling", "acking", "done"} : t \in Task
BY DEF Loop, InLoop, Ended, Task

\* SetLoop writes one entry of loop.
LEMMA LoopSet ==
    ASSUME loop \in [Consumers -> Loop], NEW c \in Consumers, NEW l \in Loop, SetLoop(c, l)
    PROVE  /\ loop' \in [Consumers -> Loop]
           /\ \A k \in Consumers : loop'[k] = IF k = c THEN l ELSE loop[k]
BY DEF SetLoop

\* SetTask writes one entry of task.
LEMMA TaskSet ==
    ASSUME task \in [Consumers -> [Messages -> Task]],
           NEW c \in Consumers, NEW m \in Messages, NEW t \in Task, SetTask(c, m, t)
    PROVE  /\ task' \in [Consumers -> [Messages -> Task]]
           /\ \A k \in Consumers, n \in Messages :
                 task'[k][n] = IF k = c /\ n = m THEN t ELSE task[k][n]
BY DEF SetTask

\* Finish leaves a message that the server may give again, or one that is done.
LEMMA TaskFinished ==
    ASSUME task \in [Consumers -> [Messages -> Task]],
           NEW c \in Consumers, NEW m \in Messages, Finish(c, m)
    PROVE  /\ task' \in [Consumers -> [Messages -> Task]]
           /\ \A k \in Consumers, n \in Messages :
                 task'[k][n] = IF k = c /\ n = m
                               THEN IF group THEN "none" ELSE "done" ELSE task[k][n]
<1>1. (IF group THEN "none" ELSE "done") \in Task
    BY Values
<1>2. SetTask(c, m, IF group THEN "none" ELSE "done")
    BY DEF Finish
<1>3. QED
    BY <1>1, <1>2, TaskSet

\* The server hands out messages.
LEMMA MessagesAssigned ==
    ASSUME TypeOK, NEW s \in SUBSET Messages, Assigns(s)
    PROVE  /\ idle' \in [Messages -> 0 .. IdleTimeout]
           /\ pending' = IF group THEN pending \cup s ELSE pending
<1>1. 0 \in 0 .. IdleTimeout
    BY TimeoutAssumption
<1>2. QED
    BY <1>1 DEF Assigns, TypeOK

\* They are then in the batch of one consumer.
LEMMA MessagesDelivered ==
    ASSUME TypeOK, NEW c \in Consumers, NEW s \in SUBSET Messages, Delivers(c, s)
    PROVE  /\ Assigns(s)
           /\ task' \in [Consumers -> [Messages -> Task]]
           /\ \A k \in Consumers, n \in Messages :
                 task'[k][n] = IF k = c /\ n \in s THEN "batch" ELSE task[k][n]
<1>1. task \in [Consumers -> [Messages -> Task]] /\ "batch" \in Task
    BY Values DEF TypeOK
<1>2. [m \in Messages |-> IF m \in s THEN "batch" ELSE task[c][m]] \in [Messages -> Task]
    BY <1>1
<1>3. task' = [task EXCEPT ![c] = [m \in Messages |-> IF m \in s THEN "batch" ELSE task[c][m]]]
    BY <1>1 DEF Delivers
<1>4. QED
    BY <1>1, <1>2, <1>3 DEF Delivers

\* What is claimed is pending.
LEMMA ClaimedFacts ==
    ASSUME TypeOK, NEW c \in Consumers
    PROVE  Claimed(c) \subseteq pending /\ Claimed(c) \in SUBSET Messages
<1>1. Claimed(c) \subseteq pending
    BY DEF Claimed, FirstOf
<1>2. pending \subseteq Messages
    BY SizeAssumption DEF TypeOK, Messages
<1>3. QED
    BY <1>1, <1>2

\* So XAUTOCLAIM adds nothing to the pending list.
LEMMA ClaimedAssigned ==
    ASSUME TypeOK, NEW c \in Consumers, Assigns(Claimed(c))
    PROVE  idle' \in [Messages -> 0 .. IdleTimeout] /\ pending' = pending
<1>1. Claimed(c) \subseteq pending /\ Claimed(c) \in SUBSET Messages
    BY ClaimedFacts
<1>2. /\ idle' \in [Messages -> 0 .. IdleTimeout]
      /\ pending' = IF group THEN pending \cup Claimed(c) ELSE pending
    BY <1>1, MessagesAssigned
<1>3. QED
    BY <1>1, <1>2

----------------------------------------------------------------------------
\* The types of the variables are kept by every step.

\* Where only loop, or nothing, changes.
LEMMA TypeLoopStep ==
    ASSUME TypeOK, NEW c \in Consumers, NEW l \in Loop, SetLoop(c, l),
           UNCHANGED <<serverVars, cursor, startVars, taskVars, ctxDone, succeeded>>,
           faults' \in 0 .. MaxFaults
    PROVE  TypeOK'
<1>1. loop' \in [Consumers -> Loop]
    BY LoopSet DEF TypeOK
<1>2. QED
    BY <1>1 DEF TypeOK, serverVars, groupVars, startVars, taskVars

\* Where messages are read, with or without their reply.
LEMMA ReadType ==
    ASSUME TypeOK, NEW c \in Consumers, Unread(c) # {}, Assigns(ReadNow(c)),
           lastId' = IF group THEN Max(ReadNow(c)) ELSE lastId,
           UNCHANGED <<group, added, groupExists>>
    PROVE  /\ lastId' \in 0 .. added'
           /\ pending' \subseteq 1 .. lastId'
           /\ idle' \in [Messages -> 0 .. IdleTimeout]
<1>1. /\ ReadNow(c) \in SUBSET Messages
      /\ ReadNow(c) \subseteq Position(c) + 1 .. added
      /\ \A m \in ReadNow(c) : m <= Max(ReadNow(c))
      /\ Max(ReadNow(c)) \in Position(c) + 1 .. added
      /\ Position(c) \in Nat
    BY ReadFacts
<1>2. /\ idle' \in [Messages -> 0 .. IdleTimeout]
      /\ pending' = IF group THEN pending \cup ReadNow(c) ELSE pending
    BY <1>1, MessagesAssigned
<1>3. added \in Nat /\ lastId \in 0 .. added /\ pending \subseteq 1 .. lastId
    BY SizeAssumption DEF TypeOK
<1>4. CASE group
    <2>1. Position(c) = lastId
        BY <1>4 DEF Position
    <2>2. lastId' = Max(ReadNow(c)) /\ pending' = pending \cup ReadNow(c)
        BY <1>2, <1>4
    <2>3. lastId' \in 0 .. added' /\ lastId <= lastId'
        BY <1>1, <1>3, <2>1, <2>2
    <2>4. \A m \in ReadNow(c) : m \in 1 .. lastId'
        BY <1>1, <1>3, <2>1, <2>2
    <2>5. \A m \in pending : m \in 1 .. lastId'
        BY <1>3, <2>3
    <2>6. QED
        BY <1>2, <2>2, <2>3, <2>4, <2>5
<1>5. CASE ~group
    BY <1>2, <1>3, <1>5
<1>6. QED
    BY <1>4, <1>5

\* Every step: a position never leaves the stream, since what a consumer has in
\* hand was added.
LEMMA TypeStep ==
    ASSUME TypeOK, TasksAreAdded, GroupIsThere, [Next]_vars
    PROVE  TypeOK'
<1>1. CASE Add
    <2>1. added' \in 0 .. N /\ 0 .. added \subseteq 0 .. added'
        BY <1>1, SizeAssumption DEF Add, TypeOK
    <2>2. lastId' \in 0 .. added'
        BY <1>1, <2>1 DEF Add, TypeOK, groupVars
    <2>3. startID' \in [Consumers -> 0 .. added'] /\ origin' \in [Consumers -> 0 .. added']
        BY <1>1, <2>1 DEF Add, TypeOK, loopVars, startVars
    <2>4. QED
        BY <1>1, <2>1, <2>2, <2>3
        DEF Add, TypeOK, groupVars, loopVars, startVars, taskVars
<1>2. CASE Tick
    <2>1. idle' \in [Messages -> 0 .. IdleTimeout]
        BY <1>2, TimeoutAssumption DEF Tick, TypeOK
    <2>2. age' \in [Consumers -> [Messages -> 0 .. ProcessingTimeout]]
        BY <1>2, TimeoutAssumption DEF Tick, TypeOK
    <2>3. loop' \in [Consumers -> Loop]
        BY <1>2, Values DEF Tick, TypeOK
    <2>4. QED
        BY <1>2, <2>1, <2>2, <2>3 DEF Tick, TypeOK, startVars
<1>3. ASSUME NEW c \in Consumers, CtxDone(c) PROVE TypeOK'
    BY <1>3 DEF CtxDone, TypeOK, serverVars, groupVars, loopVars, startVars, taskVars
<1>4. ASSUME NEW c \in Consumers, CreateGroup(c) PROVE TypeOK'
    <2>1. loop' \in [Consumers -> Loop]
        BY <1>4, LoopSet, Values DEF CreateGroup, TypeOK
    <2>2. PICK position \in StartPositions :
              lastId' = position /\ origin' = [k \in Consumers |-> position]
        BY <1>4 DEF CreateGroup
    <2>3. position \in 0 .. added
        BY <2>2, SizeAssumption DEF StartPositions, TypeOK
    <2>4. pending' = {}
        BY <1>4 DEF CreateGroup, GroupIsThere
    <2>5. QED
        BY <1>4, <2>1, <2>2, <2>3, <2>4 DEF CreateGroup, TypeOK, taskVars
<1>5. ASSUME NEW c \in Consumers, GroupExists(c) PROVE TypeOK'
    BY <1>5, Values, TypeLoopStep DEF GroupExists, TypeOK
<1>6. ASSUME NEW c \in Consumers, CreateFails(c) PROVE TypeOK'
    BY <1>6, Values, TypeLoopStep DEF CreateFails, TypeOK
<1>7. ASSUME NEW c \in Consumers, ResolveStartID(c) PROVE TypeOK'
    <2>1. loop' \in [Consumers -> Loop]
        BY <1>7, LoopSet, Values DEF ResolveStartID, TypeOK
    <2>2. PICK position \in StartPositions :
              /\ startID' = [startID EXCEPT ![c] = position]
              /\ origin' = [origin EXCEPT ![c] = position]
        BY <1>7 DEF ResolveStartID
    <2>3. position \in 0 .. added
        BY <2>2, SizeAssumption DEF StartPositions, TypeOK
    <2>4. QED
        BY <1>7, <2>1, <2>2, <2>3 DEF ResolveStartID, TypeOK, serverVars, groupVars, taskVars
<1>8. ASSUME NEW c \in Consumers, LoopEnds(c) PROVE TypeOK'
    BY <1>8, Values, TypeLoopStep DEF LoopEnds, TypeOK
<1>9. ASSUME NEW c \in Consumers, BatchEnds(c) PROVE TypeOK'
    BY <1>9, Values, TypeLoopStep DEF BatchEnds, TypeOK
<1>10. ASSUME NEW c \in Consumers, Returns(c) PROVE TypeOK'
    BY <1>10, Values, TypeLoopStep DEF Returns, TypeOK
<1>11. ASSUME NEW c \in Consumers, ServerFails(c) PROVE TypeOK'
    <2>1. faults' \in 0 .. MaxFaults
        BY <1>11, SizeAssumption DEF ServerFails, Fault, TypeOK
    <2>2. QED
        BY <1>11, <2>1, Values, TypeLoopStep DEF ServerFails
<1>12. ASSUME NEW c \in Consumers, Claim(c) PROVE TypeOK'
    <2>1. Claimed(c) \subseteq pending /\ Claimed(c) \in SUBSET Messages
        BY ClaimedFacts
    <2>2. NextCursor(Claimed(c)) \in Messages
        BY <2>1, CursorType
    <2>3. Assigns(Claimed(c)) /\ task' \in [Consumers -> [Messages -> Task]]
        BY <1>12, <2>1, MessagesDelivered DEF Claim
    <2>4. idle' \in [Messages -> 0 .. IdleTimeout] /\ pending' = pending
        BY <2>3, ClaimedAssigned
    <2>5. loop' \in [Consumers -> Loop]
        BY <1>12, LoopSet, Values DEF Claim, TypeOK
    <2>6. QED
        BY <1>12, <2>2, <2>3, <2>4, <2>5 DEF Claim, TypeOK, startVars
<1>13. ASSUME NEW c \in Consumers, Read(c) PROVE TypeOK'
    <2>1. ReadNow(c) \in SUBSET Messages
        BY ReadFacts
    <2>2. Assigns(ReadNow(c)) /\ task' \in [Consumers -> [Messages -> Task]]
        BY <1>13, <2>1, MessagesDelivered DEF Read
    <2>3. /\ lastId' \in 0 .. added'
          /\ pending' \subseteq 1 .. lastId'
          /\ idle' \in [Messages -> 0 .. IdleTimeout]
        BY <1>13, <2>2, ReadType DEF Read
    <2>4. loop' \in [Consumers -> Loop]
        BY <1>13, LoopSet, Values DEF Read, TypeOK
    <2>5. QED
        BY <1>13, <2>2, <2>3, <2>4 DEF Read, TypeOK, startVars
<1>14. ASSUME NEW c \in Consumers, NEW m \in Messages, task[c][m] = "batch", Advances(c, m)
       PROVE  startID' \in [Consumers -> 0 .. added]
    <2>1. m \in 0 .. added
        BY <1>14, SizeAssumption DEF TasksAreAdded, TypeOK, Messages
    <2>2. QED
        BY <1>14, <2>1 DEF Advances, TypeOK
<1>15. ASSUME NEW c \in Consumers, Start(c) PROVE TypeOK'
    <2>1. Min(Batch(c)) \in Messages /\ task[c][Min(Batch(c))] = "batch"
        BY <1>15, BatchFacts DEF Start
    <2>2. startID' \in [Consumers -> 0 .. added]
        BY <1>14, <1>15, <2>1 DEF Start
    <2>3. task' \in [Consumers -> [Messages -> Task]]
        BY <1>15, <2>1, TaskSet, Values DEF Start, TypeOK
    <2>4. 0 \in 0 .. ProcessingTimeout
        BY TimeoutAssumption
    <2>5. age' \in [Consumers -> [Messages -> 0 .. ProcessingTimeout]]
        BY <1>15, <2>1, <2>4 DEF Start, TypeOK
    <2>6. QED
        BY <1>15, <2>2, <2>3, <2>5 DEF Start, Advances, TypeOK, serverVars, groupVars
<1>16. ASSUME NEW c \in Consumers, Reject(c) PROVE TypeOK'
    <2>1. Min(Batch(c)) \in Messages /\ task[c][Min(Batch(c))] = "batch"
        BY <1>16, BatchFacts DEF Reject
    <2>2. startID' \in [Consumers -> 0 .. added]
        BY <1>14, <1>16, <2>1 DEF Reject
    <2>3. task' \in [Consumers -> [Messages -> Task]]
        BY <1>16, <2>1, TaskFinished DEF Reject, TypeOK
    <2>4. QED
        BY <1>16, <2>2, <2>3 DEF Reject, Advances, TypeOK, serverVars, groupVars
<1>17. ASSUME NEW c \in Consumers, ReplyLost(c) PROVE TypeOK'
    <2>1. loop' \in [Consumers -> Loop] /\ faults' \in 0 .. MaxFaults
        BY <1>17, LoopSet, Values, SizeAssumption DEF ReplyLost, Fault, TypeOK
    <2>2. CASE Assigns(Claimed(c)) /\ UNCHANGED lastId
        <3>1. idle' \in [Messages -> 0 .. IdleTimeout] /\ pending' = pending
            BY <2>2, ClaimedAssigned
        <3>2. QED
            BY <1>17, <2>1, <2>2, <3>1 DEF ReplyLost, TypeOK, startVars, taskVars
    <2>3. CASE Unread(c) # {} /\ Assigns(ReadNow(c)) /\ lastId' = Max(ReadNow(c))
        <3>1. /\ lastId' \in 0 .. added'
              /\ pending' \subseteq 1 .. lastId'
              /\ idle' \in [Messages -> 0 .. IdleTimeout]
            BY <1>17, <2>3, ReadType DEF ReplyLost
        <3>2. QED
            BY <1>17, <2>1, <3>1 DEF ReplyLost, TypeOK, startVars, taskVars
    <2>4. QED
        BY <1>17, <2>2, <2>3 DEF ReplyLost
<1>18. ASSUME NEW c \in Consumers, Crash(c) PROVE TypeOK'
    <2>1. loop' \in [Consumers -> Loop] /\ faults' \in 0 .. MaxFaults
        BY <1>18, LoopSet, Values, SizeAssumption DEF Crash, Fault, TypeOK
    <2>2. task' \in [Consumers -> [Messages -> Task]]
        BY <1>18, Values DEF Crash, TypeOK
    <2>3. QED
        BY <1>18, <2>1, <2>2 DEF Crash, TypeOK, serverVars, groupVars, startVars
<1>19. ASSUME NEW c \in Consumers, NEW m \in Messages, HandlerSucceeds(c, m) PROVE TypeOK'
    <2>1. task' \in [Consumers -> [Messages -> Task]]
        BY <1>19, TaskSet, Values DEF HandlerSucceeds, TypeOK
    <2>2. QED
        BY <1>19, <2>1
        DEF HandlerSucceeds, TypeOK, serverVars, groupVars, loopVars, startVars
<1>20. ASSUME NEW c \in Consumers, NEW m \in Messages, Ack(c, m) PROVE TypeOK'
    <2>1. task' \in [Consumers -> [Messages -> Task]]
        BY <1>20, TaskFinished DEF Ack, TypeOK
    <2>2. QED
        BY <1>20, <2>1 DEF Ack, TypeOK, loopVars, startVars
<1>21. ASSUME NEW c \in Consumers, NEW m \in Messages,
              HandlerFails(c, m) \/ AckFails(c, m)
       PROVE  TypeOK'
    <2>1. Finish(c, m) /\ Fault
          /\ UNCHANGED <<serverVars, loopVars, age, ctxDone, succeeded>>
        BY <1>21 DEF HandlerFails, AckFails
    <2>2. task' \in [Consumers -> [Messages -> Task]]
        BY <2>1, TaskFinished DEF TypeOK
    <2>3. faults' \in 0 .. MaxFaults
        BY <2>1, SizeAssumption DEF Fault, TypeOK
    <2>4. QED
        BY <2>1, <2>2, <2>3
        DEF TypeOK, serverVars, groupVars, loopVars, startVars
<1>22. CASE UNCHANGED vars
    BY <1>22
    DEF vars, TypeOK, serverVars, groupVars, loopVars, startVars, taskVars
<1>23. QED
    BY <1>1, <1>2, <1>3, <1>4, <1>5, <1>6, <1>7, <1>8, <1>9, <1>10, <1>11, <1>12, <1>13,
       <1>15, <1>16, <1>17, <1>18, <1>19, <1>20, <1>21, <1>22
    DEF Next, LoopStep, Progress

----------------------------------------------------------------------------
\* What a step does to the tasks.

\* The steps of which only one task is moved, and those that move none, named for
\* what the invariants need to know of them.
LEMMA TaskStep ==
    ASSUME IInv, [Next]_vars, NEW c \in Consumers, NEW m \in Messages
    PROVE  \/ task'[c][m] = task[c][m]
           \/ task'[c][m] = "none" /\ loop'[c] = "crashed"
           \/ task'[c][m] = "none" /\ group
           \/ task'[c][m] = "done" /\ task[c][m] \in {"batch", "handling", "acking"} /\ ~group
           \/ task'[c][m] = "acking" /\ task[c][m] = "handling" /\ m \in succeeded'
           \/ task'[c][m] = "handling" /\ task[c][m] = "batch"
           \/ task'[c][m] = "batch" /\ m <= added /\ loop'[c] # "create"
<1>1. CASE task' = task
    BY <1>1
<1>2. ASSUME NEW k \in Consumers, Claim(k) \/ Read(k)
      PROVE  task'[c][m] = task[c][m]
             \/ (task'[c][m] = "batch" /\ m <= added /\ loop'[c] # "create")
    <2>1. PICK s \in SUBSET Messages : Delivers(k, s) /\ \A n \in s : n <= added
        <3>1. Claimed(k) \in SUBSET Messages /\ \A n \in Claimed(k) : n <= added
            <4>1. Claimed(k) \subseteq pending /\ Claimed(k) \in SUBSET Messages
                BY ClaimedFacts DEF IInv
            <4>2. pending \subseteq 1 .. lastId /\ lastId \in 0 .. added /\ added \in Nat
                BY SizeAssumption DEF IInv, TypeOK
            <4>3. \A n \in pending : n <= added
                BY <4>2
            <4>4. QED
                BY <4>1, <4>3
        <3>2. ReadNow(k) \in SUBSET Messages /\ \A n \in ReadNow(k) : n <= added
            BY ReadFacts, SizeAssumption DEF IInv, TypeOK
        <3>3. Delivers(k, Claimed(k)) \/ Delivers(k, ReadNow(k))
            BY <1>2 DEF Claim, Read
        <3>4. QED
            BY <3>1, <3>2, <3>3
    <2>2. task'[c][m] = IF c = k /\ m \in s THEN "batch" ELSE task[c][m]
        BY <2>1, MessagesDelivered DEF IInv
    <2>3. loop'[k] # "create"
        BY <1>2, LoopSet, Values DEF Claim, Read, IInv, TypeOK
    <2>4. QED
        BY <2>1, <2>2, <2>3
<1>3. ASSUME NEW k \in Consumers, Start(k)
      PROVE  task'[c][m] = task[c][m]
             \/ (task'[c][m] = "handling" /\ task[c][m] = "batch")
    <2>1. Min(Batch(k)) \in Messages /\ task[k][Min(Batch(k))] = "batch"
        BY <1>3, BatchFacts DEF Start, IInv
    <2>2. SetTask(k, Min(Batch(k)), "handling")
        BY <1>3 DEF Start
    <2>3. QED
        BY <2>1, <2>2, TaskSet, Values DEF IInv, TypeOK
<1>4. ASSUME NEW k \in Consumers, NEW n \in Messages, Finish(k, n),
             task[k][n] \in {"batch", "handling", "acking"}
      PROVE  \/ task'[c][m] = task[c][m]
             \/ task'[c][m] = "none" /\ group
             \/ /\ task'[c][m] = "done"
                /\ task[c][m] \in {"batch", "handling", "acking"}
                /\ ~group
    BY <1>4, TaskFinished DEF IInv, TypeOK
<1>5. ASSUME NEW k \in Consumers, Reject(k)
      PROVE  \E n \in Messages : Finish(k, n) /\ task[k][n] \in {"batch", "handling", "acking"}
    BY <1>5, BatchFacts DEF Reject, IInv
<1>6. ASSUME NEW k \in Consumers, NEW n \in Messages,
             Ack(k, n) \/ HandlerFails(k, n) \/ AckFails(k, n)
      PROVE  Finish(k, n) /\ task[k][n] \in {"batch", "handling", "acking"}
    BY <1>6 DEF Ack, HandlerFails, AckFails
<1>7. ASSUME NEW k \in Consumers, NEW n \in Messages, HandlerSucceeds(k, n)
      PROVE  task'[c][m] = task[c][m]
             \/ (task'[c][m] = "acking" /\ task[c][m] = "handling" /\ m \in succeeded')
    <2>1. /\ SetTask(k, n, "acking")
          /\ task[k][n] = "handling"
          /\ succeeded' = succeeded \cup {n}
        BY <1>7 DEF HandlerSucceeds
    <2>2. QED
        BY <2>1, TaskSet, Values DEF IInv, TypeOK
<1>8. ASSUME NEW k \in Consumers, Crash(k)
      PROVE  task'[c][m] = task[c][m] \/ (task'[c][m] = "none" /\ loop'[c] = "crashed")
    <2>1. loop'[k] = "crashed"
        BY <1>8, LoopSet, Values DEF Crash, IInv, TypeOK
    <2>2. task'[c][m] = IF c = k THEN "none" ELSE task[c][m]
        BY <1>8 DEF Crash, IInv, TypeOK
    <2>3. QED
        BY <2>1, <2>2
<1>9. task' = task
      \/ \E k \in Consumers :
            \/ Claim(k) \/ Read(k) \/ Start(k) \/ Reject(k) \/ Crash(k)
            \/ \E n \in Messages : \/ HandlerSucceeds(k, n) \/ Ack(k, n)
                                   \/ HandlerFails(k, n) \/ AckFails(k, n)
    BY DEF Next, LoopStep, Progress, vars, taskVars, Add, Tick, CtxDone, CreateGroup,
           GroupExists, CreateFails, ResolveStartID, LoopEnds, BatchEnds, Returns,
           ServerFails, ReplyLost
<1>10. QED
    BY <1>1, <1>2, <1>3, <1>4, <1>5, <1>6, <1>7, <1>8, <1>9

\* A handler that has succeeded is not forgotten, nor is a message that was added.
LEMMA GrowStep ==
    ASSUME IInv, [Next]_vars
    PROVE  succeeded \subseteq succeeded' /\ added <= added' /\ added \in Nat
<1>1. added \in Nat
    BY SizeAssumption DEF IInv, TypeOK
<1>2. succeeded \subseteq succeeded'
    BY DEF Next, LoopStep, Progress, vars, Add, Tick, CtxDone, CreateGroup,
           GroupExists, CreateFails, ResolveStartID, LoopEnds, BatchEnds, Returns,
           ServerFails, ReplyLost, Claim, Read, Start, Reject, Crash, HandlerSucceeds,
           HandlerFails, Ack, AckFails
<1>3. added' = added \/ added' = added + 1
    BY DEF Next, LoopStep, Progress, vars, serverVars, Add, Tick, CtxDone, CreateGroup,
           GroupExists, CreateFails, ResolveStartID, LoopEnds, BatchEnds, Returns,
           ServerFails, ReplyLost, Claim, Read, Start, Reject, Crash, HandlerSucceeds,
           HandlerFails, Ack, AckFails
<1>4. QED
    BY <1>1, <1>2, <1>3

\* Nothing returns to "create", and what crashed stays so.
LEMMA LoopStepFacts ==
    ASSUME IInv, [Next]_vars, NEW c \in Consumers
    PROVE  /\ loop[c] # "create" => loop'[c] # "create"
           /\ loop[c] = "crashed" => loop'[c] = "crashed"
<1> USE DEF IInv, TypeOK
<1>1. ASSUME NEW k \in Consumers, NEW l \in Loop, SetLoop(k, l), l # "create",
             loop[k] # "crashed"
      PROVE  /\ loop[c] # "create" => loop'[c] # "create"
             /\ loop[c] = "crashed" => loop'[c] = "crashed"
    BY <1>1, LoopSet
<1>2. CASE loop' = loop
    BY <1>2
<1>3. CASE Tick
    BY <1>3 DEF Tick
<1>4. loop' = loop \/ Tick
      \/ \E k \in Consumers, l \in Loop :
            SetLoop(k, l) /\ l # "create" /\ loop[k] # "crashed"
    BY Values
    DEF Next, LoopStep, Progress, vars, loopVars, Add, CtxDone, CreateGroup, GroupExists,
        CreateFails, ResolveStartID, LoopEnds, BatchEnds, Returns, Dispatching, Advances,
        ServerFails, ReplyLost, Claim, Read, Start, Reject, Crash, Ended, HandlerSucceeds,
        HandlerFails, Ack, AckFails
<1>5. QED
    BY <1>1, <1>2, <1>3, <1>4

\* So acks follow success, and tasks are those of messages that were added.
LEMMA TasksStep ==
    ASSUME IInv, [Next]_vars
    PROVE  AcksFollowSuccess' /\ TasksAreAdded'
<1>1. ASSUME NEW c \in Consumers, NEW m \in Messages, task'[c][m] = "acking"
      PROVE  m \in succeeded'
    <2>1. task[c][m] = "acking" \/ m \in succeeded'
        BY <1>1, TaskStep
    <2>2. QED
        BY <2>1, GrowStep DEF IInv, AcksFollowSuccess
<1>2. ASSUME NEW c \in Consumers, NEW m \in Messages, task'[c][m] # "none"
      PROVE  m <= added' /\ loop'[c] # "create"
    <2>1. task[c][m] # "none" \/ (m <= added /\ loop'[c] # "create")
        BY <1>2, TaskStep
    <2>2. m <= added /\ loop'[c] # "create"
        BY <2>1, LoopStepFacts DEF IInv, TasksAreAdded
    <2>3. m \in Nat /\ added' \in Nat /\ added \in Nat /\ added <= added'
        <3>1. TypeOK'
            BY TypeStep DEF IInv
        <3>2. QED
            BY <3>1, GrowStep, SizeAssumption DEF TypeOK, Messages
    <2>4. QED
        BY <2>2, <2>3
<1>3. QED
    BY <1>1, <1>2 DEF AcksFollowSuccess, TasksAreAdded

----------------------------------------------------------------------------
\* With a group: what was read is pending or a handler has succeeded with it.

\* What a step does to the group and its pending list.
LEMMA GroupMoves ==
    ASSUME IInv, [Next]_vars
    PROVE  /\ group' = group
           /\ \/ UNCHANGED <<groupExists, lastId, pending, origin>>
              \/ /\ groupExists' /\ UNCHANGED pending
                 /\ \A c \in Consumers : origin'[c] = lastId'
              \/ /\ groupExists /\ UNCHANGED <<groupExists, origin>>
                 /\ pending \subseteq pending'
                 /\ \A m \in lastId + 1 .. lastId' : m \in pending'
              \/ /\ UNCHANGED <<groupExists, lastId, origin>>
                 /\ \E m \in succeeded : pending' = pending \ {m}
              \/ ~group /\ UNCHANGED <<groupExists, lastId, pending>>
<1> DEFINE Kept    == UNCHANGED <<groupExists, lastId, pending, origin>>
           Created == /\ groupExists' /\ UNCHANGED pending
                      /\ \A c \in Consumers : origin'[c] = lastId'
           Given   == /\ groupExists /\ UNCHANGED <<groupExists, origin>>
                      /\ pending \subseteq pending'
                      /\ \A m \in lastId + 1 .. lastId' : m \in pending'
           Acked   == /\ UNCHANGED <<groupExists, lastId, origin>>
                      /\ \E m \in succeeded : pending' = pending \ {m}
           Alone   == ~group /\ UNCHANGED <<groupExists, lastId, pending>>
<1>1. ASSUME NEW c \in Consumers, CreateGroup(c) PROVE Created
    BY <1>1 DEF CreateGroup
<1>2. ASSUME NEW c \in Consumers, ResolveStartID(c) PROVE Alone
    BY <1>2 DEF ResolveStartID, serverVars, groupVars
<1>3. ASSUME NEW c \in Consumers, Claim(c) PROVE Kept
    <2>1. Assigns(Claimed(c))
        BY <1>3 DEF Claim, Delivers
    <2>2. pending' = pending
        BY <2>1, ClaimedAssigned DEF IInv
    <2>3. QED
        BY <1>3, <2>2 DEF Claim, startVars
<1>4. ASSUME NEW c \in Consumers, group, loop[c] = "read", Unread(c) # {},
             Assigns(ReadNow(c)), lastId' = Max(ReadNow(c)),
             UNCHANGED <<groupExists, origin>>
      PROVE  Given
    <2>1. groupExists
        BY <1>4 DEF IInv, GroupIsThere, InLoop
    <2>2. pending' = pending \cup ReadNow(c)
        BY <1>4 DEF Assigns
    <2>3. Position(c) = lastId
        BY <1>4 DEF Position
    <2>4. lastId' \in ReadNow(c) /\ \A k \in lastId + 1 .. lastId' : k \in ReadNow(c)
        BY <1>4, <2>3, ReadFacts DEF IInv
    <2>5. QED
        BY <1>4, <2>1, <2>2, <2>4
<1>5. ASSUME NEW c \in Consumers, Read(c) PROVE Given \/ Alone
    <2>1. CASE group
        BY <1>4, <1>5, <2>1 DEF Read, Delivers, startVars
    <2>2. CASE ~group
        BY <1>5, <2>2 DEF Read, Delivers, Assigns
    <2>3. QED
        BY <2>1, <2>2
<1>6. ASSUME NEW c \in Consumers, ReplyLost(c) PROVE Kept \/ Given
    <2>1. CASE loop[c] = "claim" /\ Assigns(Claimed(c)) /\ UNCHANGED lastId
        <3>1. pending' = pending
            BY <2>1, ClaimedAssigned DEF IInv
        <3>2. QED
            BY <1>6, <2>1, <3>1 DEF ReplyLost, startVars
    <2>2. CASE /\ loop[c] = "read" /\ Unread(c) # {}
               /\ Assigns(ReadNow(c)) /\ lastId' = Max(ReadNow(c))
        BY <1>4, <1>6, <2>2 DEF ReplyLost, startVars
    <2>3. QED
        BY <1>6, <2>1, <2>2 DEF ReplyLost
<1>7. ASSUME NEW c \in Consumers, NEW m \in Messages, Ack(c, m) PROVE Acked
    BY <1>7 DEF Ack, loopVars, startVars, IInv, AcksFollowSuccess
<1>8. group' = group
    BY DEF Next, LoopStep, Progress, vars, serverVars, Add, Tick, CtxDone, CreateGroup,
           GroupExists, CreateFails, ResolveStartID, LoopEnds, BatchEnds, Returns,
           ServerFails, ReplyLost, Claim, Read, Start, Reject, Crash, HandlerSucceeds,
           HandlerFails, Ack, AckFails
<1>9. Kept \/ \E c \in Consumers :
                 \/ CreateGroup(c) \/ ResolveStartID(c) \/ Claim(c) \/ Read(c)
                 \/ ReplyLost(c) \/ \E m \in Messages : Ack(c, m)
    BY DEF Next, LoopStep, Progress, vars, serverVars, groupVars, loopVars, startVars, Add,
           Tick, CtxDone, GroupExists, CreateFails, LoopEnds, BatchEnds, Returns,
           ServerFails, Start, Reject, Advances, Crash, HandlerSucceeds, HandlerFails,
           AckFails
<1>10. Kept \/ Created \/ Given \/ Acked \/ Alone
    <2> HIDE DEF Kept, Created, Given, Acked, Alone
    <2>1. QED
        BY <1>1, <1>2, <1>3, <1>5, <1>6, <1>7, <1>9
<1>11. QED
    BY <1>8, <1>10

\* A consumer of a group enters its loop when the group is there, and one without a
\* group never claims.
LEMMA LoopEntered ==
    ASSUME IInv, [Next]_vars, NEW c \in Consumers
    PROVE  /\ loop'[c] \in InLoop /\ group => loop[c] \in InLoop \/ groupExists'
           /\ ~group => loop'[c] \notin {"claim", "dispatchClaimed"}
<1> DEFINE Fine(old, new) ==
              /\ new \in InLoop /\ group => old \in InLoop \/ groupExists'
              /\ ~group => new \notin {"claim", "dispatchClaimed"}
<1>1. ~group => \A k \in Consumers : loop[k] \notin {"claim", "dispatchClaimed"}
    BY DEF IInv, AloneInPlace
<1>2. ASSUME NEW k \in Consumers, NEW l \in Loop, SetLoop(k, l), Fine(loop[k], l)
      PROVE  Fine(loop[c], loop'[c])
    BY <1>1, <1>2, LoopSet DEF IInv, TypeOK
<1>3. CASE loop' = loop
    BY <1>1, <1>3
<1>4. CASE Tick
    BY <1>1, <1>4 DEF Tick, InLoop
<1>5. loop' = loop \/ Tick
      \/ \E k \in Consumers, l \in Loop : SetLoop(k, l) /\ Fine(loop[k], l)
    <2>1. groupExists => group
        BY DEF IInv, TypeOK
    <2>2. QED
        BY <1>1, <2>1, Values
        DEF Next, LoopStep, Progress, vars, loopVars, Add, CtxDone, CreateGroup,
            GroupExists, CreateFails, ResolveStartID, LoopEnds, BatchEnds, Returns,
            Dispatching, Advances, ServerFails, ReplyLost, Claim, Read, Start, Reject,
            Crash, InLoop, Ended, HandlerSucceeds, HandlerFails, Ack, AckFails, serverVars,
            groupVars
<1>6. QED
    BY <1>2, <1>3, <1>4, <1>5

\* So the group stays there, and nothing leaves it unhandled.
LEMMA GroupStep ==
    ASSUME IInv, [Next]_vars
    PROVE  GroupIsThere' /\ LeavesOnlyAfterSuccess'
<1> USE DEF IInv
<1>1. group' = group /\ succeeded \subseteq succeeded'
    BY GroupMoves, GrowStep
<1>2. groupExists => groupExists'
    BY GroupMoves DEF TypeOK
<1>3. ~groupExists' => pending' = {}
    BY <1>2, GroupMoves DEF GroupIsThere
<1>4. ASSUME NEW c \in Consumers, group', loop'[c] \in InLoop PROVE groupExists'
    BY <1>1, <1>2, <1>4, LoopEntered DEF GroupIsThere
<1>5. ASSUME NEW c \in Consumers, groupExists', NEW m \in origin'[c] + 1 .. lastId'
      PROVE  m \in pending' \cup succeeded'
    <2>1. lastId \in Nat /\ lastId' \in Nat /\ origin[c] \in Nat /\ origin'[c] \in Nat
        <3>1. TypeOK'
            BY TypeStep
        <3>2. QED
            BY <3>1, SizeAssumption DEF TypeOK
    <2>2. CASE UNCHANGED <<groupExists, lastId, pending, origin>>
        BY <1>1, <1>5, <2>2 DEF LeavesOnlyAfterSuccess
    <2>3. CASE \A k \in Consumers : origin'[k] = lastId'
        BY <1>5, <2>1, <2>3
    <2>4. CASE /\ groupExists /\ UNCHANGED <<groupExists, origin>>
               /\ pending \subseteq pending'
               /\ \A k \in lastId + 1 .. lastId' : k \in pending'
        <3>1. m \in origin[c] + 1 .. lastId \/ m \in lastId + 1 .. lastId'
            BY <1>5, <2>1, <2>4
        <3>2. QED
            BY <1>1, <2>4, <3>1 DEF LeavesOnlyAfterSuccess
    <2>5. CASE /\ UNCHANGED <<groupExists, lastId, origin>>
               /\ \E k \in succeeded : pending' = pending \ {k}
        BY <1>1, <1>5, <2>5 DEF LeavesOnlyAfterSuccess
    <2>6. CASE ~group /\ UNCHANGED <<groupExists, lastId, pending>>
        BY <1>5, <2>6 DEF TypeOK
    <2>7. QED
        BY <2>2, <2>3, <2>4, <2>5, <2>6, GroupMoves
<1>6. QED
    BY <1>3, <1>4, <1>5 DEF GroupIsThere, LeavesOnlyAfterSuccess

----------------------------------------------------------------------------
\* Without a group: every message after the start is dispatched once.

\* What a step does to one consumer without a group.
Settles(c) ==
    /\ UNCHANGED <<startID[c], origin[c]>>
    /\ \A m \in Messages :
          \/ task'[c][m] = task[c][m]
          \/ task[c][m] \in {"handling", "acking"} /\ task'[c][m] \in {"acking", "done"}

Resolves(c) ==
    /\ startID'[c] = origin'[c]
    /\ \A m \in Messages : task[c][m] = "none" /\ task'[c][m] = "none"

Dispatches(c) ==
    /\ origin'[c] = origin[c]
    /\ startID'[c] = startID[c] + 1
    /\ \A m \in Messages :
          IF m = startID[c] + 1 THEN task'[c][m] \in {"handling", "done"}
          ELSE task'[c][m] = task[c][m]

Gets(c) ==
    /\ UNCHANGED <<startID[c], origin[c]>>
    /\ \A m \in Messages :
          task'[c][m] = IF m \in ReadNow(c) THEN "batch" ELSE task[c][m]

Dies(c) ==
    /\ UNCHANGED <<startID[c], origin[c]>>
    /\ loop'[c] = "crashed"
    /\ \A m \in Messages : task'[c][m] = "none"

\* The first message of a batch is the one after the position.
LEMMA BatchBegins ==
    ASSUME IInv, ~group, NEW c \in Consumers, Dispatching(c), Batch(c) # {}
    PROVE  Min(Batch(c)) = startID[c] + 1
<1>1. /\ Min(Batch(c)) \in Messages
      /\ task[c][Min(Batch(c))] = "batch"
      /\ \A m \in Batch(c) : Min(Batch(c)) <= m
    BY BatchFacts DEF IInv
<1>2. Min(Batch(c)) \in Nat /\ startID[c] \in Nat /\ origin[c] \in Nat
    BY <1>1, SizeAssumption DEF IInv, TypeOK, Messages
<1>3. Min(Batch(c)) > startID[c]
    <2>1. loop[c] # "crashed"
        BY DEF Dispatching
    <2>2. /\ ~(Min(Batch(c)) <= origin[c])
          /\ ~(Min(Batch(c)) \in origin[c] + 1 .. startID[c])
        BY <1>1, <2>1 DEF IInv, ReadsEachOnce
    <2>3. QED
        BY <1>2, <2>2
<1>4. startID[c] + 1 \in startID[c] + 1 .. Min(Batch(c))
    BY <1>2, <1>3
<1>5. task[c][startID[c] + 1] = "batch"
    BY <1>1, <1>4 DEF IInv, BatchHasNoGap
<1>6. startID[c] + 1 \in Messages
    BY <1>1, <1>2, <1>3, SizeAssumption DEF Messages
<1>7. Min(Batch(c)) <= startID[c] + 1
    BY <1>1, <1>5, <1>6 DEF Batch
<1>8. QED
    BY <1>2, <1>3, <1>7

\* Every step is one of these for every consumer.
LEMMA AloneMoves ==
    ASSUME IInv, [Next]_vars, ~group, NEW c \in Consumers
    PROVE  Settles(c) \/ Resolves(c) \/ Dispatches(c) \/ Gets(c) \/ Dies(c)
<1> USE DEF IInv
<1>1. CASE UNCHANGED <<task, startVars>>
    BY <1>1 DEF startVars, Settles
<1>2. ASSUME NEW k \in Consumers, ResolveStartID(k) PROVE Settles(c) \/ Resolves(c)
    <2>1. /\ task' = task
          /\ loop[k] = "create"
          /\ \E p \in StartPositions : startID' = [startID EXCEPT ![k] = p]
                                     /\ origin' = [origin EXCEPT ![k] = p]
        BY <1>2 DEF ResolveStartID, taskVars
    <2>2. CASE c = k
        BY <2>1, <2>2 DEF TypeOK, TasksAreAdded, Resolves
    <2>3. CASE c # k
        BY <2>1, <2>3 DEF TypeOK, Settles
    <2>4. QED
        BY <2>2, <2>3
<1>3. ASSUME NEW k \in Consumers, Start(k) \/ Reject(k) PROVE Settles(c) \/ Dispatches(c)
    <2>1. Dispatching(k) /\ Batch(k) # {} /\ Advances(k, Min(Batch(k)))
        BY <1>3 DEF Start, Reject
    <2>2. Min(Batch(k)) = startID[k] + 1 /\ Min(Batch(k)) \in Messages
        BY <2>1, BatchBegins, BatchFacts
    <2>3. /\ startID' = [startID EXCEPT ![k] = startID[k] + 1]
          /\ origin' = origin
        BY <2>1, <2>2 DEF Advances
    <2>4. PICK t \in {"handling", "done"} : SetTask(k, startID[k] + 1, t)
        BY <1>3, <2>2 DEF Start, Reject, Finish
    <2>5. \A n \in Messages :
              task'[c][n] = IF c = k /\ n = startID[k] + 1 THEN t ELSE task[c][n]
        BY <2>2, <2>4, TaskSet, Values DEF TypeOK
    <2>6. QED
        BY <2>3, <2>5 DEF TypeOK, Settles, Dispatches
<1>4. ASSUME NEW k \in Consumers, Read(k) PROVE Settles(c) \/ Gets(c)
    <2>1. ReadNow(k) \in SUBSET Messages
        BY ReadFacts
    <2>2. \A n \in Messages :
              task'[c][n] = IF c = k /\ n \in ReadNow(k) THEN "batch" ELSE task[c][n]
        BY <1>4, <2>1, MessagesDelivered DEF Read
    <2>3. UNCHANGED <<startID[c], origin[c]>>
        BY <1>4 DEF Read, startVars
    <2>4. QED
        BY <2>2, <2>3 DEF Settles, Gets
<1>5. ASSUME NEW k \in Consumers, Crash(k) PROVE Settles(c) \/ Dies(c)
    <2>1. loop'[k] = "crashed"
        BY <1>5, LoopSet, Values DEF Crash, TypeOK
    <2>2. \A n \in Messages : task'[c][n] = IF c = k THEN "none" ELSE task[c][n]
        BY <1>5 DEF Crash, TypeOK
    <2>3. UNCHANGED <<startID[c], origin[c]>>
        BY <1>5 DEF Crash, startVars
    <2>4. QED
        BY <2>1, <2>2, <2>3 DEF Settles, Dies
<1>6. ASSUME NEW k \in Consumers, NEW n \in Messages, UNCHANGED startVars,
             task[k][n] \in {"handling", "acking"},
             SetTask(k, n, "acking") \/ Finish(k, n)
      PROVE  Settles(c)
    <2>1. PICK t \in {"acking", "done"} : SetTask(k, n, t)
        BY <1>6 DEF Finish
    <2>2. \A m \in Messages : task'[c][m] = IF c = k /\ m = n THEN t ELSE task[c][m]
        BY <2>1, TaskSet, Values DEF TypeOK
    <2>3. QED
        BY <1>6, <2>2 DEF startVars, Settles
<1>7. ASSUME NEW k \in Consumers, NEW n \in Messages,
             HandlerSucceeds(k, n) \/ Ack(k, n) \/ HandlerFails(k, n) \/ AckFails(k, n)
      PROVE  Settles(c)
    BY <1>6, <1>7 DEF HandlerSucceeds, Ack, HandlerFails, AckFails, loopVars
<1>8. ASSUME NEW k \in Consumers, Claim(k) PROVE FALSE
    BY <1>8 DEF Claim, AloneInPlace
<1>9. UNCHANGED <<task, startVars>>
      \/ \E k \in Consumers :
            \/ ResolveStartID(k) \/ Claim(k) \/ Read(k) \/ Start(k) \/ Reject(k)
            \/ Crash(k)
            \/ \E n \in Messages : \/ HandlerSucceeds(k, n) \/ Ack(k, n)
                                   \/ HandlerFails(k, n) \/ AckFails(k, n)
    BY DEF Next, LoopStep, Progress, vars, loopVars, startVars, taskVars, Add, Tick,
           CtxDone, CreateGroup, GroupExists, CreateFails, LoopEnds, BatchEnds, Returns,
           ServerFails, ReplyLost
<1>10. QED
    BY <1>1, <1>2, <1>3, <1>4, <1>5, <1>7, <1>8, <1>9

\* So nothing is skipped and nothing is dispatched twice.
LEMMA AloneStep ==
    ASSUME IInv, [Next]_vars
    PROVE  AloneInPlace' /\ BatchHasNoGap' /\ ReadsEachOnce'
<1> USE DEF IInv
<1>1. group' = group
    BY GroupMoves
<1>2. SUFFICES ASSUME ~group, NEW c \in Consumers
      PROVE  /\ loop'[c] \notin {"claim", "dispatchClaimed"}
             /\ origin'[c] <= startID'[c]
             /\ \A m \in Messages : task'[c][m] = "batch" =>
                    \A k \in startID'[c] + 1 .. m : task'[c][k] = "batch"
             /\ loop'[c] # "crashed" => \A m \in Messages :
                    /\ m <= origin'[c] => task'[c][m] = "none"
                    /\ m \in origin'[c] + 1 .. startID'[c] =>
                          task'[c][m] \in {"handling", "acking", "done"}
                    /\ m > startID'[c] => task'[c][m] \in {"none", "batch"}
    BY <1>1 DEF AloneInPlace, BatchHasNoGap, ReadsEachOnce
<1>3. loop'[c] \notin {"claim", "dispatchClaimed"}
    BY <1>2, LoopEntered
<1>4. loop'[c] # "crashed" => loop[c] # "crashed"
    BY LoopStepFacts
<1>5. /\ startID[c] \in Nat /\ origin[c] \in Nat /\ origin[c] <= startID[c]
      /\ startID'[c] \in Nat /\ origin'[c] \in Nat
    <2>1. TypeOK'
        BY TypeStep
    <2>2. QED
        BY <1>2, <2>1, SizeAssumption DEF TypeOK, AloneInPlace
<1>6. Messages \subseteq Nat
      /\ \A m \in Messages : \A k \in startID[c] + 1 .. m : k \in Messages
    BY <1>5, SizeAssumption DEF Messages
<1>7. \A m \in Messages : task[c][m] = "batch" =>
          \A k \in startID[c] + 1 .. m : task[c][k] = "batch"
    BY <1>2 DEF BatchHasNoGap
<1>8. loop[c] # "crashed" => \A m \in Messages :
          /\ m <= origin[c] => task[c][m] = "none"
          /\ m \in origin[c] + 1 .. startID[c] => task[c][m] \in {"handling", "acking", "done"}
          /\ m > startID[c] => task[c][m] \in {"none", "batch"}
    BY <1>2 DEF ReadsEachOnce
<1>9. CASE Settles(c)
    <2>1. \A m \in Messages : task'[c][m] = "batch" <=> task[c][m] = "batch"
        BY <1>9 DEF Settles
    <2>2. QED
        BY <1>3, <1>4, <1>5, <1>6, <1>7, <1>8, <1>9, <2>1 DEF Settles
<1>10. CASE Resolves(c)
    <2>1. \A m \in Messages : m \notin origin'[c] + 1 .. startID'[c]
        BY <1>5, <1>10 DEF Resolves
    <2>2. QED
        BY <1>3, <1>5, <1>10, <2>1 DEF Resolves
<1>11. CASE Dispatches(c)
    <2>1. \A m \in Messages : task'[c][m] = "batch" =>
              \A k \in startID'[c] + 1 .. m : task'[c][k] = "batch"
        <3>1. SUFFICES ASSUME NEW m \in Messages, task'[c][m] = "batch",
                              NEW k \in startID'[c] + 1 .. m
                       PROVE  task'[c][k] = "batch"
            OBVIOUS
        <3>2. task[c][m] = "batch"
            BY <1>11, <3>1 DEF Dispatches
        <3>3. k \in startID[c] + 1 .. m /\ k # startID[c] + 1 /\ k \in Messages
            BY <1>5, <1>6, <1>11 DEF Dispatches
        <3>4. QED
            BY <1>7, <1>11, <3>2, <3>3 DEF Dispatches
    <2>2. ASSUME NEW m \in Messages, loop'[c] # "crashed"
          PROVE  /\ m <= origin'[c] => task'[c][m] = "none"
                 /\ m \in origin'[c] + 1 .. startID'[c] =>
                       task'[c][m] \in {"handling", "acking", "done"}
                 /\ m > startID'[c] => task'[c][m] \in {"none", "batch"}
        <3>1. CASE m = startID[c] + 1
            BY <1>5, <1>11, <3>1 DEF Dispatches
        <3>2. CASE m # startID[c] + 1
            <4>1. m \in origin'[c] + 1 .. startID'[c] => m \in origin[c] + 1 .. startID[c]
                BY <1>5, <1>6, <1>11, <3>2 DEF Dispatches
            <4>2. QED
                BY <1>4, <1>5, <1>6, <1>8, <1>11, <2>2, <3>2, <4>1 DEF Dispatches
        <3>3. QED
            BY <3>1, <3>2
    <2>3. origin'[c] <= startID'[c]
        BY <1>5, <1>11 DEF Dispatches
    <2>4. QED
        BY <1>3, <2>1, <2>2, <2>3
<1>12. CASE Gets(c)
    <2>1. Position(c) = startID[c]
        BY <1>2 DEF Position
    <2>2. /\ ReadNow(c) \subseteq Messages
          /\ \A m \in ReadNow(c) : m > startID[c]
          /\ \A m \in ReadNow(c) : \A k \in startID[c] + 1 .. m : k \in ReadNow(c)
        <3>1. /\ ReadNow(c) \subseteq Messages
              /\ ReadNow(c) \subseteq startID[c] + 1 .. added
              /\ \A m \in ReadNow(c) : \A k \in startID[c] + 1 .. m : k \in ReadNow(c)
            BY <2>1, ReadFacts
        <3>2. QED
            BY <1>5, <3>1
    <2>3. \A m \in Messages : task'[c][m] = "batch" =>
              \A k \in startID'[c] + 1 .. m : task'[c][k] = "batch"
        BY <1>6, <1>7, <1>12, <2>2 DEF Gets
    <2>4. loop'[c] # "crashed" => \A m \in Messages :
              /\ m <= origin'[c] => task'[c][m] = "none"
              /\ m \in origin'[c] + 1 .. startID'[c] =>
                    task'[c][m] \in {"handling", "acking", "done"}
              /\ m > startID'[c] => task'[c][m] \in {"none", "batch"}
        BY <1>4, <1>5, <1>6, <1>8, <1>12, <2>2 DEF Gets
    <2>5. QED
        BY <1>3, <1>5, <1>12, <2>3, <2>4 DEF Gets
<1>13. CASE Dies(c)
    BY <1>3, <1>5, <1>13 DEF Dies
<1>14. QED
    BY <1>2, <1>9, <1>10, <1>11, <1>12, <1>13, AloneMoves

----------------------------------------------------------------------------
\* The invariant is inductive, so it holds in every state of every behavior of the
\* subscriber, with or without a group.
THEOREM Inductive == Spec => []IInv
<1>1. IInv /\ [Next]_vars => IInv'
    BY TypeStep, TasksStep, GroupStep, AloneStep DEF IInv
<1>2. QED
    BY InitIInv, <1>1, PTL DEF Spec

\* The variables keep their types: the group's position and every consumer's stay
\* within the stream, what is pending was read, and the cursor of XAUTOCLAIM stays
\* among the messages (redis/subscriber.go, receive).
THEOREM TypeCorrect == Spec => []TypeOK
<1>1. IInv => TypeOK
    BY DEF IInv
<1>2. QED
    BY Inductive, <1>1, PTL

\* At-least-once delivery with a group: whatever consumers crash, stop or fail to
\* read, and whatever reply or XACK is lost, a message the group has read stays
\* pending until a handler has succeeded with it (Ack and Nack of redisMessage).
THEOREM AtLeastOnce == Spec => []LeavesOnlyAfterSuccess
<1>1. IInv => LeavesOnlyAfterSuccess
    BY DEF IInv
<1>2. QED
    BY Inductive, <1>1, PTL

\* Without a group, XREAD from startID = msg.ID hands each message added after the
\* start to Dispatch exactly once, and none before the start (resolveStartID and
\* the loop of receive).
THEOREM ReadsOnce == Spec => []ReadsEachOnce
<1>1. IInv => ReadsEachOnce
    BY DEF IInv
<1>2. QED
    BY Inductive, <1>1, PTL

----------------------------------------------------------------------------
(***************************************************************************)
(* The deadline of NewRedisSubscriber.  The idle time of a message starts  *)
(* when it is read or claimed, the deadline of its handler when Dispatch   *)
(* has found a slot.  So a message being processed is idle for at most the *)
(* processing timeout and the time it waited for the slot.                 *)
(***************************************************************************)

\* No message has waited for a slot for more than w ticks.
WaitsAtMost(w) ==
    \A c \in Consumers, m \in Messages : task[c][m] = "batch" => idle[m] <= w

\* The idle time of what a consumer has in hand.
IdleBounded(w) ==
    \A c \in Consumers, m \in Messages :
        /\ task[c][m] = "handling" => idle[m] <= age[c][m] + w
        /\ task[c][m] = "acking" => idle[m] <= ProcessingTimeout + w

\* No message waits for a slot at all.
NoneWaits ==
    \A c \in Consumers : Batch(c) # {} => Cardinality(Running(c)) < MaxInFlight

\* A batch exists only while it is dispatched.
BatchIsDispatched ==
    \A c \in Consumers, m \in Messages : task[c][m] = "batch" => Dispatching(c)

\* The numbers that are compared.
LEMMA IdleTypes ==
    ASSUME TypeOK, NEW c \in Consumers, NEW m \in Messages
    PROVE  /\ idle[m] \in Nat /\ idle[m] <= IdleTimeout
           /\ age[c][m] \in Nat /\ age[c][m] <= ProcessingTimeout
           /\ ProcessingTimeout \in Nat /\ IdleTimeout \in Nat
           /\ ProcessingTimeout < IdleTimeout
BY TimeoutAssumption DEF TypeOK

\* What a step other than Tick does to message m in the hand of c: it is handed out,
\* and its idle time begins; its handler starts, or has succeeded; or it stays where
\* it is.
Handed(c, m) == task'[c][m] = "batch" /\ idle'[m] = 0 /\ Dispatching(c)'
Started(c, m) ==
    task[c][m] = "batch" /\ task'[c][m] = "handling" /\ age'[c][m] = 0 /\ idle'[m] = idle[m]
Succeeds(c, m) ==
    task[c][m] = "handling" /\ task'[c][m] = "acking" /\ idle'[m] = idle[m]
Stays(c, m) ==
    /\ task'[c][m] = task[c][m] /\ age'[c][m] = age[c][m] /\ idle'[m] \in {0, idle[m]}
    /\ task[c][m] = "batch" => (Dispatching(c) => Dispatching(c)')

Effect(c, m) ==
    \/ task'[c][m] \in {"none", "done"}
    \/ Handed(c, m)
    \/ Started(c, m)
    \/ Succeeds(c, m)
    \/ Stays(c, m)

\* A step that touches neither tasks nor times, and the loop only of a consumer that
\* has no batch to dispatch.
LEMMA LoopEffect ==
    ASSUME TypeOK, UNCHANGED taskVars,
           \A m \in Messages : idle'[m] \in {0, idle[m]},
           \A c \in Consumers : loop'[c] = loop[c] \/ ~Dispatching(c) \/ Batch(c) = {}
    PROVE  \A c \in Consumers, m \in Messages : Effect(c, m)
BY DEF Effect, Stays, taskVars, Dispatching, Batch

\* Messages are read or claimed.
LEMMA DeliverEffect ==
    ASSUME TypeOK, NEW c \in Consumers, NEW s \in SUBSET Messages,
           Delivers(c, s), age' = age,
           NEW l \in {"dispatchClaimed", "dispatchRead"}, SetLoop(c, l)
    PROVE  \A k \in Consumers, m \in Messages : Effect(k, m)
<1>1. /\ Assigns(s)
      /\ \A k \in Consumers, n \in Messages :
            task'[k][n] = IF k = c /\ n \in s THEN "batch" ELSE task[k][n]
    BY MessagesDelivered
<1>2. \A k \in Consumers : loop'[k] = IF k = c THEN l ELSE loop[k]
    BY LoopSet, Values DEF TypeOK
<1>3. \A m \in Messages : idle'[m] = IF m \in s THEN 0 ELSE idle[m]
    BY <1>1 DEF Assigns
<1>4. Dispatching(c)'
    BY <1>2 DEF Dispatching
<1>5. ASSUME NEW k \in Consumers, NEW m \in Messages PROVE Effect(k, m)
    <2>1. CASE k = c /\ m \in s
        BY <1>1, <1>3, <1>4, <2>1 DEF Effect, Handed
    <2>2. CASE ~(k = c /\ m \in s)
        <3>1. task'[k][m] = task[k][m] /\ idle'[m] \in {0, idle[m]} /\ age'[k][m] = age[k][m]
            BY <1>1, <1>3, <2>2
        <3>2. Dispatching(k) => Dispatching(k)'
            BY <1>2, <1>4 DEF Dispatching
        <3>3. QED
            BY <3>1, <3>2 DEF Effect, Stays
    <2>3. QED
        BY <2>1, <2>2
<1>6. QED
    BY <1>5

\* Dispatch or a handler moves one message on.
LEMMA TaskEffect ==
    ASSUME TypeOK, UNCHANGED <<idle, loop>>,
           NEW c \in Consumers, NEW m \in Messages, NEW t \in Task, SetTask(c, m, t),
           \A k \in Consumers, n \in Messages : k # c \/ n # m => age'[k][n] = age[k][n],
           \/ t \in {"none", "done"}
           \/ t = "handling" /\ task[c][m] = "batch" /\ age'[c][m] = 0
           \/ t = "acking" /\ task[c][m] = "handling"
    PROVE  \A k \in Consumers, n \in Messages : Effect(k, n)
<1>1. \A k \in Consumers, n \in Messages :
          task'[k][n] = IF k = c /\ n = m THEN t ELSE task[k][n]
    BY TaskSet DEF TypeOK
<1>2. ASSUME NEW k \in Consumers, NEW n \in Messages PROVE Effect(k, n)
    <2>1. CASE k = c /\ n = m
        BY <1>1, <2>1 DEF Effect, Started, Succeeds
    <2>2. CASE k # c \/ n # m
        BY <1>1, <2>2 DEF Effect, Stays, Dispatching
    <2>3. QED
        BY <2>1, <2>2
<1>3. QED
    BY <1>2

\* Every step but Tick has such an effect on every message.
LEMMA StepEffect ==
    ASSUME TypeOK, [Next]_vars
    PROVE  Tick \/ \A c \in Consumers, m \in Messages : Effect(c, m)
<1> DEFINE Effects == \A c \in Consumers, m \in Messages : Effect(c, m)
<1>1. CASE Tick
    BY <1>1
<1>2. CASE Add \/ UNCHANGED vars \/ \E c \in Consumers : CtxDone(c)
    BY <1>2, LoopEffect DEF Add, CtxDone, vars, serverVars, groupVars, loopVars
<1>3. ASSUME NEW c \in Consumers,
             \/ CreateGroup(c) \/ GroupExists(c) \/ CreateFails(c) \/ ResolveStartID(c)
             \/ LoopEnds(c) \/ BatchEnds(c) \/ Returns(c) \/ ServerFails(c) \/ ReplyLost(c)
      PROVE  Effects
    <2>1. UNCHANGED taskVars
        BY <1>3 DEF CreateGroup, GroupExists, CreateFails, ResolveStartID, LoopEnds, BatchEnds,
                    Returns, ServerFails, ReplyLost
    <2>2. \A m \in Messages : idle'[m] \in {0, idle[m]}
        BY <1>3 DEF CreateGroup, GroupExists, CreateFails, ResolveStartID, LoopEnds, BatchEnds,
                    Returns, ServerFails, ReplyLost, Assigns, serverVars, groupVars
    <2>3. ~Dispatching(c) \/ Batch(c) = {}
        BY <1>3 DEF CreateGroup, GroupExists, CreateFails, ResolveStartID, LoopEnds, BatchEnds,
                    Returns, ServerFails, ReplyLost, Dispatching
    <2>4. \A k \in Consumers : k # c => loop'[k] = loop[k]
        BY <1>3 DEF CreateGroup, GroupExists, CreateFails, ResolveStartID, LoopEnds, BatchEnds,
                    Returns, ServerFails, ReplyLost, SetLoop, TypeOK
    <2>5. QED
        BY <2>1, <2>2, <2>3, <2>4, LoopEffect
<1>4. ASSUME NEW c \in Consumers, Claim(c) PROVE Effects
    BY <1>4, ClaimedFacts, DeliverEffect DEF Claim
<1>5. ASSUME NEW c \in Consumers, Read(c) PROVE Effects
    <2>1. ReadNow(c) \in SUBSET Messages
        BY ReadFacts
    <2>2. QED
        BY <1>5, <2>1, DeliverEffect DEF Read
<1>6. ASSUME NEW c \in Consumers, Start(c) PROVE Effects
    <2>1. Min(Batch(c)) \in Messages /\ task[c][Min(Batch(c))] = "batch"
        BY <1>6, BatchFacts DEF Start
    <2>2. PICK m \in Messages : m = Min(Batch(c))
        BY <2>1
    <2>3. /\ SetTask(c, m, "handling") /\ UNCHANGED <<idle, loop>>
          /\ age' = [age EXCEPT ![c][m] = 0]
        BY <1>6, <2>2 DEF Start, Advances, serverVars, groupVars
    <2>4. /\ age'[c][m] = 0
          /\ \A k \in Consumers, n \in Messages : k # c \/ n # m => age'[k][n] = age[k][n]
        BY <2>3 DEF TypeOK
    <2>5. QED
        BY <2>1, <2>2, <2>3, <2>4, TaskEffect, Values
<1>7. ASSUME NEW c \in Consumers, NEW m \in Messages, Finish(c, m), UNCHANGED <<idle, loop, age>>
      PROVE  Effects
    BY <1>7, TaskEffect, Values DEF Finish
<1>8. ASSUME NEW c \in Consumers, Reject(c) PROVE Effects
    <2>1. Min(Batch(c)) \in Messages
        BY <1>8, BatchFacts DEF Reject
    <2>2. QED
        BY <1>7, <1>8, <2>1 DEF Reject, Advances, serverVars, groupVars
<1>9. ASSUME NEW c \in Consumers, NEW m \in Messages,
             Ack(c, m) \/ HandlerFails(c, m) \/ AckFails(c, m)
      PROVE  Effects
    BY <1>7, <1>9 DEF Ack, HandlerFails, AckFails, serverVars, groupVars, loopVars
<1>10. ASSUME NEW c \in Consumers, NEW m \in Messages, HandlerSucceeds(c, m)
       PROVE  Effects
    BY <1>10, TaskEffect, Values DEF HandlerSucceeds, serverVars, groupVars, loopVars
<1>11. ASSUME NEW c \in Consumers, Crash(c) PROVE Effects
    <2>1. \A k \in Consumers, n \in Messages :
              task'[k][n] = IF k = c THEN "none" ELSE task[k][n]
        BY <1>11 DEF Crash, TypeOK
    <2>2. \A k \in Consumers : k # c => loop'[k] = loop[k]
        BY <1>11 DEF Crash, SetLoop, TypeOK
    <2>3. UNCHANGED <<idle, age>>
        BY <1>11 DEF Crash, serverVars, groupVars
    <2>4. QED
        BY <2>1, <2>2, <2>3 DEF Effect, Stays, Dispatching
<1>12. QED
    BY <1>1, <1>2, <1>3, <1>4, <1>5, <1>6, <1>8, <1>9, <1>10, <1>11
    DEF Next, LoopStep, Progress

\* Idle time and the time of the handlers pass together.
LEMMA TickTimes ==
    ASSUME TypeOK, Tick, NEW c \in Consumers, NEW m \in Messages
    PROVE  /\ task' = task /\ task[c][m] # "acking"
           /\ idle'[m] \in {idle[m], idle[m] + 1}
           /\ task[c][m] = "handling" => age'[c][m] = age[c][m] + 1
<1>1. task[c][m] # "acking" /\ (task[c][m] = "handling" => ~AtDeadline(c, m))
    BY DEF Tick
<1>2. QED
    BY <1>1, IdleTypes DEF Tick, AtDeadline

\* Every step keeps the bound of the idle times, if no message waits for longer.
LEMMA BoundStep ==
    ASSUME NEW w \in Nat, TypeOK, WaitsAtMost(w), IdleBounded(w), [Next]_vars
    PROVE  IdleBounded(w)'
<1> SUFFICES ASSUME NEW c \in Consumers, NEW m \in Messages
             PROVE  /\ task'[c][m] = "handling" => idle'[m] <= age'[c][m] + w
                    /\ task'[c][m] = "acking" => idle'[m] <= ProcessingTimeout + w
    BY DEF IdleBounded
<1>1. /\ task[c][m] = "batch" => idle[m] <= w
      /\ task[c][m] = "handling" => idle[m] <= age[c][m] + w
      /\ task[c][m] = "acking" => idle[m] <= ProcessingTimeout + w
    BY DEF WaitsAtMost, IdleBounded
<1>2. /\ idle[m] \in Nat /\ age[c][m] \in Nat /\ age[c][m] <= ProcessingTimeout
      /\ ProcessingTimeout \in Nat
    BY IdleTypes
<1>3. CASE Tick
    BY <1>1, <1>2, <1>3, TickTimes
<1>4. CASE Effect(c, m)
    <2>1. CASE task'[c][m] \in {"none", "done"} \/ Handed(c, m)
        BY <2>1 DEF Handed
    <2>2. CASE Started(c, m)
        BY <1>1, <1>2, <2>2 DEF Started
    <2>3. CASE Succeeds(c, m)
        BY <1>1, <1>2, <2>3 DEF Succeeds
    <2>4. CASE Stays(c, m)
        BY <1>1, <1>2, <2>4 DEF Stays
    <2>5. QED
        BY <1>4, <2>1, <2>2, <2>3, <2>4 DEF Effect
<1>5. QED
    BY <1>3, <1>4, StepEffect

\* The bound holds initially, and keeps what is processed from being claimed.
LEMMA BoundSuffices ==
    ASSUME NEW w \in Nat, ProcessingTimeout + w < IdleTimeout
    PROVE  /\ Init => IdleBounded(w)
           /\ TypeOK /\ IdleBounded(w) => NotClaimableWhileProcessed
<1>1. Init => IdleBounded(w)
    BY DEF Init, IdleBounded
<1>2. TypeOK /\ IdleBounded(w) => NotClaimableWhileProcessed
    <2> SUFFICES ASSUME TypeOK, IdleBounded(w), NEW c \in Consumers, NEW m \in Messages,
                        task[c][m] \in {"handling", "acking"}
                 PROVE  idle[m] < IdleTimeout
        BY DEF NotClaimableWhileProcessed
    <2>1. idle[m] <= age[c][m] + w \/ idle[m] <= ProcessingTimeout + w
        BY DEF IdleBounded
    <2>2. QED
        BY <2>1, IdleTypes
<1>3. QED
    BY <1>1, <1>2

\* With the processing timeout that NewRedisSubscriber demands, XAUTOCLAIM hands out
\* no message whose handler runs or whose XACK is under way, if the time the messages
\* of a batch wait in Dispatch for their slots, added to the processing timeout, is
\* below the idle timeout.  NewRedisSubscriber compares the timeouts alone, and the
\* run redis_claim shows that the wait has to be counted.
THEOREM NotClaimedUnlessItWaited ==
    ASSUME NEW w \in Nat, ProcessingTimeout + w < IdleTimeout
    PROVE  Spec /\ []WaitsAtMost(w) => []NotClaimableWhileProcessed
<1>1. TypeOK /\ WaitsAtMost(w) /\ IdleBounded(w) /\ [Next]_vars => IdleBounded(w)'
    BY BoundStep
<1>2. QED
    BY <1>1, BoundSuffices, TypeCorrect, PTL DEF Spec

\* No time passes while a batch is dispatched that does not wait.
LEMMA FreshStep ==
    ASSUME TypeOK, BatchIsDispatched, WaitsAtMost(0), NoneWaits, [Next]_vars
    PROVE  BatchIsDispatched' /\ WaitsAtMost(0)'
<1> SUFFICES ASSUME NEW c \in Consumers, NEW m \in Messages, task'[c][m] = "batch"
             PROVE  Dispatching(c)' /\ idle'[m] <= 0
    BY DEF BatchIsDispatched, WaitsAtMost
<1>1. task[c][m] = "batch" => Dispatching(c) /\ Batch(c) # {} /\ idle[m] = 0
    BY IdleTypes DEF BatchIsDispatched, WaitsAtMost, Batch
<1>2. CASE Tick
    <2>1. task[c][m] = "batch"
        BY <1>2, TickTimes
    <2>2. Cardinality(Running(c)) < MaxInFlight
        BY <1>1, <2>1 DEF NoneWaits
    <2>3. Cardinality(Running(c)) >= MaxInFlight
        BY <1>1, <1>2, <2>1 DEF Tick, Blocked, Dispatching, Ended
    <2>4. Cardinality(Running(c)) \in Nat
        <3>1. IsFiniteSet(Messages)
            BY FS_Interval, SizeAssumption DEF Messages
        <3>2. IsFiniteSet(Running(c))
            BY <3>1, FS_Subset DEF Running
        <3>3. QED
            BY <3>2, FS_CardinalityType
    <2>5. QED
        BY <2>2, <2>3, <2>4, SizeAssumption
<1>3. CASE Effect(c, m)
    BY <1>1, <1>3 DEF Effect, Handed, Started, Succeeds, Stays
<1>4. QED
    BY <1>2, <1>3, StepEffect

\* So XAUTOCLAIM hands out no message that is processed, with the timeouts as
\* NewRedisSubscriber compares them, as long as every message of a batch finds a slot.
THEOREM NotClaimedWhenNoneWaits ==
    Spec /\ []NoneWaits => []NotClaimableWhileProcessed
<1>1. Init => BatchIsDispatched /\ WaitsAtMost(0)
    BY DEF Init, BatchIsDispatched, WaitsAtMost
<1>2. TypeOK /\ BatchIsDispatched /\ WaitsAtMost(0) /\ NoneWaits /\ [Next]_vars
        => BatchIsDispatched' /\ WaitsAtMost(0)'
    BY FreshStep
<1>3. Spec /\ []NoneWaits => []WaitsAtMost(0)
    BY <1>1, <1>2, TypeCorrect, PTL DEF Spec
<1>4. 0 \in Nat /\ ProcessingTimeout + 0 < IdleTimeout
    BY TimeoutAssumption
<1>5. /\ Init => IdleBounded(0)
      /\ TypeOK /\ IdleBounded(0) => NotClaimableWhileProcessed
    BY <1>4, BoundSuffices
<1>6. TypeOK /\ WaitsAtMost(0) /\ IdleBounded(0) /\ [Next]_vars => IdleBounded(0)'
    BY <1>4, BoundStep
<1>7. QED
    BY <1>3, <1>5, <1>6, TypeCorrect, PTL DEF Spec
=============================================================================
