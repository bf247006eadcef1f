-------------------------- MODULE MessagePublisher --------------------------
(***************************************************************************)
(* MessagePublisher of core/publisher/publisher.go: concurrent Publish     *)
(* calls that look up, or create, the publisher of their destination under *)
(* a read-write lock, and Close calls.                                     *)
(*                                                                         *)
(* The state the lock protects is read or written in one step per critical *)
(* section, except where the section calls out of the package (creating a  *)
(* publisher, closing one): there the lock is held over several steps.     *)
(***************************************************************************)
EXTENDS Naturals, FiniteSets

CONSTANTS
    Calls,          \* the calls of Publish, each with a message of its own
    Closers,        \* the calls of Close
    Destinations,   \* what the RoutingFunc may answer
    None            \* no publisher, no lock holder

ASSUME NoneAssumption ==
    /\ None \notin Calls \cup Closers
    /\ Calls \cap Closers = {}

VARIABLES
    pc,          \* where each call is
    dest,        \* dest[c]: the destination of Publish call c
    pub,         \* pub[c]: the publisher c got from getPublisher
    result,      \* what each call returned
    holder,      \* who holds the write lock
    publishers,  \* publishers[d]: the cached publisher of d
    closed,      \* p.closed
    created,     \* publishers made by GetDestinationPublisher
    closes,      \* closes[c]: how often publisher c was closed
    left,        \* the destinations whose publisher Close has still to close
    failed,      \* closing one of them has failed
    late         \* Publish calls that began after a Close had returned

vars == <<pc, dest, pub, result, holder, publishers, closed, created, closes, left,
          failed, late>>
\* What only Close changes.
closeVars == <<closes, left, failed>>

\* A publisher is named after the Publish call that created it.
PublishPC == {"start", "read", "lock", "recheck", "creating", "marshal", "publish",
              "done"}
ClosePC   == {"start", "lock", "check", "closing", "done"}
Result    == {"none", "ok", "ErrClosed", "error"}

TypeOK ==
    /\ pc \in [Calls \cup Closers -> PublishPC \cup ClosePC]
    /\ dest \in [Calls -> Destinations \cup {None}]
    /\ pub \in [Calls -> Calls \cup {None}]
    /\ result \in [Calls \cup Closers -> Result]
    /\ holder \in Calls \cup Closers \cup {None}
    /\ publishers \in [Destinations -> Calls \cup {None}]
    /\ closed \in BOOLEAN
    /\ created \subseteq Calls
    /\ closes \in [Calls -> 0 .. 1]
    /\ left \subseteq Destinations
    /\ failed \in BOOLEAN
    /\ late \subseteq Calls

Init ==
    /\ pc = [c \in Calls \cup Closers |-> "start"]
    /\ dest = [c \in Calls |-> None]
    /\ pub = [c \in Calls |-> None]
    /\ result = [c \in Calls \cup Closers |-> "none"]
    /\ holder = None
    /\ publishers = [d \in Destinations |-> None]
    /\ closed = FALSE
    /\ created = {}
    /\ closes = [c \in Calls |-> 0]
    /\ left = {}
    /\ failed = FALSE
    /\ late = {}

Goto(c, place) == pc' = [pc EXCEPT ![c] = place]

Returns(c, r) ==
    /\ Goto(c, "done")
    /\ result' = [result EXCEPT ![c] = r]

Free == holder = None

----------------------------------------------------------------------------
\* Publish, up to getPublisher: the RoutingFunc picks a destination or fails.
Route(c) ==
    /\ pc[c] = "start"
    /\ late' = IF \E k \in Closers : pc[k] = "done" THEN late \cup {c} ELSE late
    /\ \/ /\ \E d \in Destinations : dest' = [dest EXCEPT ![c] = d]
          /\ Goto(c, "read")
          /\ UNCHANGED result
       \/ /\ Returns(c, "error")
          /\ UNCHANGED dest
    /\ UNCHANGED <<pub, holder, publishers, closed, created, closeVars>>

\* The section under the read lock, and what is decided from its snapshot.
ReadCache(c) ==
    /\ pc[c] = "read"
    /\ Free
    /\ \/ /\ closed
          /\ Returns(c, "ErrClosed")
          /\ UNCHANGED pub
       \/ /\ ~closed
          /\ publishers[dest[c]] # None
          /\ pub' = [pub EXCEPT ![c] = publishers[dest[c]]]
          /\ Goto(c, "marshal")
          /\ UNCHANGED result
       \/ /\ ~closed
          /\ publishers[dest[c]] = None
          /\ Goto(c, "lock")
          /\ UNCHANGED <<pub, result>>
    /\ UNCHANGED <<dest, holder, publishers, closed, created, closeVars, late>>

Lock(c) ==
    /\ pc[c] = "lock"
    /\ Free
    /\ holder' = c
    /\ Goto(c, IF c \in Calls THEN "recheck" ELSE "check")
    /\ UNCHANGED <<dest, pub, result, publishers, closed, created, closeVars, late>>

\* Under the write lock: the state may have changed since the read lock.
RecheckSkipped(c) ==
    /\ pc[c] = "recheck"
    /\ Goto(c, "creating")
    /\ UNCHANGED <<dest, pub, result, holder, publishers, closed, created, closeVars, late>>

RecheckIgnoresClosed(c) ==
    /\ pc[c] = "recheck"
    /\ \/ /\ publishers[dest[c]] # None
          /\ pub' = [pub EXCEPT ![c] = publishers[dest[c]]]
          /\ Goto(c, "marshal")
          /\ holder' = None
       \/ /\ publishers[dest[c]] = None
          /\ Goto(c, "creating")
          /\ UNCHANGED <<pub, holder>>
    /\ UNCHANGED <<dest, result, publishers, closed, created, closeVars, late>>

Recheck(c) ==
    /\ pc[c] = "recheck"
    /\ \/ /\ closed
          /\ Returns(c, "ErrClosed")
          /\ holder' = None
          /\ UNCHANGED pub
       \/ /\ ~closed
          /\ publishers[dest[c]] # None
          /\ pub' = [pub EXCEPT ![c] = publishers[dest[c]]]
          /\ Goto(c, "marshal")
          /\ holder' = None
          /\ UNCHANGED result
       \/ /\ ~closed
          /\ publishers[dest[c]] = None
          /\ Goto(c, "creating")
          /\ UNCHANGED <<pub, result, holder>>
    /\ UNCHANGED <<dest, publishers, closed, created, closeVars, late>>

\* GetDestinationPublisher returns, still under the write lock.
Create(c) ==
    /\ pc[c] = "creating"
    /\ created' = created \cup {c}
    /\ publishers' = [publishers EXCEPT ![dest[c]] = c]
    /\ pub' = [pub EXCEPT ![c] = c]
    /\ Goto(c, "marshal")
    /\ holder' = None
    /\ UNCHANGED <<dest, result, closed, closeVars, late>>

CreateFailsLocked(c) ==
    /\ pc[c] = "creating"
    /\ Returns(c, "error")
    /\ UNCHANGED <<dest, pub, holder, publishers, closed, created, closeVars, late>>

\* A failed creation is not cached: the next Publish tries again.
CreateFails(c) ==
    /\ pc[c] = "creating"
    /\ Returns(c, "error")
    /\ holder' = None
    /\ UNCHANGED <<dest, pub, publishers, closed, created, closeVars, late>>

Marshal(c) ==
    /\ pc[c] = "marshal"
    /\ \/ Goto(c, "publish") /\ UNCHANGED result
       \/ Returns(c, "error")
    /\ UNCHANGED <<dest, pub, holder, publishers, closed, created, closeVars, late>>

\* pub.Publish, and the message ID that is set only when it succeeded.  The
\* publisher may be closed by now: whether it then fails is its own business.
PublishCall(c) ==
    /\ pc[c] = "publish"
    /\ \E r \in {"ok", "error"} : Returns(c, r)
    /\ UNCHANGED <<dest, pub, holder, publishers, closed, created, closeVars, late>>

----------------------------------------------------------------------------
\* Close.
CallClose(k) ==
    /\ pc[k] = "start"
    /\ Goto(k, "lock")
    /\ UNCHANGED <<dest, pub, result, holder, publishers, closed, created, closeVars, late>>

\* Under the write lock: a pool that is closed already is left alone.
CheckClosedForgets(k) ==
    /\ pc[k] = "check"
    /\ left' = {d \in Destinations : publishers[d] # None}
    /\ Goto(k, "closing")
    /\ UNCHANGED <<dest, pub, result, holder, publishers, closed, created, closes, failed,
                   late>>

CheckClosed(k) ==
    /\ pc[k] = "check"
    /\ \/ /\ closed
          /\ Returns(k, "ok")
          /\ holder' = None
          /\ UNCHANGED <<closed, left>>
       \/ /\ ~closed
          /\ closed' = TRUE
          /\ left' = {d \in Destinations : publishers[d] # None}
          /\ Goto(k, "closing")
          /\ UNCHANGED <<result, holder>>
    /\ UNCHANGED <<dest, pub, publishers, created, closes, failed, late>>

CloseOneStopsAtError(k) ==
    /\ pc[k] = "closing"
    /\ \E d \in left :
          /\ closes' = [closes EXCEPT ![publishers[d]] = @ + 1]
          /\ \/ left' = left \ {d} /\ UNCHANGED failed
             \/ left' = {} /\ failed' = TRUE
    /\ UNCHANGED <<pc, dest, pub, result, holder, publishers, closed, created, late>>

CloseOneRetries(k) ==
    /\ pc[k] = "closing"
    /\ \E d \in left :
          /\ closes' = [closes EXCEPT ![publishers[d]] = @ + 1]
          /\ \/ left' = left \ {d} /\ UNCHANGED failed
             \/ failed' = TRUE /\ UNCHANGED left
    /\ UNCHANGED <<pc, dest, pub, result, holder, publishers, closed, created, late>>

\* One turn of the loop over the map, whose order is arbitrary.
CloseOne(k) ==
    /\ pc[k] = "closing"
    /\ \E d \in left :
          /\ closes' = [closes EXCEPT ![publishers[d]] = @ + 1]
          /\ left' = left \ {d}
          /\ failed' \in {failed, TRUE}
    /\ UNCHANGED <<pc, dest, pub, result, holder, publishers, closed, created, late>>

CloseEnds(k) ==
    /\ pc[k] = "closing"
    /\ left = {}
    /\ publishers' = [d \in Destinations |-> None]
    /\ Returns(k, IF failed THEN "error" ELSE "ok")
    /\ holder' = None
    /\ UNCHANGED <<dest, pub, closed, created, closes, left, failed, late>>

----------------------------------------------------------------------------
PublishStep(c) ==
    \/ Route(c)
    \/ ReadCache(c)
    \/ Recheck(c)
    \/ Create(c)
    \/ CreateFails(c)
    \/ Marshal(c)
    \/ PublishCall(c)

CloseStep(k) ==
    \/ CallClose(k)
    \/ CheckClosed(k)
    \/ CloseOne(k)
    \/ CloseEnds(k)

Terminated ==
    /\ \A c \in Calls \cup Closers : pc[c] = "done"
    /\ UNCHANGED vars

Next ==
    \/ \E c \in Calls : PublishStep(c)
    \/ \E k \in Closers : CloseStep(k)
    \/ \E c \in Calls \cup Closers : Lock(c)
    \/ Terminated

Spec == Init /\ [][Next]_vars

(***************************************************************************)
(* Fairness: while a call under way can move, some call does.  Every call  *)
(* has finitely many steps, so nothing is assumed about the order in which *)
(* sync.RWMutex admits the waiting calls.  It includes that creating,      *)
(* closing and publishing return.                                          *)
(***************************************************************************)
UnderWay ==
    \/ \E c \in Calls : pc[c] # "start" /\ PublishStep(c)
    \/ \E k \in Closers : pc[k] # "start" /\ CloseStep(k)
    \/ \E c \in Calls \cup Closers : Lock(c)

Fairness == WF_vars(UnderWay)

FairSpec == Spec /\ Fairness

----------------------------------------------------------------------------
\* Concurrent first uses of a destination create one publisher, and a creation
\* that failed leaves none behind: no two publishers share a destination.
OnePublisherPerDestination ==
    \A c1, c2 \in created : dest[c1] = dest[c2] => c1 = c2

\* Nothing leaks: once the call of Close that did the work has returned, every
\* publisher ever created has been closed, exactly once, however many errors and
\* further calls of Close there were, and none is created later.
ClosedExactlyOnce ==
    closed /\ (\A k \in Closers : pc[k] # "closing")
        => \A c \in created : closes[c] = 1

\* A Publish that begins after a Close has returned never reaches a publisher.
NoPublishAfterClose ==
    \A c \in late : result[c] \in {"none", "ErrClosed", "error"} /\ pub[c] = None

\* A publisher is handed out only for the destination it was created for.
RightPublisher ==
    \A c \in Calls : pub[c] # None =>
        pub[c] \in created /\ dest[pub[c]] = dest[c]

\* Every call returns, since the lock is released on every path: from some time
\* on no call is under way.
CallsReturn == <>[](\A c \in Calls \cup Closers : pc[c] \in {"start", "done"})

----------------------------------------------------------------------------
PoolState(d) ==
    IF \A c \in created : dest[c] # d THEN "absent"
    ELSE IF \A c \in created : dest[c] = d => closes[c] = 0 THEN "open"
    ELSE "closed"

Pool == INSTANCE PublisherPool WITH
           state <- [d \in Destinations |-> PoolState(d)],
           phase <- IF ~closed THEN "open"
                    ELSE IF \E k \in Closers : pc[k] = "closing" THEN "closing"
                    ELSE "closed"

\* The cache with its lock implements the pool of publishers.
ImplementsPool == Pool!Spec
=============================================================================
