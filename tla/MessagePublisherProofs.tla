----------------------- MODULE MessagePublisherProofs -----------------------
(***************************************************************************)
(* Theorems about MessagePublisher.tla, for any calls of Publish and of    *)
(* Close and any destinations, finitely many or not.                       *)
(***************************************************************************)
EXTENDS MessagePublisher, TLAPS

(***************************************************************************)
(* The inductive invariant.  The lock is what makes the cache right, so it *)
(* says who holds it; what the cache then says of the publishers created;  *)
(* and how far the one call of Close that does the work has come.          *)
(***************************************************************************)

Critical == {"recheck", "creating", "check", "closing"}

\* A call is at one of the places of its kind, and holds the lock exactly in its
\* critical section.
LockInv ==
    /\ \A c \in Calls : pc[c] \in PublishPC
    /\ \A k \in Closers : pc[k] \in ClosePC
    /\ \A c \in Calls \cup Closers :
          holder = c <=> pc[c] \in Critical

\* Some call of Close is closing the publishers.
Closing == \E k \in Closers : pc[k] = "closing"

\* Until Close has ended the cache holds exactly the publishers created, each at
\* its destination; a creation under way is the first one there.
CacheInv ==
    /\ \A c \in Calls : pc[c] \notin {"start", "done"} => dest[c] \in Destinations
    /\ \A c \in created : dest[c] \in Destinations /\ pc[c] \in {"marshal", "publish", "done"}
    /\ \A d \in Destinations :
          publishers[d] # None => publishers[d] \in created /\ dest[publishers[d]] = d
    /\ ~closed \/ Closing => \A c \in created : publishers[dest[c]] = c
    /\ \A c \in Calls : pc[c] = "creating" => ~closed /\ publishers[dest[c]] = None

\* No publisher is closed before Close, and while Close is under way exactly
\* those that are left are not.
CloseInv ==
    /\ Closing => closed
    /\ \A c \in Calls : c \notin created \/ ~closed => closes[c] = 0
    /\ Closing =>
          /\ \A d \in left : publishers[d] # None
          /\ \A c \in created : closes[c] = IF dest[c] \in left THEN 0 ELSE 1
    /\ ClosedExactlyOnce

\* A late Publish never gets past the read lock.
LateInv ==
    /\ \A k \in Closers : pc[k] = "done" => closed
    /\ \A c \in Calls :
          /\ pc[c] \in {"start", "read"} => pub[c] = None
          /\ pc[c] = "start" => result[c] = "none"
    /\ \A c \in late :
          /\ closed
          /\ pc[c] \in {"read", "done"}
          /\ pub[c] = None
          /\ result[c] \in {"none", "ErrClosed", "error"}

PInv ==
    /\ TypeOK
    /\ LockInv
    /\ CacheInv
    /\ CloseInv
    /\ LateInv
    /\ RightPublisher
    /\ OnePublisherPerDestination

----------------------------------------------------------------------------
\* A move of one call from place to place, with what it does to the lock.
LEMMA LockMoves ==
    ASSUME TypeOK, LockInv,
           NEW c \in Calls \cup Closers, NEW p, Goto(c, p),
           c \in Calls => p \in PublishPC,
           c \in Closers => p \in ClosePC,
           \/ holder' = holder /\ (pc[c] \in Critical <=> p \in Critical)
           \/ holder' = None /\ pc[c] \in Critical /\ p \notin Critical
           \/ holder' = c /\ holder = None /\ p \in Critical
    PROVE  LockInv'
<1>1. \A e \in Calls \cup Closers : pc'[e] = IF e = c THEN p ELSE pc[e]
    BY DEF Goto, TypeOK
<1>2. None \notin Calls \cup Closers
    BY NoneAssumption
<1>3. \A e \in Calls \cup Closers : holder = e <=> pc[e] \in Critical
    BY DEF LockInv
<1>4. \A e \in Calls \cup Closers : holder' = e <=> pc'[e] \in Critical
    <2>1. CASE holder' = holder /\ (pc[c] \in Critical <=> p \in Critical)
        BY <1>1, <1>3, <2>1
    <2>2. CASE holder' = None /\ pc[c] \in Critical /\ p \notin Critical
        BY <1>1, <1>2, <1>3, <2>2
    <2>3. CASE holder' = c /\ holder = None /\ p \in Critical
        BY <1>1, <1>2, <1>3, <2>3
    <2>4. QED
        BY <2>1, <2>2, <2>3
<1>5. (\A e \in Calls : pc'[e] \in PublishPC) /\ (\A k \in Closers : pc'[k] \in ClosePC)
    BY <1>1 DEF LockInv
<1>6. QED
    BY <1>4, <1>5 DEF LockInv

\* The lock is taken on one path and released on every one.
LEMMA LockStep ==
    ASSUME TypeOK, LockInv, [Next]_vars
    PROVE  LockInv'
<1> USE DEF Returns, Free, Critical, PublishPC, ClosePC
<1>1. ASSUME NEW c \in Calls, Route(c)
      PROVE  LockInv'
    BY <1>1, LockMoves, NoneAssumption DEF Route
<1>2. ASSUME NEW c \in Calls, ReadCache(c)
      PROVE  LockInv'
    BY <1>2, LockMoves, NoneAssumption DEF ReadCache
<1>3. ASSUME NEW c \in Calls, Recheck(c)
      PROVE  LockInv'
    BY <1>3, LockMoves, NoneAssumption DEF Recheck
<1>4. ASSUME NEW c \in Calls, Create(c)
      PROVE  LockInv'
    BY <1>4, LockMoves, NoneAssumption DEF Create
<1>5. ASSUME NEW c \in Calls, CreateFails(c)
      PROVE  LockInv'
    BY <1>5, LockMoves, NoneAssumption DEF CreateFails
<1>6. ASSUME NEW c \in Calls, Marshal(c)
      PROVE  LockInv'
    BY <1>6, LockMoves, NoneAssumption DEF Marshal
<1>7. ASSUME NEW c \in Calls, PublishCall(c)
      PROVE  LockInv'
    BY <1>7, LockMoves, NoneAssumption DEF PublishCall
<1>8. ASSUME NEW k \in Closers, CallClose(k)
      PROVE  LockInv'
    BY <1>8, LockMoves, NoneAssumption DEF CallClose
<1>9. ASSUME NEW k \in Closers, CheckClosed(k)
      PROVE  LockInv'
    BY <1>9, LockMoves, NoneAssumption DEF CheckClosed
<1>10. ASSUME NEW k \in Closers, CloseOne(k)
      PROVE  LockInv'
    BY <1>10 DEF CloseOne, LockInv
<1>11. ASSUME NEW k \in Closers, CloseEnds(k)
      PROVE  LockInv'
    BY <1>11, LockMoves, NoneAssumption DEF CloseEnds
<1>12. ASSUME NEW c \in Calls \cup Closers, Lock(c)
      PROVE  LockInv'
    BY <1>12, LockMoves, NoneAssumption DEF Lock
<1>13. CASE UNCHANGED vars
    BY <1>13 DEF vars, LockInv
<1>14. QED
    BY <1>1, <1>2, <1>3, <1>4, <1>5, <1>6, <1>7, <1>8, <1>9, <1>10, <1>11, <1>12, <1>13
    DEF Next, PublishStep, CloseStep, Terminated

\* Only one call is in the critical section.
LEMMA OneInside ==
    ASSUME LockInv, NEW c \in Calls \cup Closers, NEW e \in Calls \cup Closers,
           pc[c] \in Critical, pc[e] \in Critical
    PROVE  c = e
BY DEF LockInv, Critical

\* The next publisher that Close closes has not been closed yet.
LEMMA NextToClose ==
    ASSUME PInv, NEW k \in Closers, CloseOne(k), NEW d \in left
    PROVE  /\ d \in Destinations
           /\ publishers[d] \in created /\ publishers[d] \in Calls
           /\ dest[publishers[d]] = d
           /\ closes[publishers[d]] = 0
<1>1. Closing
    BY DEF CloseOne, Closing
<1>2. d \in Destinations /\ publishers[d] # None
    BY <1>1 DEF PInv, TypeOK, CloseInv
<1>3. publishers[d] \in created /\ dest[publishers[d]] = d
    BY <1>2 DEF PInv, CacheInv
<1>4. closes[publishers[d]] = 0
    BY <1>1, <1>3 DEF PInv, CloseInv
<1>5. QED
    BY <1>2, <1>3, <1>4 DEF PInv, TypeOK

\* Every step keeps the types; no publisher is closed twice, by CloseInv.
LEMMA TypeStep ==
    ASSUME PInv, [Next]_vars
    PROVE  TypeOK'
<1> USE DEF PInv, TypeOK, Goto, Returns, closeVars, PublishPC, ClosePC, Result
<1>1. ASSUME NEW c \in Calls, Route(c)
      PROVE  TypeOK'
    BY <1>1 DEF Route
<1>2. ASSUME NEW c \in Calls, ReadCache(c)
      PROVE  TypeOK'
    <2>1. dest[c] \in Destinations
        BY <1>2 DEF ReadCache, CacheInv
    <2>2. QED
        BY <1>2, <2>1 DEF ReadCache
<1>3. ASSUME NEW c \in Calls, Recheck(c)
      PROVE  TypeOK'
    <2>1. dest[c] \in Destinations
        BY <1>3 DEF Recheck, CacheInv
    <2>2. QED
        BY <1>3, <2>1 DEF Recheck
<1>4. ASSUME NEW c \in Calls, Create(c)
      PROVE  TypeOK'
    BY <1>4 DEF Create
<1>5. ASSUME NEW c \in Calls, CreateFails(c)
      PROVE  TypeOK'
    BY <1>5 DEF CreateFails
<1>6. ASSUME NEW c \in Calls, Marshal(c)
      PROVE  TypeOK'
    BY <1>6 DEF Marshal
<1>7. ASSUME NEW c \in Calls, PublishCall(c)
      PROVE  TypeOK'
    BY <1>7 DEF PublishCall
<1>8. ASSUME NEW k \in Closers, CallClose(k)
      PROVE  TypeOK'
    BY <1>8 DEF CallClose
<1>9. ASSUME NEW k \in Closers, CheckClosed(k)
      PROVE  TypeOK'
    BY <1>9 DEF CheckClosed
<1>10. ASSUME NEW k \in Closers, CloseOne(k)
      PROVE  TypeOK'
    <2>1. PICK d \in left : /\ closes' = [closes EXCEPT ![publishers[d]] = @ + 1]
                           /\ left' = left \ {d}
        BY <1>10 DEF CloseOne
    <2>2. publishers[d] \in Calls /\ closes[publishers[d]] = 0
        BY <1>10, <2>1, NextToClose
    <2>3. closes' \in [Calls -> 0 .. 1] /\ left' \subseteq Destinations
        BY <2>1, <2>2
    <2>4. failed' \in BOOLEAN
        BY <1>10 DEF CloseOne
    <2>5. QED
        BY <1>10, <2>3, <2>4 DEF CloseOne
<1>11. ASSUME NEW k \in Closers, CloseEnds(k)
      PROVE  TypeOK'
    BY <1>11 DEF CloseEnds
<1>12. ASSUME NEW c \in Calls \cup Closers, Lock(c)
      PROVE  TypeOK'
    BY <1>12 DEF Lock
<1>13. CASE UNCHANGED vars
    BY <1>13 DEF vars
<1>14. QED
    BY <1>1, <1>2, <1>3, <1>4, <1>5, <1>6, <1>7, <1>8, <1>9, <1>10, <1>11, <1>12, <1>13
    DEF Next, PublishStep, CloseStep, Terminated

\* Where every call is after one of them has moved.
LEMMA Moved ==
    ASSUME TypeOK, NEW c \in Calls \cup Closers, NEW p, Goto(c, p)
    PROVE  \A e \in Calls \cup Closers : pc'[e] = IF e = c THEN p ELSE pc[e]
BY DEF TypeOK, Goto

\* A call that moves and leaves the cache alone, without beginning a creation and
\* without beginning or ending the work of Close, keeps CacheInv.
LEMMA QuietCache ==
    ASSUME PInv, NEW c \in Calls \cup Closers, NEW p, Goto(c, p),
           UNCHANGED <<dest, publishers, closed, created>>,
           p \notin {"creating", "closing"},
           pc[c] # "closing",
           c \in Calls => pc[c] \notin {"start", "done"},
           c \in created => p \in {"marshal", "publish", "done"}
    PROVE  CacheInv'
<1>1. \A e \in Calls \cup Closers : pc'[e] = IF e = c THEN p ELSE pc[e]
    BY Moved DEF PInv
<1>2. Closing' => Closing
    BY <1>1 DEF Closing
<1>3. QED
    BY <1>1, <1>2 DEF PInv, TypeOK, CacheInv

\* Every step keeps CacheInv.
LEMMA CacheStep ==
    ASSUME PInv, [Next]_vars
    PROVE  CacheInv'
<1>1. ASSUME NEW c \in Calls, Route(c)
      PROVE  CacheInv'
    <2>1. \A e \in Calls \cup Closers :
            pc'[e] = IF e = c THEN pc'[c] ELSE pc[e]
        BY <1>1, Moved DEF Route, Returns, PInv
    <2>2. c \notin created
        BY <1>1 DEF Route, PInv, CacheInv
    <2>3. \A e \in Calls : e # c => dest'[e] = dest[e]
        BY <1>1 DEF Route, PInv, TypeOK
    <2>4. (pc'[c] = "read" /\ dest'[c] \in Destinations) \/ pc'[c] = "done"
        BY <1>1 DEF Route, Returns, Goto, PInv, TypeOK
    <2>5. UNCHANGED <<publishers, closed, created>>
        BY <1>1 DEF Route
    <2>6. Closing' = Closing
        BY <1>1, <2>1, NoneAssumption DEF Closing, Route
    <2>7. QED
        BY <2>1, <2>2, <2>3, <2>4, <2>5, <2>6 DEF PInv, TypeOK, CacheInv
<1>2. ASSUME NEW c \in Calls, ReadCache(c)
      PROVE  CacheInv'
    <2>1. c \notin created
        BY <1>2 DEF ReadCache, PInv, CacheInv
    <2>2. QED
        BY <1>2, <2>1, QuietCache DEF ReadCache, Returns
<1>3. ASSUME NEW c \in Calls, Recheck(c)
      PROVE  CacheInv'
    <2>1. c \notin created
        BY <1>3 DEF Recheck, PInv, CacheInv
    <2>2. CASE ~Goto(c, "creating")
        BY <1>3, <2>1, <2>2, QuietCache DEF Recheck, Returns
    <2>3. CASE Goto(c, "creating")
        <3>1. \A e \in Calls \cup Closers : pc'[e] = IF e = c THEN "creating" ELSE pc[e]
            BY <2>3, Moved DEF PInv
        <3>2. ~closed /\ publishers[dest[c]] = None
            BY <1>3, <3>1 DEF Recheck, Returns, Goto, PInv, TypeOK
        <3>3. Closing' = Closing
            BY <1>3, <3>1 DEF Closing, Recheck
        <3>4. UNCHANGED <<dest, publishers, closed, created>> /\ pc[c] = "recheck"
            BY <1>3 DEF Recheck
        <3>5. QED
            BY <2>1, <3>1, <3>2, <3>3, <3>4 DEF PInv, TypeOK, CacheInv
    <2>4. QED
        BY <2>2, <2>3
<1>4. ASSUME NEW c \in Calls, Create(c)
      PROVE  CacheInv'
    <2>1. \A e \in Calls \cup Closers : pc'[e] = IF e = c THEN "marshal" ELSE pc[e]
        BY <1>4, Moved DEF Create, PInv
    <2>2. /\ dest[c] \in Destinations
          /\ ~closed
          /\ publishers[dest[c]] = None
        BY <1>4 DEF Create, PInv, CacheInv
    <2>3. \A d \in Destinations : publishers'[d] = IF d = dest[c] THEN c ELSE publishers[d]
        BY <1>4 DEF Create, PInv, TypeOK
    <2>4. \A e \in created : dest[e] # dest[c] /\ publishers[dest[e]] = e
        BY <2>2, NoneAssumption DEF PInv, CacheInv, TypeOK
    <2>5. created' = created \cup {c} /\ dest' = dest /\ closed' = closed
        BY <1>4 DEF Create
    <2>6. \A e \in Calls : e # c => pc[e] # "creating"
        BY <1>4, OneInside DEF Create, Critical, PInv
    <2>7. QED
        BY <2>1, <2>2, <2>3, <2>4, <2>5, <2>6 DEF PInv, TypeOK, CacheInv
<1>5. ASSUME NEW c \in Calls, CreateFails(c)
      PROVE  CacheInv'
    <2>1. c \notin created
        BY <1>5 DEF CreateFails, PInv, CacheInv
    <2>2. QED
        BY <1>5, <2>1, QuietCache DEF CreateFails, Returns
<1>6. ASSUME NEW c \in Calls, Marshal(c)
      PROVE  CacheInv'
    BY <1>6, QuietCache DEF Marshal, Returns
<1>7. ASSUME NEW c \in Calls, PublishCall(c)
      PROVE  CacheInv'
    BY <1>7, QuietCache DEF PublishCall, Returns
<1>8. ASSUME NEW k \in Closers, CallClose(k)
      PROVE  CacheInv'
    BY <1>8, QuietCache, NoneAssumption DEF CallClose, PInv, TypeOK
<1>9. ASSUME NEW k \in Closers, CheckClosed(k)
      PROVE  CacheInv'
    <2>1. CASE closed
        BY <1>9, <2>1, QuietCache, NoneAssumption DEF CheckClosed, Returns, PInv, TypeOK
    <2>2. CASE ~closed
        <3>1. \A e \in Calls \cup Closers : pc'[e] = IF e = k THEN "closing" ELSE pc[e]
            BY <1>9, <2>2, Moved DEF CheckClosed, PInv
        <3>2. \A e \in Calls : e # k /\ pc[e] # "creating"
            BY <1>9, OneInside, NoneAssumption DEF CheckClosed, Critical, PInv
        <3>3. UNCHANGED <<dest, publishers, created>>
            BY <1>9 DEF CheckClosed
        <3>4. QED
            BY <2>2, <3>1, <3>2, <3>3 DEF PInv, TypeOK, CacheInv
    <2>3. QED
        BY <2>1, <2>2
<1>10. ASSUME NEW k \in Closers, CloseOne(k)
      PROVE  CacheInv'
    BY <1>10 DEF CloseOne, CacheInv, Closing, PInv
<1>11. ASSUME NEW k \in Closers, CloseEnds(k)
      PROVE  CacheInv'
    <2>1. \A e \in Calls \cup Closers : pc'[e] = IF e = k THEN "done" ELSE pc[e]
        BY <1>11, Moved DEF CloseEnds, Returns, PInv
    <2>2. \A e \in Calls \cup Closers : e # k => pc[e] \notin {"closing", "creating"}
        BY <1>11, OneInside DEF CloseEnds, Critical, PInv
    <2>3. ~Closing'
        BY <2>1, <2>2 DEF Closing
    <2>4. closed'
        BY <1>11 DEF CloseEnds, Closing, CloseInv, PInv
    <2>5. \A d \in Destinations : publishers'[d] = None
        BY <1>11 DEF CloseEnds
    <2>6. \A e \in Calls : e # k
        BY NoneAssumption
    <2>7. UNCHANGED <<dest, created>>
        BY <1>11 DEF CloseEnds
    <2>8. QED
        BY <2>1, <2>2, <2>3, <2>4, <2>5, <2>6, <2>7 DEF PInv, TypeOK, CacheInv
<1>12. ASSUME NEW c \in Calls \cup Closers, Lock(c)
      PROVE  CacheInv'
    <2>1. c \notin created
        BY <1>12 DEF Lock, PInv, CacheInv
    <2>2. QED
        BY <1>12, <2>1, QuietCache DEF Lock
<1>13. CASE UNCHANGED vars
    BY <1>13 DEF vars, CacheInv, Closing, PInv
<1>14. QED
    BY <1>1, <1>2, <1>3, <1>4, <1>5, <1>6, <1>7, <1>8, <1>9, <1>10, <1>11, <1>12, <1>13
    DEF Next, PublishStep, CloseStep, Terminated

\* A call that moves and leaves publishers and flags alone, without beginning or
\* ending the work of Close, keeps CloseInv.
LEMMA QuietClose ==
    ASSUME PInv, NEW c \in Calls \cup Closers, NEW p, Goto(c, p),
           UNCHANGED <<publishers, closed, created, closes, left>>,
           \A e \in created : dest'[e] = dest[e],
           p # "closing", pc[c] # "closing"
    PROVE  CloseInv'
<1>1. \A e \in Calls \cup Closers : pc'[e] = IF e = c THEN p ELSE pc[e]
    BY Moved DEF PInv
<1>2. \A k \in Closers : pc'[k] = "closing" <=> pc[k] = "closing"
    BY <1>1
<1>3. Closing' = Closing
    BY <1>2 DEF Closing
<1>4. ClosedExactlyOnce'
    BY <1>2 DEF PInv, CloseInv, ClosedExactlyOnce
<1>5. QED
    BY <1>3, <1>4 DEF PInv, CloseInv

\* Every step keeps CloseInv.
LEMMA CloseInvStep ==
    ASSUME PInv, [Next]_vars
    PROVE  CloseInv'
<1>1. ASSUME NEW c \in Calls, Route(c)
      PROVE  CloseInv'
    <2>1. \A e \in created : dest'[e] = dest[e]
        BY <1>1 DEF Route, PInv, CacheInv, TypeOK
    <2>2. UNCHANGED <<publishers, closed, created, closes, left>>
        BY <1>1 DEF Route, closeVars
    <2>3. QED
        BY <1>1, <2>1, <2>2, QuietClose DEF Route, Returns
<1>2. ASSUME NEW c \in Calls, ReadCache(c)
      PROVE  CloseInv'
    BY <1>2, QuietClose DEF ReadCache, closeVars, Returns
<1>3. ASSUME NEW c \in Calls, Recheck(c)
      PROVE  CloseInv'
    BY <1>3, QuietClose DEF Recheck, closeVars, Returns
<1>4. ASSUME NEW c \in Calls, Create(c)
      PROVE  CloseInv'
    <2>1. ~closed
        BY <1>4 DEF Create, PInv, CacheInv
    <2>2. \A e \in Calls \cup Closers : pc'[e] = IF e = c THEN "marshal" ELSE pc[e]
        BY <1>4, Moved DEF Create, PInv
    <2>3. ~Closing'
        BY <2>1, <2>2 DEF Closing, PInv, CloseInv
    <2>4. UNCHANGED <<closed, closes>>
        BY <1>4 DEF Create, closeVars
    <2>5. QED
        BY <2>1, <2>3, <2>4 DEF PInv, CloseInv, ClosedExactlyOnce
<1>5. ASSUME NEW c \in Calls, CreateFails(c)
      PROVE  CloseInv'
    BY <1>5, QuietClose DEF CreateFails, closeVars, Returns
<1>6. ASSUME NEW c \in Calls, Marshal(c)
      PROVE  CloseInv'
    BY <1>6, QuietClose DEF Marshal, closeVars, Returns
<1>7. ASSUME NEW c \in Calls, PublishCall(c)
      PROVE  CloseInv'
    BY <1>7, QuietClose DEF PublishCall, closeVars, Returns
<1>8. ASSUME NEW k \in Closers, CallClose(k)
      PROVE  CloseInv'
    BY <1>8, QuietClose DEF CallClose, closeVars, Goto
<1>9. ASSUME NEW k \in Closers, CheckClosed(k)
      PROVE  CloseInv'
    <2>1. CASE closed
        BY <1>9, <2>1, QuietClose DEF CheckClosed, Returns
    <2>2. CASE ~closed
        <3>1. \A e \in Calls \cup Closers : pc'[e] = IF e = k THEN "closing" ELSE pc[e]
            BY <1>9, <2>2, Moved DEF CheckClosed, PInv
        <3>2. /\ closed'
              /\ left' = {d \in Destinations : publishers[d] # None}
              /\ UNCHANGED <<dest, publishers, created, closes>>
            BY <1>9, <2>2 DEF CheckClosed
        <3>3. \A c \in created : c \in Calls /\ closes[c] = 0 /\ dest[c] \in left'
            BY <2>2, <3>2, NoneAssumption DEF PInv, TypeOK, CacheInv, CloseInv
        <3>4. \A c \in Calls : closes[c] = 0
            BY <2>2 DEF PInv, CloseInv
        <3>5. ~ \A e \in Closers : pc'[e] # "closing"
            BY <3>1
        <3>6. QED
            BY <3>2, <3>3, <3>4, <3>5 DEF CloseInv, ClosedExactlyOnce
    <2>3. QED
        BY <2>1, <2>2
<1>10. ASSUME NEW k \in Closers, CloseOne(k)
      PROVE  CloseInv'
    <2>1. PICK d \in left : /\ closes' = [closes EXCEPT ![publishers[d]] = @ + 1]
                           /\ left' = left \ {d}
        BY <1>10 DEF CloseOne
    <2>2. /\ d \in Destinations
          /\ publishers[d] \in created /\ publishers[d] \in Calls
          /\ dest[publishers[d]] = d
          /\ closes[publishers[d]] = 0
        BY <1>10, <2>1, NextToClose
    <2>3. UNCHANGED <<pc, dest, publishers, closed, created>>
        BY <1>10 DEF CloseOne
    <2>4. Closing /\ closed
        BY <1>10 DEF CloseOne, Closing, PInv, CloseInv
    <2>5. \A c \in Calls : closes'[c] = IF c = publishers[d] THEN 1 ELSE closes[c]
        BY <2>1, <2>2 DEF PInv, TypeOK
    <2>6. \A c \in created : c # publishers[d] => dest[c] # d
        BY <2>2, <2>4 DEF PInv, CacheInv
    <2>7. \A c \in created : closes'[c] = IF dest'[c] \in left' THEN 0 ELSE 1
        BY <2>1, <2>2, <2>3, <2>4, <2>5, <2>6 DEF PInv, TypeOK, CloseInv
    <2>8. \A c \in Calls : c \notin created => closes'[c] = 0
        BY <2>2, <2>5 DEF PInv, CloseInv
    <2>9. ~ \A e \in Closers : pc'[e] # "closing"
        BY <1>10, <2>3 DEF CloseOne
    <2>10. QED
        BY <2>1, <2>3, <2>4, <2>7, <2>8, <2>9 DEF PInv, CloseInv, Closing, ClosedExactlyOnce
<1>11. ASSUME NEW k \in Closers, CloseEnds(k)
      PROVE  CloseInv'
    <2>1. \A e \in Calls \cup Closers : pc'[e] = IF e = k THEN "done" ELSE pc[e]
        BY <1>11, Moved DEF CloseEnds, Returns, PInv
    <2>2. \A e \in Closers : e # k => pc[e] # "closing"
        BY <1>11, OneInside DEF CloseEnds, Critical, PInv
    <2>3. ~Closing'
        BY <2>1, <2>2 DEF Closing
    <2>4. Closing /\ left = {} /\ UNCHANGED <<closed, created, closes>>
        BY <1>11 DEF CloseEnds, Closing
    <2>5. \A c \in created : closes[c] = 1
        BY <2>4 DEF PInv, CloseInv
    <2>6. QED
        BY <2>3, <2>4, <2>5 DEF PInv, CloseInv, ClosedExactlyOnce
<1>12. ASSUME NEW c \in Calls \cup Closers, Lock(c)
      PROVE  CloseInv'
    BY <1>12, QuietClose DEF Lock, closeVars, Goto
<1>13. CASE UNCHANGED vars
    BY <1>13 DEF vars, CloseInv, Closing, PInv, ClosedExactlyOnce
<1>14. QED
    BY <1>1, <1>2, <1>3, <1>4, <1>5, <1>6, <1>7, <1>8, <1>9, <1>10, <1>11, <1>12, <1>13
    DEF Next, PublishStep, CloseStep, Terminated

\* A call that moves past the read lock, or that is not a Publish, keeps LateInv.
LEMMA QuietLate ==
    ASSUME PInv, NEW c \in Calls \cup Closers, NEW p, Goto(c, p),
           p \notin {"start", "read"},
           c \in late => p = "done",
           c \in Calls => pc[c] # "start",
           late' = late, closed => closed',
           c \in Closers /\ p = "done" => closed',
           \A e \in Calls : e # c \/ e \in late => pub'[e] = pub[e],
           \A e \in Calls : e # c => result'[e] = result[e],
           c \in late => result'[c] \in {"ErrClosed", "error"}
    PROVE  LateInv'
<1>1. \A e \in Calls \cup Closers : pc'[e] = IF e = c THEN p ELSE pc[e]
    BY Moved DEF PInv
<1>2. \A k \in Closers : pc'[k] = "done" => closed'
    BY <1>1 DEF PInv, LateInv
<1>3. \A e \in Calls : /\ pc'[e] \in {"start", "read"} => pub'[e] = None
                       /\ pc'[e] = "start" => result'[e] = "none"
    BY <1>1 DEF PInv, LateInv
<1>4. late \subseteq Calls
    BY DEF PInv, TypeOK
<1>5. \A e \in late : /\ closed'
                      /\ pc'[e] \in {"read", "done"}
                      /\ pub'[e] = None
                      /\ result'[e] \in {"none", "ErrClosed", "error"}
    BY <1>1, <1>4 DEF PInv, LateInv
<1>6. QED
    BY <1>2, <1>3, <1>5 DEF LateInv

\* In the critical section, and where a publisher is in use, no call is late.
LEMMA NotLate ==
    ASSUME PInv, NEW c \in Calls, pc[c] \notin {"read", "done"}
    PROVE  c \notin late
BY DEF PInv, LateInv

\* Every step keeps LateInv.
LEMMA LateStep ==
    ASSUME PInv, [Next]_vars
    PROVE  LateInv'
<1>1. ASSUME NEW c \in Calls, Route(c)
      PROVE  LateInv'
    <2>1. \A e \in Calls \cup Closers :
            pc'[e] = IF e = c THEN pc'[c] ELSE pc[e]
        BY <1>1, Moved DEF Route, Returns, PInv
    <2>2. /\ pc'[c] \in {"read", "done"}
          /\ result'[c] \in {"none", "error"}
          /\ pub' = pub /\ pub[c] = None
          /\ \A e \in Calls : e # c => result'[e] = result[e]
        BY <1>1 DEF Route, Returns, Goto, PInv, TypeOK, LateInv
    <2>3. \A e \in late' : e \in Calls /\ closed
        BY <1>1 DEF Route, PInv, TypeOK, LateInv
    <2>4. late' \subseteq late \cup {c}
        BY <1>1 DEF Route
    <2>5. closed' = closed /\ c \notin Closers
        BY <1>1, NoneAssumption DEF Route
    <2>6. QED
        BY <2>1, <2>2, <2>3, <2>4, <2>5 DEF PInv, LateInv
<1>2. ASSUME NEW c \in Calls, ReadCache(c)
      PROVE  LateInv'
    <2>1. c \notin Closers
        BY NoneAssumption
    <2>2. c \in late => closed
        BY DEF PInv, LateInv
    <2>3. CASE closed
        BY <1>2, <2>1, <2>3, QuietLate DEF ReadCache, Returns, PInv, TypeOK
    <2>4. CASE ~closed
        BY <1>2, <2>1, <2>2, <2>4, QuietLate DEF ReadCache, PInv, TypeOK
    <2>5. QED
        BY <2>3, <2>4
<1>3. ASSUME NEW c \in Calls, Recheck(c)
      PROVE  LateInv'
    <2>1. c \notin late
        BY <1>3, NotLate DEF Recheck
    <2>2. QED
        BY <1>3, <2>1, QuietLate, NoneAssumption DEF Recheck, Returns, PInv, TypeOK
<1>4. ASSUME NEW c \in Calls, Create(c)
      PROVE  LateInv'
    <2>1. c \notin late
        BY <1>4, NotLate DEF Create
    <2>2. QED
        BY <1>4, <2>1, QuietLate, NoneAssumption DEF Create, Returns, PInv, TypeOK
<1>5. ASSUME NEW c \in Calls, CreateFails(c)
      PROVE  LateInv'
    <2>1. c \notin late
        BY <1>5, NotLate DEF CreateFails
    <2>2. QED
        BY <1>5, <2>1, QuietLate, NoneAssumption DEF CreateFails, Returns, PInv, TypeOK
<1>6. ASSUME NEW c \in Calls, Marshal(c)
      PROVE  LateInv'
    <2>1. c \notin late
        BY <1>6, NotLate DEF Marshal
    <2>2. QED
        BY <1>6, <2>1, QuietLate, NoneAssumption DEF Marshal, Returns, PInv, TypeOK
<1>7. ASSUME NEW c \in Calls, PublishCall(c)
      PROVE  LateInv'
    <2>1. c \notin late
        BY <1>7, NotLate DEF PublishCall
    <2>2. QED
        BY <1>7, <2>1, QuietLate, NoneAssumption DEF PublishCall, Returns, PInv, TypeOK
<1>8. ASSUME NEW k \in Closers, CallClose(k)
      PROVE  LateInv'
    <2>1. k \notin late /\ k \notin Calls
        BY NoneAssumption DEF PInv, TypeOK
    <2>2. QED
        BY <1>8, <2>1, QuietLate DEF CallClose, Returns, PInv, TypeOK
<1>9. ASSUME NEW k \in Closers, CheckClosed(k)
      PROVE  LateInv'
    <2>1. k \notin late /\ k \notin Calls
        BY NoneAssumption DEF PInv, TypeOK
    <2>2. QED
        BY <1>9, <2>1, QuietLate DEF CheckClosed, Returns, PInv, TypeOK
<1>10. ASSUME NEW k \in Closers, CloseOne(k)
      PROVE  LateInv'
    BY <1>10 DEF CloseOne, PInv, LateInv
<1>11. ASSUME NEW k \in Closers, CloseEnds(k)
      PROVE  LateInv'
    <2>1. k \notin late /\ k \notin Calls
        BY NoneAssumption DEF PInv, TypeOK
    <2>2. QED
        BY <1>11, <2>1, QuietLate DEF CloseEnds, Returns, PInv, TypeOK, CloseInv, Closing
<1>12. ASSUME NEW c \in Calls \cup Closers, Lock(c)
      PROVE  LateInv'
    <2>1. c \notin late
        BY <1>12, NotLate, NoneAssumption DEF Lock, PInv, TypeOK
    <2>2. QED
        BY <1>12, <2>1, QuietLate, NoneAssumption DEF Lock, PInv, TypeOK
<1>13. CASE UNCHANGED vars
    BY <1>13 DEF vars, LateInv, PInv
<1>14. QED
    BY <1>1, <1>2, <1>3, <1>4, <1>5, <1>6, <1>7, <1>8, <1>9, <1>10, <1>11, <1>12, <1>13
    DEF Next, PublishStep, CloseStep, Terminated

\* Only Create adds a publisher, for a destination that has none.
LEMMA OneStep ==
    ASSUME PInv, [Next]_vars
    PROVE  OnePublisherPerDestination'
<1>1. ASSUME UNCHANGED created, \A e \in created : dest'[e] = dest[e]
      PROVE  OnePublisherPerDestination'
    BY <1>1 DEF PInv, OnePublisherPerDestination
<1>2. ASSUME NEW c \in Calls, Create(c)
      PROVE  OnePublisherPerDestination'
    <2>1. ~closed /\ publishers[dest[c]] = None
        BY <1>2 DEF Create, PInv, CacheInv
    <2>2. \A e \in created : dest[e] # dest[c]
        BY <2>1, NoneAssumption DEF PInv, CacheInv, TypeOK
    <2>3. created' = created \cup {c} /\ dest' = dest
        BY <1>2 DEF Create
    <2>4. QED
        BY <2>2, <2>3 DEF PInv, OnePublisherPerDestination
<1>3. ASSUME NEW c \in Calls, Route(c)
      PROVE  OnePublisherPerDestination'
    <2>1. created' = created /\ \A e \in created : dest'[e] = dest[e]
        BY <1>3 DEF Route, PInv, TypeOK, CacheInv
    <2>2. QED
        BY <1>1, <2>1
<1>4. ASSUME UNCHANGED <<dest, created>>
      PROVE  OnePublisherPerDestination'
    BY <1>1, <1>4
<1>5. ASSUME NEW c \in Calls,
             ReadCache(c) \/ Recheck(c) \/ CreateFails(c) \/ Marshal(c) \/ PublishCall(c)
      PROVE  OnePublisherPerDestination'
    BY <1>4, <1>5 DEF ReadCache, Recheck, CreateFails, Marshal, PublishCall
<1>6. ASSUME NEW k \in Closers, CloseStep(k)
      PROVE  OnePublisherPerDestination'
    BY <1>4, <1>6 DEF CloseStep, CallClose, CheckClosed, CloseOne, CloseEnds
<1>7. ASSUME NEW c \in Calls \cup Closers, Lock(c)
      PROVE  OnePublisherPerDestination'
    BY <1>4, <1>7 DEF Lock
<1>8. CASE UNCHANGED vars
    BY <1>4, <1>8 DEF vars
<1>9. QED
    BY <1>2, <1>3, <1>5, <1>6, <1>7, <1>8 DEF Next, PublishStep, Terminated

\* A call gets a publisher from the cache, at its own destination, or creates it.
LEMMA RightStep ==
    ASSUME PInv, [Next]_vars
    PROVE  RightPublisher'
<1> USE NoneAssumption
<1>1. ASSUME UNCHANGED <<dest, pub, created>>
      PROVE  RightPublisher'
    BY <1>1 DEF PInv, RightPublisher
<1>2. ASSUME NEW c \in Calls, Route(c)
      PROVE  RightPublisher'
    <2>1. pub' = pub /\ created' = created /\ pub[c] = None /\ c \notin created
        BY <1>2 DEF Route, PInv, LateInv, CacheInv
    <2>2. \A e \in Calls : e # c => dest'[e] = dest[e]
        BY <1>2 DEF Route, PInv, TypeOK
    <2>3. QED
        BY <2>1, <2>2 DEF PInv, TypeOK, RightPublisher
<1>3. ASSUME NEW c \in Calls, ReadCache(c) \/ Recheck(c)
      PROVE  RightPublisher'
    <2>1. UNCHANGED <<dest, created>> /\ dest[c] \in Destinations
        BY <1>3 DEF ReadCache, Recheck, PInv, CacheInv
    <2>2. \/ pub' = pub
          \/ pub' = [pub EXCEPT ![c] = publishers[dest[c]]] /\ publishers[dest[c]] # None
        BY <1>3 DEF ReadCache, Recheck
    <2>3. publishers[dest[c]] # None =>
              /\ publishers[dest[c]] \in created
              /\ dest[publishers[dest[c]]] = dest[c]
        BY <2>1 DEF PInv, CacheInv
    <2>4. QED
        BY <2>1, <2>2, <2>3 DEF PInv, TypeOK, RightPublisher
<1>4. ASSUME NEW c \in Calls, Create(c)
      PROVE  RightPublisher'
    BY <1>4 DEF Create, PInv, TypeOK, RightPublisher
<1>5. ASSUME NEW c \in Calls, CreateFails(c) \/ Marshal(c) \/ PublishCall(c)
      PROVE  RightPublisher'
    BY <1>1, <1>5 DEF CreateFails, Marshal, PublishCall
<1>6. ASSUME NEW k \in Closers, CloseStep(k)
      PROVE  RightPublisher'
    BY <1>1, <1>6 DEF CloseStep, CallClose, CheckClosed, CloseOne, CloseEnds
<1>7. ASSUME NEW c \in Calls \cup Closers, Lock(c)
      PROVE  RightPublisher'
    BY <1>1, <1>7 DEF Lock
<1>8. CASE UNCHANGED vars
    BY <1>1, <1>8 DEF vars
<1>9. QED
    BY <1>2, <1>3, <1>4, <1>5, <1>6, <1>7, <1>8 DEF Next, PublishStep, Terminated

----------------------------------------------------------------------------
\* The invariant holds of every behaviour of the message publisher.
THEOREM Inductive == Spec => []PInv
<1>1. Init => PInv
    <2> SUFFICES ASSUME Init PROVE PInv
        OBVIOUS
    <2> USE NoneAssumption
    <2>1. TypeOK
        <3>1. pc \in [Calls \cup Closers -> PublishPC \cup ClosePC]
            BY DEF Init, PublishPC, ClosePC
        <3>2. closes \in [Calls -> 0 .. 1]
            BY DEF Init
        <3>3. QED
            BY <3>1, <3>2 DEF Init, TypeOK, Result
    <2>2. LockInv
        BY DEF Init, LockInv, PublishPC, ClosePC, Critical
    <2>3. CacheInv
        BY DEF Init, CacheInv, Closing
    <2>4. CloseInv
        BY DEF Init, CloseInv, Closing, ClosedExactlyOnce
    <2>5. LateInv /\ RightPublisher /\ OnePublisherPerDestination
        BY DEF Init, LateInv, RightPublisher, OnePublisherPerDestination
    <2>6. QED
        BY <2>1, <2>2, <2>3, <2>4, <2>5 DEF PInv
<1>2. PInv /\ [Next]_vars => PInv'
    <2> SUFFICES ASSUME PInv, [Next]_vars PROVE PInv'
        OBVIOUS
    <2>1. TypeOK /\ LockInv
        BY DEF PInv
    <2>2. QED
        BY <2>1, TypeStep, LockStep, CacheStep, CloseInvStep, LateStep, RightStep, OneStep
        DEF PInv
<1>3. QED
    BY <1>1, <1>2, PTL DEF Spec

\* Every variable keeps its type; in particular no publisher is ever closed twice.
THEOREM TypeCorrect == Spec => []TypeOK
<1>1. PInv => TypeOK
    BY DEF PInv
<1>2. QED
    BY <1>1, Inductive, PTL

\* However many calls race for a destination, it gets one publisher.
THEOREM OnePublisher == Spec => []OnePublisherPerDestination
<1>1. PInv => OnePublisherPerDestination
    BY DEF PInv
<1>2. QED
    BY <1>1, Inductive, PTL

\* Close leaves no publisher open, and closes none twice, whatever fails.
THEOREM ClosesAll == Spec => []ClosedExactlyOnce
<1>1. PInv => ClosedExactlyOnce
    BY DEF PInv, CloseInv
<1>2. QED
    BY <1>1, Inductive, PTL

\* After Close a new Publish is refused before it gets a publisher.
THEOREM LateRefused == Spec => []NoPublishAfterClose
<1>1. PInv => NoPublishAfterClose
    BY DEF PInv, LateInv, NoPublishAfterClose
<1>2. QED
    BY <1>1, Inductive, PTL

----------------------------------------------------------------------------
(***************************************************************************)
(* The message publisher implements PublisherPool.tla: of all its steps    *)
(* only Create, and the three of Close, are seen.                          *)
(***************************************************************************)
States == [d \in Destinations |-> PoolState(d)]
Phase  == IF ~closed THEN "open" ELSE IF Closing THEN "closing" ELSE "closed"

\* The abstract state depends on what was created and closed alone.
LEMMA SameStates ==
    ASSUME UNCHANGED <<created, closes>>, \A e \in created : dest'[e] = dest[e]
    PROVE  States' = States
<1>1. \A d \in Destinations : PoolState(d)' = PoolState(d)
    BY DEF PoolState
<1>2. QED
    BY <1>1 DEF States

\* A call that moves, and neither creates nor closes, is not seen.
LEMMA Unseen ==
    ASSUME PInv, NEW c \in Calls \cup Closers, NEW p, Goto(c, p),
           UNCHANGED <<created, closes, closed>>,
           \A e \in created : dest'[e] = dest[e],
           p # "closing", pc[c] # "closing"
    PROVE  UNCHANGED Pool!vars
<1>1. \A e \in Calls \cup Closers : pc'[e] = IF e = c THEN p ELSE pc[e]
    BY Moved DEF PInv
<1>2. Closing' = Closing
    BY <1>1 DEF Closing
<1>3. States' = States /\ Phase' = Phase
    BY <1>2, SameStates DEF Phase
<1>4. QED
    BY <1>3 DEF Pool!vars, States, Phase, Closing

\* Every step of a Publish call but Create is unseen.
LEMMA PublishUnseen ==
    ASSUME PInv, NEW c \in Calls, PublishStep(c), ~Create(c)
    PROVE  UNCHANGED Pool!vars
<1>1. CASE Route(c)
    <2>1. \A e \in created : dest'[e] = dest[e]
        BY <1>1 DEF Route, PInv, CacheInv, TypeOK
    <2>2. UNCHANGED <<created, closes, closed>>
        BY <1>1 DEF Route, closeVars
    <2>3. QED
        BY <1>1, <2>1, <2>2, Unseen DEF Route, Returns
<1>2. CASE ReadCache(c) \/ Recheck(c)
    BY <1>2, Unseen DEF ReadCache, Recheck, Returns, closeVars
<1>3. CASE CreateFails(c) \/ Marshal(c) \/ PublishCall(c)
    BY <1>3, Unseen DEF CreateFails, Marshal, PublishCall, Returns, closeVars
<1>4. QED
    BY <1>1, <1>2, <1>3 DEF PublishStep

\* A creation: the destination had no publisher, since the recheck under the lock
\* found none in the cache and the pool is open.
LEMMA CreateImplements ==
    ASSUME PInv, NEW c \in Calls, Create(c)
    PROVE  Pool!Create(dest[c])
<1>1. /\ dest[c] \in Destinations
      /\ ~closed /\ closed' = closed
      /\ publishers[dest[c]] = None
    BY DEF Create, PInv, CacheInv
<1>2. created' = created \cup {c} /\ UNCHANGED <<dest, closes>>
    BY DEF Create, closeVars
<1>3. \A e \in created : dest[e] # dest[c]
    BY <1>1, NoneAssumption DEF PInv, CacheInv, TypeOK
<1>4. closes[c] = 0
    BY <1>1 DEF PInv, CloseInv
<1>5. PoolState(dest[c]) = "absent" /\ PoolState(dest[c])' = "open"
    BY <1>2, <1>3, <1>4 DEF PoolState
<1>6. \A d \in Destinations : d # dest[c] => PoolState(d)' = PoolState(d)
    BY <1>2 DEF PoolState
<1>7. States[dest[c]] = "absent" /\ States' = [States EXCEPT ![dest[c]] = "open"]
    BY <1>1, <1>2, <1>5, <1>6 DEF States
<1>8. QED
    BY <1>1, <1>7 DEF Pool!Create, States

\* The end of the check under the lock in Close: BeginClose, or nothing if the
\* pool is closed already.
LEMMA CheckImplements ==
    ASSUME PInv, NEW k \in Closers, CheckClosed(k)
    PROVE  [Pool!Next]_Pool!vars
<1>1. CASE closed
    BY <1>1, Unseen DEF CheckClosed, Returns
<1>2. CASE ~closed
    <2>1. UNCHANGED <<created, closes, dest>>
        BY DEF CheckClosed
    <2>2. States' = States
        BY <2>1, SameStates
    <2>3. closed' /\ Goto(k, "closing")
        BY <1>2 DEF CheckClosed
    <2>4. \E e \in Closers : pc'[e] = "closing"
        BY <2>3, Moved DEF PInv
    <2>5. Pool!BeginClose
        BY <1>2, <2>2, <2>3, <2>4 DEF Pool!BeginClose, States
    <2>6. QED
        BY <2>5 DEF Pool!Next
<1>3. QED
    BY <1>1, <1>2

\* One publisher is closed, for the first time.
LEMMA CloseOneImplements ==
    ASSUME PInv, NEW k \in Closers, CloseOne(k)
    PROVE  [Pool!Next]_Pool!vars
<1>1. PICK d \in left : closes' = [closes EXCEPT ![publishers[d]] = @ + 1]
    BY DEF CloseOne
<1>2. /\ d \in Destinations
      /\ publishers[d] \in created /\ publishers[d] \in Calls
      /\ dest[publishers[d]] = d
      /\ closes[publishers[d]] = 0
    BY <1>1, NextToClose
<1>3. UNCHANGED <<pc, dest, closed, created>> /\ pc[k] = "closing"
    BY DEF CloseOne
<1>4. closed
    BY <1>3 DEF PInv, CloseInv, Closing
<1>5. \A c \in Calls : closes'[c] = IF c = publishers[d] THEN 1 ELSE closes[c]
    BY <1>1, <1>2 DEF PInv, TypeOK
<1>6. \A c \in created : c \in Calls /\ (dest[c] = d => c = publishers[d])
    BY <1>2 DEF PInv, TypeOK, OnePublisherPerDestination
<1>7. PoolState(d) = "open" /\ PoolState(d)' = "closed"
    BY <1>2, <1>3, <1>5, <1>6 DEF PoolState
<1>8. \A e \in Destinations : e # d => PoolState(e)' = PoolState(e)
    BY <1>2, <1>3, <1>5, <1>6 DEF PoolState
<1>9. States[d] = "open" /\ States' = [States EXCEPT ![d] = "closed"]
    BY <1>2, <1>7, <1>8 DEF States
<1>10. Pool!CloseOne(d)
    BY <1>3, <1>4, <1>9 DEF Pool!CloseOne, States
<1>11. QED
    BY <1>2, <1>10 DEF Pool!Next

\* Close returns: no publisher is open.
LEMMA CloseEndsImplements ==
    ASSUME PInv, NEW k \in Closers, CloseEnds(k)
    PROVE  [Pool!Next]_Pool!vars
<1>1. \A e \in Calls \cup Closers : pc'[e] = IF e = k THEN "done" ELSE pc[e]
    BY Moved DEF CloseEnds, Returns, PInv
<1>2. \A e \in Closers : e # k => pc[e] # "closing"
    BY OneInside DEF CloseEnds, Critical, PInv
<1>3. pc[k] = "closing" /\ left = {} /\ UNCHANGED <<dest, closed, created, closes>>
    BY DEF CloseEnds
<1>4. Closing /\ closed /\ \A e \in Closers : pc'[e] # "closing"
    BY <1>1, <1>2, <1>3 DEF PInv, CloseInv, Closing
<1>5. \A c \in created : closes[c] = 1
    BY <1>3, <1>4 DEF PInv, CloseInv
<1>6. \A d \in Destinations : States[d] # "open"
    BY <1>5 DEF States, PoolState
<1>7. States' = States
    BY <1>3, SameStates
<1>8. Pool!EndClose
    BY <1>3, <1>4, <1>6, <1>7 DEF Pool!EndClose, States, Closing
<1>9. QED
    BY <1>8 DEF Pool!Next

\* The cache with its read-write lock keeps the promise of PublisherPool.tla: one
\* publisher for a destination, created while the pool is open, closed once.
THEOREM RefinesPool == Spec => ImplementsPool
<1>1. Init => Pool!Init
    BY DEF Init, Pool!Init, PoolState
<1>2. PInv /\ [Next]_vars => [Pool!Next]_Pool!vars
    <2> SUFFICES ASSUME PInv, [Next]_vars PROVE [Pool!Next]_Pool!vars
        OBVIOUS
    <2>1. ASSUME NEW c \in Calls, PublishStep(c)
          PROVE  [Pool!Next]_Pool!vars
        <3>1. CASE Create(c)
            <4>1. dest[c] \in Destinations
                BY <3>1 DEF Create, PInv, CacheInv
            <4>2. QED
                BY <3>1, <4>1, CreateImplements DEF Pool!Next
        <3>2. CASE ~Create(c)
            BY <2>1, <3>2, PublishUnseen
        <3>3. QED
            BY <3>1, <3>2
    <2>2. ASSUME NEW k \in Closers, CallClose(k)
          PROVE  UNCHANGED Pool!vars
        BY <2>2, Unseen DEF CallClose, closeVars
    <2>3. ASSUME NEW c \in Calls \cup Closers, Lock(c)
          PROVE  UNCHANGED Pool!vars
        BY <2>3, Unseen DEF Lock, closeVars
    <2>4. CASE UNCHANGED vars
        <3>1. Closing' = Closing /\ States' = States /\ closed' = closed
            BY <2>4, SameStates DEF vars, Closing
        <3>2. QED
            BY <3>1 DEF Pool!vars, States, Closing
    <2>5. QED
        BY <2>1, <2>2, <2>3, <2>4, CheckImplements, CloseOneImplements, CloseEndsImplements
        DEF Next, CloseStep, Terminated
<1>3. QED
    BY <1>1, <1>2, Inductive, PTL DEF Spec, ImplementsPool, Pool!Spec

=============================================================================
