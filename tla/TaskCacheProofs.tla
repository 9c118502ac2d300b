--------------------------- MODULE TaskCacheProofs --------------------------
(***************************************************************************)
(* The cache guarantees of TaskCache for any number of readers and writers *)
(* and any TTLs.                                                           *)
(***************************************************************************)
EXTENDS TaskCache, TLAPS

\* The empty cache satisfies the invariant.
LEMMA InitCache ==
    ASSUME Init
    PROVE  CacheInv
<1>1. TypeOK
  BY DEF Init, TypeOK
<1>2. Generations
  BY DEF Init, Generations, InFlight
<1>3. Ages
  BY DEF Init, Ages
<1> QED
  BY <1>1, <1>2, <1>3 DEF CacheInv

\* Writers.
LEMMA WriteCache ==
    ASSUME CacheInv, NEW w \in Writers, Write(w)
    PROVE  CacheInv'
<1> USE CacheAssumption DEF CacheInv, redis, readers, Goto, EndWrite
<1>1. CASE CommitWrite(w)
  <2>1. TypeOK'
    BY <1>1 DEF CommitWrite, TypeOK
  <2>2. \A r \in Readers : pc'[r] = pc[r]
    BY <1>1 DEF CommitWrite, TypeOK
  <2>3. Generations'
    BY <1>1, <2>2 DEF CommitWrite, TypeOK, Generations, InFlight
  <2>4. Ages'
    BY <1>1, <2>2 DEF CommitWrite, Ages
  <2> QED
    BY <2>1, <2>3, <2>4
<1>2. CASE InvalidateTeam(w)
  <2>1. TypeOK'
    BY <1>2 DEF InvalidateTeam, TypeOK
  <2>2. \A r \in Readers : pc'[r] = pc[r]
    BY <1>2 DEF InvalidateTeam, TypeOK
  <2>3. Generations'
    BY <1>2, <2>2 DEF InvalidateTeam, TypeOK, Generations, InFlight, Pages, Sets
  <2>4. Ages'
    BY <1>2, <2>2 DEF InvalidateTeam, Ages
  <2> QED
    BY <2>1, <2>3, <2>4
<1>3. CASE InvalidateFails(w)
  <2>1. TypeOK'
    BY <1>3 DEF InvalidateFails, TypeOK
  <2>2. \A r \in Readers : pc'[r] = pc[r]
    BY <1>3 DEF InvalidateFails, TypeOK
  <2>3. Generations'
    BY <1>3, <2>2 DEF InvalidateFails, TypeOK, Generations, InFlight
  <2>4. Ages'
    BY <1>3, <2>2 DEF InvalidateFails, Ages
  <2> QED
    BY <2>1, <2>3, <2>4
<1>4. CASE CommitLost(w)
  <2>1. TypeOK'
    BY <1>4 DEF CommitLost, TypeOK
  <2>2. Generations'
    BY <1>4 DEF CommitLost, TypeOK, Generations, InFlight
  <2>3. Ages'
    BY <1>4 DEF CommitLost, Ages
  <2> QED
    BY <2>1, <2>2, <2>3
<1> QED
  BY <1>1, <1>2, <1>3, <1>4 DEF Write

\* A reader that ends, storing nothing.
LEMMA EndReadCache ==
    ASSUME CacheInv, NEW r \in Readers, EndRead(r), now' = now,
           UNCHANGED <<now, db, redis, wrote, settled, reset>>
    PROVE  CacheInv'
<1> USE CacheAssumption DEF CacheInv, redis, Goto, EndRead
<1>1. TypeOK'
  BY DEF TypeOK
<1>2. /\ pc'[r] = "idle" /\ start'[r] = 0 /\ readAt'[r] = 0 /\ floor'[r] = 0
      /\ \A q \in Readers \ {r} :
           /\ pc'[q] = pc[q] /\ stamp'[q] = stamp[q] /\ start'[q] = start[q]
           /\ tasks'[q] = tasks[q] /\ readAt'[q] = readAt[q] /\ floor'[q] = floor[q]
  BY DEF TypeOK
<1>3. Generations'
  BY <1>2 DEF TypeOK, Generations, InFlight
<1>4. Ages'
  BY <1>2 DEF TypeOK, Ages
<1> QED
  BY <1>1, <1>3, <1>4

\* Readers.
LEMMA ReadCache ==
    ASSUME CacheInv, NEW r \in Readers, Read(r)
    PROVE  CacheInv'
<1> USE CacheAssumption DEF CacheInv, redis, readers, Goto
<1>1. CASE ReadGeneration(r)
  <2>1. TypeOK'
    BY <1>1 DEF ReadGeneration, TypeOK
  <2>2. /\ pc'[r] \in {"page", "list"} /\ start'[r] = now /\ floor'[r] = settled
        /\ stamp'[r] \in {counter, NoStamp}
        /\ \A q \in Readers \ {r} : /\ pc'[q] = pc[q] /\ stamp'[q] = stamp[q]
                                    /\ start'[q] = start[q] /\ floor'[q] = floor[q]
    BY <1>1 DEF ReadGeneration, TypeOK
  <2>3. UNCHANGED <<now, db, counter, pages, wire, tasks, readAt, wrote, settled, reset>>
    BY <1>1 DEF ReadGeneration
  <2>4. Generations'
    BY <2>2, <2>3 DEF TypeOK, Generations, InFlight
  <2>5. Ages'
    BY <2>2, <2>3 DEF TypeOK, Ages
  <2> QED
    BY <2>1, <2>4, <2>5
<1>2. CASE Hit(r)
  BY <1>2, EndReadCache DEF Hit
<1>3. CASE Miss(r)
  <2>1. TypeOK'
    BY <1>3 DEF Miss, TypeOK
  <2>2. /\ pc'[r] = "list" /\ pc[r] = "page" /\ stamp'[r] \in {stamp[r], NoStamp}
        /\ \A q \in Readers \ {r} : pc'[q] = pc[q] /\ stamp'[q] = stamp[q]
    BY <1>3 DEF Miss, TypeOK
  <2>3. UNCHANGED <<now, db, counter, pages, wire, start, tasks, readAt, floor, wrote, settled, reset>>
    BY <1>3 DEF Miss
  <2>4. Generations'
    BY <2>2, <2>3 DEF TypeOK, Generations, InFlight
  <2>5. Ages'
    BY <2>2, <2>3 DEF TypeOK, Ages
  <2> QED
    BY <2>1, <2>4, <2>5
<1>4. CASE List(r)
  <2>1. TypeOK'
    BY <1>4 DEF List, TypeOK
  <2>2. /\ pc'[r] = "count" /\ pc[r] = "list" /\ tasks'[r] = db /\ readAt'[r] = now
        /\ \A q \in Readers \ {r} : /\ pc'[q] = pc[q] /\ tasks'[q] = tasks[q]
                                    /\ readAt'[q] = readAt[q]
    BY <1>4 DEF List, TypeOK
  <2>3. UNCHANGED <<now, db, counter, pages, wire, stamp, start, floor, wrote, settled, reset>>
    BY <1>4 DEF List
  <2>4. Generations'
    BY <2>2, <2>3 DEF TypeOK, Generations, InFlight
  <2>5. Ages'
    BY <2>2, <2>3 DEF TypeOK, Ages
  <2> QED
    BY <2>1, <2>4, <2>5
<1>5. CASE Count(r)
  <2>1. TypeOK'
    BY <1>5 DEF Count, TypeOK
  <2>2. /\ pc'[r] = "set" /\ pc[r] = "count"
        /\ \A q \in Readers \ {r} : pc'[q] = pc[q]
    BY <1>5 DEF Count, TypeOK
  <2>3. UNCHANGED <<now, db, counter, pages, wire, stamp, start, tasks, readAt, floor, wrote, settled, reset>>
    BY <1>5 DEF Count
  <2>4. Generations'
    BY <2>2, <2>3 DEF TypeOK, Generations, InFlight
  <2>5. Ages'
    BY <2>2, <2>3 DEF TypeOK, Ages
  <2> QED
    BY <2>1, <2>4, <2>5
<1>6. CASE Set(r)
  <2> DEFINE new == NewSet(r)
  <2>1. /\ pc[r] = "set" /\ stamp[r] # NoStamp /\ InTime(r)
        /\ wire' = wire \cup {new}
        /\ UNCHANGED <<now, db, counter, genExpiry, pages, pc, readers, wrote, settled, reset>>
    BY <1>6 DEF Set
  <2>2. new \in Sets
    BY <2>1 DEF NewSet, Sets, TypeOK
  <2>3. TypeOK'
    BY <2>1, <2>2 DEF TypeOK
  <2>4. /\ new.gen = stamp[r] /\ new.tasks = tasks[r]
        /\ new.readAt = readAt[r] /\ new.sentAt = now
    BY DEF NewSet
  <2> HIDE DEF new
  <2>5. Generations'
    <3> SUFFICES ASSUME ~reset PROVE Generations'
      BY <2>1 DEF Generations
    <3>1. /\ new.gen <= counter
          /\ new.gen = counter => new.tasks >= settled
          /\ \A q \in Readers : InFlight(q) /\ new.gen = stamp[q] => new.tasks >= floor[q]
      BY <2>1, <2>4 DEF Generations, InFlight
    <3> QED
      BY <2>1, <3>1 DEF Generations, InFlight
  <2>6. Ages'
    BY <2>1, <2>4 DEF Ages, InTime, TypeOK
  <2> QED
    BY <2>3, <2>5, <2>6
<1>7. CASE Finish(r)
  BY <1>7, EndReadCache DEF Finish
<1> QED
  BY <1>1, <1>2, <1>3, <1>4, <1>5, <1>6, <1>7 DEF Read

\* Redis executes a command it was sent, or never does.
LEMMA StoreCache ==
    ASSUME CacheInv, NEW s \in wire, Store(s) \/ Lose(s)
    PROVE  CacheInv'
<1> USE CacheAssumption DEF CacheInv, readers
<1> DEFINE new == NewPage(s)
<1>1. /\ wire' \subseteq wire /\ \A x \in pages' : x \in pages \/ x = new
      /\ UNCHANGED <<now, db, counter, genExpiry, pc, stamp, start, tasks, readAt, floor,
                     wrote, settled, reset>>
  BY DEF Store, Lose
<1>2. s \in Sets
  BY DEF TypeOK
<1>3. new \in Pages
  BY <1>2 DEF NewPage, Pages, Sets, TypeOK
<1>4. /\ new.gen = s.gen /\ new.tasks = s.tasks /\ new.readAt = s.readAt
      /\ new.expires = now + PageTTL /\ (new.late <=> now > s.sentAt + CallTime)
  BY <1>2 DEF NewPage, Sets
<1> HIDE DEF new
<1>5. TypeOK'
  BY <1>1, <1>3 DEF TypeOK
<1>6. Generations'
  BY <1>1, <1>4 DEF Generations, InFlight
<1>7. Ages'
  <2>1. /\ now \in Nat /\ s.readAt \in Nat /\ s.sentAt \in Nat
        /\ RequestTimeout # 0 => s.sentAt <= s.readAt + RequestTimeout
    BY <1>2 DEF Ages, Sets, TypeOK
  <2>2. /\ now < new.expires
        /\ RequestTimeout # 0 /\ ~new.late =>
             new.expires <= new.readAt + RequestTimeout + CallTime + PageTTL
    BY <1>4, <2>1
  <2> QED
    BY <1>1, <2>2 DEF Ages
<1> QED
  BY <1>5, <1>6, <1>7

\* Time.
LEMMA TickCache ==
    ASSUME CacheInv, Tick
    PROVE  CacheInv'
<1> USE CacheAssumption DEF CacheInv, readers
<1>1. TypeOK'
  <2>1. now' \in Nat /\ counter' \in Nat /\ genExpiry' \in Nat /\ pages' \in SUBSET Pages
    BY DEF Tick, TypeOK
  <2>2. reset' \in BOOLEAN
    BY DEF Tick, TypeOK
  <2> QED
    BY <2>1, <2>2 DEF Tick, TypeOK
<1>2. Generations'
  BY DEF Tick, TypeOK, Generations, InFlight
<1>3. Ages'
  BY DEF Tick, TypeOK, Ages
<1> QED
  BY <1>1, <1>2, <1>3

\* The inductive invariant.
THEOREM CacheInvariance == Spec => []CacheInv
<1>1. Init => CacheInv
  BY InitCache
<1>2. CacheInv /\ [Next]_vars => CacheInv'
  <2> SUFFICES ASSUME CacheInv, [Next]_vars PROVE CacheInv'
    OBVIOUS
  <2>1. CASE UNCHANGED vars
    BY <2>1 DEF vars, redis, readers, CacheInv, TypeOK, Generations, Ages, InFlight
  <2> QED
    BY <2>1, WriteCache, ReadCache, StoreCache, TickCache DEF Next
<1> QED
  BY <1>1, <1>2, PTL DEF Spec

\* Until the generation counter expires, nobody is served a page that is
\* older than the last successful invalidation before the request.
THEOREM RaceFree == Spec => []FreshUntilReset
<1>1. CacheInv => FreshUntilReset
  BY CacheAssumption DEF CacheInv, TypeOK, Pages, Generations, InFlight, FreshUntilReset, FreshFor
<1> QED
  BY <1>1, CacheInvariance, PTL

\* Failed invalidations and expired counters included, a page outlives
\* PageTTL by one request and one call only when its SET was executed after
\* the client gave up, or when requests have no deadline.
THEOREM StalenessBound == Spec => []BoundedStaleness
<1>1. CacheInv => BoundedStaleness
  BY CacheAssumption DEF CacheInv, TypeOK, Pages, Ages, BoundedStaleness
<1> QED
  BY <1>1, CacheInvariance, PTL
=============================================================================
