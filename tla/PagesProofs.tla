---------------------------- MODULE PagesProofs -----------------------------
(***************************************************************************)
(* Proofs about Pages, for every finite number of tasks, every time and    *)
(* every page size.  The invariant splits the list at the cursor: a task   *)
(* that keeps its place has been returned once if it is not after the      *)
(* cursor, and never if it is; what was fetched, from MySQL or from Redis, *)
(* is the beginning of what is after the cursor in a list that has what    *)
(* keeps its place.                                                        *)
(***************************************************************************)
EXTENDS Pages, FiniteSetTheorems, FunctionTheorems, TLAPS

\* The order of the list is strict and total on positions.
Positions == [id : Nat, time : Nat]

LEMMA Transitive ==
    ASSUME NEW o, NEW a, NEW b, NEW c,
           a.id \in Nat, a.time \in Nat, b.id \in Nat, b.time \in Nat, c.id \in Nat, c.time \in Nat,
           Precedes(o, a, b), Precedes(o, b, c)
    PROVE  Precedes(o, a, c)
  BY DEF Precedes

LEMMA Asymmetric ==
    ASSUME NEW o, NEW a, NEW b,
           a.id \in Nat, a.time \in Nat, b.id \in Nat, b.time \in Nat, Precedes(o, a, b)
    PROVE  ~Precedes(o, b, a)
  BY DEF Precedes

LEMMA Total ==
    ASSUME NEW o, NEW a \in Positions, NEW b \in Positions, a # b
    PROVE  Precedes(o, a, b) \/ Precedes(o, b, a)
  BY DEF Precedes, Positions

-----------------------------------------------------------------------------
(* The invariant.                                                          *)

\* Task i keeps its place in the list while the client reads.
Fixed(i) == listing.sort = "created_at" \/ ~moved[i]

\* The position i has passed the cursor.
Passed(i) == cursor.id # 0 /\ ~Precedes(listing.order, cursor, Position(i))

Asked ==
    /\ cursor.id # 0 => cursor.sort = listing.sort /\ cursor.order = listing.order
    /\ pc \in {"list", "count", "answer"} =>
         ask.sort = listing.sort /\ ask.order = listing.order /\ ask.limit > 0

\* A task that is not created has not been returned, and is not in the list.
Created ==
    \A i \in Ids : /\ seen[i] # 0 => row[i].state # "absent"
                   /\ Reading /\ ~moved[i] => Listed(i)

\* What has been returned is behind the cursor.
Behind == Reading => \A i \in Ids : Fixed(i) /\ seen[i] # 0 => Passed(i)

\* What keeps its place has been returned once if it is behind the cursor.
Returned == Reading => \A i \in Ids : ~moved[i] /\ Passed(i) => seen[i] = 1

\* The rows that were fetched are after the cursor, each task once, at the
\* position it had; and nothing that keeps its place is missing from them,
\* unless they are a full fetch and it comes after all of them.
FetchedInv ==
    /\ pc \notin {"count", "answer"} => fetched = {}
    /\ \A f \in fetched : /\ After(cursor, f)
                          /\ row[f.id].state # "absent"
                          /\ Fixed(f.id) => f = Position(f.id)
    /\ \A f, g \in fetched : f.id = g.id => f = g
    /\ pc \in {"count", "answer"} =>
         \A i \in Ids : ~moved[i] /\ ~Passed(i) =>
            \/ Position(i) \in fetched
            \/ /\ Cardinality(fetched) = ask.limit + 1
               /\ \A f \in fetched : Precedes(listing.order, f, Position(i))

\* A list read since Start: each task once, and what keeps its place is in
\* it, there.
Faithful(L) ==
    /\ \A f \in L : /\ row[f.id].state # "absent"
                    /\ Fixed(f.id) => f = Position(f.id)
    /\ \A f, g \in L : f.id = g.id => f = g
    /\ \A i \in Ids : ~moved[i] => Position(i) \in L

CachedInv == Reading => \A L \in cached : Faithful(L)

PageInv == /\ PageTypeOK /\ Asked /\ Created /\ Behind /\ Returned /\ FetchedInv
           /\ CachedInv /\ Complete /\ NoRepeats

LEMMA PositionTyped ==
    ASSUME PageTypeOK, NEW i \in Ids
    PROVE  /\ Position(i) \in [id : Ids, time : Times] /\ Position(i) \in Positions
           /\ Position(i).id = i
  BY PageAssumption DEF PageTypeOK, Position, Positions, Column, Rows

LEMMA FetchedTyped ==
    ASSUME PageTypeOK
    PROVE  /\ fetched \subseteq Positions
           /\ \A f \in fetched : f.id \in Ids /\ f.id \in Nat /\ f.time \in Nat
           /\ cursor.id \in Nat /\ cursor.time \in Nat
<1>1. fetched \subseteq [id : Ids, time : Times]
  BY DEF PageTypeOK
<1>2. \A f \in fetched : f.id \in Ids /\ f.id \in Nat /\ f.time \in Nat
  BY <1>1, PageAssumption
<1>3. [id : Ids, time : Times] \subseteq Positions
  BY PageAssumption DEF Positions
<1>4. cursor.id \in Ids \cup {0} /\ cursor.time \in Nat
  <2>1. cursor \in [id : Ids \cup {0}, time : Nat, sort : Sorts, order : Orders]
    BY DEF PageTypeOK
  <2> QED BY <2>1
<1>5. \A n \in Ids \cup {0} : n \in Nat
  BY PageAssumption
<1>6. cursor.id \in Nat
  BY <1>4, <1>5, Zenon
<1> QED BY <1>1, <1>2, <1>3, <1>4, <1>6

\* A list in which each task is once is finite.
LEMMA ListFinite ==
    ASSUME NEW L, L \subseteq [id : Ids, time : Times], \A f, g \in L : f.id = g.id => f = g
    PROVE  IsFiniteSet(L) /\ Cardinality(L) \in Nat
<1> DEFINE F == [f \in L |-> f.id]
<1>1. F \in [L -> Ids] /\ \A a, b \in L : F[a] = F[b] => a = b
  OBVIOUS
<1> HIDE DEF F
<1>2. F \in Injection(L, Ids)
  BY <1>1, Fun_IsInj
<1> QED BY <1>2, FS_Injection, FS_CardinalityType, PageAssumption

LEMMA FetchedFinite ==
    ASSUME PageInv
    PROVE  IsFiniteSet(fetched)
  BY ListFinite DEF PageInv, PageTypeOK, FetchedInv

-----------------------------------------------------------------------------
LEMMA PageInitInv == PageInit => PageInv
<1> SUFFICES ASSUME PageInit PROVE PageInv
  OBVIOUS
<1>1. NoTask \in Rows /\ NoTask.state = "absent"
  BY PageAssumption DEF NoTask, Rows
<1>2. PageTypeOK
  BY <1>1 DEF PageInit, PageTypeOK, NoCursor, NoAsk, Sorts, Orders
<1> QED BY <1>1, <1>2 DEF PageInit, PageInv, Asked, Created, Behind, Returned, FetchedInv,
          CachedInv, Complete, NoRepeats, Reading, NoCursor

LEMMA StartInv == PageInv /\ Start => PageInv'
<1> SUFFICES ASSUME PageInv, Start PROVE PageInv'
  OBVIOUS
<1>0. PageTypeOK
  BY DEF PageInv
<1>1. PageTypeOK'
  BY <1>0 DEF PageTypeOK, Start, NoCursor, Sorts, Orders
<1>2. cursor'.id = 0 /\ fetched' = {} /\ cached' = {} /\ pc' = "ready"
  BY DEF Start, NoCursor, PageInv, FetchedInv
<1>3. \A i \in Ids : seen'[i] = 0 /\ moved'[i] = ~Listed(i)
  BY <1>0 DEF Start, PageTypeOK
<1>4. \A i \in Ids : ~moved'[i] => Listed(i)'
  BY <1>3 DEF Start, Listed
<1>6. Created' /\ NoRepeats'
  BY <1>3, <1>4 DEF Created, NoRepeats
<1>5. Behind' /\ Returned'
  BY <1>2, <1>3 DEF Behind, Returned, Passed
<1> QED BY <1>1, <1>2, <1>5, <1>6 DEF PageInv, Asked, FetchedInv, CachedInv, Complete

LEMMA AskInv == PageInv /\ Ask => PageInv'
<1> SUFFICES ASSUME PageInv, Ask PROVE PageInv'
  OBVIOUS
<1>0. PageTypeOK /\ Asked
  BY DEF PageInv
<1>1. PICK s \in Sorts, o \in Orders, n \in Limits :
        /\ IF cursor.id = 0 THEN s = listing.sort /\ o = listing.order
           ELSE SupportsCursor(s) /\ DecodeTaskCursor(cursor, s, o)
        /\ ask' = [sort |-> s, order |-> o, limit |-> NormalizePage(n)]
  BY DEF Ask
<1>2. NormalizePage(n) \in Nat /\ NormalizePage(n) > 0
  BY PageAssumption DEF NormalizePage
<1>3. PageTypeOK'
  BY <1>0, <1>1, <1>2 DEF PageTypeOK, Ask
<1>4. Asked'
  BY <1>0, <1>1, <1>2 DEF Asked, Ask, DecodeTaskCursor
<1>5. fetched = {}
  BY DEF Ask, PageInv, FetchedInv
<1> QED BY <1>3, <1>4, <1>5 DEF Ask, PageInv, Created, Behind, Returned, FetchedInv, CachedInv, Faithful,
          Complete, NoRepeats, Passed, Fixed, Position, Reading, Listed

\* The list of the moment is faithful.
LEMMA TheListFaithful ==
    ASSUME PageTypeOK, Created, Reading
    PROVE  TheList \subseteq [id : Ids, time : Times] /\ Faithful(TheList)
<1>1. \A i \in Ids : Position(i) \in [id : Ids, time : Times] /\ Position(i).id = i
  BY PositionTyped
<1>2. \A f \in TheList : f.id \in Ids /\ Listed(f.id) /\ f = Position(f.id)
  BY <1>1 DEF TheList
<1>3. \A i \in Ids : ~moved[i] => Position(i) \in TheList
  BY DEF TheList, Created
<1>4. TheList \subseteq [id : Ids, time : Times]
  BY <1>1 DEF TheList
<1> QED BY <1>2, <1>3, <1>4 DEF Faithful, Listed

\* What is found in a faithful list, old or new: the beginning of what is
\* after the cursor.
LEMMA FoundRows ==
    ASSUME PageTypeOK, Asked, pc = "list", NEW L, L \subseteq [id : Ids, time : Times],
           Faithful(L), NEW F, Found(L, F)
    PROVE  /\ F \subseteq L
           /\ \A f \in F : /\ After(cursor, f) /\ row[f.id].state # "absent"
                           /\ Fixed(f.id) => f = Position(f.id)
           /\ \A f, g \in F : f.id = g.id => f = g
           /\ \A i \in Ids : ~moved[i] /\ ~Passed(i) =>
                 \/ Position(i) \in F
                 \/ /\ Cardinality(F) = ask.limit + 1
                    /\ \A f \in F : Precedes(listing.order, f, Position(i))
<1> DEFINE S == {r \in L : After(cursor, r)}
<1>1. F \subseteq S /\ First(listing.order, S, ask.limit + 1, F)
  BY DEF Found, Fetch, Asked
<1>2. ASSUME NEW i \in Ids, ~moved[i], ~Passed(i)
      PROVE  \/ Position(i) \in F
             \/ /\ Cardinality(F) = ask.limit + 1
                /\ \A f \in F : Precedes(listing.order, f, Position(i))
  <2>1. Position(i) \in S
    BY <1>2 DEF Faithful, Passed, After, Asked
  <2>2. ASSUME Position(i) \notin F, NEW f \in F
        PROVE  Precedes(listing.order, f, Position(i))
    <3>1. ~Precedes(listing.order, Position(i), f)
      BY <1>1, <2>1, <2>2 DEF First
    <3>2. f \in Positions /\ Position(i) \in Positions /\ f # Position(i)
      BY <1>1, <2>2, PositionTyped, PageAssumption DEF Positions
    <3> QED BY <3>1, <3>2, Total
  <2> QED BY <1>1, <2>1, <2>2 DEF First
<1> QED BY <1>1, <1>2 DEF Faithful

LEMMA FetchInv == PageInv /\ (List \/ Hit) => PageInv'
<1> SUFFICES ASSUME PageInv, List \/ Hit PROVE PageInv'
  OBVIOUS
<1>0. PageTypeOK /\ Asked /\ Created /\ pc = "list" /\ Reading
  BY DEF PageInv, List, Hit, Reading
<1>1. PICK L, F : /\ L \subseteq [id : Ids, time : Times] /\ Faithful(L)
                  /\ Found(L, F) /\ fetched' = F /\ total' \in Nat
  <2>1. CASE List
    <3>1. PICK F \in SUBSET TheList : Found(TheList, F) /\ fetched' = F
      BY <2>1 DEF List
    <3> QED BY <1>0, <2>1, <3>1, TheListFaithful DEF List, PageTypeOK
  <2>2. CASE Hit
    <3>1. PICK L \in cached : /\ \E F \in SUBSET L : Found(L, F) /\ fetched' = F
                              /\ total' = Cardinality(L)
      BY <2>2 DEF Hit
    <3>2. L \subseteq [id : Ids, time : Times] /\ Faithful(L)
      BY <1>0, <3>1 DEF PageInv, PageTypeOK, CachedInv
    <3>3. Cardinality(L) \in Nat
      BY <3>2, ListFinite DEF Faithful
    <3> QED BY <3>1, <3>2, <3>3
  <2> QED BY <2>1, <2>2
<1>2. /\ F \subseteq L
      /\ \A f \in F : /\ After(cursor, f) /\ row[f.id].state # "absent"
                      /\ Fixed(f.id) => f = Position(f.id)
      /\ \A f, g \in F : f.id = g.id => f = g
      /\ \A i \in Ids : ~moved[i] /\ ~Passed(i) =>
            \/ Position(i) \in F
            \/ /\ Cardinality(F) = ask.limit + 1
               /\ \A f \in F : Precedes(listing.order, f, Position(i))
  BY <1>0, <1>1, FoundRows
<1>3. /\ pc' \in {"count", "answer"}
      /\ UNCHANGED <<row, listing, cursor, ask, cached, seen, moved>>
  BY DEF List, Hit
<1>4. PageTypeOK'
  BY <1>0, <1>1, <1>2, <1>3 DEF PageTypeOK
<1>5. \A i \in Ids : Position(i)' = Position(i) /\ (Passed(i)' <=> Passed(i)) /\ (Fixed(i)' <=> Fixed(i))
  BY <1>3 DEF Position, Passed, Fixed
<1>6. F \subseteq [id : Ids, time : Times] /\ \A f \in F : f.id \in Ids
  BY <1>1, <1>2
<1>7. FetchedInv'
  BY <1>1, <1>2, <1>3, <1>5, <1>6 DEF FetchedInv, After
<1>8. CachedInv'
  BY <1>0, <1>3 DEF PageInv, CachedInv, Faithful, Fixed, Position
<1> QED BY <1>0, <1>3, <1>4, <1>7, <1>8 DEF PageInv, Asked, Created, Behind, Returned, Complete,
          NoRepeats, Passed, Fixed, Position, Reading, Listed

\* Somebody's page enters Redis.
LEMMA StoreInv == PageInv /\ Store => PageInv'
<1> SUFFICES ASSUME PageInv, Store PROVE PageInv'
  OBVIOUS
<1>0. PageTypeOK /\ Created /\ CachedInv /\ Reading
  BY DEF PageInv, Store
<1>1. TheList \subseteq [id : Ids, time : Times] /\ Faithful(TheList)
  BY <1>0, TheListFaithful
<1>2. /\ \A L \in cached' : L \in cached \/ L = TheList
      /\ UNCHANGED <<row, pc, request, seen, moved>>
  BY DEF Store
<1>3. PageTypeOK'
  BY <1>0, <1>1, <1>2 DEF PageTypeOK, request
<1>4. \A L \in cached' : Faithful(L)
  BY <1>0, <1>1, <1>2 DEF CachedInv
<1>5. CachedInv'
  BY <1>2, <1>4 DEF CachedInv, Faithful, Fixed, Position, request
<1> QED BY <1>2, <1>3, <1>5 DEF PageInv, Asked, Created, Behind, Returned, FetchedInv, Complete,
          NoRepeats, Passed, Fixed, Position, Reading, Listed, After, request

LEMMA CountInv == PageInv /\ Count => PageInv'
<1> SUFFICES ASSUME PageInv, Count PROVE PageInv'
  OBVIOUS
<1>1. Cardinality({i \in Ids : Listed(i)}) \in Nat
  <2>1. IsFiniteSet({i \in Ids : Listed(i)})
    BY FS_Subset, PageAssumption
  <2> QED BY <2>1, FS_CardinalityType
<1>2. PageTypeOK'
  BY <1>1 DEF PageInv, PageTypeOK, Count
<1> QED BY <1>2 DEF Count, PageInv, Asked, Created, Behind, Returned, FetchedInv, CachedInv,
          Faithful, Complete, NoRepeats, Passed, Fixed, Position, Reading, Listed, After

LEMMA FailPageInv == PageInv /\ FailPage => PageInv'
<1> SUFFICES ASSUME PageInv, FailPage PROVE PageInv'
  OBVIOUS
<1>2. PageTypeOK'
  BY DEF PageInv, PageTypeOK, FailPage, Forget, NoAsk, Sorts, Orders
<1> QED BY <1>2 DEF FailPage, Forget, PageInv, Asked, Created, Behind, Returned, FetchedInv,
          CachedInv, Faithful, Complete, NoRepeats, Passed, Fixed, Position, Reading, Listed

-----------------------------------------------------------------------------
(* A page is answered.                                                     *)

LEMMA AnswerInv == PageInv /\ Answer => PageInv'
<1> SUFFICES ASSUME PageInv, Answer PROVE PageInv'
  OBVIOUS
<1> DEFINE o == listing.order
<1>0. /\ PageTypeOK /\ Asked /\ Created /\ Behind /\ Returned /\ FetchedInv /\ NoRepeats
      /\ CachedInv /\ pc = "answer" /\ Reading /\ ask.order = o /\ ask.sort = listing.sort /\ ask.limit > 0
  BY DEF PageInv, Answer, Reading, Asked
<1>1. PICK P \in SUBSET fetched :
        /\ First(o, fetched, ask.limit, P)
        /\ seen' = [i \in Ids |-> IF \E r \in P : r.id = i
                                  THEN IF seen[i] = 0 THEN 1 ELSE 2
                                  ELSE seen[i]]
        /\ \/ /\ HasMore
              /\ \E l \in P : /\ \A r \in P : r = l \/ Precedes(o, r, l)
                              /\ cursor' = [id |-> l.id, time |-> l.time,
                                            sort |-> listing.sort, order |-> o]
              /\ pc' = "ready"
           \/ ~HasMore /\ cursor' = NoCursor /\ pc' = "end"
  BY <1>0 DEF Answer
<1>2. /\ listing' = listing /\ moved' = moved /\ row' = row /\ fetched' = {} /\ ask' = NoAsk
      /\ cached' = cached /\ total' = 0 /\ \A i \in Ids : Position(i)' = Position(i)
  BY DEF Answer, Forget, Position
<1>3. PageTypeOK'
  <2>1. seen' \in [Ids -> {0, 1, 2}]
    BY <1>0, <1>1 DEF PageTypeOK
  <2>2. pc' \in {"ready", "end"} /\ cursor' \in [id : Ids \cup {0}, time : Nat, sort : Sorts, order : Orders]
    BY <1>0, <1>1, FetchedTyped DEF PageTypeOK, NoCursor, Sorts, Orders
  <2> QED BY <1>0, <1>2, <2>1, <2>2 DEF PageTypeOK, NoAsk, Sorts, Orders
\* A task that keeps its place and is on this page was not on an earlier one.
<1>4. ASSUME NEW i \in Ids, Fixed(i), NEW r \in P, r.id = i
      PROVE  r = Position(i) /\ seen[i] = 0 /\ seen'[i] = 1
  <2>1. r = Position(i) /\ After(cursor, r)
    BY <1>0, <1>1, <1>4 DEF FetchedInv
  <2>2. ~Passed(i)
    BY <1>0, <2>1 DEF Passed, After, Asked
  <2> QED BY <1>0, <1>1, <1>4, <2>1, <2>2 DEF Behind
<1>5. Created' /\ CachedInv'
  BY <1>0, <1>1, <1>2 DEF Created, CachedInv, Faithful, Fixed, Position, FetchedInv, Listed, Reading
<1>6. NoRepeats'
  BY <1>0, <1>1, <1>2, <1>4 DEF NoRepeats, Fixed, PageTypeOK
<1>7. \A p \in P : \A s \in fetched \ P : Precedes(o, p, s)
  <2> SUFFICES ASSUME NEW p \in P, NEW s \in fetched \ P PROVE Precedes(o, p, s)
    OBVIOUS
  <2>1. ~Precedes(o, s, p)
    BY <1>1 DEF First
  <2> QED BY <1>0, <1>1, <2>1, FetchedTyped, Total
<1>8. CASE HasMore
  <2>1. PICK l \in P : /\ \A r \in P : r = l \/ Precedes(o, r, l)
                       /\ cursor' = [id |-> l.id, time |-> l.time, sort |-> listing.sort, order |-> o]
    BY <1>1, <1>8
  <2>2. pc' = "ready" /\ Reading'
    BY <1>1, <1>8 DEF Reading
  <2>3. /\ l.id \in Nat /\ l.time \in Nat /\ l.id # 0 /\ l \in Positions /\ cursor'.id = l.id
        /\ cursor'.time = l.time /\ cursor'.sort = listing.sort /\ cursor'.order = o
    BY <1>0, <1>1, <2>1, FetchedTyped, PageAssumption
  <2>4. \A i \in Ids : Passed(i)' <=> ~Precedes(o, l, Position(i))
    BY <1>2, <2>3 DEF Passed, Precedes
  <2>5. ASSUME NEW i \in Ids, Passed(i) PROVE Passed(i)'
    <3>1. Precedes(o, cursor, l)
      BY <1>0, <1>1, <2>5 DEF Passed, FetchedInv, After, Asked
    <3>2. ~Precedes(o, l, Position(i))
      BY <1>0, <2>3, <2>5, <3>1, Transitive, FetchedTyped, PositionTyped DEF Passed, Positions
    <3> QED BY <2>4, <3>2
  <2>6. ASSUME NEW i \in Ids, Position(i) \in P PROVE Passed(i)'
    <3>1. ~Precedes(o, l, Position(i))
      BY <1>0, <2>1, <2>3, <2>6, Asymmetric, PositionTyped DEF Positions, Precedes
    <3> QED BY <2>4, <3>1
  <2>7. ASSUME NEW i \in Ids, ~moved[i], ~Passed(i), Position(i) \notin P
        PROVE  ~Passed(i)'
    BY <1>0, <1>7, <2>4, <2>7 DEF FetchedInv
  <2>8. Behind'
    BY <1>0, <1>1, <1>2, <1>4, <2>5, <2>6 DEF Behind, Fixed
  <2>9. Returned'
    <3> SUFFICES ASSUME NEW i \in Ids, ~moved[i], Passed(i)' PROVE seen'[i] = 1
      BY <1>2 DEF Returned
    <3>1. CASE Passed(i)
      <4>1. seen[i] = 1
        BY <1>0, <3>1 DEF Returned
      <4>2. ~\E r \in P : r.id = i
        BY <1>4, <4>1 DEF Fixed
      <4> QED BY <1>1, <4>1, <4>2
    <3>2. CASE ~Passed(i)
      <4>1. Position(i) \in P
        BY <2>7, <3>2
      <4> QED BY <1>0, <1>4, <4>1, PositionTyped DEF Fixed
    <3> QED BY <3>1, <3>2
  <2> QED BY <1>2, <1>3, <1>5, <1>6, <2>2, <2>3, <2>8, <2>9
        DEF PageInv, Asked, FetchedInv, Complete
<1>9. CASE ~HasMore
  <2>1. pc' = "end" /\ ~Reading'
    BY <1>1, <1>9 DEF Reading
  <2>2. IsFiniteSet(fetched) /\ Cardinality(fetched) \in Nat
    BY FetchedFinite, FS_CardinalityType
  <2>3. Cardinality(fetched) <= ask.limit
    BY <1>0, <1>9, <2>2 DEF HasMore, PageTypeOK
  <2>4. P = fetched
    <3>1. IsFiniteSet(P) /\ Cardinality(P) <= Cardinality(fetched)
          /\ (Cardinality(P) = Cardinality(fetched) => P = fetched)
      BY <1>1, <2>2, FS_Subset
    <3>2. Cardinality(P) \in Nat
      BY <3>1, FS_CardinalityType
    <3> QED BY <1>0, <1>1, <2>2, <2>3, <3>1, <3>2 DEF First, PageTypeOK
  <2>5. ASSUME NEW i \in Ids, ~moved[i] PROVE seen'[i] = 1
    <3>1. CASE Passed(i)
      <4>1. seen[i] = 1
        BY <1>0, <2>5, <3>1 DEF Returned
      <4>2. ~\E r \in P : r.id = i
        BY <1>4, <2>5, <4>1 DEF Fixed
      <4> QED BY <1>1, <4>1, <4>2
    <3>2. CASE ~Passed(i)
      <4>1. Position(i) \in P
        BY <1>0, <2>2, <2>3, <2>4, <2>5, <3>2 DEF FetchedInv, PageTypeOK
      <4> QED BY <1>0, <1>4, <2>5, <4>1, PositionTyped DEF Fixed
    <3> QED BY <3>1, <3>2
  <2>6. Complete'
    BY <1>2, <2>5 DEF Complete
  <2>7. cursor'.id = 0
    BY <1>1, <1>9 DEF NoCursor
  <2> QED BY <1>2, <1>3, <1>5, <1>6, <2>1, <2>6, <2>7
        DEF PageInv, Asked, Behind, Returned, FetchedInv
<1> QED BY <1>8, <1>9

-----------------------------------------------------------------------------
(* Tasks change.                                                           *)

\* A row changes without coming into being twice, and a task that keeps its
\* place is in the list and has the position it had.
LEMMA ChangeInv ==
    ASSUME PageInv, NEW i \in Ids, UNCHANGED <<pc, request, cached, seen>>,
           row' \in [Ids -> Rows], moved' \in [Ids -> BOOLEAN],
           \A j \in Ids \ {i} : row'[j] = row[j] /\ moved'[j] = moved[j],
           row'[i].state # "absent",
           moved[i] => moved'[i],
           ~Reading => moved'[i] = moved[i],
           Reading /\ row[i].state # "absent" /\ Fixed(i)' => Position(i)' = Position(i),
           Reading /\ ~moved'[i] => row[i].state # "absent" /\ Listed(i)'
    PROVE  PageInv'
<1>0. /\ PageTypeOK /\ Asked /\ Created /\ Behind /\ Returned /\ FetchedInv /\ CachedInv
      /\ NoRepeats /\ Complete
  BY DEF PageInv
<1>1. PageTypeOK'
  BY <1>0 DEF PageTypeOK, request
<1>2. \A j \in Ids : Fixed(j)' => Fixed(j)
  BY DEF Fixed, request
<1>3. \A j \in Ids : Reading /\ row[j].state # "absent" /\ Fixed(j)' => Position(j)' = Position(j)
  BY DEF Position, Fixed, request
<1>4. Created'
  BY <1>0 DEF Created, Reading, Listed
<1>5. ASSUME NEW j \in Ids, Reading, row[j].state # "absent", Fixed(j)' PROVE Passed(j)' <=> Passed(j)
  BY <1>3, <1>5 DEF Passed, request
<1>6. Behind'
  BY <1>0, <1>2, <1>5 DEF Behind, Created, Reading
<1>7. \A j \in Ids : Reading /\ ~moved'[j] => ~moved[j] /\ row[j].state # "absent" /\ Fixed(j)'
  BY <1>0 DEF Created, Fixed, Listed
<1>8. Returned'
  BY <1>0, <1>5, <1>7 DEF Returned, Reading
<1>9. FetchedInv'
  <2>1. \A f \in fetched : /\ After(cursor, f)' /\ row'[f.id].state # "absent"
                           /\ Fixed(f.id)' => f = Position(f.id)'
    BY <1>0, <1>2, <1>3, FetchedTyped DEF FetchedInv, After, Reading, request
  <2>2. pc \in {"count", "answer"} =>
         \A j \in Ids : ~moved'[j] /\ ~Passed(j)' =>
            \/ Position(j)' \in fetched
            \/ /\ Cardinality(fetched) = ask.limit + 1
               /\ \A f \in fetched : Precedes(listing.order, f, Position(j)')
    BY <1>0, <1>3, <1>5, <1>7 DEF FetchedInv, Reading
  <2> QED BY <1>0, <2>1, <2>2 DEF FetchedInv, request
<1>10. Complete' /\ NoRepeats' /\ Asked'
  BY <1>0 DEF Complete, NoRepeats, Asked, Reading, request
<1>11. CachedInv'
  <2> SUFFICES ASSUME Reading, NEW L \in cached PROVE Faithful(L)'
    BY DEF CachedInv, Reading
  <2>1. Faithful(L) /\ \A f \in L : f.id \in Ids
    BY <1>0 DEF CachedInv, PageTypeOK
  <2>2. \A f \in L : row'[f.id].state # "absent" /\ (Fixed(f.id)' => f = Position(f.id)')
    BY <1>2, <1>3, <2>1 DEF Faithful
  <2>3. \A j \in Ids : ~moved'[j] => Position(j)' \in L
    BY <1>3, <1>7, <2>1 DEF Faithful
  <2> QED BY <2>1, <2>2, <2>3 DEF Faithful
<1> QED BY <1>1, <1>4, <1>6, <1>8, <1>9, <1>10, <1>11 DEF PageInv

LEMMA CreateTaskInv ==
    ASSUME PageInv, NEW i \in Ids, CreateTask(i)
    PROVE  PageInv'
<1>0. PageTypeOK
  BY DEF PageInv
<1>1. PICK t \in Times, s \in {"listed", "hidden"} :
        row' = [row EXCEPT ![i] = [state |-> s, created_at |-> t, updated_at |-> t]]
  BY DEF CreateTask
<1>2. [state |-> s, created_at |-> t, updated_at |-> t] \in Rows
  BY DEF Rows
<1>3. row' \in [Ids -> Rows] /\ row'[i].state # "absent"
      /\ \A j \in Ids \ {i} : row'[j] = row[j]
  BY <1>0, <1>1, <1>2 DEF PageTypeOK
<1>4. moved' \in [Ids -> BOOLEAN] /\ \A j \in Ids \ {i} : moved'[j] = moved[j]
  BY <1>0 DEF PageTypeOK, CreateTask, Reading
<1>5. (moved[i] => moved'[i]) /\ (Reading => moved'[i]) /\ (~Reading => moved'[i] = moved[i])
  BY <1>0 DEF PageTypeOK, CreateTask
<1> QED BY <1>3, <1>4, <1>5, ChangeInv DEF CreateTask

LEMMA ChangeTaskInv ==
    ASSUME PageInv, NEW i \in Ids, ChangeTask(i)
    PROVE  PageInv'
<1>0. PageTypeOK
  BY DEF PageInv
<1>1. PICK t \in Times, s \in {"listed", "hidden"} :
        /\ row' = [row EXCEPT ![i].state = s,
                              ![i].updated_at = IF s = "listed" THEN t ELSE row[i].created_at]
        /\ moved' = [moved EXCEPT ![i] =
                \/ @
                \/ /\ Reading
                   /\ s = "hidden" \/ (listing.sort = "updated_at" /\ t # row[i].updated_at)]
  BY DEF ChangeTask
<1>2. row[i] \in Rows
  BY <1>0 DEF PageTypeOK
<1>3. /\ row'[i] \in Rows /\ row'[i].state = s /\ row'[i].created_at = row[i].created_at
      /\ s = "listed" => row'[i].updated_at = t
      /\ \A j \in Ids \ {i} : row'[j] = row[j]
  BY <1>0, <1>1, <1>2 DEF PageTypeOK, Rows
<1>4. row' \in [Ids -> Rows]
  BY <1>0, <1>1, <1>3 DEF PageTypeOK
<1>5. moved' \in [Ids -> BOOLEAN] /\ \A j \in Ids \ {i} : moved'[j] = moved[j]
  BY <1>0, <1>1 DEF PageTypeOK, Reading
<1>6. /\ moved[i] => moved'[i]
      /\ ~Reading => moved'[i] = moved[i]
      /\ Reading /\ ~moved'[i] => s = "listed" /\ (listing.sort = "updated_at" => t = row[i].updated_at)
  BY <1>0, <1>1 DEF PageTypeOK
<1>7. Reading /\ Fixed(i)' => Position(i)' = Position(i)
  BY <1>3, <1>6 DEF ChangeTask, Fixed, Position, Column, request
<1> QED BY <1>3, <1>4, <1>5, <1>6, <1>7, ChangeInv DEF ChangeTask, Listed

-----------------------------------------------------------------------------
LEMMA PageNextInv == PageInv /\ [PageNext]_pageVars => PageInv'
<1> SUFFICES ASSUME PageInv, [PageNext]_pageVars PROVE PageInv'
  OBVIOUS
<1>1. CASE UNCHANGED pageVars
  BY <1>1 DEF pageVars, request, PageInv, PageTypeOK, Asked, Created, Behind, Returned, FetchedInv,
      CachedInv, Faithful, Complete, NoRepeats, Passed, Fixed, Position, Reading, Listed, After
<1> QED BY <1>1, StartInv, AskInv, FetchInv, StoreInv, CountInv, AnswerInv, FailPageInv, CreateTaskInv,
          ChangeTaskInv DEF PageNext

\* The cursor splits the list into what was returned once and what was not
\* returned, at every step of every request.
THEOREM PageInvariant == PageSpec => []PageInv
  BY PageInitInv, PageNextInv, PTL DEF PageSpec

\* A client that follows the cursors to the end gets every task that stayed
\* in its place exactly once, for every number of tasks and page size.
THEOREM CompleteListing == PageSpec => []Complete
<1>1. PageInv => Complete
  BY DEF PageInv
<1> QED BY <1>1, PageInvariant, PTL

\* No task is returned twice in the order of created_at; in the order of
\* updated_at, only one that was updated meanwhile.
THEOREM NoRepetition == PageSpec => []NoRepeats
<1>1. PageInv => NoRepeats
  BY DEF PageInv
<1> QED BY <1>1, PageInvariant, PTL

\* The index of the last row of a page is never out of range.
THEOREM CursorHasRow == PageSpec => []LastRowExists
<1>1. PageInv => LastRowExists
  <2> SUFFICES ASSUME PageInv, pc = "answer", HasMore, NEW P \in SUBSET fetched,
                      First(ask.order, fetched, ask.limit, P), P = {}
               PROVE  FALSE
    BY DEF LastRowExists
  <2>1. ask.limit \in Nat /\ ask.limit > 0
    BY DEF PageInv, PageTypeOK, Asked
  <2>2. Cardinality(P) = 0
    BY FS_EmptySet
  <2>3. Cardinality(fetched) \in Nat
    BY FetchedFinite, FS_CardinalityType
  <2> QED BY <2>1, <2>2, <2>3 DEF First, HasMore
<1> QED BY <1>1, PageInvariant, PTL
=============================================================================
