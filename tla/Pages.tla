------------------------------- MODULE Pages --------------------------------
(***************************************************************************)
(* A client reads a team's task list page by page, with the cursor of one  *)
(* page as the start of the next (ListTasks in internal/service/task.go,   *)
(* List and Count in internal/repository/task.go, domain/cursor.go), while *)
(* tasks are created, edited and deleted between and during its requests.  *)
(*                                                                         *)
(* A task's id is a random UUID: a number here, in no relation to its      *)
(* times.  Its times are read by servers whose clocks differ, some time    *)
(* before the row is committed, so any time may appear at any moment; they *)
(* have whole seconds, so they tie.                                        *)
(*                                                                         *)
(* A page may come from Redis, as it was when the list was read for an     *)
(* earlier request.  How old it may be is TaskCache's subject: here the    *)
(* lists that were read since Start may be in Redis, in any order, and     *)
(* Start is when the oldest of the client's pages was read.                *)
(***************************************************************************)
EXTENDS Naturals, FiniteSets

CONSTANTS
    Ids,              \* the task ids that may ever be generated
    Times,            \* the seconds that appear as created_at and updated_at
    Limits,           \* the page sizes that clients ask for
    DefaultPageSize,
    MaxPageSize,
    MaxCached         \* bound on the lists whose pages are in Redis together

ASSUME PageAssumption ==
    /\ Ids \subseteq Nat \ {0} /\ IsFiniteSet(Ids)
    /\ Times \subseteq Nat /\ Times # {}
    /\ Limits \subseteq Nat
    /\ DefaultPageSize \in Nat \ {0} /\ MaxPageSize \in Nat \ {0}
    /\ MaxCached \in Nat

VARIABLES
    row,      \* row[i]: the task, and whether it matches the client's filter
    pc,       \* where the client or its request is
    listing,  \* the sort and order the client reads the list in
    cursor,   \* the next_cursor the client holds
    ask,      \* the request in flight
    cached,   \* the lists, read since Start, whose pages are in Redis
    fetched,  \* the rows that List returned, as they were
    total,    \* what Count returned
    seen,     \* seen[i]: how many times the client has got task i, 2 for more
    moved     \* moved[i]: i was not in the list, or not in its place, at some
              \* moment from Start to the client's last answer

request  == <<listing, cursor, ask, fetched, total>>
pageVars == <<row, pc, request, cached, seen, moved>>

Sorts  == {"created_at", "updated_at", "due_at", "priority"}
Orders == {"asc", "desc"}

\* Listed rows match the filter; hidden ones do not, or are deleted.
Rows == [state : {"absent", "listed", "hidden"}, created_at : Times, updated_at : Times]

\* A cursor whose id is 0 is none.
NoCursor == [id |-> 0, time |-> 0, sort |-> "created_at", order |-> "desc"]

NoTask == [state |-> "absent", created_at |-> CHOOSE t \in Times : TRUE,
           updated_at |-> CHOOSE t \in Times : TRUE]

NoAsk == [sort |-> "created_at", order |-> "desc", limit |-> 1]

PageInit ==
    /\ row = [i \in Ids |-> NoTask]
    /\ pc = "off"
    /\ listing = [sort |-> "created_at", order |-> "desc"]
    /\ cursor = NoCursor
    /\ ask = NoAsk
    /\ cached = {}
    /\ fetched = {}
    /\ total = 0
    /\ seen = [i \in Ids |-> 0]
    /\ moved = [i \in Ids |-> FALSE]

Listed(i) == row[i].state = "listed"

-----------------------------------------------------------------------------
(* Order.                                                                  *)

\* The sort column, and with the id the position of a row in the list.
Column(r, sort) == IF sort = "updated_at" THEN r.updated_at ELSE r.created_at

Position(i) == [id |-> i, time |-> Column(row[i], listing.sort)]

\* ORDER BY col dir, id dir; the keyset predicate compares the same pair.
Precedes(order, a, b) ==
    IF order = "asc" THEN a.time < b.time \/ (a.time = b.time /\ a.id < b.id)
    ELSE a.time > b.time \/ (a.time = b.time /\ a.id > b.id)

\* P is what LIMIT n leaves of the rows S in that order.
First(order, S, n, P) ==
    /\ P \subseteq S
    /\ \A p \in P : \A s \in S : Precedes(order, s, p) => s \in P
    /\ \/ Cardinality(P) = n
       \/ P = S /\ Cardinality(S) <= n

\* The keyset predicate of List: col < ? OR (col = ? AND id < ?).
After(c, a) == c.id = 0 \/ Precedes(c.order, c, a)

SupportsCursor(sort) == sort \in {"created_at", "updated_at"}

\* DecodeTaskCursor accepts only a cursor of the same sort and order.
DecodeTaskCursor(c, sort, order) == c.sort = sort /\ c.order = order

NormalizePage(n) == IF n = 0 THEN DefaultPageSize
                    ELSE IF n > MaxPageSize THEN MaxPageSize ELSE n

-----------------------------------------------------------------------------
(* The client and its requests.                                            *)

\* The list as MySQL has it.
TheList == {Position(i) : i \in {i \in Ids : Listed(i)}}

\* The client asks for its first page, or the oldest of its pages is read.
Start ==
    /\ pc \in {"off", "end"}
    /\ \E s \in {"created_at", "updated_at"}, o \in Orders :
          listing' = [sort |-> s, order |-> o]
    /\ cursor' = NoCursor
    /\ seen' = [i \in Ids |-> 0]
    /\ moved' = [i \in Ids |-> ~Listed(i)]
    /\ pc' = "ready"
    /\ cached' = {}
    /\ UNCHANGED <<row, ask, fetched, total>>

\* A request, for any page size and, with a cursor, for any sort and order:
\* the ones that do not fit the cursor are refused.
Ask ==
    /\ pc = "ready"
    /\ \E s \in Sorts, o \in Orders, n \in Limits :
          /\ IF cursor.id = 0 THEN s = listing.sort /\ o = listing.order
             ELSE SupportsCursor(s) /\ DecodeTaskCursor(cursor, s, o)
          /\ ask' = [sort |-> s, order |-> o, limit |-> NormalizePage(n)]
    /\ pc' = "list"
    /\ UNCHANGED <<row, listing, cursor, cached, fetched, total, seen, moved>>

\* A bug: no extra row.
FetchPage(limit) == limit

\* One row more than the page tells whether another page follows.
Fetch(limit) == limit + 1

\* The rows of the list L for the request in flight.
Found(L, F) ==
    LET S == {r \in L : After(cursor, r)}
    IN F \subseteq S /\ First(ask.order, S, Fetch(ask.limit), F)

\* List: the matching rows after the cursor, in order.
List ==
    /\ pc = "list"
    /\ \E F \in SUBSET TheList : Found(TheList, F) /\ fetched' = F
    /\ pc' = "count"
    /\ UNCHANGED <<row, listing, cursor, ask, cached, total, seen, moved>>

\* A bug: the key of a page leaves the cursor out.
HitAnyCursor ==
    /\ pc = "list"
    /\ \E L \in cached :
          /\ \E F \in SUBSET L : First(ask.order, L, Fetch(ask.limit), F) /\ fetched' = F
          /\ total' = Cardinality(L)
    /\ pc' = "answer"
    /\ UNCHANGED <<row, listing, cursor, ask, cached, seen, moved>>

\* The page of the same query is in Redis: rows and total are those of an earlier request.
Hit ==
    /\ pc = "list"
    /\ \E L \in cached :
          /\ \E F \in SUBSET L : Found(L, F) /\ fetched' = F
          /\ total' = Cardinality(L)
    /\ pc' = "answer"
    /\ UNCHANGED <<row, listing, cursor, ask, cached, seen, moved>>

\* Count: another statement, another snapshot.
Count ==
    /\ pc = "count"
    /\ total' = Cardinality({i \in Ids : Listed(i)})
    /\ pc' = "answer"
    /\ UNCHANGED <<row, listing, cursor, ask, cached, fetched, seen, moved>>

\* A bug: whether there is more is told from the total.
HasMoreByTotal == Cardinality(fetched) < total

HasMore == Cardinality(fetched) > ask.limit

\* The request is over.
Forget == ask' = NoAsk /\ fetched' = {} /\ total' = 0

\* The page goes to the client; the next cursor points past its last row.
Answer ==
    /\ pc = "answer"
    /\ \E P \in SUBSET fetched :
          /\ First(ask.order, fetched, ask.limit, P)
          /\ seen' = [i \in Ids |-> IF \E r \in P : r.id = i
                                    THEN IF seen[i] = 0 THEN 1 ELSE 2
                                    ELSE seen[i]]
          /\ \/ /\ HasMore
                /\ \E l \in P :
                      /\ \A r \in P : r = l \/ Precedes(ask.order, r, l)
                      /\ cursor' = [id |-> l.id, time |-> l.time,
                                    sort |-> ask.sort, order |-> ask.order]
                /\ pc' = "ready"
             \/ ~HasMore /\ cursor' = NoCursor /\ pc' = "end"
    /\ Forget
    /\ UNCHANGED <<row, listing, cached, moved>>

\* The request fails or its answer is lost; the client asks again.
FailPage ==
    /\ pc \in {"list", "count", "answer"}
    /\ pc' = "ready"
    /\ Forget
    /\ UNCHANGED <<row, listing, cursor, cached, seen, moved>>

-----------------------------------------------------------------------------
(* The other requests.                                                     *)

Reading == pc \notin {"off", "end"}

CreateTask(i) ==
    /\ row[i].state = "absent"
    /\ \E t \in Times, s \in {"listed", "hidden"} :
          row' = [row EXCEPT ![i] = [state |-> s, created_at |-> t, updated_at |-> t]]
    /\ moved' = [moved EXCEPT ![i] = @ \/ Reading]
    /\ UNCHANGED <<pc, request, cached, seen>>

\* An edit, a deletion or the passing of a due date.  created_at stays, and
\* updated_at is of no interest until the row is listed again.
ChangeTask(i) ==
    /\ row[i].state # "absent"
    /\ \E t \in Times, s \in {"listed", "hidden"} :
          /\ row' = [row EXCEPT ![i].state = s,
                               ![i].updated_at = IF s = "listed" THEN t ELSE row[i].created_at]
          /\ moved' = [moved EXCEPT ![i] =
                \/ @
                \/ /\ Reading
                   /\ s = "hidden" \/ (listing.sort = "updated_at" /\ t # row[i].updated_at)]
    /\ UNCHANGED <<pc, request, cached, seen>>

\* Somebody reads the same list; his pages replace older ones in Redis.
Store ==
    /\ Reading
    /\ \E C \in SUBSET cached :
          /\ cached' = C \cup {TheList}
          /\ Cardinality(cached') <= MaxCached
    /\ UNCHANGED <<row, pc, request, seen, moved>>

PageNext ==
    \/ Start \/ Ask \/ List \/ Hit \/ Store \/ Count \/ Answer \/ FailPage
    \/ \E i \in Ids : CreateTask(i) \/ ChangeTask(i)

PageSpec == PageInit /\ [][PageNext]_pageVars
-----------------------------------------------------------------------------
\* Types of the rows, of the request and of what the client has got.
PageTypeOK ==
    /\ row \in [Ids -> Rows]
    /\ pc \in {"off", "ready", "list", "count", "answer", "end"}
    /\ listing \in [sort : {"created_at", "updated_at"}, order : Orders]
    /\ cursor \in [id : Ids \cup {0}, time : Nat, sort : Sorts, order : Orders]
    /\ ask \in [sort : Sorts, order : Orders, limit : Nat]
    /\ cached \in SUBSET SUBSET [id : Ids, time : Times]
    /\ fetched \in SUBSET [id : Ids, time : Times]
    /\ total \in Nat
    /\ seen \in [Ids -> {0, 1, 2}]
    /\ moved \in [Ids -> BOOLEAN]

\* Keyset pagination "never skips or repeats rows when tasks are added or
\* removed between requests" (domain/cursor.go): a client that has read to
\* the end has got exactly once every task that was in the list, and in its
\* place, from the moment the oldest of its pages was read.  A page from
\* Redis can be older than the client's first request: a task that came into
\* the list before that, but after the page was read, may be missing.
Complete == pc = "end" => \A i \in Ids : ~moved[i] => seen[i] = 1

\* At no time has a client got a task twice, unless it reads in the order
\* of updated_at and the task was updated meanwhile.
NoRepeats == \A i \in Ids : seen[i] = 2 => listing.sort = "updated_at" /\ moved[i]

\* Whenever more is to come the page has a last row for the cursor
\* (tasks[len(tasks)-1]), although rows come and go between List and Count.
LastRowExists ==
    pc = "answer" /\ HasMore =>
        \A P \in SUBSET fetched : First(ask.order, fetched, ask.limit, P) => P # {}
=============================================================================
