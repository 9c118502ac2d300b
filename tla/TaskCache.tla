------------------------------ MODULE TaskCache -----------------------------
(***************************************************************************)
(* The cache of task-list pages in Redis (internal/cache/task.go), used by *)
(* ListTasks (internal/service/task.go) and invalidated after every        *)
(* committed change of a task (invalidate, invalidateTasks).               *)
(*                                                                         *)
(* One team and one query: keys of other teams and queries are disjoint.   *)
(* The contents of the tasks table are the number of changes committed so  *)
(* far.  Every Redis call is a step of its own and may fail; the call that *)
(* stores a page is two, since go-redis looks at the deadline of a request *)
(* only before it takes a connection (client.go leaves                     *)
(* ContextTimeoutEnabled off) and Redis may run the command after that, or *)
(* after the client has given up.  A repeated INCR only skips a            *)
(* generation and is left out.  Time passes in ticks; Redis drops a key at *)
(* the tick where its TTL ends.                                            *)
(***************************************************************************)
EXTENDS Naturals, FiniteSets

CONSTANTS
    Readers,         \* ListTasks requests that can be in flight together
    Writers,         \* requests that change tasks
    PageTTL,         \* how long a page is kept (CACHE_TASKS_TTL)
    GenTTL,          \* how long the counter is kept after its last INCR
    RequestTimeout,  \* the deadline of a request (HTTP_REQUEST_TIMEOUT), 0 for none
    CallTime,        \* how long go-redis waits for one command (client.go)
    MaxWrites,       \* bound on the number of changes
    MaxTime,         \* bound on the clock
    MaxSets,         \* bound on the SETs that are on the wire together
    NoStamp          \* the empty stamp: the generation is unknown

ASSUME CacheAssumption ==
    /\ PageTTL \in Nat \ {0} /\ GenTTL \in Nat \ {0} /\ RequestTimeout \in Nat
    /\ CallTime \in Nat
    /\ MaxWrites \in Nat /\ MaxTime \in Nat /\ MaxSets \in Nat
    /\ NoStamp \notin Nat
    /\ Readers \cap Writers = {}

VARIABLES
    now,        \* the clock
    db,         \* the number of committed changes of the team's tasks
    counter,    \* tasks:{team}:gen, 0 also when the key does not exist
    genExpiry,  \* when that key expires
    pages,      \* the stored pages tasks:{team}:g<N>:<query>
    wire,       \* the SET commands that are sent and not executed
    pc,         \* pc[c]: the next call of request c
    stamp,      \* stamp[r]: the generation reader r read
    start,      \* start[r]: when r began
    tasks,      \* tasks[r]: what r's List query saw
    readAt,     \* readAt[r]: when r's List query ran
    wrote,      \* wrote[w]: the change writer w committed
    settled,    \* history: the last change whose invalidation succeeded
    floor,      \* history: settled when r read the generation
    reset       \* history: the counter has expired and restarted at 0

redis   == <<counter, genExpiry, pages, wire>>
readers == <<stamp, start, tasks, readAt, floor>>
vars    == <<now, db, redis, pc, readers, wrote, settled, reset>>

\* late: the command was executed when its client no longer waited for it.
Pages == [gen : Nat, tasks : Nat, readAt : Nat, expires : Nat,
          late : BOOLEAN]
Sets  == [gen : Nat, tasks : Nat, readAt : Nat, sentAt : Nat]

Init ==
    /\ now = 0 /\ db = 0 /\ settled = 0 /\ reset = FALSE
    /\ counter = 0 /\ genExpiry = 0 /\ pages = {} /\ wire = {}
    /\ pc = [c \in Readers \cup Writers |-> "idle"]
    /\ stamp = [r \in Readers |-> NoStamp]
    /\ start = [r \in Readers |-> 0]
    /\ tasks = [r \in Readers |-> 0]
    /\ readAt = [r \in Readers |-> 0]
    /\ floor = [r \in Readers |-> 0]
    /\ wrote = [w \in Writers |-> 0]

Goto(c, next) == pc' = [pc EXCEPT ![c] = next]

\* The request ends, and with it its variables.
EndRead(r) ==
    /\ Goto(r, "idle")
    /\ stamp' = [stamp EXCEPT ![r] = NoStamp]
    /\ start' = [start EXCEPT ![r] = 0]
    /\ tasks' = [tasks EXCEPT ![r] = 0]
    /\ readAt' = [readAt EXCEPT ![r] = 0]
    /\ floor' = [floor EXCEPT ![r] = 0]

EndWrite(w) == Goto(w, "idle") /\ wrote' = [wrote EXCEPT ![w] = 0]

-----------------------------------------------------------------------------
(* Writers.                                                                *)

\* A transaction that changed tasks commits.
CommitWrite(w) ==
    /\ pc[w] = "idle" /\ db < MaxWrites
    /\ db' = db + 1
    /\ wrote' = [wrote EXCEPT ![w] = db + 1]
    /\ Goto(w, "invalidate")
    /\ UNCHANGED <<now, redis, readers, settled, reset>>

\* The commit is applied and its reply lost: WithinTx returns an error, the
\* request fails, and nothing is invalidated.
CommitLost(w) ==
    /\ pc[w] = "idle" /\ db < MaxWrites
    /\ db' = db + 1
    /\ UNCHANGED <<now, redis, pc, readers, wrote, settled, reset>>

\* INCR and EXPIRE in one MULTI: the caller may or may not get the reply.
InvalidateTeam(w) ==
    /\ pc[w] = "invalidate"
    /\ counter' = counter + 1
    /\ genExpiry' = now + GenTTL
    /\ settled' = IF wrote[w] > settled THEN wrote[w] ELSE settled
    /\ EndWrite(w)
    /\ UNCHANGED <<now, db, pages, wire, readers, reset>>

\* Redis is down, the breaker is open, the request was cancelled or the
\* process died: the error is logged and swallowed.
InvalidateFails(w) ==
    /\ pc[w] = "invalidate"
    /\ EndWrite(w)
    /\ UNCHANGED <<now, db, redis, readers, settled, reset>>

-----------------------------------------------------------------------------
(* Readers: ListTasks after its membership check.                          *)

\* Timeout: a duration of 0 sets no deadline.
InTime(r) == RequestTimeout = 0 \/ now <= start[r] + RequestTimeout

\* Get, first call: the generation, "0" when the key does not exist.
ReadGeneration(r) ==
    /\ pc[r] = "idle"
    /\ start' = [start EXCEPT ![r] = now]
    /\ floor' = [floor EXCEPT ![r] = settled]
    /\ \/ /\ stamp' = [stamp EXCEPT ![r] = counter]
          /\ Goto(r, "page")
       \/ /\ stamp' = [stamp EXCEPT ![r] = NoStamp]
          /\ Goto(r, "list")
    /\ UNCHANGED <<now, db, redis, tasks, readAt, wrote, settled, reset>>

\* Get, second call: a page of that generation is the answer.
Hit(r) ==
    /\ pc[r] = "page"
    /\ \E x \in pages : x.gen = stamp[r]
    /\ EndRead(r)
    /\ UNCHANGED <<now, db, redis, wrote, settled, reset>>

\* There is none, or it cannot be decoded.  When the call fails the stamp
\* is lost too.
Miss(r) ==
    /\ pc[r] = "page"
    /\ stamp' \in {stamp, [stamp EXCEPT ![r] = NoStamp]}
    /\ Goto(r, "list")
    /\ UNCHANGED <<now, db, redis, start, tasks, readAt, floor, wrote, settled, reset>>

\* Two queries outside any transaction, so each has its own snapshot; the
\* total, counted after the tasks are read, is at least as new as they are.
List(r) ==
    /\ pc[r] = "list" /\ InTime(r)
    /\ tasks' = [tasks EXCEPT ![r] = db]
    /\ readAt' = [readAt EXCEPT ![r] = now]
    /\ Goto(r, "count")
    /\ UNCHANGED <<now, db, redis, stamp, start, floor, wrote, settled, reset>>

Count(r) ==
    /\ pc[r] = "count" /\ InTime(r)
    /\ Goto(r, "set")
    /\ UNCHANGED <<now, db, redis, stamp, start, tasks, readAt, floor, wrote, settled, reset>>

NewSet(r) == [gen |-> stamp[r], tasks |-> tasks[r],
              readAt |-> readAt[r], sentAt |-> now]

\* A bug: the page is stored under the generation of the moment.
SetCurrent(r) ==
    /\ pc[r] = "set" /\ stamp[r] # NoStamp /\ InTime(r) /\ Cardinality(wire) < MaxSets
    /\ wire' = wire \cup {[NewSet(r) EXCEPT !.gen = counter]}
    /\ UNCHANGED <<now, db, counter, genExpiry, pages, pc, readers, wrote, settled, reset>>

\* The SET is sent, once or, when no reply comes, again: the page goes under
\* the generation that was read before the queries.
Set(r) ==
    /\ pc[r] = "set" /\ stamp[r] # NoStamp /\ InTime(r) /\ Cardinality(wire) < MaxSets
    /\ wire' = wire \cup {NewSet(r)}
    /\ UNCHANGED <<now, db, counter, genExpiry, pages, pc, readers, wrote, settled, reset>>

\* A bug: the key gets the TTL of the counter.
NewPageGenTTL(x) == [gen |-> x.gen, tasks |-> x.tasks,
                     readAt |-> x.readAt, expires |-> now + GenTTL,
                     late |-> now > x.sentAt + CallTime]

NewPage(x) == [gen |-> x.gen, tasks |-> x.tasks,
               readAt |-> x.readAt, expires |-> now + PageTTL,
               late |-> now > x.sentAt + CallTime]

\* Redis executes a SET, whether its client still waits or not.
Store(x) ==
    /\ pages' = {y \in pages : y.gen # x.gen} \cup {NewPage(x)}
    /\ wire' = wire \ {x}
    /\ UNCHANGED <<now, db, counter, genExpiry, pc, readers, wrote, settled, reset>>

Lose(x) ==
    /\ wire' = wire \ {x}
    /\ UNCHANGED <<now, db, counter, genExpiry, pages, pc, readers, wrote, settled, reset>>

\* A query fails and so does the request; or the page is returned: it is
\* stored or may yet be, or it is not, for want of a stamp or because no
\* SET was sent.
Finish(r) ==
    /\ pc[r] \in {"list", "count", "set"}
    /\ EndRead(r)
    /\ UNCHANGED <<now, db, redis, wrote, settled, reset>>

-----------------------------------------------------------------------------
\* Time passes; Redis drops the keys whose TTL has ended.
Tick ==
    /\ now < MaxTime
    /\ now' = now + 1
    /\ pages' = {x \in pages : x.expires > now'}
    /\ \/ /\ counter = 0 \/ now' < genExpiry
          /\ UNCHANGED <<counter, genExpiry, reset>>
       \/ /\ counter # 0 /\ now' >= genExpiry
          /\ counter' = 0 /\ genExpiry' = 0 /\ reset' = TRUE
    /\ UNCHANGED <<db, wire, pc, readers, wrote, settled>>

Write(w) == CommitWrite(w) \/ CommitLost(w) \/ InvalidateTeam(w) \/ InvalidateFails(w)

Read(r) == \/ ReadGeneration(r) \/ Hit(r) \/ Miss(r) \/ List(r) \/ Count(r)
           \/ Set(r) \/ Finish(r)

Next == \/ Tick
        \/ \E w \in Writers : Write(w)
        \/ \E r \in Readers : Read(r)
        \/ \E x \in wire : Store(x) \/ Lose(x)

Spec == Init /\ [][Next]_vars
-----------------------------------------------------------------------------
\* Types of the clock, the Redis keys and the requests' variables.
TypeOK ==
    /\ now \in Nat /\ db \in Nat /\ settled \in Nat /\ reset \in BOOLEAN
    /\ counter \in Nat /\ genExpiry \in Nat /\ pages \in SUBSET Pages
    /\ wire \in SUBSET Sets
    /\ pc \in [Readers \cup Writers ->
                 {"idle", "invalidate", "page", "list", "count", "set"}]
    /\ stamp \in [Readers -> Nat \cup {NoStamp}]
    /\ start \in [Readers -> Nat] /\ readAt \in [Readers -> Nat]
    /\ tasks \in [Readers -> Nat] /\ floor \in [Readers -> Nat]
    /\ wrote \in [Writers -> Nat]

\* What reader r would be served from the cache is no older than the last
\* change whose invalidation had succeeded when r asked.
FreshFor(r) ==
    \A x \in pages : pc[r] = "page" /\ x.gen = stamp[r] =>
        x.tasks >= floor[r]

\* Invalidation is race-free (cache/task.go): a reader that queries MySQL
\* while a writer bumps the generation never makes its stale page visible
\* to a later reader, as long as the counter has not expired.
FreshUntilReset == ~reset => \A r \in Readers : FreshFor(r)

\* Whatever fails or expires, a page in the cache was read from MySQL at most
\* PageTTL, one request and one Redis call ago (ListTasks, Timeout, Set).
\* Two kinds of page have no such bound: all of them when requests have no
\* deadline, and one whose SET Redis executed after its client gave up.
BoundedStaleness ==
    RequestTimeout # 0 =>
        \A x \in pages :
            x.late \/ now < x.readAt + RequestTimeout + CallTime + PageTTL

\* The inductive strengthening of both.  Readers of one generation have the
\* same floor, and a page of a generation is at least as fresh as the floor
\* of its readers; so is one that is still on the wire.
InFlight(r) == pc[r] # "idle" /\ stamp[r] # NoStamp

Generations ==
    ~reset =>
      /\ settled <= db
      /\ \A w \in Writers : wrote[w] <= db
      /\ \A r \in Readers :
           /\ floor[r] <= settled
           /\ pc[r] \in {"count", "set"} => tasks[r] >= floor[r]
           /\ InFlight(r) => stamp[r] <= counter
           /\ InFlight(r) /\ stamp[r] = counter => floor[r] = settled
      /\ \A r, q \in Readers :
           InFlight(r) /\ InFlight(q) /\ stamp[r] = stamp[q] => floor[r] = floor[q]
      /\ \A x \in pages \cup wire :
           /\ x.gen <= counter
           /\ x.gen = counter => x.tasks >= settled
           /\ \A r \in Readers : InFlight(r) /\ x.gen = stamp[r] =>
                x.tasks >= floor[r]

Ages ==
    /\ \A r \in Readers :
         /\ start[r] <= now /\ readAt[r] <= now
         /\ pc[r] \in {"count", "set"} => start[r] <= readAt[r]
    /\ \A x \in wire : RequestTimeout # 0 => x.sentAt <= x.readAt + RequestTimeout
    /\ \A x \in pages :
         /\ now < x.expires
         /\ RequestTimeout # 0 /\ ~x.late =>
              x.expires <= x.readAt + RequestTimeout + CallTime + PageTTL

CacheInv == TypeOK /\ Generations /\ Ages
=============================================================================
