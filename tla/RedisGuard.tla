----------------------------- MODULE RedisGuard -----------------------------
(***************************************************************************)
(* What stands between a request and Redis: the rate limiter               *)
(* (middleware/rate_limiter.go), whose script is the first command of      *)
(* every request, and the circuit breaker (pkg/redisx/breaker.go), a hook  *)
(* around every command the client sends.                                  *)
(*                                                                         *)
(* The hook also sees the commands that go-redis sends by itself: without  *)
(* an idle connection a command dials one and greets Redis with HELLO and  *)
(* CLIENT SETINFO, each through the breaker, inside the call the breaker   *)
(* is already counting.  One replica, one client address, one window.      *)
(* go-redis repeats a failed command inside one call of the hook; that     *)
(* whole call is one command here.                                         *)
(***************************************************************************)
EXTENDS Naturals, FiniteSets

CONSTANTS
    Procs,                \* requests that can be in flight together
    ConsecutiveFailures,  \* REDIS_BREAKER_FAILURES
    Max,                  \* GLOBAL_RATE_MAX: requests per window
    Window,               \* GLOBAL_RATE_WINDOW, in ticks
    MaxOpen               \* bound: of the counted requests that fail open in one
                          \* window, no more than that many enter the history

ASSUME GuardAssumption ==
    /\ ConsecutiveFailures \in Nat \ {0}
    /\ Max \in Nat \ {0} /\ Window \in Nat \ {0} /\ MaxOpen \in Nat
    /\ IsFiniteSet(Procs)

VARIABLES
    up,       \* Redis can be reached and answers in time
    cb,       \* the breaker: its state and its counts
    current,  \* calls <<p, k>> that the breaker let through in this state
    pool,     \* idle connections
    counter,  \* rate:global:<ip>, 0 when the key does not exist
    ttl,      \* ticks until that key expires
    pc,       \* pc[p]: what request p does next
    lost,     \* requests whose connection broke or could not be made
    count,    \* count[p]: the counter as p's script returned it
    inWindow, \* history: requests whose script ran in this window
    passed,   \* history: of those, how many went on to the API
    open,     \* history: how many of these without the script's answer
    canceled  \* history: the last verdict was on a cancelled request

breaker == <<cb, current>>
window  == <<counter, ttl, count, inWindow, passed, open>>
vars    == <<up, breaker, pool, window, pc, lost, canceled>>

-----------------------------------------------------------------------------
(* gobreaker, with the settings of WithCircuitBreaker.                     *)

\* A bug: one slot, as its comment warns.
SingleSlot == 1

\* Calls let through while half-open, and successes that close the breaker.
MaxRequests == 5

ReadyToTrip(failures) == failures >= ConsecutiveFailures

\* Every change of state begins a new generation with new counts.  Only a
\* half-open breaker reads how many calls it admitted and how many succeeded.
Enter(s) == [state |-> s, requests |-> 0, successes |-> 0, failures |-> 0]

Refuses == \/ cb.state = "open"
           \/ cb.state = "half-open" /\ cb.requests >= MaxRequests

Admit(p, k) ==
    /\ ~Refuses
    /\ cb' = IF cb.state = "half-open" THEN [cb EXCEPT !.requests = @ + 1] ELSE cb
    /\ current' = current \cup {<<p, k>>}

Success ==
    IF cb.state = "closed"                    THEN [cb EXCEPT !.failures = 0]
    ELSE IF cb.successes + 1 >= MaxRequests   THEN Enter("closed")
    ELSE [cb EXCEPT !.successes = @ + 1]

Failure ==
    IF cb.state = "half-open" \/ ReadyToTrip(cb.failures + 1) THEN Enter("open")
    ELSE [cb EXCEPT !.failures = @ + 1]

\* A bug: a deadline does not count against Redis.
IsHealthyDeadline(outcome) == outcome \in {"reply", "canceled", "deadline"}

\* What counts as an answer of Redis: a reply (a miss and a server-side error
\* included) and a cancelled request.  A network error, a deadline and any
\* other error, the refusal of a HELLO by this breaker included, do not.
IsHealthy(outcome) == outcome \in {"reply", "canceled"}

\* A bug: a call its caller gave up on is not reported to the breaker.
VerdictUnlessCanceled(p, k, outcome) ==
    /\ cb' = IF <<p, k>> \notin current \/ outcome = "canceled" THEN cb
             ELSE IF IsHealthy(outcome) THEN Success ELSE Failure
    /\ current' = IF cb'.state # cb.state THEN {} ELSE current \ {<<p, k>>}
    /\ canceled' = (outcome = "canceled")

\* The call <<p, k>> returns.  A call of an earlier generation is ignored.
Verdict(p, k, outcome) ==
    /\ cb' = IF <<p, k>> \notin current THEN cb
             ELSE IF IsHealthy(outcome) THEN Success ELSE Failure
    /\ current' = IF cb'.state # cb.state THEN {} ELSE current \ {<<p, k>>}
    /\ canceled' = (outcome = "canceled")

Goto(p, next) == pc' = [pc EXCEPT ![p] = next]

-----------------------------------------------------------------------------
(* A request runs the limiter's script.                                    *)

Init ==
    /\ up = TRUE /\ pool = 0
    /\ cb = Enter("closed") /\ current = {}
    /\ counter = 0 /\ ttl = 0 /\ passed = 0 /\ open = 0 /\ inWindow = {}
    /\ pc = [p \in Procs |-> "idle"]
    /\ count = [p \in Procs |-> 0]
    /\ lost = {} /\ canceled = FALSE

\* ProcessHook lets the command through; it takes an idle connection or
\* dials.  A request that is refused passes the limiter unhindered (limit
\* fails open) and leaves no trace.
Request(p) ==
    /\ pc[p] = "idle"
    /\ Admit(p, "command")
    /\ \/ /\ pool > 0
          /\ pool' = pool - 1
          /\ Goto(p, "script")
       \/ /\ pool = 0
          /\ UNCHANGED pool
          /\ Goto(p, "dial")
    /\ lost' = lost \ {p}
    /\ UNCHANGED <<up, window, canceled>>

\* The connection is made and HELLO enters the hook, or one of the two
\* fails.
Dial(p) ==
    /\ pc[p] = "dial"
    /\ \/ /\ up
          /\ Admit(p, "handshake")
          /\ lost' = lost \ {p}
          /\ Goto(p, "hello")
       \/ /\ ~up \/ Refuses
          /\ lost' = IF up THEN lost \ {p} ELSE lost \cup {p}
          /\ Goto(p, "failed")
          /\ UNCHANGED breaker
    /\ UNCHANGED <<up, pool, window, canceled>>

Hello(p) ==
    /\ pc[p] = "hello"
    /\ \/ p \notin lost /\ Verdict(p, "handshake", "reply") /\ Goto(p, "setinfo")
       \/ p \in lost /\ Verdict(p, "handshake", "deadline") /\ Goto(p, "failed")
    /\ UNCHANGED <<up, pool, window, lost>>

\* CLIENT SETINFO; go-redis ignores its error, a refusal included.
SetInfo(p) ==
    /\ pc[p] = "setinfo"
    /\ \/ Admit(p, "handshake") /\ Goto(p, "setinfo_reply")
       \/ Refuses /\ Goto(p, "script") /\ UNCHANGED breaker
    /\ UNCHANGED <<up, pool, window, lost, canceled>>

SetInfoReply(p) ==
    /\ pc[p] = "setinfo_reply"
    /\ Verdict(p, "handshake", IF p \in lost THEN "deadline" ELSE "reply")
    /\ Goto(p, "script")
    /\ UNCHANGED <<up, pool, window, lost>>

\* A bug: every hit starts the window again.
ExpirySliding == Window

\* The script's PEXPIRE: only for a key without an expiry.
Expiry == IF ttl = 0 THEN Window ELSE ttl

\* A bug: off by one.
OverLimitLate(n) == n > Max + 1

OverLimit(n) == n > Max

\* INCR, PTTL and PEXPIRE run as one script.  Counts above the limit are all
\* alike.
Script(p) ==
    /\ pc[p] = "script"
    /\ \/ /\ p \notin lost
          /\ counter' = IF counter > Max THEN counter ELSE counter + 1
          /\ ttl' = Expiry
          /\ count' = [count EXCEPT ![p] = counter']
          /\ inWindow' = inWindow \cup {p}
          /\ Goto(p, "reply")
          /\ UNCHANGED <<passed, open>>
       \/ /\ p \in lost
          /\ Goto(p, "failed")
          /\ UNCHANGED window
    /\ UNCHANGED <<up, breaker, pool, lost, canceled>>

\* The script's answer: the request passes, or is answered 429.
Reply(p) ==
    /\ pc[p] = "reply" /\ p \notin lost
    /\ Verdict(p, "command", "reply")
    /\ pool' = pool + 1
    /\ passed' = IF OverLimit(count[p]) \/ p \notin inWindow THEN passed ELSE passed + 1
    /\ count' = [count EXCEPT ![p] = 0]
    /\ inWindow' = inWindow \ {p}
    /\ Goto(p, "idle")
    /\ UNCHANGED <<up, counter, ttl, open, lost>>

\* A counted request goes on to the API without the script's answer.
PassOpen(p) ==
    IF p \in inWindow /\ open < MaxOpen
    THEN open' = open + 1 /\ passed' = passed + 1
    ELSE UNCHANGED <<open, passed>>

\* The command fails and the request passes, counted or not: the limiter
\* fails open.
Fail(p, outcome) ==
    /\ Verdict(p, "command", outcome)
    /\ lost' = lost \ {p}
    /\ count' = [count EXCEPT ![p] = 0]
    /\ inWindow' = inWindow \ {p}
    /\ Goto(p, "idle")
    /\ PassOpen(p)
    /\ UNCHANGED <<up, pool, counter, ttl>>

FailOpen(p) ==
    /\ \/ pc[p] = "failed"
       \/ pc[p] = "reply" /\ p \in lost
    /\ Fail(p, "deadline")

\* The caller gives up while the command waits for its connection or reply.
Cancel(p) ==
    /\ pc[p] \in {"dial", "script", "reply"}
    /\ Fail(p, "canceled")

-----------------------------------------------------------------------------
(* Redis and time.                                                         *)

GoDown ==
    /\ up
    /\ up' = FALSE
    /\ pool' = 0
    /\ lost' = lost \cup {p \in Procs : pc[p] \notin {"idle", "dial", "failed"}}
    /\ UNCHANGED <<breaker, window, pc, canceled>>

ComeUp == ~up /\ up' = TRUE /\ UNCHANGED <<breaker, pool, window, pc, lost, canceled>>

\* OpenTimeout is over: the next call finds the breaker half-open.
OpenTimeout ==
    /\ cb.state = "open"
    /\ cb' = Enter("half-open")
    /\ UNCHANGED <<up, current, pool, window, pc, lost, canceled>>

\* Redis drops the counter with the end of its window.
Tick ==
    /\ ttl > 0
    /\ ttl' = ttl - 1
    /\ IF ttl' > 0 THEN UNCHANGED <<counter, inWindow, passed, open>>
       ELSE counter' = 0 /\ inWindow' = {} /\ passed' = 0 /\ open' = 0
    /\ UNCHANGED <<up, breaker, pool, pc, lost, count, canceled>>

Step(p) == \/ Dial(p) \/ Hello(p) \/ SetInfo(p) \/ SetInfoReply(p)
           \/ Script(p) \/ Reply(p) \/ FailOpen(p)

Next == \/ \E p \in Procs : Request(p) \/ Step(p) \/ Cancel(p)
        \/ GoDown \/ ComeUp \/ OpenTimeout \/ Tick

Spec == Init /\ [][Next]_vars

\* Time passes, requests in flight go on (every command has a deadline), and
\* requests keep coming.
Fairness == /\ WF_vars(OpenTimeout) /\ WF_vars(Tick)
            /\ \A p \in Procs : WF_vars(Step(p))
            /\ SF_vars(\E p \in Procs : Request(p))

FairSpec == Spec /\ Fairness
-----------------------------------------------------------------------------
Labels == {"idle", "dial", "hello", "setinfo", "setinfo_reply", "script",
           "reply", "failed"}

\* Types of the breaker, the window and the requests.
TypeOK ==
    /\ up \in BOOLEAN /\ canceled \in BOOLEAN
    /\ cb \in [state : {"closed", "open", "half-open"}, requests : Nat,
               successes : Nat, failures : Nat]
    /\ current \in SUBSET (Procs \X {"command", "handshake"})
    /\ pool \in Nat /\ counter \in Nat /\ ttl \in Nat
    /\ passed \in Nat /\ open \in Nat
    /\ pc \in [Procs -> Labels] /\ count \in [Procs -> Nat]
    /\ lost \in SUBSET Procs /\ inWindow \in SUBSET Procs

\* "Limits hold across all API replicas" (rate_limiter.go), with what failing
\* open costs: of the requests that the script counted in a window, at most
\* Max pass and those whose reply was lost or who gave up waiting for it, in
\* whatever order the replies arrive.
LimitHolds == passed <= Max + open

\* Requests of this window that will pass when their reply arrives.
Allowed == {p \in inWindow : ~OverLimit(count[p])}

\* Why the limit holds: each of the first Max hits of a window is handed out
\* once, a reply that is lost takes its place with it, and a counter never
\* exists without an expiry.
WindowInv ==
    /\ TypeOK
    /\ counter > 0 <=> ttl > 0
    /\ \A p \in inWindow : pc[p] = "reply"
    /\ passed + Cardinality(Allowed) <= counter + open
    /\ passed + Cardinality(Allowed) <= Max + open

\* Calls let through in this state that have not returned.
InFlight == {c \in current : IF c[2] = "command" THEN pc[c[1]] # "idle"
                             ELSE pc[c[1]] \in {"hello", "setinfo_reply"}}

\* "Requests allowed through while half-open" (breaker.go): at most that many
\* probes at a time, whoever fails, gives up or is left over from an earlier
\* state; and a breaker that turns commands away waits for a probe, so that
\* its slots are never used up for nothing.
Probing ==
    cb.state = "half-open" =>
        /\ Cardinality(InFlight) + cb.successes <= MaxRequests
        /\ Refuses => InFlight # {}

\* Why: a slot of a half-open breaker is held by a call in flight or was
\* turned into a success, and no call outlives the state it was let through
\* in.
BreakerInv ==
    /\ TypeOK
    /\ InFlight = current
    /\ cb.state = "open" => current = {}
    /\ cb.state = "half-open" =>
          /\ cb.requests = cb.successes + Cardinality(current)
          /\ cb.successes < MaxRequests /\ cb.requests <= MaxRequests

\* Nobody is locked out for good, not even a client that keeps asking: a
\* counter above the limit is dropped at the end of its window.
WindowEnds == counter > Max ~> counter = 0

\* At most one request talks to Redis.
Calm == Cardinality({p \in Procs : pc[p] # "idle"}) <= 1

\* "Success closes the breaker" (breaker.go), for requests that come one at
\* a time and wait for their reply: when Redis is back for good, the
\* handshakes of new connections do not use up the slots of a half-open
\* breaker for ever, and once closed it stays closed.
Recovers == <>[](up /\ Calm /\ ~canceled) => <>[](cb.state = "closed")

\* "Once open, commands fail in microseconds" (breaker.go): an outage opens
\* the breaker, and half-open it does not close again before Redis answers,
\* unless callers keep giving up before the outage is noticed.
Trips == <>[](~up /\ ~canceled) => <>[](cb.state # "closed")
=============================================================================
