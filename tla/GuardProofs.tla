----------------------------- MODULE GuardProofs -----------------------------
(***************************************************************************)
(* The rate limit of RedisGuard and the slots of its half-open breaker,    *)
(* for any limit, window, threshold and number of concurrent requests.     *)
(***************************************************************************)
EXTENDS RedisGuard, FiniteSetTheorems, TLAPS

USE GuardAssumption

\* The breaker's record and its calls keep their types.
LEMMA BreakerTypes ==
    ASSUME TypeOK, NEW p \in Procs, NEW k \in {"command", "handshake"},
           \/ Admit(p, k) \/ UNCHANGED breaker
           \/ \E outcome : Verdict(p, k, outcome)
    PROVE  /\ cb' \in [state : {"closed", "open", "half-open"}, requests : Nat,
                       successes : Nat, failures : Nat]
           /\ current' \in SUBSET (Procs \X {"command", "handshake"})
<1>1. CASE Admit(p, k)
  BY <1>1 DEF Admit, TypeOK
<1>2. CASE UNCHANGED breaker
  BY <1>2 DEF breaker, TypeOK
<1>3. CASE \E outcome : Verdict(p, k, outcome)
  <2>1. Success \in [state : {"closed", "open", "half-open"}, requests : Nat,
                     successes : Nat, failures : Nat]
    BY DEF Success, Enter, TypeOK
  <2>2. Failure \in [state : {"closed", "open", "half-open"}, requests : Nat,
                     successes : Nat, failures : Nat]
    BY DEF Failure, Enter, TypeOK
  <2>3. QED
    BY <1>3, <2>1, <2>2 DEF Verdict, TypeOK
<1>4. QED
  BY <1>1, <1>2, <1>3

\* Facts about Allowed: it is finite, and it loses or gains one request.
LEMMA AllowedFinite ==
    ASSUME TypeOK
    PROVE  IsFiniteSet(Allowed) /\ Cardinality(Allowed) \in Nat
<1>1. IsFiniteSet(Allowed)
  BY FS_Subset DEF Allowed, TypeOK
<1>2. QED
  BY <1>1, FS_CardinalityType

\* The invariant speaks of the window, the requests and their labels only:
\* a step that moves a request to a label where it has no reply to wait for
\* and leaves the window alone keeps it.
LEMMA WindowUntouched ==
    ASSUME WindowInv, TypeOK', UNCHANGED window,
           \A p \in inWindow : pc'[p] = "reply"
    PROVE  WindowInv'
<1>1. Allowed' = Allowed
  BY DEF Allowed, window, OverLimit
<1>2. QED
  BY <1>1 DEF WindowInv, window

\* A request that leaves the window frees its place if it had one.
LEMMA Leaves ==
    ASSUME WindowInv, NEW p \in Procs, TypeOK',
           count' = [count EXCEPT ![p] = 0],
           inWindow' = inWindow \ {p},
           \A q \in inWindow \ {p} : pc'[q] = "reply",
           UNCHANGED <<counter, ttl>>,
           \/ UNCHANGED <<passed, open>>
           \/ p \in Allowed /\ passed' = passed + 1 /\ open' = open
           \/ passed' = passed + 1 /\ open' = open + 1
    PROVE  WindowInv'
<1>1. Allowed' = Allowed \ {p}
  BY DEF Allowed, OverLimit, WindowInv, TypeOK
<1>2. IsFiniteSet(Allowed) /\ Cardinality(Allowed) \in Nat
  BY AllowedFinite DEF WindowInv
<1>3. Cardinality(Allowed \ {p}) =
         IF p \in Allowed THEN Cardinality(Allowed) - 1 ELSE Cardinality(Allowed)
  BY <1>2, FS_RemoveElement
<1>4. /\ Cardinality(Allowed') \in Nat
      /\ passed' + Cardinality(Allowed') <= passed + Cardinality(Allowed) + (open' - open)
      /\ passed' \in Nat /\ open' \in Nat
  <2>1. Cardinality(Allowed') \in Nat
    BY <1>1, <1>2, FS_RemoveElement, FS_CardinalityType
  <2>2. QED
    BY <1>1, <1>2, <1>3, <2>1 DEF WindowInv, TypeOK
<1>5. QED
  BY <1>2, <1>4 DEF WindowInv, TypeOK

\* Every step keeps the types.
LEMMA TypeStep == TypeOK /\ [Next]_vars => TypeOK'
<1> SUFFICES ASSUME TypeOK, [Next]_vars PROVE TypeOK'
  OBVIOUS
<1>1. ASSUME NEW p \in Procs, Request(p) PROVE TypeOK'
  <2>1. Admit(p, "command")
    BY <1>1 DEF Request
  <2>2. pool' \in Nat
    BY <1>1 DEF Request, TypeOK
  <2>3. pc' \in [Procs -> Labels]
    BY <1>1 DEF Request, TypeOK, Goto, Labels
  <2>4. QED
    BY <1>1, <2>1, <2>2, <2>3, BreakerTypes DEF Request, TypeOK, window
<1>2. ASSUME NEW p \in Procs, Dial(p) PROVE TypeOK'
  <2>1. Admit(p, "handshake") \/ UNCHANGED breaker
    BY <1>2 DEF Dial
  <2>2. pc' \in [Procs -> Labels]
    BY <1>2 DEF Dial, TypeOK, Goto, Labels
  <2>3. lost' \in SUBSET Procs
    BY <1>2 DEF Dial, TypeOK
  <2>4. QED
    BY <1>2, <2>1, <2>2, <2>3, BreakerTypes DEF Dial, TypeOK, window
<1>3. ASSUME NEW p \in Procs, Hello(p) PROVE TypeOK'
  <2>1. \E outcome : Verdict(p, "handshake", outcome)
    BY <1>3 DEF Hello
  <2>2. pc' \in [Procs -> Labels] /\ canceled' \in BOOLEAN
    BY <1>3 DEF Hello, TypeOK, Goto, Labels, Verdict
  <2>3. QED
    BY <1>3, <2>1, <2>2, BreakerTypes DEF Hello, TypeOK, window
<1>4. ASSUME NEW p \in Procs, SetInfo(p) PROVE TypeOK'
  <2>1. Admit(p, "handshake") \/ UNCHANGED breaker
    BY <1>4 DEF SetInfo
  <2>2. pc' \in [Procs -> Labels]
    BY <1>4 DEF SetInfo, TypeOK, Goto, Labels
  <2>3. QED
    BY <1>4, <2>1, <2>2, BreakerTypes DEF SetInfo, TypeOK, window
<1>5. ASSUME NEW p \in Procs, SetInfoReply(p) PROVE TypeOK'
  <2>1. \E outcome : Verdict(p, "handshake", outcome)
    BY <1>5 DEF SetInfoReply
  <2>2. pc' \in [Procs -> Labels] /\ canceled' \in BOOLEAN
    BY <1>5 DEF SetInfoReply, TypeOK, Goto, Labels, Verdict
  <2>3. QED
    BY <1>5, <2>1, <2>2, BreakerTypes DEF SetInfoReply, TypeOK, window
<1>6. ASSUME NEW p \in Procs, Script(p) PROVE TypeOK'
  <2>1. pc' \in [Procs -> Labels]
    BY <1>6 DEF Script, TypeOK, Goto, Labels
  <2>2. counter' \in Nat /\ ttl' \in Nat /\ passed' \in Nat /\ open' \in Nat
    BY <1>6 DEF Script, TypeOK, Expiry, window
  <2>3. count' \in [Procs -> Nat] /\ inWindow' \in SUBSET Procs
    BY <1>6, <2>2 DEF Script, TypeOK, window
  <2>4. QED
    BY <1>6, <2>1, <2>2, <2>3 DEF Script, TypeOK, breaker
<1>7. ASSUME NEW p \in Procs, Reply(p) PROVE TypeOK'
  <2>1. \E outcome : Verdict(p, "command", outcome)
    BY <1>7 DEF Reply
  <2>2. pc' \in [Procs -> Labels] /\ canceled' \in BOOLEAN
    BY <1>7 DEF Reply, TypeOK, Goto, Labels, Verdict
  <2>3. pool' \in Nat /\ passed' \in Nat /\ count' \in [Procs -> Nat]
    BY <1>7 DEF Reply, TypeOK
  <2>4. QED
    BY <1>7, <2>1, <2>2, <2>3, BreakerTypes DEF Reply, TypeOK
<1>8. ASSUME NEW p \in Procs, NEW outcome, Fail(p, outcome) PROVE TypeOK'
  <2>1. \E o : Verdict(p, "command", o)
    BY <1>8 DEF Fail
  <2>2. pc' \in [Procs -> Labels] /\ canceled' \in BOOLEAN
    BY <1>8 DEF Fail, TypeOK, Goto, Labels, Verdict
  <2>3. count' \in [Procs -> Nat] /\ passed' \in Nat /\ open' \in Nat
    BY <1>8 DEF Fail, PassOpen, TypeOK
  <2>4. QED
    BY <1>8, <2>1, <2>2, <2>3, BreakerTypes DEF Fail, TypeOK
<1>9. CASE GoDown \/ ComeUp
  <2>1. pool' \in Nat /\ lost' \in SUBSET Procs
    BY <1>9 DEF GoDown, ComeUp, TypeOK
  <2>2. UNCHANGED <<breaker, window, pc, canceled>>
    BY <1>9 DEF GoDown, ComeUp
  <2>3. up' \in BOOLEAN
    BY <1>9, Zenon DEF GoDown, ComeUp
  <2>4. QED
    BY <2>1, <2>2, <2>3 DEF TypeOK, breaker, window
<1>10. CASE OpenTimeout
  BY <1>10 DEF OpenTimeout, Enter, TypeOK, window
<1>11. CASE Tick
  BY <1>11 DEF Tick, TypeOK, breaker
<1>12. CASE UNCHANGED vars
  BY <1>12 DEF vars, breaker, window, TypeOK
<1>13. QED
  BY <1>1, <1>2, <1>3, <1>4, <1>5, <1>6, <1>7, <1>8, <1>9, <1>10, <1>11, <1>12
  DEF Next, Step, FailOpen, Cancel

\* Every step keeps the invariant.
LEMMA WindowStep == WindowInv /\ [Next]_vars => WindowInv'
<1> SUFFICES ASSUME WindowInv, [Next]_vars PROVE WindowInv'
  OBVIOUS
<1> TypeOK /\ TypeOK'
  BY TypeStep DEF WindowInv
<1>1. ASSUME NEW p \in Procs,
             Request(p) \/ Dial(p) \/ Hello(p) \/ SetInfo(p) \/ SetInfoReply(p)
      PROVE  WindowInv'
  <2>1. UNCHANGED window /\ pc[p] # "reply"
    BY <1>1 DEF Request, Dial, Hello, SetInfo, SetInfoReply
  <2>2. \E next : Goto(p, next)
    BY <1>1 DEF Request, Dial, Hello, SetInfo, SetInfoReply
  <2>3. \A q \in inWindow : pc'[q] = "reply"
    BY <2>1, <2>2 DEF Goto, WindowInv, TypeOK
  <2>4. QED
    BY <2>1, <2>3, WindowUntouched
<1>2. ASSUME NEW p \in Procs, Script(p) PROVE WindowInv'
  <2>1. CASE p \in lost
    <3>1. UNCHANGED window /\ Goto(p, "failed") /\ pc[p] = "script"
      BY <1>2, <2>1 DEF Script
    <3>2. \A q \in inWindow : pc'[q] = "reply"
      BY <3>1 DEF Goto, WindowInv, TypeOK
    <3>3. QED
      BY <3>1, <3>2, WindowUntouched
  <2>2. CASE p \notin lost
    <3>1. /\ pc[p] = "script" /\ Goto(p, "reply")
          /\ counter' = IF counter > Max THEN counter ELSE counter + 1
          /\ ttl' = Expiry
          /\ count' = [count EXCEPT ![p] = counter']
          /\ inWindow' = inWindow \cup {p}
          /\ passed' = passed /\ open' = open
      BY <1>2, <2>2 DEF Script
    <3>2. p \notin inWindow /\ \A q \in inWindow' : pc'[q] = "reply"
      BY <3>1 DEF Goto, WindowInv, TypeOK
    <3>3. counter' > 0 <=> ttl' > 0
      BY <3>1 DEF Expiry, WindowInv, TypeOK
    <3>4. p \notin Allowed
      BY <3>2 DEF Allowed
    <3>5. IsFiniteSet(Allowed) /\ Cardinality(Allowed) \in Nat
      BY AllowedFinite
    <3>6. CASE counter' <= Max
      <4>1. Allowed' = Allowed \cup {p}
        BY <3>1, <3>2, <3>6 DEF Allowed, OverLimit, TypeOK
      <4>2. Cardinality(Allowed') = Cardinality(Allowed) + 1
        BY <4>1, <3>4, <3>5, FS_AddElement
      <4>3. counter' = counter + 1
        BY <3>1, <3>6 DEF TypeOK
      <4>4. QED
        BY <3>1, <3>2, <3>3, <3>5, <3>6, <4>2, <4>3 DEF WindowInv, TypeOK
    <3>7. CASE counter' > Max
      <4>1. Allowed' = Allowed
        BY <3>1, <3>2, <3>7 DEF Allowed, OverLimit, TypeOK
      <4>2. counter' >= counter
        BY <3>1 DEF TypeOK
      <4>3. QED
        BY <3>1, <3>2, <3>3, <3>5, <4>1, <4>2 DEF WindowInv, TypeOK
    <3>8. QED
      BY <3>6, <3>7 DEF TypeOK
  <2>3. QED
    BY <2>1, <2>2
<1>3. ASSUME NEW p \in Procs, Reply(p) PROVE WindowInv'
  <2>1. \A q \in inWindow \ {p} : pc'[q] = "reply"
    BY <1>3 DEF Reply, Goto, WindowInv, TypeOK
  <2>2. passed' = passed \/ (p \in Allowed /\ passed' = passed + 1)
    BY <1>3 DEF Reply, Allowed
  <2>3. open' = open
    BY <1>3 DEF Reply
  <2>4. QED
    BY <1>3, <2>1, <2>2, <2>3, Leaves DEF Reply
<1>4. ASSUME NEW p \in Procs, NEW outcome, Fail(p, outcome) PROVE WindowInv'
  <2>1. \A q \in inWindow \ {p} : pc'[q] = "reply"
    BY <1>4 DEF Fail, Goto, WindowInv, TypeOK
  <2>2. \/ UNCHANGED <<passed, open>>
        \/ passed' = passed + 1 /\ open' = open + 1
    BY <1>4 DEF Fail, PassOpen
  <2>3. QED
    BY <1>4, <2>1, <2>2, Leaves DEF Fail
<1>5. CASE GoDown \/ ComeUp \/ OpenTimeout \/ UNCHANGED vars
  <2>1. UNCHANGED window /\ pc' = pc
    BY <1>5 DEF GoDown, ComeUp, OpenTimeout, vars
  <2>2. QED
    BY <2>1, WindowUntouched DEF WindowInv
<1>6. CASE Tick
  <2>1. CASE ttl' > 0
    <3>1. UNCHANGED <<counter, inWindow, passed, open, count, pc>> /\ ttl > 0
      BY <1>6, <2>1 DEF Tick
    <3>2. Allowed' = Allowed
      BY <3>1 DEF Allowed, OverLimit
    <3>3. QED
      BY <2>1, <3>1, <3>2 DEF WindowInv
  <2>2. CASE ~(ttl' > 0)
    <3>1. counter' = 0 /\ inWindow' = {} /\ passed' = 0 /\ open' = 0
      BY <1>6, <2>2 DEF Tick
    <3>2. Cardinality(Allowed') = 0
      BY <3>1, FS_EmptySet DEF Allowed
    <3>3. QED
      BY <2>2, <3>1, <3>2 DEF WindowInv, TypeOK
  <2>3. QED
    BY <2>1, <2>2
<1>7. QED
  BY <1>1, <1>2, <1>3, <1>4, <1>5, <1>6 DEF Next, Step, FailOpen, Cancel

\* The invariant of the limiter's window: the hits of a window that were
\* handed out, whether their replies have arrived or not, are at most the
\* counter and at most Max, but for those that failed open, and the counter
\* always has an expiry.
THEOREM WindowInvariance == Spec => []WindowInv
<1>1. Init => WindowInv
  <2> SUFFICES ASSUME Init PROVE WindowInv
    OBVIOUS
  <2>1. TypeOK
    BY DEF Init, Enter, TypeOK, Labels
  <2>2. Cardinality(Allowed) = 0
    BY FS_EmptySet DEF Init, Allowed
  <2>3. QED
    BY <2>1, <2>2 DEF Init, WindowInv
<1>2. QED
  BY <1>1, WindowStep, PTL DEF Spec

\* The fixed window's limit holds for any limit and any number of concurrent
\* requests: only a reply that is lost or not waited for lets one more pass.
THEOREM LimitTheorem == Spec => []LimitHolds
<1>1. WindowInv => LimitHolds
  BY AllowedFinite DEF WindowInv, LimitHolds, TypeOK
<1>2. QED
  BY <1>1, WindowInvariance, PTL

-----------------------------------------------------------------------------
(* The breaker.                                                            *)

\* Only finitely many calls are in flight.
LEMMA CurrentFinite ==
    ASSUME TypeOK
    PROVE  IsFiniteSet(current) /\ Cardinality(current) \in Nat
<1>1. IsFiniteSet({"command", "handshake"})
  <2>1. IsFiniteSet({"command"} \cup {"handshake"})
    BY FS_AddElement, FS_Singleton
  <2>2. {"command"} \cup {"handshake"} = {"command", "handshake"}
    OBVIOUS
  <2> QED
    BY <2>1, <2>2
<1>2. IsFiniteSet(Procs \X {"command", "handshake"})
  BY <1>1, FS_Product
<1>3. IsFiniteSet(current)
  BY <1>2, FS_Subset DEF TypeOK
<1> QED
  BY <1>3, FS_CardinalityType

\* The types of the breaker, for the steps below.
LEMMA BreakerForm ==
    ASSUME TypeOK
    PROVE  /\ cb = [state |-> cb.state, requests |-> cb.requests,
                    successes |-> cb.successes, failures |-> cb.failures]
           /\ cb.state \in {"closed", "open", "half-open"}
           /\ cb.requests \in Nat /\ cb.successes \in Nat /\ cb.failures \in Nat
  BY DEF TypeOK

\* A call in flight is one of its request, which is where the call is made.
Placed == \A p \in Procs : /\ <<p, "command">> \in current => pc[p] # "idle"
                           /\ <<p, "handshake">> \in current
                                => pc[p] \in {"hello", "setinfo_reply"}

\* A half-open breaker has given each slot to a call in flight or had a
\* success for it.
Slots ==
    /\ cb.state = "open" => current = {}
    /\ cb.state = "half-open" =>
          /\ cb.requests = cb.successes + Cardinality(current)
          /\ cb.successes < MaxRequests /\ cb.requests <= MaxRequests

\* The invariant in its two parts.
LEMMA BreakerParts == BreakerInv <=> TypeOK /\ Placed /\ Slots
<1> SUFFICES ASSUME TypeOK
             PROVE  InFlight = current <=> Placed
  BY DEF BreakerInv, Slots
<1>1. \A c \in current : c = <<c[1], c[2]>> /\ c[1] \in Procs
                         /\ c[2] \in {"command", "handshake"}
  BY DEF TypeOK
<1>2. ASSUME InFlight = current PROVE Placed
  BY <1>1, <1>2 DEF InFlight, Placed
<1>3. ASSUME Placed PROVE InFlight = current
  BY <1>1, <1>3 DEF InFlight, Placed
<1> QED
  BY <1>2, <1>3

\* A call is let through: it takes a slot.
LEMMA AdmitSlots ==
    ASSUME TypeOK, Slots, NEW p \in Procs, NEW k \in {"command", "handshake"},
           <<p, k>> \notin current, Admit(p, k)
    PROVE  Slots'
<1>1. Cardinality(current') = Cardinality(current) + 1 /\ Cardinality(current) \in Nat
  BY CurrentFinite, FS_AddElement DEF Admit
<1>2. cb.state # "open" /\ cb'.state = cb.state
  BY BreakerForm DEF Admit, Refuses
<1>3. CASE cb.state = "half-open"
  <2>1. /\ cb'.requests = cb.requests + 1 /\ cb'.successes = cb.successes
        /\ cb.requests < MaxRequests
    BY <1>3, BreakerForm DEF Admit, Refuses, MaxRequests, TypeOK
  <2> QED
    BY <1>1, <1>2, <1>3, <2>1, BreakerForm DEF Slots, MaxRequests
<1> QED
  BY <1>2, <1>3 DEF Slots

\* A call returns: its slot becomes a success, or the breaker changes its
\* state and forgets all calls.
LEMMA VerdictSlots ==
    ASSUME TypeOK, Slots, NEW p \in Procs, NEW k \in {"command", "handshake"},
           NEW outcome, Verdict(p, k, outcome)
    PROVE  Slots'
<1> DEFINE c == <<p, k>>
<1>1. /\ current' = IF cb'.state # cb.state THEN {} ELSE current \ {c}
      /\ cb' = IF c \notin current THEN cb ELSE IF IsHealthy(outcome) THEN Success ELSE Failure
  BY DEF Verdict
<1>2. CASE c \notin current
  <2>1. cb' = cb /\ current' = current
    BY <1>1, <1>2
  <2> QED
    BY <2>1 DEF Slots
<1>3. CASE c \in current
  <2>1. cb.state # "open" /\ cb.state \in {"closed", "half-open"}
    BY <1>3, BreakerForm DEF Slots
  <2>2. IsFiniteSet(current) /\ Cardinality(current) \in Nat
    BY CurrentFinite
  <2>3. Cardinality(current \ {c}) = Cardinality(current) - 1
    BY <1>3, <2>2, FS_RemoveElement
  <2>4. CASE cb' = Enter("open") \/ cb' = Enter("closed")
    <3>1. cb'.state # "half-open" /\ (cb'.state = "open" => current' = {})
      BY <1>1, <2>1, <2>4 DEF Enter
    <3> QED
      BY <3>1 DEF Slots
  <2>5. CASE cb.state = "closed" /\ cb'.state = "closed"
    BY <2>5 DEF Slots
  <2>6. CASE /\ cb.state = "half-open" /\ cb' = [cb EXCEPT !.successes = @ + 1]
             /\ cb.successes + 1 < MaxRequests
    <3>1. /\ cb'.state = "half-open" /\ cb'.requests = cb.requests
          /\ cb'.successes = cb.successes + 1
      BY <2>6 DEF TypeOK
    <3>2. current' = current \ {c}
      BY <1>1, <2>6, <3>1
    <3> QED
      BY <2>2, <2>3, <2>6, <3>1, <3>2, BreakerForm DEF Slots, MaxRequests
  <2>7. \/ cb' = Enter("open") \/ cb' = Enter("closed")
        \/ cb.state = "closed" /\ cb'.state = "closed"
        \/ /\ cb.state = "half-open" /\ cb' = [cb EXCEPT !.successes = @ + 1]
           /\ cb.successes + 1 < MaxRequests
    <3>1. CASE IsHealthy(outcome)
      BY <1>1, <1>3, <2>1, <3>1, BreakerForm DEF Success, TypeOK, MaxRequests
    <3>2. CASE ~IsHealthy(outcome)
      BY <1>1, <1>3, <2>1, <3>2, BreakerForm DEF Failure, TypeOK
    <3> QED
      BY <3>1, <3>2
  <2> QED
    BY <2>4, <2>5, <2>6, <2>7
<1> QED
  BY <1>2, <1>3

\* A request takes a step of its own: its calls are where it is, and those of
\* the others stay where they were.
LEMMA StepPlaced ==
    ASSUME TypeOK, Placed, NEW p \in Procs, NEW at \in Labels, Goto(p, at),
           \A q \in Procs \ {p}, k \in {"command", "handshake"} :
               <<q, k>> \in current' => <<q, k>> \in current,
           <<p, "command">> \in current' => at # "idle",
           <<p, "handshake">> \in current' => at \in {"hello", "setinfo_reply"}
    PROVE  Placed'
  BY DEF Placed, Goto, TypeOK

\* What the calls of the breaker do to those in flight.
LEMMA CallsInFlight ==
    ASSUME NEW p \in Procs, NEW k \in {"command", "handshake"}
    PROVE  /\ Admit(p, k) => current' = current \cup {<<p, k>>}
           /\ \A o : Verdict(p, k, o) => current' \subseteq current \ {<<p, k>>}
  BY DEF Admit, Verdict

\* Every step keeps the breaker's invariant.
LEMMA BreakerStep == BreakerInv /\ [Next]_vars => BreakerInv'
<1> SUFFICES ASSUME TypeOK, Placed, Slots, [Next]_vars
             PROVE  Placed' /\ Slots'
  <2>1. BreakerInv' <=> TypeOK' /\ Placed' /\ Slots'
    BY BreakerParts, PTL
  <2> QED
    BY <2>1, BreakerParts, TypeStep
<1>1. ASSUME NEW p \in Procs, Request(p)
      PROVE  Placed' /\ Slots'
  <2>1. /\ pc[p] = "idle" /\ Admit(p, "command")
        /\ \E at \in {"script", "dial"} : Goto(p, at)
    BY <1>1 DEF Request
  <2>2. <<p, "command">> \notin current /\ <<p, "handshake">> \notin current
    BY <2>1 DEF Placed
  <2>3. Placed'
    BY <2>1, <2>2, CallsInFlight, StepPlaced DEF Labels
  <2> QED
    BY <2>1, <2>2, <2>3, AdmitSlots
<1>2. ASSUME NEW p \in Procs, Dial(p) \/ SetInfo(p)
      PROVE  Placed' /\ Slots'
  <2>1. pc[p] \in {"dial", "setinfo"} /\ <<p, "handshake">> \notin current
    BY <1>2 DEF Dial, SetInfo, Placed
  <2>2. CASE Admit(p, "handshake") /\ \E at \in {"hello", "setinfo_reply"} : Goto(p, at)
    <3>1. Placed'
      BY <2>2, CallsInFlight, StepPlaced DEF Labels
    <3> QED
      BY <2>1, <2>2, <3>1, AdmitSlots
  <2>3. CASE UNCHANGED breaker /\ \E at \in {"failed", "script"} : Goto(p, at)
    <3>1. cb' = cb /\ current' = current
      BY <2>3 DEF breaker
    <3>2. Placed'
      BY <2>1, <2>3, <3>1, StepPlaced DEF Labels
    <3> QED
      BY <3>1, <3>2 DEF Slots
  <2> QED
    BY <1>2, <2>2, <2>3 DEF Dial, SetInfo
<1>3. ASSUME NEW p \in Procs, Hello(p) \/ SetInfoReply(p)
      PROVE  Placed' /\ Slots'
  <2>1. /\ \E o : Verdict(p, "handshake", o)
        /\ \E at \in {"setinfo", "failed", "script"} : Goto(p, at)
    BY <1>3 DEF Hello, SetInfoReply
  <2>2. current' \subseteq current \ {<<p, "handshake">>}
    BY <2>1, CallsInFlight
  <2>3. Placed'
    BY <2>1, <2>2, StepPlaced DEF Labels
  <2> QED
    BY <2>1, <2>3, VerdictSlots
<1>4. ASSUME NEW p \in Procs, Script(p)
      PROVE  Placed' /\ Slots'
  <2>1. /\ cb' = cb /\ current' = current /\ pc[p] = "script"
        /\ \E at \in {"reply", "failed"} : Goto(p, at)
    BY <1>4 DEF Script, breaker
  <2>2. Placed'
    <3>1. <<p, "handshake">> \notin current
      BY <2>1 DEF Placed
    <3> QED
      BY <2>1, <3>1, StepPlaced DEF Labels
  <2> QED
    BY <2>1, <2>2 DEF Slots
<1>5. ASSUME NEW p \in Procs, Reply(p) \/ FailOpen(p) \/ Cancel(p)
      PROVE  Placed' /\ Slots'
  <2>1. /\ \E o : Verdict(p, "command", o)
        /\ Goto(p, "idle") /\ pc[p] \in {"failed", "reply", "dial", "script"}
    BY <1>5 DEF Reply, FailOpen, Cancel, Fail
  <2>2. current' \subseteq current \ {<<p, "command">>}
    BY <2>1, CallsInFlight
  <2>3. <<p, "handshake">> \notin current
    BY <2>1 DEF Placed
  <2>4. Placed'
    BY <2>1, <2>2, <2>3, StepPlaced DEF Labels
  <2> QED
    BY <2>1, <2>4, VerdictSlots
<1>6. CASE OpenTimeout
  <2>1. /\ current' = current /\ current = {} /\ pc' = pc
        /\ cb' = [state |-> "half-open", requests |-> 0, successes |-> 0, failures |-> 0]
    BY <1>6 DEF OpenTimeout, Enter, Slots
  <2>2. Cardinality(current') = 0
    BY <2>1, FS_EmptySet
  <2> QED
    BY <2>1, <2>2 DEF Slots, Placed, MaxRequests
<1>7. CASE GoDown \/ ComeUp \/ Tick \/ UNCHANGED vars
  <2>1. cb' = cb /\ current' = current /\ pc' = pc
    BY <1>7 DEF GoDown, ComeUp, Tick, vars, breaker
  <2> QED
    BY <2>1 DEF Slots, Placed
<1> QED
  BY <1>1, <1>2, <1>3, <1>4, <1>5, <1>6, <1>7 DEF Next, Step

\* A slot of the half-open breaker is never leaked, for any threshold and any
\* number of requests that fail, are cancelled or return too late.
THEOREM BreakerInvariance == Spec => []BreakerInv
<1>1. Init => BreakerInv
  <2> SUFFICES ASSUME Init PROVE TypeOK /\ Placed /\ Slots
    BY BreakerParts
  <2>1. TypeOK
    BY DEF Init, Enter, TypeOK, Labels
  <2> QED
    BY <2>1 DEF Init, Enter, Placed, Slots
<1> QED
  BY <1>1, BreakerStep, PTL DEF Spec

\* A half-open breaker probes within its limit, and never turns commands away
\* without a probe in flight that will decide.
THEOREM ProbesDecide == Spec => []Probing
<1>1. BreakerInv => Probing
  <2> SUFFICES ASSUME BreakerInv, cb.state = "half-open"
               PROVE  /\ Cardinality(InFlight) + cb.successes <= MaxRequests
                      /\ Refuses => InFlight # {}
    BY DEF Probing
  <2>1. /\ InFlight = current /\ cb.requests = cb.successes + Cardinality(current)
        /\ cb.successes < MaxRequests /\ cb.requests <= MaxRequests
        /\ cb.successes \in Nat /\ Cardinality(current) \in Nat /\ cb.requests \in Nat
    BY CurrentFinite, BreakerForm DEF BreakerInv
  <2>2. Refuses => Cardinality(current) # 0
    BY <2>1 DEF Refuses, MaxRequests
  <2>3. Refuses => InFlight # {}
    BY <2>1, <2>2, FS_EmptySet
  <2>4. Cardinality(InFlight) + cb.successes <= MaxRequests
    BY <2>1 DEF MaxRequests
  <2> QED
    BY <2>3, <2>4
<1> QED
  BY <1>1, BreakerInvariance, PTL

=============================================================================
