--------------------------- MODULE SessionsProofs ---------------------------
(***************************************************************************)
(* The guarantees of Sessions for any number of users, browsers, tokens    *)
(* and concurrent requests, and that Sessions implements Session.          *)
(***************************************************************************)
EXTENDS Sessions, TLAPS

\* The request that stands for "no request" is well typed.
LEMMA NoRequestType == NoRequest \in Requests
  BY DEF NoRequest, Requests

\* No keys, no cookies: the invariant holds.
LEMMA InitSession ==
    ASSUME Init
    PROVE  SessionInv
<1>1. TypeOK
  BY NoRequestType DEF Init, TypeOK
<1>2. Generated
  BY DEF Init, Generated, NoRequest
<1>3. PendingUnknown
  BY DEF Init, PendingUnknown, Pending
<1>4. Consumed
  BY DEF Init, Consumed
<1>5. Spent
  BY DEF Init, Spent
<1>6. SingleUse /\ OneTokenPerLogin
  BY DEF Init, SingleUse, OneTokenPerLogin
<1> QED
  BY <1>1, <1>2, <1>3, <1>4, <1>5, <1>6 DEF SessionInv

-----------------------------------------------------------------------------
(* Requests that arrive.                                                   *)

\* A request that presents a cookie of its browser, or none, and has
\* generated nothing keeps the invariant.
LEMMA ReceiveSession ==
    ASSUME SessionInv, NEW p \in Procs, NEW r \in Requests,
           NEW at \in {"issue", "get", "blacklist"}, Receive(p, r, at),
           r.old = NoToken \/ \E b \in Browsers : r.old = cookie[b],
           r.new = NoToken,
           at = "issue" => r.op = "login",
           at = "get" => r.old # NoToken,
           at = "blacklist" => r.op = "logout"
    PROVE  SessionInv'
<1>1. /\ pc' = [pc EXCEPT ![p] = at] /\ req' = [req EXCEPT ![p] = r]
      /\ UNCHANGED <<store, revoked, expired, login, exchanged, loggedOut, cookie, bearer>>
  BY DEF Receive, redis, history, client
<1>2. TypeOK'
  BY <1>1 DEF SessionInv, TypeOK
<1>3. pc \in [Procs -> {"idle", "issue", "save", "get", "generate", "rotate",
                        "blacklist", "delete", "reply"}] /\ req \in [Procs -> Requests]
  BY DEF SessionInv, TypeOK
<1>4. Generated'
  BY <1>1, <1>3 DEF SessionInv, Generated
<1>5. PendingUnknown'
  BY <1>1, <1>3 DEF SessionInv, PendingUnknown, Pending
<1>6. Consumed'
  BY <1>1, <1>3 DEF SessionInv, Consumed
<1>7. Spent'
  BY <1>1, <1>3 DEF SessionInv, Spent
<1>8. SingleUse' /\ OneTokenPerLogin'
  BY <1>1 DEF SessionInv, SingleUse, OneTokenPerLogin
<1> QED
  BY <1>2, <1>4, <1>5, <1>6, <1>7, <1>8 DEF SessionInv

\* Login, Refresh and Logout arrive.
LEMMA RequestSession ==
    ASSUME SessionInv, NEW p \in Procs,
           Login(p) \/ RequestRefresh(p) \/ RequestLogout(p)
    PROVE  SessionInv'
<1>1. cookie \in [Browsers -> Tokens \cup {NoToken}]
      /\ bearer \in [Browsers -> Tokens \cup {NoToken}]
  BY DEF SessionInv, TypeOK
<1>2. CASE Login(p)
  <2>1. PICK b \in Browsers, u \in Users :
          Receive(p, [NoRequest EXCEPT !.op = "login", !.browser = b, !.user = u], "issue")
    BY <1>2 DEF Login
  <2> DEFINE r == [NoRequest EXCEPT !.op = "login", !.browser = b, !.user = u]
  <2>2. r \in Requests /\ r.old = NoToken /\ r.new = NoToken /\ r.op = "login"
    BY DEF Requests, NoRequest
  <2> QED
    BY <2>1, <2>2, ReceiveSession
<1>3. CASE RequestRefresh(p)
  <2>1. PICK b \in Browsers :
          /\ cookie[b] # NoToken
          /\ Receive(p, [NoRequest EXCEPT !.op = "refresh", !.browser = b,
                                          !.old = cookie[b]], "get")
    BY <1>3 DEF RequestRefresh
  <2> DEFINE r == [NoRequest EXCEPT !.op = "refresh", !.browser = b, !.old = cookie[b]]
  <2>2. r \in Requests /\ r.old = cookie[b] /\ r.new = NoToken
    BY <1>1 DEF Requests, NoRequest
  <2> QED
    BY <2>1, <2>2, ReceiveSession
<1>4. CASE RequestLogout(p)
  <2>1. PICK b \in Browsers :
          Receive(p, [NoRequest EXCEPT !.op = "logout", !.browser = b,
                                       !.old = cookie[b], !.token = bearer[b]],
                  "blacklist")
    BY <1>4 DEF RequestLogout
  <2> DEFINE r == [NoRequest EXCEPT !.op = "logout", !.browser = b,
                                    !.old = cookie[b], !.token = bearer[b]]
  <2>2. r \in Requests /\ r.old = cookie[b] /\ r.new = NoToken /\ r.op = "logout"
    BY <1>1 DEF Requests, NoRequest
  <2> QED
    BY <2>1, <2>2, ReceiveSession
<1> QED
  BY <1>2, <1>3, <1>4

-----------------------------------------------------------------------------
(* Steps of a request.                                                     *)

\* The types that every step needs.
LEMMA StepTypes ==
    ASSUME SessionInv
    PROVE  /\ pc \in [Procs -> {"idle", "issue", "save", "get", "generate", "rotate",
                             "blacklist", "delete", "reply"}]
           /\ req \in [Procs -> Requests]
           /\ store \in [Tokens -> Users \cup {NoUser}]
           /\ login \in [Tokens -> Tokens \cup {NoToken}]
           /\ exchanged \in [Tokens -> Nat]
           /\ cookie \in [Browsers -> Tokens \cup {NoToken}]
           /\ bearer \in [Browsers -> Tokens \cup {NoToken}]
           /\ loggedOut \in [refresh : SUBSET Tokens, access : SUBSET Tokens]
           /\ revoked \in SUBSET Tokens /\ expired \in SUBSET Tokens
           /\ \A p \in Procs : /\ req[p].old \in Tokens \cup {NoToken}
                               /\ req[p].new \in Tokens \cup {NoToken}
                               /\ req[p].token \in Tokens \cup {NoToken}
                               /\ req[p].user \in Users \cup {NoUser}
                               /\ req[p].browser \in Browsers \cup {NoBrowser}
  BY DEF SessionInv, TypeOK, Requests

\* A request goes on, or answers, without a change of what it presented and
\* generated; the keys that change are its own token's and the blacklist.
LEMMA GoOnSession ==
    ASSUME SessionInv, NEW p \in Procs, NEW r \in Requests,
           NEW at \in {"generate", "delete", "reply"}, Goto(p, r, at),
           r.old = req[p].old, r.new = req[p].new, r.token = req[p].token,
           r.op = req[p].op,
           at = "generate" => pc[p] = "get",
           at = "delete" => /\ pc[p] = "blacklist"
                            /\ r.token \in revoked' \cup expired \cup {NoToken},
           at = "reply" /\ r.op \in {"login", "refresh"} /\ r.answer = "ok"
              => r.new # NoToken,
           revoked \subseteq revoked', revoked' \in SUBSET Tokens,
           store' = store \/ (req[p].old # NoToken /\
                               store' = [store EXCEPT ![req[p].old] = NoUser]),
           UNCHANGED <<expired, login, exchanged, loggedOut>>
    PROVE  SessionInv'
<1>1. /\ pc' = [pc EXCEPT ![p] = at] /\ req' = [req EXCEPT ![p] = r]
      /\ UNCHANGED <<cookie, bearer>>
  BY DEF Goto, client
<1>2. \A t \in Tokens : store'[t] \in {store[t], NoUser}
  BY StepTypes
<1>3. TypeOK'
  BY <1>1, StepTypes DEF SessionInv, TypeOK
<1>4. Generated'
  BY <1>1, StepTypes DEF SessionInv, Generated
<1>5. PendingUnknown'
  BY <1>1, <1>2, StepTypes DEF SessionInv, PendingUnknown, Pending
<1>6. Consumed'
  BY <1>1, <1>2, StepTypes DEF SessionInv, Consumed, Generated
<1>7. Spent'
  BY <1>1, <1>2, StepTypes DEF SessionInv, Spent
<1>8. SingleUse' /\ OneTokenPerLogin'
  BY <1>1, <1>2, StepTypes DEF SessionInv, SingleUse, OneTokenPerLogin
<1> QED
  BY <1>3, <1>4, <1>5, <1>6, <1>7, <1>8 DEF SessionInv

\* A request that fails: its answer is anything but "ok".
LEMMA RefusedSession ==
    ASSUME SessionInv, NEW p \in Procs,
           NEW a \in {"denied", "unavailable", "error"}, Answer(p, a),
           revoked \subseteq revoked', revoked' \in SUBSET Tokens,
           store' = store \/ (req[p].old # NoToken /\
                               store' = [store EXCEPT ![req[p].old] = NoUser]),
           UNCHANGED <<expired, login, exchanged, loggedOut>>
    PROVE  SessionInv'
<1> DEFINE r == [req[p] EXCEPT !.answer = a]
<1>1. r \in Requests /\ r.old = req[p].old /\ r.new = req[p].new
      /\ r.token = req[p].token /\ r.op = req[p].op /\ r.answer = a
  BY StepTypes DEF Requests
<1>2. Goto(p, r, "reply")
  BY DEF Answer
<1> HIDE DEF r
<1> QED
  BY <1>1, <1>2, GoOnSession

\* GetRefreshToken.
LEMMA GetSession ==
    ASSUME SessionInv, NEW p \in Procs, GetToken(p)
    PROVE  SessionInv'
<1>1. /\ pc[p] = "get"
      /\ UNCHANGED <<store, revoked, expired, login, exchanged, loggedOut>>
  BY DEF GetToken, redis, history
<1>2. CASE Answer(p, "denied") \/ Answer(p, "unavailable")
  BY <1>1, <1>2, StepTypes, RefusedSession
<1>3. CASE Goto(p, [req[p] EXCEPT !.user = store[req[p].old]], "generate")
  <2> DEFINE r == [req[p] EXCEPT !.user = store[req[p].old]]
  <2>1. req[p].old \in Tokens
    BY <1>1, StepTypes DEF SessionInv, Generated
  <2>2. r \in Requests /\ r.old = req[p].old /\ r.new = req[p].new
        /\ r.token = req[p].token /\ r.op = req[p].op
    BY <2>1, StepTypes DEF Requests
  <2>3. Goto(p, r, "generate")
    BY <1>3
  <2> HIDE DEF r
  <2> QED
    BY <1>1, <2>2, <2>3, StepTypes, GoOnSession
<1> QED
  BY <1>2, <1>3 DEF GetToken

\* BlacklistAccessToken.
LEMMA BlacklistSession ==
    ASSUME SessionInv, NEW p \in Procs, Blacklist(p)
    PROVE  SessionInv'
<1>1. /\ pc[p] = "blacklist"
      /\ UNCHANGED <<store, expired, login, exchanged, loggedOut>>
  BY DEF Blacklist, history
<1>2. /\ revoked \subseteq revoked' /\ revoked' \in SUBSET Tokens
      /\ \/ Answer(p, "unavailable")
         \/ /\ Goto(p, req[p], "delete")
            /\ req[p].token \in revoked' \cup expired \cup {NoToken}
  BY StepTypes DEF Blacklist
<1>3. CASE Answer(p, "unavailable")
  BY <1>1, <1>2, <1>3, RefusedSession
<1>4. CASE /\ Goto(p, req[p], "delete")
           /\ req[p].token \in revoked' \cup expired \cup {NoToken}
  BY <1>1, <1>2, <1>4, StepTypes, GoOnSession
<1> QED
  BY <1>2, <1>3, <1>4

\* DeleteRefreshToken: from here on Logout has answered 204.
LEMMA DeleteSession ==
    ASSUME SessionInv, NEW p \in Procs, DeleteToken(p)
    PROVE  SessionInv'
<1> DEFINE t == req[p].old
<1>1. /\ pc[p] = "delete"
      /\ UNCHANGED <<revoked, expired, login, exchanged>>
  BY DEF DeleteToken
<1>2. CASE t # NoToken /\ store' \in {store, [store EXCEPT ![t] = NoUser]}
           /\ Answer(p, "unavailable") /\ UNCHANGED loggedOut
  BY <1>1, <1>2, StepTypes, RefusedSession
<1>3. CASE /\ store' = IF t = NoToken THEN store ELSE [store EXCEPT ![t] = NoUser]
           /\ loggedOut' = [refresh |-> loggedOut.refresh \cup ({t} \ {NoToken}),
                            access  |-> loggedOut.access \cup ({req[p].token} \ {NoToken})]
           /\ Answer(p, "ok")
  <2> DEFINE r == [req[p] EXCEPT !.answer = "ok"]
  <2>1. /\ pc' = [pc EXCEPT ![p] = "reply"]
        /\ req' = [req EXCEPT ![p] = r]
        /\ UNCHANGED <<cookie, bearer>>
    BY <1>3 DEF Answer, Goto, client
  <2>2. \A s \in Tokens : store'[s] \in {store[s], NoUser} /\ (s = t => store'[s] = NoUser)
    BY <1>3, StepTypes, SessionAssumption
  <2>r. r \in Requests /\ r.old = req[p].old /\ r.new = req[p].new
        /\ r.token = req[p].token /\ r.op = req[p].op
    BY StepTypes DEF Requests
  <2> HIDE DEF r
  <2>l. loggedOut' \in [refresh : SUBSET Tokens, access : SUBSET Tokens]
    BY <1>3, StepTypes
  <2>s. store' \in [Tokens -> Users \cup {NoUser}]
    BY <1>3, StepTypes
  <2>3. TypeOK'
    BY <1>1, <2>1, <2>r, <2>l, <2>s, StepTypes DEF TypeOK
  <2>4. \A q \in Procs : /\ req'[q].old = req[q].old /\ req'[q].new = req[q].new
                         /\ req'[q].op = req[q].op /\ req'[q].token = req[q].token
                         /\ q # p => req'[q] = req[q] /\ pc'[q] = pc[q]
    BY <2>1, <2>r, StepTypes
  <2>5. pc'[p] = "reply"
    BY <2>1, StepTypes
  <2>6. Generated'
    <3>1. req[p].op = "logout"
      BY <1>1 DEF SessionInv, Generated
    <3> QED
      BY <1>1, <1>3, <2>1, <2>4, <2>5, <3>1, StepTypes DEF SessionInv, Generated
  <2>7. PendingUnknown'
    BY <1>1, <1>3, <2>1, <2>2, <2>4, <2>5, StepTypes DEF SessionInv, PendingUnknown, Pending
  <2>8. Consumed'
    BY <1>1, <2>2, <2>4, <2>5, StepTypes DEF SessionInv, Consumed, Generated
  <2>9. Spent'
    BY <1>1, <1>3, <2>2, <2>4, <2>5, StepTypes DEF SessionInv, Spent
  <2>10. SingleUse' /\ OneTokenPerLogin'
    BY <1>1, <2>2, StepTypes DEF SessionInv, SingleUse, OneTokenPerLogin
  <2> QED
    BY <2>3, <2>6, <2>7, <2>8, <2>9, <2>10 DEF SessionInv
<1> QED
  BY <1>2, <1>3 DEF DeleteToken

\* GETDEL of the old token.  Whoever finds it goes on alone.
LEMMA RotateSession ==
    ASSUME SessionInv, NEW p \in Procs, Rotate(p)
    PROVE  SessionInv'
<1> DEFINE t == req[p].old
<1>1. /\ pc[p] = "rotate" /\ t \in Tokens
      /\ UNCHANGED <<revoked, expired, login, exchanged, loggedOut>>
  BY StepTypes DEF Rotate, history, SessionInv, Generated
<1>2. req[p] \in Requests /\ req[p].old = t
  BY StepTypes
<1>3. \/ Answer(p, "denied") /\ store' = store
      \/ Answer(p, "unavailable") /\ store' = store
      \/ /\ store' = [store EXCEPT ![t] = NoUser]
         /\ \E a \in {"denied", "unavailable"} :
               Goto(p, [req[p] EXCEPT !.answer = a], "reply")
      \/ /\ store[t] # NoUser /\ store' = [store EXCEPT ![t] = NoUser]
         /\ Goto(p, req[p], "save")
  BY DEF Rotate, Answer
<1>4. CASE (Answer(p, "denied") \/ Answer(p, "unavailable")) /\ store' = store
  BY <1>1, <1>4, StepTypes, RefusedSession
<1>5. CASE /\ store' = [store EXCEPT ![t] = NoUser]
           /\ \E a \in {"denied", "unavailable"} :
                 Goto(p, [req[p] EXCEPT !.answer = a], "reply")
  <2>1. PICK a \in {"denied", "unavailable"} : Goto(p, [req[p] EXCEPT !.answer = a], "reply")
    BY <1>5
  <2> DEFINE r == [req[p] EXCEPT !.answer = a]
  <2>2. r \in Requests /\ r.old = t /\ r.new = req[p].new
        /\ r.token = req[p].token /\ r.op = req[p].op /\ r.answer = a
    BY <1>2 DEF Requests
  <2>3. Goto(p, r, "reply")
    BY <2>1
  <2> HIDE DEF r
  <2> QED
    BY <1>1, <1>5, <2>2, <2>3, StepTypes, SessionAssumption, GoOnSession
<1>6. CASE /\ store[t] # NoUser /\ store' = [store EXCEPT ![t] = NoUser]
           /\ Goto(p, req[p], "save")
  <2>1. /\ pc' = [pc EXCEPT ![p] = "save"] /\ req' = [req EXCEPT ![p] = req[p]]
        /\ UNCHANGED <<cookie, bearer>>
    BY <1>6 DEF Goto, client
  <2>2. \A s \in Tokens : /\ store'[s] \in {store[s], NoUser}
                          /\ store'[s] # NoUser => s # t
    BY <1>6, StepTypes
  <2>3. \A q \in Procs : /\ req'[q].old = req[q].old /\ req'[q].new = req[q].new
                         /\ req'[q].op = req[q].op /\ req'[q].token = req[q].token
                         /\ q # p => req'[q] = req[q] /\ pc'[q] = pc[q]
    BY <1>2, <2>1, StepTypes
  <2>4. pc'[p] = "save"
    BY <2>1, StepTypes
  <2>5. TypeOK'
    BY <1>1, <1>2, <1>6, <2>1, StepTypes DEF TypeOK
  <2>6. Generated'
    BY <1>1, <2>1, <2>3, <2>4, StepTypes, SessionAssumption DEF SessionInv, Generated
  <2>7. PendingUnknown'
    BY <1>1, <2>1, <2>2, <2>3, <2>4, StepTypes DEF SessionInv, PendingUnknown, Pending
  <2>8. Consumed'
    <3>1. login[req[p].new] = login[t] /\ exchanged[t] = 0
      BY <1>1, <1>6 DEF SessionInv, Spent
    <3>2. \A s \in Tokens : store'[s] # NoUser => login[s] # login[t]
      BY <1>1, <1>6, <2>2 DEF SessionInv, OneTokenPerLogin
    <3>3. \A q \in Procs : pc[q] = "save" => login[req[q].new] # login[t]
      BY <1>1, <1>6 DEF SessionInv, Consumed
    <3>4. store'[t] = NoUser
      BY <1>1, <1>6, StepTypes
    <3> QED
      BY <1>1, <2>2, <2>3, <2>4, <3>1, <3>2, <3>3, <3>4, StepTypes
      DEF SessionInv, Consumed, Generated
  <2>9. Spent'
    BY <1>1, <2>2, <2>3, <2>4, StepTypes DEF SessionInv, Spent
  <2>10. SingleUse' /\ OneTokenPerLogin'
    BY <1>1, <2>2, StepTypes DEF SessionInv, SingleUse, OneTokenPerLogin
  <2> QED
    BY <2>5, <2>6, <2>7, <2>8, <2>9, <2>10 DEF SessionInv
<1> QED
  BY <1>3, <1>4, <1>5, <1>6

\* SetRefreshToken stores a pair nobody knew, for a login that has no other.
LEMMA SaveSession ==
    ASSUME SessionInv, NEW p \in Procs, SaveToken(p)
    PROVE  SessionInv'
<1> DEFINE t == req[p].new
           refresh == req[p].op = "refresh"
<1>1. /\ pc[p] = "save" /\ t \in Tokens
      /\ UNCHANGED <<revoked, expired, login, loggedOut>>
      /\ refresh => req[p].old \in Tokens
  BY StepTypes DEF SaveToken, SessionInv, PendingUnknown, Pending, Generated
<1>2. PICK a \in {"ok", "unavailable"} :
        /\ Answer(p, a)
        /\ store' \in {store, [store EXCEPT ![t] = req[p].user]}
        /\ \/ exchanged' = exchanged
           \/ refresh /\ exchanged' = [exchanged EXCEPT ![req[p].old] = @ + 1]
  BY DEF SaveToken
<1> DEFINE r == [req[p] EXCEPT !.answer = a]
<1>3. r \in Requests /\ r.old = req[p].old /\ r.new = t
      /\ r.token = req[p].token /\ r.op = req[p].op
  BY StepTypes DEF Requests
<1>4. /\ pc' = [pc EXCEPT ![p] = "reply"] /\ req' = [req EXCEPT ![p] = r]
      /\ UNCHANGED <<cookie, bearer>>
  BY <1>2 DEF Answer, Goto, client
<1> HIDE DEF r
<1>5. \A q \in Procs : /\ req'[q].old = req[q].old /\ req'[q].new = req[q].new
                       /\ req'[q].op = req[q].op /\ req'[q].token = req[q].token
                       /\ q # p => req'[q] = req[q] /\ pc'[q] = pc[q]
  BY <1>3, <1>4, StepTypes
<1>6. pc'[p] = "reply"
  BY <1>4, StepTypes
<1>7. \A s \in Tokens : s # t => store'[s] = store[s]
  BY <1>2, StepTypes
<1>8. \A s \in Tokens : \/ exchanged'[s] = exchanged[s]
                        \/ refresh /\ s = req[p].old /\ exchanged'[s] = exchanged[s] + 1
  BY <1>1, <1>2, StepTypes
<1>9. /\ login[t] # NoToken /\ exchanged[t] = 0 /\ t \notin loggedOut.refresh
      /\ \A b \in Browsers : cookie[b] # t
      /\ \A q \in Procs : req[q].old # t /\ (req[q].new = t => q = p)
  BY <1>1 DEF SessionInv, PendingUnknown, Pending
<1>10. refresh => /\ store[req[p].old] = NoUser /\ exchanged[req[p].old] = 0
                  /\ login[t] = login[req[p].old]
  BY <1>1 DEF SessionInv, Consumed
<1>11. /\ \A s \in Tokens : store[s] # NoUser => login[s] # login[t]
       /\ \A q \in Procs : pc[q] = "save" /\ q # p => login[req[q].new] # login[t]
  BY <1>1 DEF SessionInv, Consumed
<1>12. TypeOK'
  <2>1. exchanged' \in [Tokens -> Nat] /\ store' \in [Tokens -> Users \cup {NoUser}]
    BY <1>1, <1>2, StepTypes
  <2> QED
    BY <1>1, <1>3, <1>4, <2>1, StepTypes DEF TypeOK
<1>13. Generated'
  BY <1>1, <1>4, <1>5, <1>6, <1>8, StepTypes, SessionAssumption DEF SessionInv, Generated
<1>14. PendingUnknown'
  BY <1>1, <1>4, <1>5, <1>6, <1>7, <1>8, <1>9, StepTypes
  DEF SessionInv, PendingUnknown, Pending
<1>15. Consumed'
  <2> SUFFICES ASSUME NEW q \in Procs, pc'[q] = "save"
               PROVE  Consumed!(q)'
    BY DEF Consumed
  <2> QED
    BY <1>1, <1>5, <1>6, <1>7, <1>8, <1>9, <1>10, <1>11, StepTypes
    DEF SessionInv, Consumed, Generated
<1>16. Spent'
  BY <1>1, <1>5, <1>6, <1>7, <1>8, <1>9, <1>10, StepTypes DEF SessionInv, Spent
<1>17. SingleUse' /\ OneTokenPerLogin'
  BY <1>1, <1>7, <1>8, <1>10, <1>11, StepTypes DEF SessionInv, SingleUse, OneTokenPerLogin
<1> QED
  BY <1>12, <1>13, <1>14, <1>15, <1>16, <1>17 DEF SessionInv

\* A fresh pair, for a new login or for the one of the token presented.
LEMMA GenerateSession ==
    ASSUME SessionInv, NEW p \in Procs, NEW t \in Tokens, NEW f \in Tokens,
           NEW at \in {"save", "rotate"},
           Generate(t, f), Goto(p, [req[p] EXCEPT !.new = t], at),
           at = "save" => pc[p] = "issue" /\ f = t,
           at = "rotate" => /\ pc[p] = "generate"
                            /\ f = login[req[p].old],
           UNCHANGED <<store, revoked, expired, exchanged, loggedOut>>
    PROVE  SessionInv'
<1> DEFINE r == [req[p] EXCEPT !.new = t]
<1>1. r \in Requests /\ r.old = req[p].old /\ r.new = t
      /\ r.token = req[p].token /\ r.op = req[p].op
  <2>1. req[p] \in Requests
    BY StepTypes
  <2>2. r \in Requests
    BY <2>1, Zenon DEF Requests
  <2> QED
    BY <2>1, <2>2 DEF Requests
<1>2. /\ pc' = [pc EXCEPT ![p] = at] /\ req' = [req EXCEPT ![p] = r]
      /\ UNCHANGED <<cookie, bearer>>
  BY DEF Goto, client
<1>3. login[t] = NoToken /\ login' = [login EXCEPT ![t] = f]
  BY DEF Generate
<1> HIDE DEF r
<1>4. \A q \in Procs : /\ req'[q].old = req[q].old
                       /\ req'[q].op = req[q].op /\ req'[q].token = req[q].token
                       /\ q # p => req'[q] = req[q] /\ pc'[q] = pc[q]
  BY <1>1, <1>2, StepTypes
<1>5. pc'[p] = at /\ req'[p].new = t
  BY <1>1, <1>2, StepTypes
<1>6. login'[t] = f /\ \A s \in Tokens : s # t => login'[s] = login[s]
  BY <1>3, StepTypes
<1>7. /\ store[t] = NoUser /\ exchanged[t] = 0 /\ t \notin loggedOut.refresh
      /\ \A b \in Browsers : cookie[b] # t
      /\ \A q \in Procs : req[q].old # t /\ req[q].new # t
  BY <1>3, StepTypes, SessionAssumption DEF SessionInv, Spent, Generated
<1>8. \A s \in Tokens : login[s] # t
  BY <1>3, StepTypes, SessionAssumption DEF SessionInv, Generated
<1>9. at = "rotate" => req[p].old \in Tokens
  BY StepTypes DEF SessionInv, Generated
<1>10. TypeOK'
  <2>1. login' \in [Tokens -> Tokens \cup {NoToken}]
    BY <1>3, StepTypes
  <2> QED
    BY <1>1, <1>2, <2>1, StepTypes DEF TypeOK
<1>11. Generated'
  <2>1. \A s \in Tokens : login'[s] # NoToken => login'[login'[s]] = login'[s]
    <3>1. at = "save" => login'[t] = t
      BY <1>6
    <3>2. at = "rotate" => /\ login'[t] = login[req[p].old] /\ f # t
                           /\ login[f] = f
      BY <1>6, <1>8, <1>9, SessionAssumption DEF SessionInv, Generated
    <3> QED
      BY <1>6, <1>8, <3>1, <3>2, StepTypes DEF SessionInv, Generated
  <2>2. \A s \in Tokens : login[s] # NoToken => login'[s] # NoToken
    BY <1>3, <1>6
  <2>3. login'[t] # NoToken
    BY <1>6, SessionAssumption
  <2> QED
    BY <1>1, <1>2, <1>4, <1>5, <1>9, <2>1, <2>2, <2>3, StepTypes, SessionAssumption
    DEF SessionInv, Generated
<1>12. PendingUnknown'
  BY <1>2, <1>4, <1>5, <1>6, <1>7, StepTypes, SessionAssumption
  DEF SessionInv, PendingUnknown, Pending
<1>13. Consumed'
  <2>1. \A s \in Tokens : store[s] # NoUser => login'[s] = login[s]
    BY <1>6, <1>7
  <2>2. \A q \in Procs : q # p => req'[q].new = req[q].new /\ req[q].new # t
    BY <1>4, <1>7
  <2>3. at = "save" => req'[p].op = "login"
    BY <1>4 DEF SessionInv, Generated
  <2>4. \A q \in Procs : pc[q] = "save" =>
          /\ req[q].new \in Tokens
          /\ req[q].op = "refresh" => req[q].old \in Tokens
    BY StepTypes DEF SessionInv, PendingUnknown, Pending, Generated
  <2>5. \A q \in Procs : pc[q] = "save" =>
          /\ login'[req[q].new] = login[req[q].new]
          /\ req[q].op = "refresh" => login'[req[q].old] = login[req[q].old]
    BY <1>6, <1>7, <2>4
  <2> QED
    BY <1>2, <1>4, <1>5, <1>6, <1>7, <1>8, <2>1, <2>2, <2>3, <2>4, <2>5, StepTypes
    DEF SessionInv, Consumed
<1>14. Spent'
  BY <1>2, <1>4, <1>5, <1>6, <1>7, <1>9, StepTypes
  DEF SessionInv, Spent, PendingUnknown, Pending, Generated
<1>15. SingleUse' /\ OneTokenPerLogin'
  BY <1>6, <1>7, StepTypes DEF SessionInv, SingleUse, OneTokenPerLogin
<1> QED
  BY <1>10, <1>11, <1>12, <1>13, <1>14, <1>15 DEF SessionInv

\* issueTokens in Login; GenerateAccessToken and GenerateRefreshToken in
\* Refresh.
LEMMA IssueSession ==
    ASSUME SessionInv, NEW p \in Procs, IssueTokens(p) \/ GenerateTokens(p)
    PROVE  SessionInv'
<1>1. UNCHANGED <<store, revoked, expired, exchanged, loggedOut>>
  BY DEF IssueTokens, GenerateTokens, redis
<1>2. CASE Answer(p, "error") /\ UNCHANGED login
  BY <1>1, <1>2, StepTypes, RefusedSession
<1>3. CASE /\ pc[p] = "issue"
           /\ \E t \in Tokens : Generate(t, t) /\ Goto(p, [req[p] EXCEPT !.new = t], "save")
  BY <1>1, <1>3, GenerateSession
<1>4. CASE /\ pc[p] = "generate"
           /\ \E t \in Tokens : /\ Generate(t, login[req[p].old])
                                /\ Goto(p, [req[p] EXCEPT !.new = t], "rotate")
  <2>1. login[req[p].old] \in Tokens
    BY <1>4, StepTypes DEF SessionInv, Generated
  <2> QED
    BY <1>1, <1>4, <2>1, GenerateSession
<1> QED
  BY <1>2, <1>3, <1>4 DEF IssueTokens, GenerateTokens

\* The answer reaches the browser.
LEMMA ReplySession ==
    ASSUME SessionInv, NEW p \in Procs, Reply(p)
    PROVE  SessionInv'
<1>1. /\ pc[p] = "reply"
      /\ pc' = [pc EXCEPT ![p] = "idle"] /\ req' = [req EXCEPT ![p] = NoRequest]
      /\ UNCHANGED <<store, revoked, expired, login, exchanged, loggedOut>>
  BY DEF Reply, redis, history
<1>2. /\ \A q \in Procs : q # p => req'[q] = req[q] /\ pc'[q] = pc[q]
      /\ pc'[p] = "idle" /\ req'[p] = NoRequest
      /\ NoRequest.old = NoToken /\ NoRequest.new = NoToken
  BY <1>1, StepTypes DEF NoRequest
<1>3. \A b \in Browsers : \/ cookie'[b] \in {cookie[b], NoToken}
                         \/ /\ req[p].op \in {"login", "refresh"} /\ req[p].answer = "ok"
                            /\ cookie'[b] = req[p].new
  BY StepTypes DEF Reply, client
<1>4. TypeOK'
  <2>1. /\ cookie' \in [Browsers -> Tokens \cup {NoToken}]
        /\ bearer' \in [Browsers -> Tokens \cup {NoToken}]
    BY StepTypes DEF Reply, client
  <2> QED
    BY <1>1, <2>1, NoRequestType, StepTypes DEF TypeOK
<1>5. Generated'
  BY <1>1, <1>2, <1>3, StepTypes, SessionAssumption DEF SessionInv, Generated
<1>6. PendingUnknown'
  BY <1>1, <1>2, <1>3, StepTypes, SessionAssumption DEF SessionInv, PendingUnknown, Pending
<1>7. Consumed'
  BY <1>1, <1>2, StepTypes DEF SessionInv, Consumed
<1>8. Spent'
  BY <1>1, <1>2, StepTypes DEF SessionInv, Spent
<1>9. SingleUse' /\ OneTokenPerLogin'
  BY <1>1 DEF SessionInv, SingleUse, OneTokenPerLogin
<1> QED
  BY <1>4, <1>5, <1>6, <1>7, <1>8, <1>9 DEF SessionInv

\* Redis drops a key.
LEMMA ExpireSession ==
    ASSUME SessionInv, NEW t \in Tokens, ExpireAccess(t) \/ ExpireRefresh(t)
    PROVE  SessionInv'
<1>1. /\ UNCHANGED <<login, exchanged, loggedOut, cookie, bearer, pc, req>>
      /\ \A s \in Tokens : store'[s] \in {store[s], NoUser}
      /\ revoked \cup expired \subseteq revoked' \cup expired'
  BY StepTypes DEF ExpireAccess, ExpireRefresh, history, client
<1>2. TypeOK'
  <2>1. store' \in [Tokens -> Users \cup {NoUser}]
        /\ revoked' \in SUBSET Tokens /\ expired' \in SUBSET Tokens
    BY StepTypes DEF ExpireAccess, ExpireRefresh
  <2> QED
    BY <1>1, <2>1, StepTypes DEF TypeOK
<1>3. Generated'
  BY <1>1 DEF SessionInv, Generated
<1>4. PendingUnknown'
  BY <1>1, StepTypes DEF SessionInv, PendingUnknown, Pending
<1>5. Consumed'
  BY <1>1, StepTypes DEF SessionInv, Consumed, Generated
<1>6. Spent'
  BY <1>1 DEF SessionInv, Spent
<1>7. SingleUse' /\ OneTokenPerLogin'
  BY <1>1 DEF SessionInv, SingleUse, OneTokenPerLogin
<1> QED
  BY <1>2, <1>3, <1>4, <1>5, <1>6, <1>7 DEF SessionInv

-----------------------------------------------------------------------------
(* The theorems.                                                           *)

\* The inductive invariant: between GETDEL and SET the request that consumed
\* a token is the only holder of its login.
THEOREM SessionInvariance == Spec => []SessionInv
<1>1. SessionInv /\ [Next]_vars => SessionInv'
  <2> SUFFICES ASSUME SessionInv, [Next]_vars PROVE SessionInv'
    OBVIOUS
  <2>1. CASE UNCHANGED vars
    BY <2>1 DEF SessionInv, TypeOK, Generated, PendingUnknown, Pending, Consumed, Spent,
                SingleUse, OneTokenPerLogin, vars, redis, history, client
  <2>2. CASE \E p \in Procs : Step(p)
    BY <2>2, RequestSession, IssueSession, SaveSession, GetSession, RotateSession,
       BlacklistSession, DeleteSession, ReplySession DEF Step
  <2>3. CASE \E t \in Tokens : ExpireAccess(t) \/ ExpireRefresh(t)
    BY <2>3, ExpireSession
  <2> QED
    BY <2>1, <2>2, <2>3 DEF Next
<1> QED
  BY <1>1, InitSession, PTL DEF Spec

\* Of all the requests that present a refresh token, at most one gets a new
\* pair for it.
THEOREM WorksOnce == Spec => []SingleUse
<1>1. SessionInv => SingleUse
  BY DEF SessionInv
<1> QED
  BY <1>1, SessionInvariance, PTL

\* A login never has two refresh tokens that work.
THEOREM NeverForks == Spec => []OneTokenPerLogin
<1>1. SessionInv => OneTokenPerLogin
  BY DEF SessionInv
<1> QED
  BY <1>1, SessionInvariance, PTL

\* What Logout was given when it answered 204 is never accepted again.
THEOREM LogoutIsFinal == Spec => []LogoutRevokes
<1>1. SessionInv => LogoutRevokes
  <2> SUFFICES ASSUME SessionInv PROVE LogoutRevokes
    OBVIOUS
  <2>1. \A t \in loggedOut.refresh : store[t] = NoUser
    BY StepTypes DEF SessionInv, Spent
  <2>2. \A a \in loggedOut.access, up \in BOOLEAN : ~Auth(a, up)
    BY Zenon DEF SessionInv, Spent, Auth
  <2> QED
    BY <2>1, <2>2 DEF LogoutRevokes
<1> QED
  BY <1>1, SessionInvariance, PTL

-----------------------------------------------------------------------------
(* Sessions implements Session.                                            *)

\* A request that is about to store a pair knows whose it is.
Signed == \A p \in Procs : pc[p] \in {"issue", "save"} => req[p].user \in Users

\* No step lets a request save a pair for nobody.
LEMMA StepSigned ==
    ASSUME SessionInv, Signed, [Next]_vars
    PROVE  Signed'
<1>1. CASE UNCHANGED vars
  BY <1>1 DEF vars, Signed
<1>2. CASE \E t \in Tokens : ExpireAccess(t) \/ ExpireRefresh(t)
  BY <1>2 DEF ExpireAccess, ExpireRefresh, Signed
<1>3. ASSUME NEW p \in Procs, Step(p)
      PROVE  Signed'
  <2> USE StepTypes
  <2>1. CASE Login(p)
    BY <2>1 DEF Login, Receive, NoRequest, Signed
  <2>2. CASE RequestRefresh(p) \/ RequestLogout(p)
    BY <2>2 DEF RequestRefresh, RequestLogout, Receive, Signed
  <2>3. CASE IssueTokens(p)
    <3>1. CASE Answer(p, "error")
      BY <3>1 DEF Answer, Goto, Signed
    <3>2. ASSUME NEW t \in Tokens, Goto(p, [req[p] EXCEPT !.new = t], "save")
          PROVE  Signed'
      <4>1. [req[p] EXCEPT !.new = t].user = req[p].user
        BY DEF Requests
      <4> QED
        BY <2>3, <3>2, <4>1 DEF IssueTokens, Goto, Signed
    <3> QED
      BY <2>3, <3>1, <3>2 DEF IssueTokens
  <2>4. CASE Rotate(p)
    <3>1. ASSUME NEW r, Goto(p, r, "reply")
          PROVE  Signed'
      BY <3>1 DEF Goto, Signed
    <3>2. CASE /\ Goto(p, req[p], "save")
               /\ store[req[p].old] = req[p].user /\ req[p].user # NoUser
      <4>1. req[p].old \in Tokens
        BY <2>4 DEF Rotate, SessionInv, Generated
      <4> QED
        BY <3>2, <4>1 DEF Goto, Signed
    <3>3. \/ \E r : Goto(p, r, "reply")
          \/ /\ Goto(p, req[p], "save")
             /\ store[req[p].old] = req[p].user /\ req[p].user # NoUser
      BY <2>4 DEF Rotate, Answer
    <3> QED
      BY <3>1, <3>2, <3>3
  <2>5. CASE GetToken(p) \/ GenerateTokens(p) \/ Blacklist(p) \/ DeleteToken(p) \/ SaveToken(p)
    <3>1. \E r : \E at \in {"generate", "rotate", "delete", "reply"} : Goto(p, r, at)
      <4>1. GetToken(p) \/ GenerateTokens(p) => \E r : \E at \in {"generate", "rotate", "delete", "reply"} : Goto(p, r, at)
        BY Zenon DEF GetToken, GenerateTokens, Answer
      <4>2. Blacklist(p) \/ DeleteToken(p) \/ SaveToken(p) => \E r : \E at \in {"generate", "rotate", "delete", "reply"} : Goto(p, r, at)
        BY Zenon DEF Blacklist, DeleteToken, SaveToken, Answer
      <4> QED
        BY <2>5, <4>1, <4>2
    <3> QED
      BY <3>1 DEF Goto, Signed
  <2>6. CASE Reply(p)
    BY <2>6 DEF Reply, Signed
  <2> QED
    BY <1>3, <2>1, <2>2, <2>3, <2>4, <2>5, <2>6 DEF Step
<1> QED
  BY <1>1, <1>2, <1>3 DEF Next

\* Which session a login stands for.
Forms(l) ==
    /\ login[l] # l => SessionOf(l) = Contract!None
    /\ \A t \in Tokens : login[l] = l /\ store[t] # NoUser /\ login[t] = l
         => SessionOf(l) = Contract!Held(store[t], t)
    /\ \A p \in Procs : login[l] = l /\ pc[p] = "save" /\ login[req[p].new] = l
         => SessionOf(l) = Contract!Moving(req[p].user)
    /\ login[l] = l /\ Holders(l) = {} /\ Movers(l) = {}
         => SessionOf(l) = Contract!Over

\* At most one token or one request holds a session, so nothing is left to
\* choose.
AllForms == \A l \in Tokens : Forms(l)

LEMMA SessionForms == SessionInv => AllForms
<1> SUFFICES ASSUME SessionInv, NEW l \in Tokens PROVE Forms(l)
  BY DEF AllForms
<1>1. login[l] # l => SessionOf(l) = Contract!None
  BY DEF SessionOf, NoSession, Contract!None
<1>2. ASSUME NEW t \in Tokens, login[l] = l, store[t] # NoUser, login[t] = l
      PROVE  SessionOf(l) = Contract!Held(store[t], t)
  <2>1. Holders(l) = {t}
    BY <1>2 DEF Holders, SessionInv, OneTokenPerLogin
  <2>2. (CHOOSE s \in Holders(l) : TRUE) = t
    BY <2>1
  <2> QED
    BY <1>2, <2>1, <2>2 DEF SessionOf, Contract!Held
<1>3. ASSUME NEW p \in Procs, login[l] = l, pc[p] = "save", login[req[p].new] = l
      PROVE  SessionOf(l) = Contract!Moving(req[p].user)
  <2>1. Holders(l) = {}
    BY <1>3 DEF Holders, SessionInv, Consumed
  <2>2. Movers(l) = {p}
    BY <1>3 DEF Movers, SessionInv, Consumed
  <2>3. (CHOOSE q \in Movers(l) : TRUE) = p
    BY <2>2
  <2> QED
    BY <1>3, <2>1, <2>2, <2>3 DEF SessionOf, Contract!Moving
<1>4. login[l] = l /\ Holders(l) = {} /\ Movers(l) = {} => SessionOf(l) = Contract!Over
  BY DEF SessionOf, OverSession, Contract!Over
<1> QED
  BY <1>1, <1>2, <1>3, <1>4 DEF Forms

\* The same after a step.
LEMMA NextForms == SessionInv' => AllForms'
  BY SessionForms, PTL

\* A step that leaves the tokens and the requests of a login alone leaves its
\* session alone.
LEMMA SameSession ==
    ASSUME NEW l \in Tokens,
           (login'[l] = l) <=> (login[l] = l),
           Holders(l)' = Holders(l), \A t \in Holders(l) : store'[t] = store[t],
           Movers(l)' = Movers(l), \A p \in Movers(l) : req'[p].user = req[p].user
    PROVE  SessionOf(l)' = SessionOf(l)
  BY DEF SessionOf

\* Only requests at "save" matter to the sessions: the others may do as they
\* please.
SameSavers == \A q \in Procs : /\ pc'[q] = "save" <=> pc[q] = "save"
                               /\ pc[q] = "save" => /\ req'[q].new = req[q].new
                                                    /\ req'[q].user = req[q].user

\* A step that generates at most a token for a login there is.
SameLogins == \A t \in Tokens : \/ login'[t] = login[t]
                                \/ login[t] = NoToken /\ login'[t] # t

\* The tokens of the requests at "save" were generated.
LEMMA SavedGenerated ==
    ASSUME SessionInv, NEW p \in Procs, pc[p] = "save"
    PROVE  /\ req[p].new \in Tokens /\ login[req[p].new] \in Tokens
           /\ login[login[req[p].new]] = login[req[p].new]
           /\ store[req[p].new] = NoUser /\ req[p].new \notin UsedTokens
  BY StepTypes DEF SessionInv, PendingUnknown, Pending, Generated, UsedTokens

\* A token that works was generated for a login, and is used up.
LEMMA StoredGenerated ==
    ASSUME SessionInv, NEW t \in Tokens, store[t] # NoUser
    PROVE  /\ login[t] \in Tokens /\ login[login[t]] = login[t]
           /\ \A q \in Procs : Pending(q) => req[q].new # t
  BY StepTypes DEF SessionInv, PendingUnknown, Spent, Generated

\* Tokens are never taken back from the used ones.
LEMMA UsedGrows ==
    ASSUME \A t \in Tokens : login[t] # NoToken => login'[t] # NoToken,
           \A q \in Procs : Pending(q)' =>
              \/ Pending(q) /\ req'[q].new = req[q].new
              \/ login[req'[q].new] = NoToken
    PROVE  Contract!Burn
  BY DEF Contract!Burn, UsedTokens, Pending

\* The sessions that Redis and the requests at "save" hold stay as they are.
LEMMA QuietSessions ==
    ASSUME SessionInv, SameSavers, SameLogins,
           NEW l \in Tokens, \A t \in Tokens : login[t] = l => store'[t] = store[t],
           \A t \in Tokens : login[t] = NoToken => store'[t] = NoUser
    PROVE  SessionOf(l)' = SessionOf(l)
<1>1. (login'[l] = l) <=> (login[l] = l)
  BY SessionAssumption DEF SameLogins
<1>2. \A t \in Tokens : store[t] # NoUser => login[t] # NoToken
  BY DEF SessionInv, Spent
<1>3. Holders(l)' = Holders(l) /\ \A t \in Holders(l) : store'[t] = store[t]
  BY <1>2, SessionAssumption DEF SameLogins, Holders
<1>4. \A q \in Procs : pc[q] = "save" => login'[req[q].new] = login[req[q].new]
  BY SavedGenerated, SessionAssumption DEF SameLogins
<1>5. Movers(l)' = Movers(l) /\ \A q \in Movers(l) : req'[q].user = req[q].user
  BY <1>4 DEF SameSavers, Movers
<1> QED
  BY <1>1, <1>3, <1>5, SameSession

\* No session changes.
LEMMA QuietStep ==
    ASSUME \A l \in Tokens : SessionOf(l)' = SessionOf(l), Contract!Burn
    PROVE  Contract!Next
  BY DEF Contract!Next

\* One session changes.
LEMMA OneChanges ==
    ASSUME NEW l \in Tokens, \A k \in Tokens \ {l} : SessionOf(k)' = SessionOf(k)
    PROVE  Contract!Become(l, SessionOf(l)')
  BY DEF Contract!Become

\* A token that worked is dropped, and no request takes its session on.
LEMMA DropEnds ==
    ASSUME SessionInv, SessionInv', SameSavers,
           NEW t \in Tokens, store[t] # NoUser, store' = [store EXCEPT ![t] = NoUser],
           login' = login, Contract!Burn
    PROVE  Contract!Next
<1> DEFINE l == login[t]
<1>1. l \in Tokens /\ login[l] = l
  BY StoredGenerated
<1>2. SessionOf(l) = Contract!Held(store[t], t)
  BY <1>1, SessionForms DEF AllForms, Forms
<1>3. SameLogins
  BY DEF SameLogins
<1>4. \A k \in Tokens \ {l} : SessionOf(k)' = SessionOf(k)
  <2> SUFFICES ASSUME NEW k \in Tokens \ {l} PROVE SessionOf(k)' = SessionOf(k)
    OBVIOUS
  <2>1. \A s \in Tokens : login[s] = k => store'[s] = store[s]
    BY StepTypes
  <2>2. \A s \in Tokens : login[s] = NoToken => store'[s] = NoUser
    BY StepTypes DEF SessionInv, Spent
  <2> QED
    BY <1>3, <2>1, <2>2, QuietSessions
<1>5. Holders(l)' = {}
  BY StepTypes DEF Holders, SessionInv, OneTokenPerLogin
<1>6. Movers(l)' = {}
  <2>1. \A q \in Procs : pc[q] = "save" => login[req[q].new] # l
    BY DEF SessionInv, Consumed
  <2> QED
    BY <2>1 DEF Movers, SameSavers
<1>7. SessionOf(l)' = Contract!Over
  BY <1>1, <1>5, <1>6, NextForms DEF AllForms, Forms, Contract!Over
<1>8. Contract!Become(l, Contract!Over)
  BY <1>1, <1>4, <1>7, OneChanges
<1>9. Contract!End(l)
  BY <1>1, <1>2, <1>8 DEF Contract!End, Contract!Held
<1> QED
  BY <1>1, <1>9 DEF Contract!Next

\* A new login starts a session.
LEMMA IssueImplements ==
    ASSUME SessionInv, Signed, SessionInv', NEW p \in Procs, NEW t \in Tokens,
           pc[p] = "issue", Generate(t, t), Goto(p, [req[p] EXCEPT !.new = t], "save"),
           store' = store
    PROVE  Contract!Next
<1> USE StepTypes
<1> DEFINE u == req[p].user
           r == [req[p] EXCEPT !.new = t]
<1>1. u \in Users /\ r.new = t /\ r.user = u
  BY DEF Signed, Requests
<1>2. /\ pc' = [pc EXCEPT ![p] = "save"] /\ req' = [req EXCEPT ![p] = r]
      /\ login[t] = NoToken /\ login' = [login EXCEPT ![t] = t]
  BY DEF Goto, Generate
<1> HIDE DEF r
<1>3. SessionOf(t) = Contract!None
  BY <1>2, SessionForms, SessionAssumption DEF AllForms, Forms
<1>4. SessionOf(t)' = Contract!Moving(u)
  BY <1>1, <1>2, NextForms DEF AllForms, Forms, Contract!Moving
<1>5. ASSUME NEW k \in Tokens \ {t}
      PROVE  SessionOf(k)' = SessionOf(k)
  <2>1. \A q \in Procs : pc[q] = "save" => req[q].new \in Tokens \ {t}
    BY <1>2, SavedGenerated, SessionAssumption
  <2>2. Holders(k)' = Holders(k)
    BY <1>2, SessionAssumption DEF Holders
  <2>3. Movers(k)' = Movers(k) /\ \A q \in Movers(k) : req'[q].user = req[q].user
    BY <1>1, <1>2, <2>1 DEF Movers
  <2> QED
    BY <1>2, <2>2, <2>3, SameSession
<1>6. Contract!Become(t, Contract!Moving(u))
  BY <1>4, <1>5, OneChanges
<1>7. Contract!Burn
  <2>1. \A s \in Tokens : login[s] # NoToken => login'[s] # NoToken
    BY <1>2
  <2>2. \A q \in Procs : Pending(q)' => \/ Pending(q) /\ req'[q].new = req[q].new
                                       \/ login[req'[q].new] = NoToken
    BY <1>1, <1>2 DEF Pending
  <2> QED
    BY <2>1, <2>2, UsedGrows
<1>8. Contract!Start(t, u)
  BY <1>3, <1>6, <1>7 DEF Contract!Start
<1> QED
  BY <1>1, <1>8 DEF Contract!Next

\* SetRefreshToken settles a session, or loses it.
LEMMA SaveImplements ==
    ASSUME SessionInv, Signed, SessionInv', NEW p \in Procs, SaveToken(p)
    PROVE  Contract!Next
<1> USE StepTypes
<1>1. PICK u \in Users, t, l \in Tokens :
        /\ pc[p] = "save" /\ u = req[p].user /\ t = req[p].new /\ l = login[t]
        /\ login' = login /\ login[l] = l /\ store[t] = NoUser /\ t \notin UsedTokens
  BY SavedGenerated DEF SaveToken, Signed
<1>2. PICK r : Goto(p, r, "reply")
  BY Zenon DEF SaveToken, Answer
<1>3. /\ pc' = [pc EXCEPT ![p] = "reply"]
      /\ \A q \in Procs \ {p} : req'[q] = req[q] /\ pc'[q] = pc[q]
  BY <1>2 DEF Goto
<1>4. SessionOf(l) = Contract!Moving(u)
  BY <1>1, SessionForms DEF AllForms, Forms
<1>5. \A q \in Procs : Pending(q)' => q # p /\ Pending(q)
  BY <1>3 DEF Pending
<1>6. Contract!Burn
  BY <1>1, <1>3, <1>5, UsedGrows
<1>7. ASSUME NEW k \in Tokens \ {l}, Holders(k)' = Holders(k),
             \A s \in Holders(k) : store'[s] = store[s]
      PROVE  SessionOf(k)' = SessionOf(k)
  <2>1. Movers(k)' = Movers(k) /\ \A q \in Movers(k) : req'[q].user = req[q].user
    BY <1>1, <1>3 DEF Movers
  <2> QED
    BY <1>1, <1>7, <2>1, SameSession
<1>8. CASE store' = [store EXCEPT ![t] = u]
  <2>1. SessionOf(l)' = Contract!Held(u, t)
    BY <1>1, <1>8, NextForms, SessionAssumption DEF AllForms, Forms, Contract!Held
  <2>2. \A k \in Tokens \ {l} : SessionOf(k)' = SessionOf(k)
    BY <1>1, <1>7, <1>8 DEF Holders
  <2>3. Contract!Become(l, Contract!Held(u, t))
    BY <1>1, <2>1, <2>2, OneChanges
  <2>4. t \in UsedTokens'
    BY <1>1, <1>3, <1>5 DEF UsedTokens, SessionInv, PendingUnknown, Pending
  <2>5. Contract!Settle(l, u, t)
    BY <1>1, <1>4, <1>6, <2>3, <2>4 DEF Contract!Settle
  <2> QED
    BY <1>1, <2>5 DEF Contract!Next
<1>9. CASE store' = store
  <2>1. Holders(l)' = {}
    BY <1>1, <1>9 DEF Holders, SessionInv, Consumed
  <2>2. Movers(l)' = {}
    BY <1>1, <1>3 DEF Movers, SessionInv, Consumed
  <2>3. SessionOf(l)' = Contract!Over
    BY <1>1, <2>1, <2>2, NextForms DEF AllForms, Forms, Contract!Over
  <2>4. \A k \in Tokens \ {l} : SessionOf(k)' = SessionOf(k)
    BY <1>1, <1>7, <1>9 DEF Holders
  <2>5. Contract!Become(l, Contract!Over)
    BY <1>1, <2>3, <2>4, OneChanges
  <2>6. Contract!End(l)
    BY <1>4, <1>6, <2>5 DEF Contract!End, Contract!Moving
  <2> QED
    BY <1>1, <2>6 DEF Contract!Next
<1> QED
  BY <1>1, <1>8, <1>9 DEF SaveToken

\* GETDEL takes a session from its token.
LEMMA TakeImplements ==
    ASSUME SessionInv, SessionInv', NEW p \in Procs, NEW t \in Tokens, NEW u \in Users,
           pc[p] = "rotate", t = req[p].old, u = req[p].user, store[t] = u,
           store' = [store EXCEPT ![t] = NoUser], login' = login,
           Goto(p, req[p], "save")
    PROVE  Contract!Next
<1> USE StepTypes
<1>1. req' = req
  BY DEF Goto
<1>2. pc' = [pc EXCEPT ![p] = "save"]
  BY DEF Goto
<1>3. PICK l \in Tokens : l = login[t] /\ login[l] = l /\ login[req[p].new] = l
  BY StoredGenerated, SessionAssumption DEF SessionInv, Spent
<1>4. SessionOf(l) = Contract!Held(u, t)
  BY <1>3, SessionForms, SessionAssumption DEF AllForms, Forms
<1>5. SessionOf(l)' = Contract!Moving(u)
  BY <1>1, <1>2, <1>3, NextForms DEF AllForms, Forms, Contract!Moving
<1>6. ASSUME NEW k \in Tokens \ {l}
      PROVE  SessionOf(k)' = SessionOf(k)
  <2>1. Holders(k)' = Holders(k) /\ \A s \in Holders(k) : store'[s] = store[s]
    BY <1>3 DEF Holders
  <2>2. Movers(k)' = Movers(k) /\ \A q \in Movers(k) : req'[q].user = req[q].user
    BY <1>1, <1>2, <1>3 DEF Movers
  <2> QED
    BY <2>1, <2>2, SameSession
<1>7. Contract!Become(l, Contract!Moving(u))
  BY <1>5, <1>6, OneChanges
<1>8. Contract!Burn
  <2>1. \A q \in Procs : Pending(q)' => Pending(q) /\ req'[q].new = req[q].new
    BY <1>1, <1>2 DEF Pending
  <2> QED
    BY <2>1, UsedGrows
<1>9. Contract!Move(l, u, t)
  BY <1>4, <1>7, <1>8 DEF Contract!Move
<1> QED
  BY <1>3, <1>9 DEF Contract!Next

\* A step that neither enters nor leaves "save", and stores nothing, changes
\* no session unless it drops a token.
LEMMA AsideImplements ==
    ASSUME SessionInv, SessionInv', SameSavers, SameLogins,
           NEW t \in Tokens \cup {NoToken},
           \/ store' = store
           \/ t # NoToken /\ store' = [store EXCEPT ![t] = NoUser] /\ login' = login,
           \A q \in Procs : Pending(q)' => \/ Pending(q) /\ req'[q].new = req[q].new
                                           \/ login[req'[q].new] = NoToken
    PROVE  Contract!Next
<1> USE StepTypes
<1>1. Contract!Burn
  <2>1. \A s \in Tokens : login[s] # NoToken => login'[s] # NoToken
    BY DEF SameLogins
  <2> QED
    BY <2>1, UsedGrows
<1>2. CASE store' = store
  <2>1. \A s \in Tokens : login[s] = NoToken => store'[s] = NoUser
    BY <1>2 DEF SessionInv, Spent
  <2>2. \A l \in Tokens : SessionOf(l)' = SessionOf(l)
    BY <1>2, <2>1, QuietSessions
  <2> QED
    BY <1>1, <2>2, QuietStep
<1>3. CASE /\ t # NoToken /\ store[t] # NoUser
           /\ store' = [store EXCEPT ![t] = NoUser] /\ login' = login
  BY <1>1, <1>3, DropEnds
<1>4. CASE t # NoToken /\ store[t] = NoUser /\ store' = [store EXCEPT ![t] = NoUser]
  <2>1. store' = store
    BY <1>4
  <2> QED
    BY <1>2, <2>1
<1> QED
  BY <1>2, <1>3, <1>4

\* Requests that arrive or answer, and steps to any call but "save", from any
\* call but "save".
LEMMA ElsewhereImplements ==
    ASSUME SessionInv, SessionInv', NEW p \in Procs, NEW r, NEW at,
           pc' = [pc EXCEPT ![p] = at], req' = [req EXCEPT ![p] = r],
           pc[p] # "save", at # "save",
           \/ at # "rotate" /\ login' = login
           \/ /\ pc[p] = "generate" /\ at = "rotate" /\ store' = store
              /\ r.new \in Tokens /\ Generate(r.new, login[req[p].old]),
           NEW t \in Tokens \cup {NoToken},
           store' = store \/ (t # NoToken /\ store' = [store EXCEPT ![t] = NoUser])
    PROVE  Contract!Next
<1> USE StepTypes
<1>1. SameSavers
  BY DEF SameSavers
<1>2. SameLogins
  <2>1. CASE login' = login
    BY <2>1 DEF SameLogins
  <2>2. CASE pc[p] = "generate" /\ r.new \in Tokens /\ Generate(r.new, login[req[p].old])
    <3>1. req[p].old \in Tokens /\ login[req[p].old] # NoToken
      BY <2>2 DEF SessionInv, Generated
    <3>2. login[r.new] = NoToken /\ login' = [login EXCEPT ![r.new] = login[req[p].old]]
      BY <2>2 DEF Generate
    <3>3. login[req[p].old] # r.new
      BY <3>1, <3>2, SessionAssumption DEF SessionInv, Generated
    <3> QED
      BY <3>2, <3>3 DEF SameLogins
  <2> QED
    BY <2>1, <2>2
<1>3. \A q \in Procs : Pending(q)' => \/ Pending(q) /\ req'[q].new = req[q].new
                                      \/ login[req'[q].new] = NoToken
  BY DEF Pending, Generate
<1>4. store' = store \/ (t # NoToken /\ store' = [store EXCEPT ![t] = NoUser] /\ login' = login)
  OBVIOUS
<1> QED
  BY <1>1, <1>2, <1>3, <1>4, AsideImplements

\* Every step of a request is a step of a session, or leaves the sessions
\* alone.
LEMMA RequestImplements ==
    ASSUME SessionInv, Signed, SessionInv', NEW p \in Procs, Step(p)
    PROVE  Contract!Next
<1> USE StepTypes
<1>1. CASE Login(p) \/ RequestRefresh(p) \/ RequestLogout(p)
  <2>1. PICK r, at : Receive(p, r, at) /\ at \in {"issue", "get", "blacklist"}
    BY <1>1, Zenon DEF Login, RequestRefresh, RequestLogout
  <2> QED
    BY <2>1, ElsewhereImplements DEF Receive, redis, history
<1>2. CASE IssueTokens(p)
  <2>1. CASE Answer(p, "error") /\ UNCHANGED login
    BY <1>2, <2>1, ElsewhereImplements DEF IssueTokens, Answer, Goto, redis
  <2> QED
    BY <1>2, <2>1, IssueImplements DEF IssueTokens, redis
<1>3. CASE GetToken(p)
  <2>1. PICK r, at : Goto(p, r, at) /\ at \in {"generate", "reply"}
    BY <1>3, Zenon DEF GetToken, Answer
  <2> QED
    BY <1>3, <2>1, ElsewhereImplements DEF GetToken, Goto, redis, history
<1>4. CASE GenerateTokens(p)
  <2>1. CASE Answer(p, "error") /\ UNCHANGED login
    BY <1>4, <2>1, ElsewhereImplements DEF GenerateTokens, Answer, Goto, redis
  <2>2. ASSUME NEW t \in Tokens, Generate(t, login[req[p].old]),
               Goto(p, [req[p] EXCEPT !.new = t], "rotate")
        PROVE  Contract!Next
    <3> DEFINE r == [req[p] EXCEPT !.new = t]
    <3>1. r.new = t
      BY DEF Requests
    <3>2. pc' = [pc EXCEPT ![p] = "rotate"] /\ req' = [req EXCEPT ![p] = r]
      BY <2>2 DEF Goto
    <3> HIDE DEF r
    <3> QED
      BY <1>4, <2>2, <3>1, <3>2, ElsewhereImplements DEF GenerateTokens, redis
  <2> QED
    BY <1>4, <2>1, <2>2 DEF GenerateTokens
<1>5. CASE Rotate(p)
  <2>1. PICK t \in Tokens : t = req[p].old /\ pc[p] = "rotate" /\ login' = login
    BY <1>5 DEF Rotate, history, SessionInv, Generated
  <2>2. CASE /\ store' = store \/ store' = [store EXCEPT ![t] = NoUser]
             /\ \E r : Goto(p, r, "reply")
    <3>1. PICK r : Goto(p, r, "reply")
      BY <2>2
    <3>2. t # NoToken
      BY SessionAssumption
    <3> QED
      BY <2>1, <2>2, <3>1, <3>2, ElsewhereImplements DEF Goto
  <2>3. CASE /\ store[t] # NoUser /\ store[t] = req[p].user
             /\ store' = [store EXCEPT ![t] = NoUser]
             /\ Goto(p, req[p], "save")
    <3>1. PICK u \in Users : u = req[p].user /\ store[t] = u
      BY <2>3
    <3> QED
      BY <2>1, <2>3, <3>1, TakeImplements
  <2>4. \/ /\ store' = store \/ store' = [store EXCEPT ![t] = NoUser]
           /\ \E r : Goto(p, r, "reply")
        \/ /\ store[t] # NoUser /\ store[t] = req[p].user
           /\ store' = [store EXCEPT ![t] = NoUser]
           /\ Goto(p, req[p], "save")
    BY <1>5, <2>1 DEF Rotate, Answer
  <2> QED
    BY <2>2, <2>3, <2>4
<1>6. CASE Blacklist(p)
  <2>1. PICK r, at : Goto(p, r, at) /\ at \in {"delete", "reply"}
    BY <1>6, Zenon DEF Blacklist, Answer
  <2> QED
    BY <1>6, <2>1, ElsewhereImplements DEF Blacklist, Goto, history
<1>7. CASE DeleteToken(p)
  <2>1. PICK r : Goto(p, r, "reply")
    BY <1>7, Zenon DEF DeleteToken, Answer
  <2>2. PICK t \in Tokens \cup {NoToken} :
          \/ store' = store
          \/ t # NoToken /\ store' = [store EXCEPT ![t] = NoUser]
    BY <1>7 DEF DeleteToken
  <2> QED
    BY <1>7, <2>1, <2>2, ElsewhereImplements DEF DeleteToken, Goto
<1>8. CASE Reply(p)
  <2>1. PICK r, at : pc' = [pc EXCEPT ![p] = at] /\ req' = [req EXCEPT ![p] = r] /\ at = "idle"
    BY <1>8 DEF Reply
  <2>2. pc[p] = "reply" /\ store' = store /\ login' = login
    BY <1>8 DEF Reply, redis, history
  <2> QED
    BY <2>1, <2>2, ElsewhereImplements
<1> QED
  BY <1>1, <1>2, <1>3, <1>4, <1>5, <1>6, <1>7, <1>8, SaveImplements DEF Step

\* Every login is one session: it stays with its user, moves to a new token
\* each time and, once over, stays over, whatever requests raced, failed or
\* were repeated.
THEOREM ImplementsSession == Spec => SessionContract
<1>1. ASSUME Init
      PROVE  Contract!Init /\ Signed
  <2>1. \A l \in Tokens : SessionOf(l) = Contract!None
    BY <1>1, InitSession, SessionForms, SessionAssumption DEF Init, AllForms, Forms
  <2>2. UsedTokens = {}
    BY <1>1 DEF Init, UsedTokens
  <2> QED
    BY <1>1, <2>1, <2>2 DEF Contract!Init, Init, Signed
<1>2. SessionInv /\ Signed /\ SessionInv' /\ [Next]_vars
        => [Contract!Next]_<<[l \in Tokens |-> SessionOf(l)], UsedTokens>> /\ Signed'
  <2> SUFFICES ASSUME SessionInv, Signed, SessionInv', [Next]_vars
               PROVE  [Contract!Next]_<<[l \in Tokens |-> SessionOf(l)], UsedTokens>>
    BY StepSigned
  <2>1. CASE UNCHANGED vars
    <3>1. UNCHANGED <<store, login, pc, req>>
      BY <2>1 DEF vars, redis, history
    <3>2. SameSavers /\ SameLogins
      BY <3>1 DEF SameSavers, SameLogins
    <3> QED
      BY <3>1, <3>2, AsideImplements DEF Pending
  <2>2. CASE \E p \in Procs : Step(p)
    BY <2>2, RequestImplements
  <2>3. ASSUME NEW t \in Tokens, ExpireAccess(t) \/ ExpireRefresh(t)
        PROVE  Contract!Next
    <3>1. /\ UNCHANGED <<login, pc, req>>
          /\ store' = store \/ store' = [store EXCEPT ![t] = NoUser]
      BY <2>3 DEF ExpireAccess, ExpireRefresh, history
    <3>2. SameSavers /\ SameLogins
      BY <3>1 DEF SameSavers, SameLogins
    <3> QED
      BY <3>1, <3>2, SessionAssumption, AsideImplements DEF Pending
  <2> QED
    BY <2>1, <2>2, <2>3 DEF Next
<1> QED
  BY <1>1, <1>2, SessionInvariance, PTL DEF Spec, SessionContract, Contract!Spec

=============================================================================
