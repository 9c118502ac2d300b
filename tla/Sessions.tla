------------------------------ MODULE Sessions ------------------------------
(***************************************************************************)
(* Login, Refresh and Logout (internal/service/auth.go), the keys they     *)
(* keep in Redis (internal/cache/token.go), the cookie their answers leave *)
(* in a browser (internal/server/http/handler/auth.go) and the check of    *)
(* access tokens (middleware/auth.go).                                     *)
(*                                                                         *)
(* Every Redis call is a step.  It may fail before it reaches the server,  *)
(* or after it took effect there; go-redis repeats a call whose reply was  *)
(* lost.  A browser may have several requests in flight (tabs), and        *)
(* receives their answers in any order.  A refresh token and an access     *)
(* token are always generated together: a token here is such a pair.       *)
(***************************************************************************)
EXTENDS Naturals, FiniteSets

CONSTANTS
    Users,      \* registered users; they are never deleted
    Browsers,   \* cookie jars
    Procs,      \* requests that can be in flight together
    Tokens,     \* the pairs that may ever be generated
    MaxExpired, \* bound on the access tokens that expire
    NoUser, NoToken, NoBrowser

ASSUME SessionAssumption ==
    /\ NoUser \notin Users /\ NoBrowser \notin Browsers
    /\ NoToken \notin Tokens
    /\ MaxExpired \in Nat

VARIABLES
    store,      \* store[t]: the user under auth:refresh:<hash of t>
    revoked,    \* the jtis under auth:bl:<jti>
    expired,    \* the access tokens whose exp has passed
    login,      \* history, login[t]: the pair its login began with, if any
    exchanged,  \* history, exchanged[t]: successful refreshes with t
    loggedOut,  \* history: what Logouts that answered 204 were given
    cookie,     \* cookie[b]: the refresh cookie of browser b
    bearer,     \* bearer[b]: the access token b holds
    pc,         \* pc[p]: the next call of request p
    req         \* req[p]: the variables of request p

redis   == <<store, revoked>>
history == <<login, exchanged, loggedOut>>
client  == <<cookie, bearer>>
vars    == <<redis, expired, history, client, pc, req>>

Requests == [op      : {"none", "login", "refresh", "logout"},
             browser : Browsers \cup {NoBrowser},
             user    : Users \cup {NoUser},
             old     : Tokens \cup {NoToken},   \* the cookie presented
             token   : Tokens \cup {NoToken},   \* the bearer presented
             new     : Tokens \cup {NoToken},   \* the pair generated
             answer  : {"none", "ok", "denied", "unavailable", "error"}]

NoRequest == [op |-> "none", browser |-> NoBrowser, user |-> NoUser,
              old |-> NoToken, token |-> NoToken, new |-> NoToken,
              answer |-> "none"]

Init ==
    /\ store = [t \in Tokens |-> NoUser]
    /\ revoked = {}
    /\ expired = {}
    /\ login = [t \in Tokens |-> NoToken]
    /\ exchanged = [t \in Tokens |-> 0]
    /\ loggedOut = [refresh |-> {}, access |-> {}]
    /\ cookie = [b \in Browsers |-> NoToken]
    /\ bearer = [b \in Browsers |-> NoToken]
    /\ pc = [p \in Procs |-> "idle"]
    /\ req = [p \in Procs |-> NoRequest]

-----------------------------------------------------------------------------
(* Steps of a request.                                                     *)

Receive(p, r, at) ==
    /\ pc[p] = "idle"
    /\ pc' = [pc EXCEPT ![p] = at]
    /\ req' = [req EXCEPT ![p] = r]
    /\ UNCHANGED <<redis, expired, history, client>>

\* The request goes on to the call "at" with the variables r.
Goto(p, r, at) ==
    /\ pc' = [pc EXCEPT ![p] = at]
    /\ req' = [req EXCEPT ![p] = r]
    /\ UNCHANGED client

Answer(p, a) == Goto(p, [req[p] EXCEPT !.answer = a], "reply")

\* GenerateAccessToken and GenerateRefreshToken: a pair that nobody has
\* generated before.
Generate(t, family) ==
    /\ login[t] = NoToken
    /\ login' = [login EXCEPT ![t] = family]

-----------------------------------------------------------------------------
(* Login: the password was right.                                          *)

Login(p) ==
    \E b \in Browsers, u \in Users :
        Receive(p, [NoRequest EXCEPT !.op = "login", !.browser = b, !.user = u],
                "issue")

\* issueTokens up to SetRefreshToken.
IssueTokens(p) ==
    /\ pc[p] = "issue"
    /\ \/ \E t \in Tokens :
             /\ Generate(t, t)
             /\ Goto(p, [req[p] EXCEPT !.new = t], "save")
       \/ Answer(p, "error") /\ UNCHANGED login
    /\ UNCHANGED <<redis, expired, exchanged, loggedOut>>

\* SetRefreshToken, in Login and at the end of a rotation.
SaveToken(p) ==
    /\ pc[p] = "save"
    /\ \/ /\ store' = [store EXCEPT ![req[p].new] = req[p].user]
          /\ \/ Answer(p, "ok") /\ exchanged' =
                   IF req[p].op = "refresh"
                   THEN [exchanged EXCEPT ![req[p].old] = @ + 1] ELSE exchanged
             \/ Answer(p, "unavailable") /\ UNCHANGED exchanged
       \/ Answer(p, "unavailable") /\ UNCHANGED <<store, exchanged>>
    /\ UNCHANGED <<revoked, expired, login, loggedOut>>

-----------------------------------------------------------------------------
(* Refresh, with the cookie of the browser.                                *)

RequestRefresh(p) ==
    \E b \in Browsers :
        /\ cookie[b] # NoToken
        /\ Receive(p, [NoRequest EXCEPT !.op = "refresh", !.browser = b,
                                        !.old = cookie[b]], "get")

\* GetRefreshToken.
GetToken(p) ==
    /\ pc[p] = "get"
    /\ LET u == store[req[p].old]
       IN \/ u = NoUser /\ Answer(p, "denied")
          \/ u # NoUser /\ Goto(p, [req[p] EXCEPT !.user = u], "generate")
          \/ Answer(p, "unavailable")
    /\ UNCHANGED <<redis, expired, history>>

\* GetByID of the user, then the new pair; MySQL or the generator may fail.
GenerateTokens(p) ==
    /\ pc[p] = "generate"
    /\ \/ \E t \in Tokens :
             /\ Generate(t, login[req[p].old])
             /\ Goto(p, [req[p] EXCEPT !.new = t], "rotate")
       \/ Answer(p, "error") /\ UNCHANGED login
    /\ UNCHANGED <<redis, expired, exchanged, loggedOut>>

\* A bug: the old token is read and never deleted.
RotateKeepingOld(p) ==
    /\ pc[p] = "rotate"
    /\ \/ store[req[p].old] # req[p].user /\ Answer(p, "denied")
       \/ store[req[p].old] = req[p].user /\ Goto(p, req[p], "save")
    /\ UNCHANGED <<redis, expired, history>>

\* A bug: the old token is deleted whether it is still there or not.
RotateUnchecked(p) ==
    /\ pc[p] = "rotate"
    /\ store' = [store EXCEPT ![req[p].old] = NoUser]
    /\ Goto(p, req[p], "save")
    /\ UNCHANGED <<revoked, expired, history>>

\* RotateRefreshToken, its GETDEL.  A repeated GETDEL finds nothing.
Rotate(p) ==
    /\ pc[p] = "rotate"
    /\ LET found == store[req[p].old]
       IN \/ /\ found = NoUser
             /\ Answer(p, "denied")
             /\ UNCHANGED store
          \/ /\ found # NoUser
             /\ store' = [store EXCEPT ![req[p].old] = NoUser]
             /\ \/ IF found = req[p].user
                   THEN Goto(p, req[p], "save")
                   ELSE Answer(p, "denied")
                \/ \E a \in {"denied", "unavailable"} : Answer(p, a)
          \/ Answer(p, "unavailable") /\ UNCHANGED store
    /\ UNCHANGED <<revoked, expired, history>>

-----------------------------------------------------------------------------
(* Logout, with the browser's bearer token and cookie.                     *)

RequestLogout(p) ==
    \E b \in Browsers :
        /\ cookie[b] # NoToken \/ bearer[b] # NoToken
        /\ Receive(p, [NoRequest EXCEPT !.op = "logout", !.browser = b,
                                        !.old = cookie[b], !.token = bearer[b]],
                   "blacklist")

\* BlacklistAccessToken for the token's remaining life, if it has any.
Blacklist(p) ==
    /\ pc[p] = "blacklist"
    /\ LET a     == req[p].token
           valid == a # NoToken /\ a \notin expired
       IN \/ /\ ~valid
             /\ Goto(p, req[p], "delete")
             /\ UNCHANGED revoked
          \/ /\ valid
             /\ revoked' = revoked \cup {a}
             /\ Goto(p, req[p], "delete") \/ Answer(p, "unavailable")
          \/ /\ valid
             /\ Answer(p, "unavailable")
             /\ UNCHANGED revoked
    /\ UNCHANGED <<store, expired, history>>

\* DeleteRefreshToken, if there is a cookie.
DeleteToken(p) ==
    /\ pc[p] = "delete"
    /\ LET t == req[p].old
       IN \/ /\ store' = IF t = NoToken THEN store ELSE [store EXCEPT ![t] = NoUser]
             /\ loggedOut' = [refresh |-> loggedOut.refresh \cup ({t} \ {NoToken}),
                              access  |-> loggedOut.access \cup ({req[p].token} \ {NoToken})]
             /\ Answer(p, "ok")
          \/ /\ t # NoToken
             /\ store' \in {store, [store EXCEPT ![t] = NoUser]}
             /\ Answer(p, "unavailable")
             /\ UNCHANGED loggedOut
    /\ UNCHANGED <<revoked, expired, login, exchanged>>

-----------------------------------------------------------------------------
\* The answer reaches the browser: a new pair, or a cleared cookie when a
\* refresh failed or the logout succeeded.
Reply(p) ==
    /\ pc[p] = "reply"
    /\ LET r == req[p]
           b == r.browser
       IN \/ /\ r.op \in {"login", "refresh"} /\ r.answer = "ok"
             /\ cookie' = [cookie EXCEPT ![b] = r.new]
             /\ bearer' = [bearer EXCEPT ![b] = r.new]
          \/ /\ \/ r.op = "refresh" /\ r.answer # "ok"
                \/ r.op = "logout" /\ r.answer = "ok"
             /\ cookie' = [cookie EXCEPT ![b] = NoToken]
             /\ UNCHANGED bearer
          \/ /\ r.op \in {"login", "logout"} /\ r.answer # "ok"
             /\ UNCHANGED client
    /\ pc' = [pc EXCEPT ![p] = "idle"]
    /\ req' = [req EXCEPT ![p] = NoRequest]
    /\ UNCHANGED <<redis, expired, history>>

\* TTLs.  The blacklist entry gets the token's remaining life, so it ends
\* with the token.
ExpireAccess(a) ==
    /\ login[a] # NoToken /\ a \notin expired
    /\ Cardinality(expired) < MaxExpired
    /\ expired' = expired \cup {a}
    /\ revoked' = revoked \ {a}
    /\ UNCHANGED <<store, history, client, pc, req>>

ExpireRefresh(t) ==
    /\ store[t] # NoUser
    /\ store' = [store EXCEPT ![t] = NoUser]
    /\ UNCHANGED <<revoked, expired, history, client, pc, req>>

Step(p) ==
    \/ Login(p) \/ IssueTokens(p) \/ SaveToken(p)
    \/ RequestRefresh(p) \/ GetToken(p) \/ GenerateTokens(p) \/ Rotate(p)
    \/ RequestLogout(p) \/ Blacklist(p) \/ DeleteToken(p)
    \/ Reply(p)

Next == \/ \E p \in Procs : Step(p)
        \/ \E t \in Tokens : ExpireAccess(t) \/ ExpireRefresh(t)

Spec == Init /\ [][Next]_vars
-----------------------------------------------------------------------------
\* A bug: a token is admitted when the revocation cannot be checked.
AuthFailOpen(a, redisUp) ==
    login[a] # NoToken /\ a \notin expired /\ (redisUp => a \notin revoked)

\* Middleware Auth: a token that has not expired and is not revoked is
\* admitted; when the revocation cannot be checked nobody is.
Auth(a, redisUp) ==
    login[a] # NoToken /\ a \notin expired /\ redisUp /\ a \notin revoked

\* Types of the keys, the cookies and the requests.
TypeOK ==
    /\ store \in [Tokens -> Users \cup {NoUser}]
    /\ revoked \in SUBSET Tokens /\ expired \in SUBSET Tokens
    /\ login \in [Tokens -> Tokens \cup {NoToken}]
    /\ exchanged \in [Tokens -> Nat]
    /\ loggedOut \in [refresh : SUBSET Tokens, access : SUBSET Tokens]
    /\ cookie \in [Browsers -> Tokens \cup {NoToken}]
    /\ bearer \in [Browsers -> Tokens \cup {NoToken}]
    /\ pc \in [Procs -> {"idle", "issue", "save", "get", "generate", "rotate",
                         "blacklist", "delete", "reply"}]
    /\ req \in [Procs -> Requests]

\* "Each refresh token works once" (README.md): of all the requests that
\* present one, concurrently or later, at most one gets a new pair.
SingleUse == \A t \in Tokens : exchanged[t] <= 1

\* A login has at most one refresh token that works, whatever was rotated,
\* repeated or lost: rotation never forks a session.
OneTokenPerLogin ==
    \A t, s \in Tokens :
        store[t] # NoUser /\ store[s] # NoUser /\ login[t] = login[s] => t = s

\* "Revokes the access token and the refresh token" (README.md): from the
\* moment Logout has answered, neither token it was given is accepted, with
\* Redis up or down.
LogoutRevokes ==
    /\ \A t \in loggedOut.refresh : store[t] = NoUser
    /\ \A a \in loggedOut.access, up \in BOOLEAN : ~Auth(a, up)

\* The inductive strengthening of the three.  A pair that a request has
\* generated and not yet handed out is known to that request alone.
Pending(p) == pc[p] \in {"rotate", "save"}

PendingUnknown ==
    \A p \in Procs : Pending(p) =>
        LET t == req[p].new
        IN /\ t # NoToken /\ login[t] # NoToken
           /\ store[t] = NoUser /\ exchanged[t] = 0 /\ t \notin loggedOut.refresh
           /\ \A b \in Browsers : cookie[b] # t
           /\ \A q \in Procs : req[q].old # t /\ (req[q].new = t => q = p)

\* Between GETDEL and SET the request that consumed a token stands for its
\* login: the old token is gone, and nobody else holds one of that login.
Consumed ==
    \A p \in Procs : pc[p] = "save" =>
        /\ \A t \in Tokens : store[t] # NoUser => login[t] # login[req[p].new]
        /\ \A q \in Procs : pc[q] = "save" /\ q # p
              => login[req[q].new] # login[req[p].new]
        /\ req[p].op = "refresh" =>
              /\ store[req[p].old] = NoUser /\ exchanged[req[p].old] = 0
              /\ login[req[p].new] = login[req[p].old]

\* What is presented, handed out or remembered was generated, and a login is
\* named after the pair it began with.
Generated ==
    /\ \A t \in Tokens : login[t] # NoToken => login[login[t]] = login[t]
    /\ \A t \in Tokens : exchanged[t] # 0 \/ t \in loggedOut.refresh
          => login[t] # NoToken
    /\ \A b \in Browsers : cookie[b] # NoToken => login[cookie[b]] # NoToken
    /\ \A p \in Procs :
          /\ req[p].old # NoToken => login[req[p].old] # NoToken
          /\ req[p].new # NoToken => login[req[p].new] # NoToken
          /\ pc[p] = "issue" => req[p].op = "login"
          /\ pc[p] \in {"blacklist", "delete"} => req[p].op = "logout"
          /\ pc[p] \in {"get", "generate", "rotate"} => req[p].old # NoToken
          /\ pc[p] = "save" /\ req[p].op = "refresh" => req[p].old # NoToken
          /\ pc[p] = "reply" /\ req[p].op \in {"login", "refresh"}
                /\ req[p].answer = "ok" => req[p].new # NoToken

\* A token that was exchanged or logged out is never stored again.
Spent ==
    /\ \A t \in Tokens : store[t] # NoUser =>
          login[t] # NoToken /\ exchanged[t] = 0 /\ t \notin loggedOut.refresh
    /\ \A p \in Procs : pc[p] = "rotate" => login[req[p].new] = login[req[p].old]
    /\ \A p \in Procs : pc[p] = "delete" =>
          req[p].token \in revoked \cup expired \cup {NoToken}
    /\ loggedOut.access \subseteq revoked \cup expired

SessionInv == /\ TypeOK /\ Generated /\ PendingUnknown /\ Consumed /\ Spent
              /\ SingleUse /\ OneTokenPerLogin
-----------------------------------------------------------------------------
(* The session a login began, as Redis and the requests in flight hold it. *)

\* The tokens of login l that work, and the requests about to store one.
Holders(l) == {t \in Tokens : store[t] # NoUser /\ login[t] = l}
Movers(l)  == {p \in Procs : pc[p] = "save" /\ login[req[p].new] = l}

NoSession   == [state |-> "none", user |-> NoUser, token |-> NoToken]
OverSession == [state |-> "over", user |-> NoUser, token |-> NoToken]

SessionOf(l) ==
    IF login[l] # l THEN NoSession
    ELSE IF Holders(l) # {}
    THEN LET t == CHOOSE t \in Holders(l) : TRUE
         IN  [state |-> "held", user |-> store[t], token |-> t]
    ELSE IF Movers(l) # {}
    THEN LET p == CHOOSE p \in Movers(l) : TRUE
         IN  [state |-> "moving", user |-> req[p].user, token |-> NoToken]
    ELSE OverSession

UsedTokens == {t \in Tokens : login[t] # NoToken}
                 \ {req[p].new : p \in {q \in Procs : Pending(q)}}

Contract == INSTANCE Session WITH session <- [l \in Tokens |-> SessionOf(l)],
                                  used <- UsedTokens

\* Refreshing never changes whose session it is, a session that is over never
\* comes back, and it moves on to a token that never worked before: not to
\* one that was exchanged, logged out or lost on its way to the browser.
SessionContract == Contract!Spec
=============================================================================
