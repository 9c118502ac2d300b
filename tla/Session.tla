------------------------------ MODULE Session -------------------------------
(***************************************************************************)
(* What login, refresh and logout together promise about a session, with   *)
(* no requests, cookies or Redis.  A session belongs to one user for ever. *)
(* It is held by one refresh token at a time, or by none while it moves to *)
(* the next one; it may be lost at any moment, and then it is over.  A     *)
(* token begins to work at most once.  Sessions is shown to implement this *)
(* specification.                                                          *)
(***************************************************************************)
CONSTANTS Users, Tokens, NoUser, NoToken

VARIABLES
    session,    \* session[l]: the session that began with the token l
    used        \* the tokens that can no longer begin to work

None        == [state |-> "none",   user |-> NoUser, token |-> NoToken]
Held(u, t)  == [state |-> "held",   user |-> u,      token |-> t]
Moving(u)   == [state |-> "moving", user |-> u,      token |-> NoToken]
Over        == [state |-> "over",   user |-> NoUser, token |-> NoToken]

Init == session = [l \in Tokens |-> None] /\ used = {}

\* Tokens are used up for ever, whether or not they ever worked.
Burn == used \subseteq used'

Become(l, s) == session' = [session EXCEPT ![l] = s]

\* A login of user u.
Start(l, u) == session[l] = None /\ Become(l, Moving(u)) /\ Burn

\* The session moves to a token that never worked before.
Settle(l, u, t) ==
    /\ session[l] = Moving(u)
    /\ t \notin used /\ t \in used'
    /\ Become(l, Held(u, t))
    /\ Burn

\* The token that holds the session is exchanged.
Move(l, u, t) == session[l] = Held(u, t) /\ Become(l, Moving(u)) /\ Burn

\* Logout, expiry, or a refresh that fails half-way.
End(l) == session[l].state \in {"held", "moving"} /\ Become(l, Over) /\ Burn

Next ==
    \/ UNCHANGED session /\ Burn
    \/ \E l \in Tokens :
          \/ End(l)
          \/ \E u \in Users : Start(l, u) \/ \E t \in Tokens : Settle(l, u, t) \/ Move(l, u, t)

Spec == Init /\ [][Next]_<<session, used>>
=============================================================================
