-------------------------------- MODULE Team --------------------------------
(***************************************************************************)
(* What the team endpoints promise about a team, whatever the interleaving *)
(* of the requests: each change of its membership is one indivisible step  *)
(* of the kinds below.  There are no requests, transactions or locks here. *)
(* Workspace is shown to implement this specification.                     *)
(***************************************************************************)
EXTENDS RBAC

CONSTANT Users

VARIABLES team, role

Init == team = "absent" /\ role = [u \in Users |-> NoRole]

\* A team comes into being together with its owner.
Found(u) ==
    /\ team = "absent"
    /\ team' = "live"
    /\ role' = [role EXCEPT ![u] = "owner"]

\* Somebody outside the team joins; never as an owner.
Join(u, r) ==
    /\ team = "live" /\ role[u] = NoRole
    /\ role' = [role EXCEPT ![u] = r]
    /\ UNCHANGED team

\* A member who is not the owner gets another role; never the owner's.
Regrade(u, r) ==
    /\ role[u] \in GrantableRoles \ {r}
    /\ role' = [role EXCEPT ![u] = r]
    /\ UNCHANGED team

\* The owner hands the team to another member and becomes an admin.
HandOver(u, v) ==
    /\ u # v /\ role[u] = "owner" /\ role[v] # NoRole
    /\ role' = [role EXCEPT ![v] = "owner", ![u] = "admin"]
    /\ UNCHANGED team

\* A member who is not the owner is removed or leaves.
Depart(u) ==
    /\ role[u] \in GrantableRoles
    /\ role' = [role EXCEPT ![u] = NoRole]
    /\ UNCHANGED team

\* The team is deleted with every membership.
Dissolve ==
    /\ team = "live"
    /\ team' = "deleted"
    /\ role' = [u \in Users |-> NoRole]

Next ==
    \/ \E u \in Users : Found(u) \/ Depart(u)
    \/ \E u \in Users, r \in GrantableRoles : Join(u, r) \/ Regrade(u, r)
    \/ \E u, v \in Users : HandOver(u, v)
    \/ Dissolve

Spec == Init /\ [][Next]_<<team, role>>
=============================================================================
