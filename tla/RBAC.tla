-------------------------------- MODULE RBAC --------------------------------
(***************************************************************************)
(* The authorisation policy of internal/service/rbac.go.  Every operator   *)
(* is pure, like the Go function it is named after: roles and rows in, a   *)
(* decision out.  A Go function that returns an error returns here "ok" or *)
(* the code of that error; the order of its cases is kept, because it      *)
(* decides which error a request that breaks two rules gets.               *)
(***************************************************************************)

\* The role of a membership row (domain/team.go), and the value that stands
\* for "there is no such row".
Roles  == {"owner", "admin", "member"}
NoRole == "none"

\* The roles a request may ask for: validation accepts nothing else.
GrantableRoles == {"admin", "member"}

IsManager(r) == r \in {"owner", "admin"}

CanInvite(actor, invitee) ==
    IF ~IsManager(actor)               THEN "forbidden"
    ELSE IF invitee \in GrantableRoles THEN "ok"
    ELSE "invalid_input"

\* A bug: the owner's row is not protected.
CanChangeRoleOwnerToo(actor, target, newRole, self) ==
    IF newRole \notin GrantableRoles THEN "invalid_input"
    ELSE IF self                     THEN "invalid_input"
    ELSE IF ~IsManager(actor)        THEN "forbidden"
    ELSE IF target = newRole         THEN "invalid_input"
    ELSE "ok"

CanChangeRole(actor, target, newRole, self) ==
    IF newRole \notin GrantableRoles               THEN "invalid_input"
    ELSE IF self                                   THEN "invalid_input"
    ELSE IF ~IsManager(actor)                      THEN "forbidden"
    ELSE IF target = "owner"                       THEN "forbidden"
    ELSE IF actor = "admin" /\ target = "admin"    THEN "forbidden"
    ELSE IF target = newRole                       THEN "invalid_input"
    ELSE "ok"

CanRemoveMember(actor, target, self) ==
    IF self                                        THEN "invalid_input"
    ELSE IF ~IsManager(actor)                      THEN "forbidden"
    ELSE IF target = "owner"                       THEN "forbidden"
    ELSE IF actor = "admin" /\ target = "admin"    THEN "forbidden"
    ELSE "ok"

CanDeleteTeam(r) == IF r # "owner" THEN "forbidden" ELSE "ok"

CanLeave(r) == IF r = "owner" THEN "forbidden" ELSE "ok"

\* A bug: every manager may hand the team over.
CanTransferManagers(actor, self) ==
    IF ~IsManager(actor) THEN "forbidden"
    ELSE IF self         THEN "invalid_input"
    ELSE "ok"

CanTransferOwnership(actor, self) ==
    IF actor # "owner" THEN "forbidden"
    ELSE IF self       THEN "invalid_input"
    ELSE "ok"

\* What a user with role r may do to a task row: the names of the granted
\* permissions of TaskPermissions.
TaskPermissionsFor(r, user, row) ==
    IF IsManager(r) \/ row.created_by = user
    THEN {"EditContent", "ChangeStatus", "Reassign", "Delete"}
    ELSE IF row.assignee_id = user THEN {"ChangeStatus"}
    ELSE {}
=============================================================================
