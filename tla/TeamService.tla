----------------------------- MODULE TeamService ----------------------------
(***************************************************************************)
(* The operations of internal/service/team.go that change a team, one      *)
(* action per SQL statement that other requests can be interleaved with.   *)
(*                                                                         *)
(* A statement that only touches rows the transaction has locked already   *)
(* is merged with the commit that follows it: until then no other request  *)
(* can see the difference.                                                 *)
(***************************************************************************)
EXTENDS Store

\* The request p reaches the service, which executes the statement "at".
Receive(p, op, u, v, r, at) ==
    /\ op \in Ops
    /\ pc[p] = "idle"
    /\ pc' = [pc EXCEPT ![p] = at]
    /\ req' = [req EXCEPT ![p] =
                 [NoRequest EXCEPT !.op = op, !.actor = u, !.target = v,
                                   !.newRole = r]]
    /\ UNCHANGED <<dbVars, lockVars, locals>>

\* This instance has room for one team, with a fresh id.
RequestCreateTeam(p)   == /\ team = "absent"
                          /\ \A q \in Procs : req[q].op # "CreateTeam"
                          /\ \E u \in Users : Receive(p, "CreateTeam", u, u, NoRole, "create_team")
RequestDeleteTeam(p)   == \E u \in Users : Receive(p, "DeleteTeam", u, u, NoRole, "lock_actor")
RequestLeaveTeam(p)    == \E u \in Users : Receive(p, "LeaveTeam", u, u, NoRole, "lock_target")
RequestTransfer(p)     == \E u, v \in Users : Receive(p, "TransferOwnership", u, v, NoRole, "lock_actor")
RequestRemoveMember(p) == \E u, v \in Users : Receive(p, "RemoveMember", u, v, NoRole, "read_actor")
RequestInvite(p)       == \E u, v \in Users, r \in GrantableRoles :
                              Receive(p, "InviteMember", u, v, r, "read_actor")
RequestChangeRole(p)   == \E u, v \in Users, r \in GrantableRoles :
                              Receive(p, "ChangeMemberRole", u, v, r, "read_actor")

-----------------------------------------------------------------------------
(* Reading the caller's and the target's roles.                            *)

\* memberRole: a plain SELECT of the caller's role.  A non-member is refused.
AfterReadActor(op) == CASE op = "InviteMember" -> "invite"
                        [] op = "CreateTask"   -> "create_assignee"
                        [] OTHER               -> "lock_target"

ReadActor(p) ==
    /\ pc[p] = "read_actor"
    /\ \/ /\ ~IsMember(Actor(p))
          /\ Rollback(p)
       \/ /\ IsMember(Actor(p))
          /\ actorRole' = [actorRole EXCEPT ![p] = role[Actor(p)]]
          /\ Goto(p, AfterReadActor(req[p].op))
          /\ UNCHANGED <<lockVars, targetRole, seen, audited>>

\* GetMemberRoleForUpdate of the caller, in DeleteTeam and TransferOwnership.
LockActor(p) ==
    /\ pc[p] = "lock_actor"
    /\ \/ /\ ~IsMember(Actor(p))
          /\ Rollback(p)
       \/ /\ LockMember(p, Actor(p))
          /\ actorRole' = [actorRole EXCEPT ![p] = role[Actor(p)]]
          /\ Goto(p, IF req[p].op = "DeleteTeam" THEN "delete_team"
                     ELSE "transfer_target")
          /\ UNCHANGED <<taskLock, targetRole, seen, audited>>

\* GetMemberRoleForUpdate of the target, in ChangeMemberRole, RemoveMember
\* and (the target being the caller) LeaveTeam.
\* A bug: the target's role is read without locking its row.
LockTargetNoLock(p) ==
    /\ pc[p] = "lock_target"
    /\ \/ /\ ~IsMember(Target(p))
          /\ Rollback(p)
       \/ /\ IsMember(Target(p))
          /\ targetRole' = [targetRole EXCEPT ![p] = role[Target(p)]]
          /\ Goto(p, IF req[p].op = "ChangeMemberRole" THEN "change_role"
                     ELSE "unassign_history")
          /\ UNCHANGED <<lockVars, actorRole, seen, audited>>

LockTarget(p) ==
    /\ pc[p] = "lock_target"
    /\ \/ /\ ~IsMember(Target(p))
          /\ Rollback(p)
       \/ /\ LockMember(p, Target(p))
          /\ targetRole' = [targetRole EXCEPT ![p] = role[Target(p)]]
          /\ Goto(p, IF req[p].op = "ChangeMemberRole" THEN "change_role"
                     ELSE "unassign_history")
          /\ UNCHANGED <<taskLock, actorRole, seen, audited>>

-----------------------------------------------------------------------------
(* CreateTeam, InviteMember, ChangeMemberRole.                             *)

\* The team and its owner are inserted in one transaction that reads nothing.
CreateTeam(p) ==
    /\ pc[p] = "create_team"
    /\ team' = "live"
    /\ AddMember(Actor(p), "owner")
    /\ Commit(p, "idle")
    /\ UNCHANGED <<task, history>>

\* The INSERT waits for the team's row and for a lock on the row with its
\* key.  It fails on an existing row (primary key) and on a deleted team
\* (foreign key).
InviteMember(p) ==
    /\ pc[p] = "invite"
    /\ LET allowed == /\ CanInvite(actorRole[p], req[p].newRole) = "ok"
                      /\ Target(p) # Actor(p)
       IN \/ /\ ~allowed
             /\ Rollback(p)
          \/ /\ allowed
             /\ TeamFree /\ memberLock[Target(p)] = NoProc
             /\ IsMember(Target(p)) \/ team # "live"
             /\ Rollback(p)
          \/ /\ allowed
             /\ TeamFree /\ memberLock[Target(p)] = NoProc
             /\ ~IsMember(Target(p)) /\ team = "live"
             /\ AddMember(Target(p), req[p].newRole)
             /\ Commit(p, "idle")
             /\ UNCHANGED <<team, task, history>>

ChangeMemberRole(p) ==
    /\ pc[p] = "change_role"
    /\ LET decision == CanChangeRole(actorRole[p], targetRole[p],
                                     req[p].newRole, Actor(p) = Target(p))
       IN \/ /\ decision # "ok"
             /\ Rollback(p)
          \/ /\ decision = "ok"
             /\ UpdateMemberRole(Target(p), req[p].newRole)
             /\ Commit(p, "idle")
             /\ UNCHANGED <<team, task, history>>

-----------------------------------------------------------------------------
(* TransferOwnership and DeleteTeam.                                       *)

TransferTarget(p) ==
    /\ pc[p] = "transfer_target"
    /\ \/ /\ \/ CanTransferOwnership(actorRole[p], Actor(p) = Target(p)) # "ok"
             \/ ~IsMember(Target(p))
          /\ Rollback(p)
       \/ /\ CanTransferOwnership(actorRole[p], Actor(p) = Target(p)) = "ok"
          /\ LockMember(p, Target(p))
          /\ Goto(p, "transfer")
          /\ UNCHANGED <<taskLock, actorRole, targetRole, seen, audited>>

\* A bug: the previous owner is demoted too far.
TransferDemoting(p) ==
    /\ pc[p] = "transfer"
    /\ role' = [role EXCEPT ![Target(p)] = "owner", ![Actor(p)] = "member"]
    /\ Commit(p, "idle")
    /\ UNCHANGED <<team, task, history>>

TransferOwnership(p) ==
    /\ pc[p] = "transfer"
    /\ role' = [role EXCEPT ![Target(p)] = "owner", ![Actor(p)] = "admin"]
    /\ Commit(p, "idle")
    /\ UNCHANGED <<team, task, history>>

\* DELETE FROM teams cascades to every membership, task and history row of
\* the team and waits for their locks: for the tasks first (the cascades run
\* in the order of the foreign keys' names), then for the memberships.
DeleteTeamTasks(p) ==
    /\ pc[p] = "delete_team"
    /\ \/ /\ CanDeleteTeam(actorRole[p]) # "ok"
          /\ Rollback(p)
       \/ /\ CanDeleteTeam(actorRole[p]) = "ok"
          /\ Lockable(p, Tasks)
          /\ LockTasks(p, {t \in Tasks : Live(t)})
          /\ Goto(p, "cascade")
          /\ UNCHANGED <<memberLock, actorRole, targetRole, seen, audited>>

DeleteTeam(p) ==
    /\ pc[p] = "cascade"
    /\ \A u \in Users : memberLock[u] \in {NoProc, p}
    /\ Lockable(p, Tasks)
    /\ team' = "deleted"
    /\ role' = [u \in Users |-> NoRole]
    /\ task' = [t \in Tasks |-> IF Live(t) THEN DeletedRow ELSE task[t]]
    /\ history' = [t \in Tasks |-> <<>>]
    /\ CommitTasks(p)

-----------------------------------------------------------------------------
(* RemoveMember and LeaveTeam: the membership is deleted and UnassignUser  *)
(* runs two statements, each on the tasks assigned to the target when it   *)
(* executes.                                                               *)

RemovalDecision(p) ==
    IF req[p].op = "LeaveTeam" THEN CanLeave(targetRole[p])
    ELSE CanRemoveMember(actorRole[p], targetRole[p], Actor(p) = Target(p))

\* INSERT INTO task_history ... SELECT ... FOR UPDATE.
UnassignHistory(p) ==
    /\ pc[p] = "unassign_history"
    /\ \/ /\ RemovalDecision(p) # "ok"
          /\ Rollback(p)
       \/ /\ RemovalDecision(p) = "ok"
          /\ Lockable(p, AssignedTo(Target(p)))
          /\ LockTasks(p, AssignedTo(Target(p)))
          /\ audited' = [audited EXCEPT ![p] = AssignedTo(Target(p))]
          /\ Goto(p, "unassign_update")
          /\ UNCHANGED <<memberLock, actorRole, targetRole, seen>>

\* A bug: the statement forgets to bump the version.
UnassignedSameVersion(row) == [row EXCEPT !.assignee_id = NoUser]

Unassigned(row) == [row EXCEPT !.assignee_id = NoUser, !.version = @ + 1]

\* A bug: the task lists are not invalidated.
UnassignUpdateNoInvalidate(p) ==
    /\ pc[p] = "unassign_update"
    /\ LET S == AssignedTo(Target(p))
       IN /\ Lockable(p, S)
          /\ task' = [t \in Tasks |-> IF t \in S THEN Unassigned(task[t])
                                      ELSE task[t]]
          /\ Commit(p, "idle")
    /\ history' = [t \in Tasks |->
          IF t \in audited[p]
          THEN Append(history[t], Entry(Actor(p), {"assignee_id"}, task[t],
                                        Unassigned(task[t])))
          ELSE history[t]]
    /\ RemoveMember(Target(p))
    /\ UNCHANGED team

\* A bug: only the tasks that the first statement recorded are unassigned.
UnassignRecordedOnly(p) ==
    /\ pc[p] = "unassign_update"
    /\ task' = [t \in Tasks |-> IF t \in audited[p] THEN Unassigned(task[t])
                                ELSE task[t]]
    /\ IF audited[p] # {} THEN CommitTasks(p) ELSE Commit(p, "idle")
    /\ history' = [t \in Tasks |->
          IF t \in audited[p]
          THEN Append(history[t], Entry(Actor(p), {"assignee_id"}, task[t],
                                        Unassigned(task[t])))
          ELSE history[t]]
    /\ RemoveMember(Target(p))
    /\ UNCHANGED team

\* UPDATE tasks SET assignee_id = NULL, then the commit.  The lists are
\* invalidated when the UPDATE found a row.
UnassignUpdate(p) ==
    /\ pc[p] = "unassign_update"
    /\ LET S == AssignedTo(Target(p))
       IN /\ Lockable(p, S)
          /\ task' = [t \in Tasks |-> IF t \in S THEN Unassigned(task[t])
                                      ELSE task[t]]
          /\ IF S # {} THEN CommitTasks(p) ELSE Commit(p, "idle")
    /\ history' = [t \in Tasks |->
          IF t \in audited[p]
          THEN Append(history[t], Entry(Actor(p), {"assignee_id"}, task[t],
                                        Unassigned(task[t])))
          ELSE history[t]]
    /\ RemoveMember(Target(p))
    /\ UNCHANGED team
=============================================================================
