----------------------------- MODULE TaskService ----------------------------
(***************************************************************************)
(* CreateTask, UpdateTask and DeleteTask of internal/service/task.go.      *)
(***************************************************************************)
EXTENDS Store

ReceiveTask(p, op, u, v, t, e, at) ==
    /\ op \in Ops
    /\ pc[p] = "idle"
    /\ pc' = [pc EXCEPT ![p] = at]
    /\ req' = [req EXCEPT ![p] =
                 [NoRequest EXCEPT !.op = op, !.actor = u, !.target = v,
                                   !.task = t, !.edit = e]]
    /\ UNCHANGED <<dbVars, lockVars, actorRole, targetRole, seen, audited>>

\* The target is the assignee, the caller by default.  The id of the new
\* task is fresh: no other request generates it.
RequestCreateTask(p) ==
    \E u, v \in Users, t \in Tasks :
        /\ task[t].state = "absent"
        /\ \A q \in Procs : req[q].task # t
        /\ ReceiveTask(p, "CreateTask", u, v, t, NoEdit, "read_actor")
        /\ UNCHANGED view

RequestDeleteTask(p) ==
    \E u \in Users, t \in Tasks :
        /\ Live(t)
        /\ ReceiveTask(p, "DeleteTask", u, u, t, NoEdit, "lock_task")
        /\ UNCHANGED view

\* The client has loaded the task (GetTask, which visibleTask refuses to a
\* non-member), and sends an update with the version it saw.
RequestUpdateTask(p) ==
    \E u \in Users, t \in Tasks, e \in ClientEdits :
        /\ Live(t) /\ IsMember(u)
        /\ task[t].version < MaxVersion
        /\ ReceiveTask(p, "UpdateTask", u, u, t, e, "lock_task")
        /\ view' = [view EXCEPT ![p] = task[t]]

-----------------------------------------------------------------------------
(* CreateTask checks both memberships before its transaction begins.       *)

CreateAssignee(p) ==
    /\ pc[p] = "create_assignee"
    /\ \/ /\ ~IsMember(Target(p))
          /\ Rollback(p)
       \/ /\ IsMember(Target(p))
          /\ Goto(p, "create_task")
          /\ UNCHANGED <<lockVars, actorRole, targetRole, seen, audited>>

NewRow(creator, assignee) ==
    [NoRow EXCEPT !.state = "live", !.created_by = creator,
                  !.assignee_id = assignee, !.version = 1]

\* A bug: the tasks table has no foreign key to the teams.
CreateTaskNoForeignKey(p) ==
    /\ pc[p] = "create_task"
    /\ InsertTask(req[p].task, NewRow(Actor(p), Target(p)))
    /\ UNCHANGED history
    /\ CommitTasks(p)
    /\ UNCHANGED <<team, role>>

\* The task and its "created" history row, in one transaction.  The foreign
\* key waits for a team that is being deleted and refuses a deleted one.
CreateTask(p) ==
    /\ pc[p] = "create_task"
    /\ \/ /\ team # "live"
          /\ Rollback(p)
       \/ /\ team = "live" /\ TeamFree
          /\ LET t   == req[p].task
                 row == NewRow(Actor(p), Target(p))
             IN /\ InsertTask(t, row)
                /\ AddHistory(t, Entry(Actor(p), Fields \ {"closed_at"},
                                       NoRow, row))
          /\ CommitTasks(p)
          /\ UNCHANGED <<team, role>>

-----------------------------------------------------------------------------
(* UpdateTask and DeleteTask begin by locking the task's row.              *)

\* GetByIDForUpdate.
LockTask(p) ==
    /\ pc[p] = "lock_task"
    /\ LET t == req[p].task
       IN /\ taskLock[t] = NoProc
          /\ \/ /\ ~Live(t)
                /\ Rollback(p)
             \/ /\ Live(t)
                /\ taskLock' = [taskLock EXCEPT ![t] = p]
                /\ seen' = [seen EXCEPT ![p] = task[t]]
                /\ Goto(p, IF req[p].op = "UpdateTask" THEN "update_role"
                           ELSE "delete_role")
                /\ UNCHANGED <<memberLock, actorRole, targetRole, audited>>

\* A plain SELECT of the caller's role, and the permission on the locked row.
DeleteRole(p) ==
    /\ pc[p] = "delete_role"
    /\ LET u       == Actor(p)
           allowed == /\ IsMember(u)
                      /\ "Delete" \in TaskPermissionsFor(role[u], u, seen[p])
       IN \/ /\ ~allowed
             /\ Rollback(p)
          \/ /\ allowed
             /\ Goto(p, "delete_task")
             /\ UNCHANGED <<lockVars, actorRole, targetRole, seen, audited>>

\* The DELETE, which cascades to the history, and the commit.
DeleteTask(p) ==
    /\ pc[p] = "delete_task"
    /\ task' = [task EXCEPT ![req[p].task] = DeletedRow]
    /\ history' = [history EXCEPT ![req[p].task] = <<>>]
    /\ CommitTasks(p)
    /\ UNCHANGED <<team, role>>

-----------------------------------------------------------------------------
(* applyUpdate.                                                            *)

Edited(old, field) == IF field = "keep" THEN old ELSE field

\* The row after the edit: closed_at is set when the task becomes done and
\* cleared when it is reopened.
Apply(row, e) ==
    LET status == Edited(row.status, e.status)
    IN [row EXCEPT !.content     = Edited(@, e.content),
                   !.status      = status,
                   !.closed_at   = IF status = row.status THEN @
                                   ELSE IF status = "done" THEN "time"
                                   ELSE "null",
                   !.assignee_id = Edited(@, e.assignee_id)]

\* The fields that really change.
Changed(row, e) == {f \in Fields : Apply(row, e)[f] # row[f]}

\* A field may only change with its permission, and somebody with none of
\* the three is refused even when nothing changes.
EditAllowed(perms, changed) ==
    /\ perms \cap {"EditContent", "ChangeStatus", "Reassign"} # {}
    /\ "content" \in changed => "EditContent" \in perms
    /\ "status" \in changed => "ChangeStatus" \in perms
    /\ "assignee_id" \in changed => "Reassign" \in perms

\* The client's version is the locked row's.
VersionMatches(p) == view[p].version = seen[p].version

\* The caller's role is a plain SELECT; then come the version check and the
\* permissions, against the locked row.
UpdateRole(p) ==
    /\ pc[p] = "update_role"
    /\ LET u       == Actor(p)
           changed == Changed(seen[p], req[p].edit)
           allowed == /\ IsMember(u)
                      /\ VersionMatches(p)
                      /\ EditAllowed(TaskPermissionsFor(role[u], u, seen[p]),
                                     changed)
           assigns == /\ "assignee_id" \in changed
                      /\ req[p].edit.assignee_id # NoUser
       IN \/ /\ ~allowed
             /\ Rollback(p)
          \/ /\ allowed
             /\ Goto(p, IF assigns THEN "update_assignee" ELSE "update")
             /\ UNCHANGED <<lockVars, actorRole, targetRole, seen, audited>>

\* requireMember: a plain SELECT of the new assignee's membership.
UpdateAssignee(p) ==
    /\ pc[p] = "update_assignee"
    /\ \/ /\ ~IsMember(req[p].edit.assignee_id)
          /\ Rollback(p)
       \/ /\ IsMember(req[p].edit.assignee_id)
          /\ Goto(p, "update")
          /\ UNCHANGED <<lockVars, actorRole, targetRole, seen, audited>>

\* What the UPDATE writes: every column of the row as it was read.
NewVersion(p) == [Apply(seen[p], req[p].edit) EXCEPT !.version = @ + 1]

\* A bug: the UPDATE runs outside the transaction.
UpdateTaskNoTx(p) ==
    /\ pc[p] = "update"
    /\ Changed(seen[p], req[p].edit) # {}
    /\ pc' = [pc EXCEPT ![p] = "record"]
    /\ task' = [task EXCEPT ![req[p].task] = NewVersion(p)]
    /\ UNCHANGED <<team, role, history, lockVars, req, locals>>

\* UPDATE tasks ... WHERE id = ? AND version = the version read.  Without a
\* change nothing is written and the lists stay valid.
UpdateTask(p) ==
    /\ pc[p] = "update"
    /\ LET writes == /\ Changed(seen[p], req[p].edit) # {}
                     /\ RowAt(req[p].task, seen[p].version)
       IN \/ /\ ~writes
             /\ Rollback(p)
          \/ /\ writes
             /\ Goto(p, "record")
             /\ UNCHANGED <<lockVars, actorRole, targetRole, seen, audited>>

\* The INSERT of the history row, and the commit of both.
RecordHistory(p) ==
    /\ pc[p] = "record"
    /\ task' = [task EXCEPT ![req[p].task] = NewVersion(p)]
    /\ AddHistory(req[p].task, Entry(Actor(p), Changed(seen[p], req[p].edit),
                                     seen[p], NewVersion(p)))
    /\ CommitTasks(p)
    /\ UNCHANGED <<team, role>>
=============================================================================
