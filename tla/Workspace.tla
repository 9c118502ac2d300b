------------------------------ MODULE Workspace -----------------------------
(***************************************************************************)
(* One team with its members and tasks, changed by concurrent requests to  *)
(* TeamService and TaskService that share the MySQL tables.                *)
(***************************************************************************)
EXTENDS TeamService, TaskService

Init ==
    /\ team = "absent"
    /\ role = [u \in Users |-> NoRole]
    /\ memberLock = [u \in Users |-> NoProc]
    /\ task = [t \in Tasks |-> NoRow]
    /\ taskLock = [t \in Tasks |-> NoProc]
    /\ history = [t \in Tasks |-> <<>>]
    /\ pc = [p \in Procs |-> "idle"]
    /\ req = [p \in Procs |-> NoRequest]
    /\ actorRole = [p \in Procs |-> NoRole]
    /\ targetRole = [p \in Procs |-> NoRole]
    /\ view = [p \in Procs |-> NoRow]
    /\ seen = [p \in Procs |-> NoRow]
    /\ audited = [p \in Procs |-> {}]

\* After its commit a request that changed tasks calls InvalidateTeam, whose
\* error is swallowed.  What the call does in Redis is TaskCache's subject.
Invalidate(p) ==
    /\ pc[p] = "invalidate"
    /\ Rollback(p)

\* WithinTx returns "commit tx: ..." and the service returns that: it neither
\* knows that everything is written nor invalidates anything.
ReturnError(p) ==
    /\ pc[p] = "commit_error"
    /\ Rollback(p)

\* A statement fails, or the commit without having been applied: InnoDB chose
\* the transaction as deadlock victim, a lock wait timed out, the request's
\* deadline passed or the connection was lost.  Nothing is retried.
Abort(p) ==
    /\ pc[p] \notin Ended
    /\ Rollback(p)

\* Request p holds a row that others wait for, and waits for a row that q
\* holds.  (Nobody waits for a request that waits at another statement.)
WaitsFor(p, q) ==
    /\ p # q
    /\ \/ /\ pc[p] = "transfer_target"
          /\ CanTransferOwnership(actorRole[p], Actor(p) = Target(p)) = "ok"
          /\ memberLock[Target(p)] = q
       \/ /\ pc[p] = "delete_team" /\ CanDeleteTeam(actorRole[p]) = "ok"
          /\ \E t \in Tasks : taskLock[t] = q
       \/ /\ pc[p] = "cascade"
          /\ \E u \in Users : memberLock[u] = q
       \/ /\ pc[p] \in {"unassign_history", "unassign_update"}
          /\ RemovalDecision(p) = "ok"
          /\ \E t \in AssignedTo(Target(p)) : taskLock[t] = q

\* Everybody in S waits for somebody in S.
Circle(S) == S # {} /\ \A p \in S : \E q \in S : WaitsFor(p, q)

\* InnoDB's deadlock detection aborts a request in a circle.
Victim(p) ==
    /\ \E S \in SUBSET Procs : p \in S /\ Circle(S)
    /\ Abort(p)

Request(p) ==
    \/ RequestCreateTeam(p)   \/ RequestDeleteTeam(p) \/ RequestLeaveTeam(p)
    \/ RequestTransfer(p)     \/ RequestRemoveMember(p)
    \/ RequestInvite(p)       \/ RequestChangeRole(p)
    \/ RequestCreateTask(p)   \/ RequestUpdateTask(p) \/ RequestDeleteTask(p)

Step(p) ==
    \/ ReadActor(p)       \/ LockActor(p)        \/ LockTarget(p)
    \/ CreateTeam(p)      \/ InviteMember(p)     \/ ChangeMemberRole(p)
    \/ TransferTarget(p)  \/ TransferOwnership(p)
    \/ DeleteTeamTasks(p) \/ DeleteTeam(p)
    \/ UnassignHistory(p) \/ UnassignUpdate(p)
    \/ CreateAssignee(p)  \/ CreateTask(p)
    \/ LockTask(p)        \/ DeleteRole(p)       \/ DeleteTask(p)
    \/ UpdateRole(p)      \/ UpdateAssignee(p)
    \/ UpdateTask(p)      \/ RecordHistory(p)
    \/ Invalidate(p)      \/ ReturnError(p)

Next == \E p \in Procs : Request(p) \/ Step(p) \/ Abort(p)

\* A request in flight goes on.  Strong fairness is InnoDB's queue of lock
\* waits: a row that is free again and again is granted to who waits for it.
\* And InnoDB finds every circle of waiting transactions and rolls one back.
Fairness == /\ \A p \in Procs : SF_vars(Step(p))
            /\ WF_vars(\E p \in Procs : Victim(p))

Spec == Init /\ [][Next]_vars

FairSpec == Spec /\ Fairness
-----------------------------------------------------------------------------
(* What is correct.                                                        *)

\* Types of every table, lock and local variable of the requests.
TypeOK ==
    /\ team \in {"absent", "live", "deleted"}
    /\ role \in [Users -> Roles \cup {NoRole}]
    /\ memberLock \in [Users -> Procs \cup {NoProc}]
    /\ task \in [Tasks -> Rows]
    /\ taskLock \in [Tasks -> Procs \cup {NoProc}]
    /\ history \in [Tasks -> Seq(Entries)]
    /\ pc \in [Procs -> Labels]
    /\ req \in [Procs -> Requests]
    /\ actorRole \in [Procs -> Roles \cup {NoRole}]
    /\ targetRole \in [Procs -> Roles \cup {NoRole}]
    /\ view \in [Procs -> Rows]
    /\ seen \in [Procs -> Rows]
    /\ audited \in [Procs -> SUBSET Tasks]

\* "Each team always has exactly one owner" (README.md): no interleaving of
\* transfers, role changes, removals and departures leaves a team with none
\* or with two, and a team that does not exist has no members.
ExactlyOneOwner ==
    IF team = "live"
    THEN \E u \in Users : \A v \in Users : role[v] = "owner" <=> v = u
    ELSE \A u \in Users : role[u] = NoRole

\* What request p holds on to between the locking reads of its membership
\* rows and its commit: the locks, the roles it read, and what it decided.
RolesHeld(p) ==
    /\ pc[p] \in {"transfer_target", "transfer", "delete_team", "cascade"} =>
         memberLock[Actor(p)] = p /\ role[Actor(p)] = actorRole[p]
    /\ pc[p] \in {"change_role", "unassign_history", "unassign_update"} =>
         memberLock[Target(p)] = p /\ role[Target(p)] = targetRole[p]
    /\ pc[p] = "transfer" =>
         /\ memberLock[Target(p)] = p
         /\ CanTransferOwnership(actorRole[p], Actor(p) = Target(p)) = "ok"
    /\ pc[p] = "cascade" => CanDeleteTeam(actorRole[p]) = "ok"
    /\ pc[p] = "unassign_update" => RemovalDecision(p) = "ok"

\* The roles a request decides on, read under a lock (GetMemberRoleForUpdate),
\* are still the committed ones when it commits; and a locked row exists.
MemberLocks ==
    /\ \A u \in Users : memberLock[u] # NoProc => IsMember(u)
    /\ \A p \in Procs : RolesHeld(p)

\* The statements of UpdateTask and DeleteTask, and those after the lock.
TaskLabels == {"lock_task", "update_role", "update_assignee", "update", "record",
               "delete_role", "delete_task"}
RowLabels  == TaskLabels \ {"lock_task"}

\* The same for the task row that UpdateTask and DeleteTask read; and what
\* a client loaded is older than the row, by its version, or still the row.
RowHeld(p) ==
    /\ pc[p] \in RowLabels =>
         /\ taskLock[req[p].task] = p
         /\ Live(req[p].task) /\ seen[p] = task[req[p].task]
    /\ pc[p] \in {"update_assignee", "update", "record"} => VersionMatches(p)
    /\ pc[p] = "record" => Changed(seen[p], req[p].edit) # {}
    /\ req[p].op = "UpdateTask" /\ Live(req[p].task) =>
         \/ view[p].version < task[req[p].task].version
         \/ view[p] = task[req[p].task]

\* The row that a request to TaskService checked, locked (GetByIDForUpdate),
\* is the committed one until the request commits; a version never stands
\* for two different rows.
TaskLocks == \A p \in Procs : RowHeld(p)

\* What a request may ask for at each statement.
TaskOps == {"UpdateTask", "DeleteTask"}

Shape(p) ==
    /\ pc[p] \in Ended => req[p] = NoRequest
    /\ pc[p] \notin Ended => req[p].actor \in Users /\ req[p].target \in Users
    /\ pc[p] = "create_team" <=> req[p].op = "CreateTeam"
    /\ pc[p] \in TaskLabels <=> req[p].op \in TaskOps
    /\ pc[p] \in {"update_role", "update_assignee", "update", "record"} =>
         req[p].op = "UpdateTask"
    /\ pc[p] = "update_assignee" => req[p].edit.assignee_id \in Users
    /\ pc[p] \in {"create_assignee", "create_task"} => req[p].op = "CreateTask"
    /\ req[p].op \in TaskOps \cup {"CreateTask"} <=> req[p].task \in Tasks

RequestShape == \A p \in Procs : Shape(p)

\* Ids are fresh: what a request creates does not exist, and no other
\* request creates it; a task that a request names exists or existed.
FreshIds ==
    \A p \in Procs :
       /\ req[p].op = "CreateTeam" =>
            /\ team = "absent"
            /\ \A q \in Procs : req[q].op = "CreateTeam" => q = p
       /\ req[p].op = "CreateTask" =>
            /\ task[req[p].task].state = "absent"
            /\ \A q \in Procs : req[q].task = req[p].task => q = p
       /\ req[p].op \in TaskOps => task[req[p].task].state # "absent"

\* The inductive invariant.
Inv == /\ TypeOK /\ RequestShape /\ FreshIds
       /\ MemberLocks /\ TaskLocks /\ ExactlyOneOwner

\* The rows that the transaction of request p may hold where it is.  A removal
\* holds the tasks it has recorded as unassigned, and they are still the
\* target's; the deletion of a team holds every task, and none is added.
Holds(p) ==
    /\ \A u \in Users : memberLock[u] = p =>
         \/ /\ u = Actor(p)
            /\ pc[p] \in {"transfer_target", "transfer", "delete_team", "cascade"}
         \/ /\ u = Target(p)
            /\ pc[p] \in {"transfer", "change_role", "unassign_history", "unassign_update"}
    /\ \A t \in Tasks : taskLock[t] = p =>
         \/ pc[p] \in RowLabels /\ t = req[p].task
         \/ pc[p] = "cascade"
         \/ pc[p] = "unassign_update" /\ t \in audited[p]
    /\ pc[p] = "unassign_update" =>
         \A t \in audited[p] : taskLock[t] = p /\ t \in AssignedTo(Target(p))
    /\ pc[p] = "cascade" => \A t \in Tasks : Live(t) => taskLock[t] = p

\* No transaction holds a row it is not working on: membership and task rows
\* are held from their locking reads to the end of the transaction, and a
\* request that has ended, failed or been aborted holds nothing.
LockHolders == \A p \in Procs : Holds(p)

\* Requests change a team only in the indivisible ways of module Team,
\* although ChangeMemberRole, RemoveMember, LeaveTeam, TransferOwnership and
\* InviteMember decide on roles they read several statements earlier.
Contract == INSTANCE Team WITH Users <- Users, team <- team, role <- role
TeamContract == Contract!Spec

\* The same for the team and its tasks together: in the indivisible ways of
\* module Board, although a removal unassigns tasks in two statements and an
\* edit is computed from a row that was read several statements earlier.
Promise == INSTANCE Board
BoardContract == Promise!BoardSpec

\* And what the comments rely on, in the words of module Work: however the
\* creation of a task, its deletion and its team's deletion interleave, a task
\* begins in a team that exists, ends at the latest with it, and never comes
\* back.
Ground == INSTANCE Work WITH task <- [t \in Tasks |-> task[t].state]
WorkContract == Ground!WorkSpec

\* closed_at "tracks when the task reached done; reopening clears it"
\* (task.go), through any sequence of edits.
ClosedWhenDone ==
    \A t \in Tasks : Live(t) => (task[t].closed_at = "time" <=> task[t].status = "done")

\* CreateTask reads the caller's and the assignee's memberships before its
\* transaction begins, and the team may be deleted meanwhile: still no task
\* ever exists outside a team.
TasksHaveTeam == \A t \in Tasks : Live(t) => team = "live"

\* "Concurrent writers get 409, never a lost update"
\* (README.md): when UpdateTask writes, the row it replaces is in every column
\* the one the client had loaded, whatever was assigned, unassigned, edited or
\* deleted since.
NoLostUpdate ==
    [][\A p \in Procs :
          pc[p] = "record" /\ pc'[p] \in {"invalidate", "commit_error"}
             => task[req[p].task] = view[p]]_vars

\* The changes of column f that row i of a task's history h records.
Records(h, f, i) == {c \in h[i].changes : c.field = f}

\* By the first n rows of h, column f has the value v.
Recorded(h, f, n, v) ==
    \/ v = NoRow[f] /\ \A i \in 1 .. n : Records(h, f, i) = {}
    \/ \E i \in 1 .. n : /\ \E c \in Records(h, f, i) : c.new = v
                         /\ \A j \in (i + 1) .. n : Records(h, f, j) = {}

\* Every recorded change starts from the value that the ones before left, and
\* the last one leaves the row's.
Replays(h, f, row) ==
    /\ \A i \in 1 .. Len(h) : \A c \in Records(h, f, i) :
          Recorded(h, f, i - 1, c.old)
    /\ Recorded(h, f, Len(h), row[f])

\* The same for the assignee, who may have been removed without a record.
Follows(h, n, v) == Recorded(h, "assignee_id", n, v) \/ v = NoUser

ReplaysAssignee(h, row) ==
    /\ \A i \in 1 .. Len(h) : \A c \in Records(h, "assignee_id", i) :
          Follows(h, i - 1, c.old)
    /\ Follows(h, Len(h), row.assignee_id)

\* The history h of a task with this row: the recorded changes of a column
\* other than the assignee form a chain that ends in the column's value,
\* wherever the assignee is not the recorded one there is none, and there is
\* never more history than there were changes.
Trail(h, row) ==
    /\ \A f \in Fields \ {"assignee_id"} : Replays(h, f, row)
    /\ ReplaysAssignee(h, row)
    /\ Len(h) <= row.version

\* What the audit trail guarantees in every interleaving of edits, removals
\* and deletions: the history of a task replays its row, and none outlives
\* its task.
AuditTrail ==
    \A t \in Tasks : IF Live(t) THEN Trail(history[t], task[t])
                    ELSE history[t] = <<>>

\* "Every change records old and new values" (README.md): history replays
\* every column, and has one row for each version of the task.
AuditComplete ==
    \A t \in Tasks : Live(t) =>
        /\ \A f \in Fields : Replays(history[t], f, task[t])
        /\ Len(history[t]) = task[t].version

\* A step that changes a task, through whichever of the six operations that do,
\* leaves its request at the call that invalidates the team's cached task
\* lists.  The one exception: when the COMMIT was applied and its reply lost,
\* the service returns the error without that call.
EveryWriteInvalidates ==
    [][task' # task =>
          \E p \in Procs : /\ pc[p] \notin Ended
                           /\ pc'[p] \in {"invalidate", "commit_error"}]_vars

\* "An assignee must belong to the task's team" (README.md).
AssigneeInTeam ==
    \A t \in Tasks : Live(t) /\ task[t].assignee_id # NoUser
                         => IsMember(task[t].assignee_id)

\* Change roles / remove members: an admin, "members only" (README.md).  The
\* caller's role is read without a lock and may be an old one when the change
\* commits: whoever changes another one's row has been a manager, and an
\* admin's row falls only to somebody who was the owner when he asked.
AdminsTouchOnlyMembers ==
    [][\A p \in Procs :
          ( /\ pc[p] \in {"change_role", "unassign_update"} /\ pc'[p] # pc[p]
            /\ req[p].op # "LeaveTeam"
            /\ role'[Target(p)] # role[Target(p)] )
             => \/ actorRole[p] = "admin" /\ role[Target(p)] = "member"
                \/ actorRole[p] = "owner" /\ role[Target(p)] # "owner"]_vars

\* The locks that the services take one after the other never make requests
\* wait for each other in a circle, whatever roles and rows they ask for;
\* only the cascade of a team's deletion, whose order is InnoDB's, can.
OnlyCascadesDeadlock ==
    \A S \in SUBSET Procs : Circle(S) => \E p \in S : pc[p] = "cascade"

\* Request p waits: the row its statement needs is locked by another one.
Waiting(p) ==
    \/ pc[p] = "lock_actor" /\ IsMember(Actor(p)) /\ memberLock[Actor(p)] # NoProc
    \/ pc[p] = "lock_target" /\ IsMember(Target(p)) /\ memberLock[Target(p)] # NoProc
    \/ pc[p] = "lock_task" /\ taskLock[req[p].task] # NoProc
    \/ /\ pc[p] = "invite" /\ Target(p) # Actor(p)
       /\ CanInvite(actorRole[p], req[p].newRole) = "ok"
       /\ ~TeamFree \/ memberLock[Target(p)] # NoProc
    \/ pc[p] = "create_task" /\ team = "live" /\ ~TeamFree
    \/ /\ pc[p] = "transfer_target" /\ IsMember(Target(p))
       /\ CanTransferOwnership(actorRole[p], Actor(p) = Target(p)) = "ok"
       /\ memberLock[Target(p)] # NoProc
    \/ /\ pc[p] = "delete_team" /\ CanDeleteTeam(actorRole[p]) = "ok"
       /\ ~Lockable(p, Tasks)
    \/ /\ pc[p] = "cascade"
       /\ ~Lockable(p, Tasks) \/ \E u \in Users : memberLock[u] \notin {NoProc, p}
    \/ /\ pc[p] \in {"unassign_history", "unassign_update"}
       /\ RemovalDecision(p) = "ok" /\ ~Lockable(p, AssignedTo(Target(p)))

\* When every request in flight waits, some wait for each other in a circle,
\* which InnoDB's deadlock detection breaks: nobody waits for a lock that a
\* request left behind, and no wait is hidden from the detection.
StuckMeansCircle ==
    LET inFlight == {p \in Procs : pc[p] # "idle"}
    IN inFlight # {} /\ (\A p \in inFlight : Waiting(p))
          => \E S \in SUBSET inFlight : Circle(S)

\* Every request is answered although none times out: no path leaves a
\* transaction open with its row locks, and nobody waits for ever behind
\* others.
RequestsFinish ==
    \A p \in Procs : pc[p] # "idle" ~> pc[p] = "idle"
=============================================================================
