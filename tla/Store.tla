------------------------------- MODULE Store --------------------------------
(***************************************************************************)
(* What the requests share: the MySQL tables team_members, tasks and       *)
(* task_history for one team, the row locks InnoDB holds on them, and the  *)
(* requests in flight.                                                     *)
(*                                                                         *)
(* A request is a process.  Between two of its SQL statements any other    *)
(* process may take a step.  Transactions run at READ COMMITTED            *)
(* (pkg/database/tx.go): a plain SELECT sees the last committed rows, a    *)
(* locking read waits for the row's lock and then sees the last committed  *)
(* row, and locks are kept until commit or rollback.  The tables below     *)
(* hold committed rows only; what a transaction has written so far is in   *)
(* its own process variables and reaches the tables in its commit step.    *)
(***************************************************************************)
EXTENDS Naturals, Sequences, RBAC

CONSTANTS
    Users,       \* rows of the users table; users are never deleted
    Tasks,       \* the task ids that may ever be generated
    Procs,       \* requests that can be in flight at the same time
    Statuses,    \* the status enum of tasks
    Contents,    \* values of title, description, priority and due_at together
    Ops,         \* the operations this instance exercises
    ClientEdits, \* the edits that clients send to UpdateTask
    MaxVersion,  \* clients stop editing a task that reached this version
    NoUser, NoTask, NoProc

\* A field of an update request is a new value, or "keep" when omitted.  A
\* request with no field at all is refused (UpdateTaskRequest.IsEmpty).
Edits == [content     : Contents \cup {"keep"},
          status      : Statuses \cup {"keep"},
          assignee_id : Users \cup {NoUser, "keep"}]

NoEdit == [content |-> "keep", status |-> "keep", assignee_id |-> "keep"]

ASSUME StoreAssumption ==
    /\ NoUser \notin Users
    /\ NoTask \notin Tasks
    /\ NoProc \notin Procs
    /\ {"todo", "done"} \subseteq Statuses
    /\ "keep" \notin Statuses \cup Contents \cup Users \cup {NoUser}
    /\ Contents # {}
    /\ MaxVersion \in Nat
    /\ ClientEdits \subseteq Edits \ {NoEdit}

VARIABLES
    team,        \* "absent", "live" or "deleted": the row in teams
    role,        \* role[u]: the role column of u's membership, or NoRole
    memberLock,  \* memberLock[u]: the transaction holding u's membership row
    task,        \* task[t]: the row in tasks
    taskLock,    \* taskLock[t]: the transaction holding t's row
    history,     \* history[t]: the rows of task_history for t, oldest first
    pc,          \* pc[p]: the statement request p executes next
    req,         \* req[p]: what request p asks for
    actorRole,   \* actorRole[p]: the caller's role as p last read it
    targetRole,  \* targetRole[p]: the target's role as p read it
    view,        \* view[p]: the row the client of an UpdateTask had loaded
    seen,        \* seen[p]: the task row as p's transaction read it
    audited      \* audited[p]: tasks p has inserted unassign history for

dbVars   == <<team, role, task, history>>
lockVars == <<memberLock, taskLock>>
locals   == <<actorRole, targetRole, view, seen, audited>>
reqVars  == <<pc, req, locals>>
vars     == <<dbVars, lockVars, reqVars>>

-----------------------------------------------------------------------------
(* Rows and requests.                                                      *)

\* The columns of a task that history records.
Fields == {"content", "status", "closed_at", "assignee_id"}

\* Whether closed_at is NULL or a time: the time itself decides nothing.
ClosingTimes == {"null", "time"}

Rows == [state       : {"absent", "live", "deleted"},
         content     : Contents,
         status      : Statuses,
         closed_at   : ClosingTimes,
         assignee_id : Users \cup {NoUser},
         created_by  : Users \cup {NoUser},
         version     : Nat]

InitialContent == CHOOSE c \in Contents : TRUE

NoRow == [state |-> "absent", content |-> InitialContent, status |-> "todo",
          closed_at |-> "null", assignee_id |-> NoUser, created_by |-> NoUser,
          version |-> 0]

DeletedRow == [NoRow EXCEPT !.state = "deleted"]

\* A task_history row: who changed which columns, and their old and new
\* values.
Entry(user, fields, before, after) ==
    [changedBy |-> user,
     changes   |-> {[field |-> f, old |-> before[f], new |-> after[f]] : f \in fields}]

Values == Contents \cup Statuses \cup ClosingTimes \cup Users \cup {NoUser}

Entries == [changedBy : Users,
            changes   : SUBSET [field : Fields, old : Values, new : Values]]

AllOps == {"CreateTeam", "DeleteTeam", "InviteMember", "LeaveTeam",
           "TransferOwnership", "ChangeMemberRole", "RemoveMember",
           "CreateTask", "UpdateTask", "DeleteTask"}

Requests == [op      : AllOps \cup {"none"},
             actor   : Users \cup {NoUser},
             target  : Users \cup {NoUser},
             newRole : GrantableRoles \cup {NoRole},
             task    : Tasks \cup {NoTask},
             edit    : Edits]

NoRequest == [op |-> "none", actor |-> NoUser, target |-> NoUser,
              newRole |-> NoRole, task |-> NoTask, edit |-> NoEdit]

Labels == {"idle", "read_actor", "lock_actor", "lock_target",
           "create_team", "invite", "change_role", "transfer_target",
           "transfer", "delete_team", "cascade", "unassign_history",
           "unassign_update", "create_assignee", "create_task", "lock_task",
           "update_role", "update_assignee", "update", "record",
           "delete_role", "delete_task", "invalidate", "commit_error"}

\* Where the request's transaction, if it had one, is over.
Ended == {"idle", "invalidate", "commit_error"}

-----------------------------------------------------------------------------
(* Transactions.                                                           *)

Actor(p)  == req[p].actor
Target(p) == req[p].target

IsMember(u) == role[u] # NoRole

\* The request ends, or goes on to the call after its transaction.
EndRequest(p, next) ==
    /\ pc' = [pc EXCEPT ![p] = next]
    /\ req' = [req EXCEPT ![p] = NoRequest]
    /\ actorRole' = [actorRole EXCEPT ![p] = NoRole]
    /\ targetRole' = [targetRole EXCEPT ![p] = NoRole]
    /\ view' = [view EXCEPT ![p] = NoRow]
    /\ seen' = [seen EXCEPT ![p] = NoRow]
    /\ audited' = [audited EXCEPT ![p] = {}]

\* Every row lock of p is released at commit and at rollback.
Unlock(p) ==
    /\ memberLock' = [u \in Users |-> IF memberLock[u] = p THEN NoProc
                                      ELSE memberLock[u]]
    /\ taskLock' = [t \in Tasks |-> IF taskLock[t] = p THEN NoProc
                                    ELSE taskLock[t]]

\* fn returned nil: the tables change as the action says, locks are freed.
\* With next = "idle" nothing follows, whether the reply to the COMMIT arrives
\* or is lost.
Commit(p, next) == Unlock(p) /\ EndRequest(p, next)

\* The same for a transaction that changed tasks: the service goes on to the
\* invalidation, or returns at once because the reply to the COMMIT was lost.
\* (After a failed COMMIT that was not applied the action is Abort.)
CommitTasks(p) == \E next \in {"invalidate", "commit_error"} : Commit(p, next)

\* A bug: an error leaves the transaction open.
RollbackLeavingTx(p) == EndRequest(p, "idle") /\ UNCHANGED <<dbVars, lockVars>>

\* fn returned an error (or a request without a transaction did): nothing
\* of what the request wrote is visible.
Rollback(p) == Unlock(p) /\ EndRequest(p, "idle") /\ UNCHANGED dbVars

\* The request executed a statement that changed no table; it goes on.
Goto(p, next) ==
    /\ pc' = [pc EXCEPT ![p] = next]
    /\ UNCHANGED <<dbVars, req, view>>

\* SELECT ... FOR UPDATE on u's membership row.  The action is enabled when
\* the row is unlocked; without a row there is nothing to lock.
LockMember(p, u) ==
    /\ memberLock[u] = NoProc
    /\ IsMember(u)
    /\ memberLock' = [memberLock EXCEPT ![u] = p]

\* A locking statement on the rows in S waits for all of them.
Lockable(p, S) == \A t \in S : taskLock[t] \in {NoProc, p}

LockTasks(p, S) ==
    taskLock' = [t \in Tasks |-> IF t \in S THEN p ELSE taskLock[t]]

Live(t) == task[t].state = "live"

\* An INSERT into a child table checks its foreign key with a shared lock on
\* the team's row, which a DELETE of the team holds until it commits.
TeamFree == \A q \in Procs : pc[q] # "cascade"

AssignedTo(u) == {t \in Tasks : Live(t) /\ task[t].assignee_id = u}

-----------------------------------------------------------------------------
(* Statements of the repositories that write one row.                      *)

AddMember(u, r) == role' = [role EXCEPT ![u] = r]

UpdateMemberRole(u, r) == role' = [role EXCEPT ![u] = r]

RemoveMember(u) == role' = [role EXCEPT ![u] = NoRole]

InsertTask(t, row) == task' = [task EXCEPT ![t] = row]

\* The row that UPDATE ... WHERE id = ? AND version = ? affects.
RowAt(t, version) == Live(t) /\ task[t].version = version

AddHistory(t, entry) == history' = [history EXCEPT ![t] = Append(@, entry)]
=============================================================================
