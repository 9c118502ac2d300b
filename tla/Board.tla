-------------------------------- MODULE Board -------------------------------
(***************************************************************************)
(* What the team and task endpoints together promise about a team and its  *)
(* tasks, with no requests, transactions, locks or versions to present:    *)
(* each change is one indivisible step.  Somebody who leaves loses his     *)
(* tasks in the same step ("their tasks are unassigned in the same         *)
(* transaction", README.md), and a team that is deleted takes its tasks    *)
(* along.  Workspace is shown to implement this specification.             *)
(***************************************************************************)
EXTENDS Naturals, Team

CONSTANTS Tasks, Statuses, Contents, NoUser,
          NoRow       \* the row of a task that does not exist yet

VARIABLE task         \* task[t]: state and columns of task t

Exists(t) == task[t].state = "live"

Deleted == [NoRow EXCEPT !.state = "deleted"]

BoardInit == Init /\ task = [t \in Tasks |-> NoRow]

\* A task comes into being in a team that exists, open and assigned.  The
\* assignee was a member when that was checked; he need not be one now.
Create(t, u, v) ==
    /\ team = "live" /\ task[t].state = "absent"
    /\ task' = [task EXCEPT ![t] =
                  [NoRow EXCEPT !.state = "live", !.created_by = u,
                                !.assignee_id = v, !.version = 1]]
    /\ UNCHANGED <<team, role>>

\* A task gets another content, status or assignee, and with it the next
\* version; who created it never changes.  It has a closing time exactly when
\* it is done.
Edit(t) ==
    LET old == task[t]
        new == task'[t]
    IN /\ Exists(t)
       /\ new.state = "live" /\ new.version = old.version + 1
       /\ new.content \in Contents /\ new.status \in Statuses
       /\ new.assignee_id \in Users \cup {NoUser}
       /\ \E column \in {"content", "status", "assignee_id"} : new[column] # old[column]
       /\ new.closed_at = IF new.status = "done" THEN "time" ELSE "null"
       /\ new.created_by = old.created_by
       /\ task' = [task EXCEPT ![t] = new]
       /\ UNCHANGED <<team, role>>

\* A task is deleted; its id is never used again.
Discard(t) ==
    /\ Exists(t)
    /\ task' = [task EXCEPT ![t] = Deleted]
    /\ UNCHANGED <<team, role>>

\* A member goes, and everything assigned to him is unassigned.
Leave(u) ==
    /\ Depart(u)
    /\ task' = [t \in Tasks |->
                  IF Exists(t) /\ task[t].assignee_id = u
                  THEN [task[t] EXCEPT !.assignee_id = NoUser, !.version = @ + 1]
                  ELSE task[t]]

\* The team goes, and all of its tasks.
Disband ==
    /\ Dissolve
    /\ task' = [t \in Tasks |-> IF Exists(t) THEN Deleted ELSE task[t]]

\* The other changes of a team leave its tasks alone.
Reorganise ==
    /\ \/ \E u \in Users : Found(u)
       \/ \E u \in Users, r \in GrantableRoles : Join(u, r) \/ Regrade(u, r)
       \/ \E u, v \in Users : HandOver(u, v)
    /\ UNCHANGED task

BoardNext ==
    \/ Reorganise \/ Disband
    \/ \E u \in Users : Leave(u)
    \/ \E t \in Tasks : Edit(t) \/ Discard(t) \/ \E u, v \in Users : Create(t, u, v)

BoardSpec == BoardInit /\ [][BoardNext]_<<team, role, task>>
=============================================================================
