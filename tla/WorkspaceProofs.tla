--------------------------- MODULE WorkspaceProofs --------------------------
(***************************************************************************)
(* For every set of users, tasks and concurrent requests: Inv is an        *)
(* inductive invariant of Workspace, so a live team has exactly one owner; *)
(* UpdateTask never loses an update; every change of a task goes on to the *)
(* invalidation, unless the reply to its COMMIT is lost; the services      *)
(* implement the modules Board, Team and Work; no lock is left behind, and *)
(* requests that all wait do so in a circle with the cascade of a deletion *)
(* in it; and history replays the tasks.                                   *)
(*                                                                         *)
(* First the types, then the shape of requests, then one lemma per kind of *)
(* step: a request arrives, reads or locks (InsideSteps), commits a change *)
(* of the team (TeamSteps, RemovalSteps) or of a task (TaskSteps), or      *)
(* rolls back.                                                             *)
(***************************************************************************)
EXTENDS Workspace, TLAPS

USE DEF AddMember, UpdateMemberRole, RemoveMember, InsertTask, RowAt, AddHistory,
        Ended, RowLabels, CommitTasks

\* The constant values that fill empty columns and requests are well typed.
LEMMA ConstantTypes ==
    /\ InitialContent \in Contents
    /\ NoRow \in Rows /\ DeletedRow \in Rows
    /\ NoEdit \in Edits
    /\ NoRequest \in Requests
<1>1. InitialContent \in Contents
  BY StoreAssumption DEF InitialContent
<1>2. NoRow \in Rows
  BY <1>1, StoreAssumption DEF NoRow, Rows, ClosingTimes
<1>3. DeletedRow \in Rows
  BY <1>2 DEF DeletedRow, Rows
<1>4. NoEdit \in Edits
  BY DEF NoEdit, Edits
<1>5. NoRequest \in Requests
  BY <1>4 DEF NoRequest, Requests
<1> QED
  BY <1>1, <1>2, <1>3, <1>4, <1>5

\* Giving up a request, with or without a commit, keeps every variable but
\* the tables well typed.
LEMMA CommitType ==
    ASSUME TypeOK, NEW p \in Procs, NEW next \in Labels, Commit(p, next)
    PROVE  /\ memberLock' \in [Users -> Procs \cup {NoProc}]
           /\ taskLock' \in [Tasks -> Procs \cup {NoProc}]
           /\ pc' \in [Procs -> Labels]
           /\ req' \in [Procs -> Requests]
           /\ actorRole' \in [Procs -> Roles \cup {NoRole}]
           /\ targetRole' \in [Procs -> Roles \cup {NoRole}]
           /\ view' \in [Procs -> Rows]
           /\ seen' \in [Procs -> Rows]
           /\ audited' \in [Procs -> SUBSET Tasks]
  BY ConstantTypes DEF TypeOK, Commit, Unlock, EndRequest

\* A rollback keeps the types.
LEMMA RollbackType ==
    ASSUME TypeOK, NEW p \in Procs, Rollback(p)
    PROVE  TypeOK'
<1>1. Commit(p, "idle") /\ UNCHANGED dbVars
  BY DEF Rollback, Commit
<1>2. "idle" \in Labels
  BY DEF Labels
<1> QED
  BY <1>1, <1>2, CommitType DEF TypeOK, dbVars

\* applyUpdate turns a row into a row.
LEMMA ApplyType ==
    ASSUME NEW row \in Rows, NEW e \in Edits
    PROVE  Apply(row, e) \in Rows
  BY StoreAssumption DEF Rows, Edits, Apply, Edited, ClosingTimes

\* recordHistory inserts a well-typed task_history row.
LEMMA EntryType ==
    ASSUME NEW u \in Users, NEW S \in SUBSET Fields,
           NEW before \in Rows, NEW after \in Rows
    PROVE  Entry(u, S, before, after) \in Entries
<1>1. ASSUME NEW f \in S
      PROVE  before[f] \in Values /\ after[f] \in Values
  BY DEF Rows, Fields, Values
<1> QED
  BY <1>1 DEF Entry, Entries

\* UnassignUser turns a row into a row.
LEMMA UnassignedType ==
    ASSUME NEW row \in Rows
    PROVE  Unassigned(row) \in Rows
<1>1. row.version + 1 \in Nat
  BY DEF Rows
<1>2. ASSUME NEW n \in Nat
      PROVE  [row EXCEPT !.assignee_id = NoUser, !.version = n] \in Rows
  BY DEF Rows
<1>3. [row EXCEPT !.assignee_id = NoUser, !.version = row.version + 1] \in Rows
  BY <1>1, <1>2
<1> QED
  BY <1>3, Zenon DEF Unassigned

\* UPDATE ... version = version + 1 turns a row into a row.
LEMMA BumpType ==
    ASSUME NEW row \in Rows
    PROVE  [row EXCEPT !.version = @ + 1] \in Rows
  BY DEF Rows

\* The statements a request may go to.
LEMMA LabelFacts ==
    /\ "delete_team" \in Labels /\ "cascade" \in Labels
    /\ "transfer_target" \in Labels
    /\ "change_role" \in Labels /\ "unassign_history" \in Labels
    /\ "transfer" \in Labels /\ "unassign_update" \in Labels
    /\ "create_task" \in Labels /\ "update_role" \in Labels
    /\ "delete_task" \in Labels /\ "update_assignee" \in Labels
    /\ "update" \in Labels /\ "record" \in Labels /\ "delete_role" \in Labels
    /\ Ended \subseteq Labels
  BY DEF Labels

\* A lock belongs to a request or to nobody.
LEMMA LockMemberType ==
    ASSUME TypeOK, NEW p \in Procs, NEW u \in Users, LockMember(p, u)
    PROVE  memberLock' \in [Users -> Procs \cup {NoProc}]
  BY DEF TypeOK, LockMember

\* A statement that changes no table keeps what it does not mention.
LEMMA GotoType ==
    ASSUME TypeOK, NEW p \in Procs, NEW next \in Labels, Goto(p, next)
    PROVE  /\ pc' \in [Procs -> Labels]
           /\ UNCHANGED <<team, role, task, history, req, view>>
  BY DEF TypeOK, Goto, dbVars

\* A request to TeamService keeps the types.
LEMMA ReceiveType ==
    ASSUME TypeOK, NEW p \in Procs, NEW op \in AllOps, NEW u \in Users,
           NEW v \in Users, NEW r \in GrantableRoles \cup {NoRole},
           NEW at \in Labels, Receive(p, op, u, v, r, at)
    PROVE  TypeOK'
  BY ConstantTypes DEF TypeOK, Receive, dbVars, lockVars, locals, Requests, NoRequest

\* A request to TaskService keeps the types.
LEMMA ReceiveTaskType ==
    ASSUME TypeOK, NEW p \in Procs, NEW op \in AllOps, NEW u \in Users,
           NEW v \in Users, NEW t \in Tasks, NEW e \in Edits,
           NEW at \in Labels, ReceiveTask(p, op, u, v, t, e, at),
           view' \in [Procs -> Rows]
    PROVE  TypeOK'
  BY ConstantTypes DEF TypeOK, ReceiveTask, dbVars, lockVars, Requests, NoRequest

\* Every request that arrives keeps the types.
LEMMA RequestType ==
    ASSUME TypeOK, NEW p \in Procs, Request(p)
    PROVE  TypeOK'
<1> USE DEF AllOps, Labels, GrantableRoles
<1>1. CASE RequestCreateTeam(p) BY <1>1, ReceiveType DEF RequestCreateTeam
<1>2. CASE RequestDeleteTeam(p) BY <1>2, ReceiveType DEF RequestDeleteTeam
<1>3. CASE RequestLeaveTeam(p) BY <1>3, ReceiveType DEF RequestLeaveTeam
<1>4. CASE RequestTransfer(p) BY <1>4, ReceiveType DEF RequestTransfer
<1>5. CASE RequestRemoveMember(p) BY <1>5, ReceiveType DEF RequestRemoveMember
<1>6. CASE RequestInvite(p) BY <1>6, ReceiveType DEF RequestInvite
<1>7. CASE RequestChangeRole(p) BY <1>7, ReceiveType DEF RequestChangeRole
<1>8. CASE RequestCreateTask(p)
  BY <1>8, ReceiveTaskType, ConstantTypes DEF RequestCreateTask, TypeOK
<1>9. CASE RequestDeleteTask(p)
  BY <1>9, ReceiveTaskType, ConstantTypes DEF RequestDeleteTask, TypeOK
<1>10. CASE RequestUpdateTask(p)
  <2>1. PICK u \in Users, t \in Tasks, e \in ClientEdits :
            /\ ReceiveTask(p, "UpdateTask", u, u, t, e, "lock_task")
            /\ view' = [view EXCEPT ![p] = task[t]]
    BY <1>10 DEF RequestUpdateTask
  <2>2. e \in Edits /\ view' \in [Procs -> Rows]
    BY <2>1, StoreAssumption DEF TypeOK
  <2> QED
    BY <2>1, <2>2, ReceiveTaskType
<1> QED
  BY <1>1, <1>2, <1>3, <1>4, <1>5, <1>6, <1>7, <1>8, <1>9, <1>10 DEF Request

\* Every statement of a request keeps the types.
LEMMA StepType ==
    ASSUME Inv, NEW p \in Procs, Step(p)
    PROVE  TypeOK'
<1>a. TypeOK /\ RequestShape
  BY DEF Inv
<1>b. pc[p] \notin Ended => Actor(p) \in Users /\ Target(p) \in Users
  BY <1>a DEF RequestShape, Shape, Actor, Target
<1>c. /\ \A t \in Tasks : task[t] \in Rows
      /\ seen[p] \in Rows /\ req[p].edit \in Edits
  BY <1>a DEF TypeOK, Requests
<1>0. CASE Rollback(p)
  BY <1>0, <1>a, RollbackType
<1> SUFFICES ASSUME ~Rollback(p) PROVE TypeOK'
  BY <1>0
<1>1. CASE ReadActor(p)
  <2>1. AfterReadActor(req[p].op) \in Labels
    BY DEF AfterReadActor, Labels
  <2> QED
    BY <1>1, <1>a, <1>b, <2>1 DEF TypeOK, ReadActor, Goto, dbVars, lockVars
<1>2. CASE LockActor(p)
  <2>1. /\ LockMember(p, Actor(p)) /\ Actor(p) \in Users
        /\ actorRole' = [actorRole EXCEPT ![p] = role[Actor(p)]]
        /\ \E next \in Labels : Goto(p, next)
        /\ UNCHANGED <<taskLock, targetRole, seen, audited>>
    BY <1>2, <1>b, LabelFacts DEF LockActor
  <2>2. actorRole' \in [Procs -> Roles \cup {NoRole}]
    BY <1>a, <2>1 DEF TypeOK
  <2> QED
    BY <1>a, <2>1, <2>2, LockMemberType, GotoType DEF TypeOK
<1>3. CASE LockTarget(p)
  <2>1. /\ LockMember(p, Target(p)) /\ Target(p) \in Users
        /\ targetRole' = [targetRole EXCEPT ![p] = role[Target(p)]]
        /\ \E next \in Labels : Goto(p, next)
        /\ UNCHANGED <<taskLock, actorRole, seen, audited>>
    BY <1>3, <1>b, LabelFacts DEF LockTarget
  <2>2. targetRole' \in [Procs -> Roles \cup {NoRole}]
    BY <1>a, <2>1 DEF TypeOK
  <2> QED
    BY <1>a, <2>1, <2>2, LockMemberType, GotoType DEF TypeOK
<1>4. CASE CreateTeam(p)
  BY <1>4, <1>a, CommitType, LabelFacts DEF TypeOK, CreateTeam, Roles
<1>5. CASE InviteMember(p)
  BY <1>5, <1>a, CommitType, LabelFacts DEF TypeOK, InviteMember, Roles, Requests, GrantableRoles
<1>6. CASE ChangeMemberRole(p)
  BY <1>6, <1>a, CommitType, LabelFacts DEF TypeOK, ChangeMemberRole, Roles, Requests, GrantableRoles
<1>7. CASE TransferTarget(p)
  <2>1. /\ LockMember(p, Target(p)) /\ Target(p) \in Users
        /\ Goto(p, "transfer")
        /\ UNCHANGED <<taskLock, actorRole, targetRole, seen, audited>>
    BY <1>7, <1>b DEF TransferTarget
  <2> QED
    BY <1>a, <2>1, LabelFacts, LockMemberType, GotoType DEF TypeOK
<1>8. CASE TransferOwnership(p)
  BY <1>8, <1>a, CommitType, LabelFacts DEF TypeOK, TransferOwnership, Roles
<1>9. CASE DeleteTeam(p)
  <2>1. /\ team' = "deleted"
        /\ role' = [u \in Users |-> NoRole]
        /\ task' = [t \in Tasks |-> IF Live(t) THEN DeletedRow ELSE task[t]]
        /\ history' = [t \in Tasks |-> <<>>]
        /\ CommitTasks(p)
    BY <1>9 DEF DeleteTeam
  <2>2. task' \in [Tasks -> Rows] /\ history' \in [Tasks -> Seq(Entries)]
    BY <1>c, <2>1, ConstantTypes
  <2>3. role' \in [Users -> Roles \cup {NoRole}]
    BY <2>1
  <2> QED
    BY <1>a, <2>1, <2>2, <2>3, CommitType, LabelFacts DEF TypeOK
<1>10. CASE UnassignHistory(p)
  <2> DEFINE S == AssignedTo(Target(p))
  <2>1. /\ LockTasks(p, S)
        /\ audited' = [audited EXCEPT ![p] = S]
        /\ Goto(p, "unassign_update")
        /\ UNCHANGED <<memberLock, actorRole, targetRole, seen>>
    BY <1>10 DEF UnassignHistory
  <2>2. taskLock' \in [Tasks -> Procs \cup {NoProc}]
    BY <1>a, <2>1 DEF TypeOK, LockTasks
  <2>3. audited' \in [Procs -> SUBSET Tasks]
    BY <1>a, <2>1 DEF TypeOK, AssignedTo
  <2> QED
    BY <1>a, <2>1, <2>2, <2>3, LabelFacts, GotoType DEF TypeOK
<1>11. CASE UnassignUpdate(p)
  <2>1. ASSUME NEW t \in Tasks
        PROVE  Unassigned(task[t]) \in Rows
    BY <1>c, UnassignedType
  <2>2. task' \in [Tasks -> Rows]
    BY <1>11, <1>a, <2>1 DEF TypeOK, UnassignUpdate
  <2>3. ASSUME NEW t \in Tasks
        PROVE  Entry(Actor(p), {"assignee_id"}, task[t], Unassigned(task[t])) \in Entries
    <3>1. Actor(p) \in Users
      BY <1>11, <1>b DEF UnassignUpdate
    <3>2. task[t] \in Rows /\ {"assignee_id"} \in SUBSET Fields
      BY <1>c DEF Fields
    <3> QED
      BY <2>1, <3>1, <3>2, EntryType
  <2>4. history' \in [Tasks -> Seq(Entries)]
    BY <1>11, <1>a, <2>3 DEF TypeOK, UnassignUpdate
  <2>5. role' \in [Users -> Roles \cup {NoRole}] /\ UNCHANGED team
    BY <1>11, <1>a DEF TypeOK, UnassignUpdate
  <2>6. \E next \in Labels : Commit(p, next)
    BY <1>11, LabelFacts DEF UnassignUpdate
  <2> QED
    BY <1>a, <2>2, <2>4, <2>5, <2>6, CommitType DEF TypeOK
<1>12. CASE CreateAssignee(p)
  BY <1>12, LabelFacts, <1>a DEF TypeOK, CreateAssignee, Goto, dbVars, lockVars
<1>13. CASE CreateTask(p)
  <2> DEFINE row == NewRow(Actor(p), Target(p))
  <2>1. Actor(p) \in Users /\ Target(p) \in Users /\ req[p].task \in Tasks
    BY <1>13, <1>a, <1>b DEF RequestShape, Shape, CreateTask
  <2>2. row \in Rows
    BY <2>1, ConstantTypes DEF NewRow, NoRow, Rows
  <2>3. Entry(Actor(p), Fields \ {"closed_at"}, NoRow, row) \in Entries
    BY <2>1, <2>2, ConstantTypes, EntryType
  <2>4. /\ task' = [task EXCEPT ![req[p].task] = row]
        /\ history' = [history EXCEPT ![req[p].task] =
               Append(@, Entry(Actor(p), Fields \ {"closed_at"}, NoRow, row))]
        /\ CommitTasks(p)
        /\ UNCHANGED <<team, role>>
    BY <1>13 DEF CreateTask
  <2>5. task' \in [Tasks -> Rows] /\ history' \in [Tasks -> Seq(Entries)]
    BY <1>a, <2>1, <2>2, <2>3, <2>4 DEF TypeOK
  <2> QED
    BY <1>a, <2>4, <2>5, CommitType, LabelFacts DEF TypeOK
<1>14. CASE LockTask(p)
  <2>1. req[p].task \in Tasks
    BY <1>14, <1>a DEF RequestShape, Shape, LockTask, TaskLabels
  <2>2. /\ taskLock' = [taskLock EXCEPT ![req[p].task] = p]
        /\ seen' = [seen EXCEPT ![p] = task[req[p].task]]
        /\ \E next \in Labels : Goto(p, next)
        /\ UNCHANGED <<memberLock, actorRole, targetRole, audited>>
    BY <1>14, LabelFacts DEF LockTask
  <2>3. /\ taskLock' \in [Tasks -> Procs \cup {NoProc}]
        /\ seen' \in [Procs -> Rows]
    BY <1>a, <2>1, <2>2 DEF TypeOK
  <2> QED
    BY <1>a, <2>2, <2>3, GotoType DEF TypeOK
<1>21. CASE DeleteRole(p)
  BY <1>21, LabelFacts, <1>a DEF TypeOK, DeleteRole, Goto, dbVars, lockVars
<1>15. CASE DeleteTask(p)
  <2>1. /\ task' = [task EXCEPT ![req[p].task] = DeletedRow]
        /\ history' = [history EXCEPT ![req[p].task] = <<>>]
        /\ CommitTasks(p)
        /\ UNCHANGED <<team, role>>
    BY <1>15 DEF DeleteTask
  <2>2. DeletedRow \in Rows /\ <<>> \in Seq(Entries)
    BY ConstantTypes
  <2>3. task' \in [Tasks -> Rows] /\ history' \in [Tasks -> Seq(Entries)]
    BY <1>a, <2>1, <2>2 DEF TypeOK
  <2> QED
    BY <1>a, <2>1, <2>3, CommitType, LabelFacts DEF TypeOK
<1>16. CASE UpdateRole(p)
  BY <1>16, LabelFacts, <1>a DEF TypeOK, UpdateRole, Goto, dbVars, lockVars
<1>17. CASE UpdateAssignee(p)
  BY <1>17, LabelFacts, <1>a DEF TypeOK, UpdateAssignee, Goto, dbVars, lockVars
<1>18. CASE UpdateTask(p)
  BY <1>18, LabelFacts, <1>a DEF TypeOK, UpdateTask, Goto, dbVars, lockVars
<1>22. CASE RecordHistory(p)
  <2> DEFINE t       == req[p].task
             changed == Changed(seen[p], req[p].edit)
  <2>1. Actor(p) \in Users /\ t \in Tasks /\ changed \in SUBSET Fields
    BY <1>22, <1>a, <1>b DEF RequestShape, Shape, RecordHistory, Changed, TaskLabels
  <2>3. NewVersion(p) \in Rows
    BY <1>c, ApplyType, BumpType DEF NewVersion
  <2>4. Entry(Actor(p), changed, seen[p], NewVersion(p)) \in Entries
    BY <1>c, <2>1, <2>3, EntryType
  <2>5. /\ task' = [task EXCEPT ![t] = NewVersion(p)]
        /\ history' = [history EXCEPT ![t] =
               Append(@, Entry(Actor(p), changed, seen[p], NewVersion(p)))]
        /\ CommitTasks(p)
        /\ UNCHANGED <<team, role>>
    BY <1>22 DEF RecordHistory
  <2>6. task' \in [Tasks -> Rows] /\ history' \in [Tasks -> Seq(Entries)]
    BY <1>a, <2>1, <2>3, <2>4, <2>5 DEF TypeOK
  <2> QED
    BY <1>a, <2>5, <2>6, CommitType, LabelFacts DEF TypeOK
<1>19. CASE Invalidate(p)
  BY <1>19 DEF Invalidate
<1>23. CASE ReturnError(p)
  BY <1>23 DEF ReturnError
<1>20. CASE DeleteTeamTasks(p)
  <2>1. /\ LockTasks(p, {t \in Tasks : Live(t)})
        /\ Goto(p, "cascade")
        /\ UNCHANGED <<memberLock, actorRole, targetRole, seen, audited>>
    BY <1>20 DEF DeleteTeamTasks
  <2>2. taskLock' \in [Tasks -> Procs \cup {NoProc}]
    BY <1>a, <2>1 DEF TypeOK, LockTasks
  <2> QED
    BY <1>a, <2>1, <2>2, LabelFacts, GotoType DEF TypeOK
<1> QED
  BY <1>1, <1>2, <1>3, <1>4, <1>5, <1>6, <1>7, <1>8, <1>9, <1>10, <1>11, <1>12,
     <1>13, <1>14, <1>15, <1>16, <1>17, <1>18, <1>19, <1>20, <1>21, <1>22, <1>23 DEF Step

-----------------------------------------------------------------------------
(* RequestShape.                                                           *)

\* A request that ended asks for nothing; the others are unchanged.
LEMMA CommitShape ==
    ASSUME TypeOK, RequestShape, NEW p \in Procs,
           NEW next \in Ended, Commit(p, next)
    PROVE  RequestShape'
<1>1. /\ pc' = [pc EXCEPT ![p] = next]
      /\ req' = [req EXCEPT ![p] = NoRequest]
  BY DEF Commit, EndRequest
<1>2. pc \in [Procs -> Labels] /\ req \in [Procs -> Requests]
  BY DEF TypeOK
<1> QED
  BY <1>1, <1>2, StoreAssumption DEF RequestShape, Shape, NoRequest, TaskOps, TaskLabels

\* A request that ended creates nothing, so the ids that the others
\* create stay fresh.
LEMMA CommitFresh ==
    ASSUME TypeOK, RequestShape, FreshIds, NEW p \in Procs,
           NEW next \in Ended, Commit(p, next),
           \A q \in Procs \ {p} : req[q].op = "CreateTeam" => team' = "absent",
           \A t \in Tasks : task[t].state # "absent" => task'[t].state # "absent",
           \A q \in Procs \ {p} :
              req[q].op = "CreateTask" => task'[req[q].task].state = "absent"
    PROVE  FreshIds'
<1>1. req' = [req EXCEPT ![p] = NoRequest]
  BY DEF Commit, EndRequest
<1>2. req \in [Procs -> Requests]
  BY DEF TypeOK
<1>3. \A q \in Procs : req[q].op \in TaskOps \cup {"CreateTask"} => req[q].task \in Tasks
  BY DEF RequestShape, Shape
<1> QED
  BY <1>1, <1>2, <1>3, StoreAssumption DEF FreshIds, NoRequest, TaskOps

-----------------------------------------------------------------------------
(* A new request changes no table and no lock.                             *)

\* What a request that arrives looks like to the invariant.
Arrival(p, op, at) ==
    /\ pc[p] = "idle"
    /\ pc' = [pc EXCEPT ![p] = at]
    /\ req'[p].op = op /\ req'[p].actor \in Users /\ req'[p].target \in Users
    /\ req' = [req EXCEPT ![p] = req'[p]]
    /\ UNCHANGED <<dbVars, lockVars, actorRole, targetRole, seen, audited>>
    /\ \A q \in Procs \ {p} : view'[q] = view[q]

\* What the invariant needs to know of it: its label fits its operation, an
\* id it will create is fresh, and a task it names exists.
WellFormed(p, op, at) ==
    /\ at \in {"create_team", "lock_actor", "lock_target", "read_actor", "lock_task"}
    /\ at = "create_team" <=> op = "CreateTeam"
    /\ at = "lock_task" <=> op \in TaskOps
    /\ op \in TaskOps \cup {"CreateTask"} <=> req'[p].task \in Tasks
    /\ op = "CreateTeam" =>
         team = "absent" /\ \A q \in Procs : req[q].op # "CreateTeam"
    /\ op = "CreateTask" =>
         /\ task[req'[p].task].state = "absent"
         /\ \A q \in Procs : req[q].task # req'[p].task
    /\ op \in TaskOps => task[req'[p].task].state = "live"
    /\ op = "UpdateTask" => view'[p] = task[req'[p].task]

\* A well-formed request that arrives at the service keeps the invariant.
LEMMA ArrivalInv ==
    ASSUME Inv, TypeOK', NEW p \in Procs, NEW op, NEW at,
           Arrival(p, op, at), WellFormed(p, op, at)
    PROVE  Inv'
<1>1. /\ pc \in [Procs -> Labels] /\ req \in [Procs -> Requests]
      /\ MemberLocks /\ ExactlyOneOwner /\ RequestShape /\ FreshIds /\ TaskLocks
  BY DEF Inv, TypeOK
<1>2. MemberLocks'
  BY <1>1 DEF MemberLocks, RolesHeld, Arrival, WellFormed, dbVars, lockVars, Actor, Target,
              IsMember, RemovalDecision
<1>3. ExactlyOneOwner'
  BY <1>1 DEF ExactlyOneOwner, Arrival, dbVars
<1>4. RequestShape'
  BY <1>1 DEF RequestShape, Shape, Arrival, WellFormed, TaskLabels, TaskOps
<1>5. FreshIds'
  <2>1. \A q \in Procs \ {p} : req'[q] = req[q]
    BY <1>1 DEF Arrival
  <2>2. UNCHANGED <<team, task>> /\ req'[p].op = op
    BY DEF Arrival, dbVars
  <2>3. \A q \in Procs : req[q].op \in TaskOps \cup {"CreateTask"} => req[q].task \in Tasks
    BY <1>1 DEF RequestShape, Shape
  <2> QED
    BY <1>1, <2>1, <2>2, <2>3 DEF FreshIds, WellFormed, TaskOps
<1>6. TaskLocks'
  BY <1>1 DEF TaskLocks, RowHeld, Arrival, WellFormed, dbVars, lockVars, Live, VersionMatches, TaskOps,
     TaskLabels
<1> QED
  BY <1>2, <1>3, <1>4, <1>5, <1>6 DEF Inv

\* A request to TeamService arrives; only CreateTeam has a guard of its own.
LEMMA TeamArrival ==
    ASSUME Inv, NEW p \in Procs, NEW op \in AllOps \ (TaskOps \cup {"CreateTask"}),
           NEW u \in Users, NEW v \in Users, NEW r \in GrantableRoles \cup {NoRole},
           NEW at \in {"create_team", "lock_actor", "lock_target", "read_actor"},
           Receive(p, op, u, v, r, at),
           at = "create_team" <=> op = "CreateTeam",
           op = "CreateTeam" =>
             team = "absent" /\ \A q \in Procs : req[q].op # "CreateTeam"
    PROVE  Inv'
<1>1. TypeOK /\ at \in Labels /\ op \in AllOps
  BY DEF Inv, Labels
<1>2. TypeOK'
  BY <1>1, ReceiveType
<1>3. req \in [Procs -> Requests]
  BY <1>1 DEF TypeOK
<1>4. Arrival(p, op, at)
  BY <1>3 DEF Receive, Arrival, NoRequest, locals, dbVars, lockVars
<1>5. req'[p].task = NoTask
  BY <1>3 DEF Receive, NoRequest
<1>6. WellFormed(p, op, at)
  BY <1>5, StoreAssumption DEF WellFormed, TaskOps
<1> QED
  BY <1>2, <1>4, <1>6, ArrivalInv

\* A request to TaskService arrives.
LEMMA TaskArrival ==
    ASSUME Inv, NEW p \in Procs, NEW op \in TaskOps \cup {"CreateTask"},
           NEW u \in Users, NEW v \in Users, NEW t \in Tasks, NEW e \in Edits,
           NEW at \in {"read_actor", "lock_task"},
           ReceiveTask(p, op, u, v, t, e, at),
           at = "lock_task" <=> op \in TaskOps,
           op = "CreateTask" =>
             task[t].state = "absent" /\ \A q \in Procs : req[q].task # t,
           op \in TaskOps => Live(t),
           \/ UNCHANGED view /\ op # "UpdateTask"
           \/ view' = [view EXCEPT ![p] = task[t]]
    PROVE  Inv'
<1>1. TypeOK /\ at \in Labels /\ op \in AllOps
  BY DEF Inv, Labels, TaskOps, AllOps
<1>2. /\ req \in [Procs -> Requests] /\ view \in [Procs -> Rows]
      /\ task \in [Tasks -> Rows]
  BY <1>1 DEF TypeOK
<1>3. view' \in [Procs -> Rows]
  BY <1>2
<1>4. TypeOK'
  BY <1>1, <1>3, ReceiveTaskType
<1>5. Arrival(p, op, at)
  BY <1>2 DEF ReceiveTask, Arrival, NoRequest, dbVars, lockVars
<1>6. req'[p].task = t
  BY <1>2 DEF ReceiveTask, NoRequest
<1>7. WellFormed(p, op, at)
  BY <1>2, <1>6 DEF WellFormed, TaskOps, Live
<1> QED
  BY <1>4, <1>5, <1>7, ArrivalInv

\* Every request that arrives keeps the invariant.
LEMMA RequestInv ==
    ASSUME Inv, NEW p \in Procs, Request(p)
    PROVE  Inv'
<1> USE DEF AllOps, TaskOps, GrantableRoles
<1>1. CASE RequestCreateTeam(p) BY <1>1, TeamArrival DEF RequestCreateTeam
<1>2. CASE RequestDeleteTeam(p) BY <1>2, TeamArrival DEF RequestDeleteTeam
<1>3. CASE RequestLeaveTeam(p) BY <1>3, TeamArrival DEF RequestLeaveTeam
<1>4. CASE RequestTransfer(p) BY <1>4, TeamArrival DEF RequestTransfer
<1>5. CASE RequestRemoveMember(p) BY <1>5, TeamArrival DEF RequestRemoveMember
<1>6. CASE RequestInvite(p) BY <1>6, TeamArrival DEF RequestInvite
<1>7. CASE RequestChangeRole(p) BY <1>7, TeamArrival DEF RequestChangeRole
<1>8. CASE RequestCreateTask(p)
  BY <1>8, TaskArrival, ConstantTypes DEF RequestCreateTask
<1>9. CASE RequestDeleteTask(p)
  BY <1>9, TaskArrival, ConstantTypes DEF RequestDeleteTask
<1>10. CASE RequestUpdateTask(p)
  <2>1. PICK u \in Users, t \in Tasks, e \in ClientEdits :
            /\ Live(t)
            /\ ReceiveTask(p, "UpdateTask", u, u, t, e, "lock_task")
            /\ view' = [view EXCEPT ![p] = task[t]]
    BY <1>10 DEF RequestUpdateTask
  <2>2. e \in Edits
    BY StoreAssumption
  <2> QED
    BY <2>1, <2>2, TaskArrival
<1> QED
  BY <1>1, <1>2, <1>3, <1>4, <1>5, <1>6, <1>7, <1>8, <1>9, <1>10 DEF Request

-----------------------------------------------------------------------------
(* A step that ends its transaction.                                       *)

\* A commit or rollback leaves the roles that other requests have locked
\* alone, so what they decided on is still true.
LEMMA CommitMemberLocks ==
    ASSUME TypeOK, RequestShape, MemberLocks, NEW p \in Procs,
           NEW next \in Ended, Commit(p, next),
           \A u \in Users : memberLock[u] \notin {NoProc, p} => role'[u] = role[u]
    PROVE  MemberLocks'
<1>1. /\ pc \in [Procs -> Labels] /\ req \in [Procs -> Requests]
      /\ actorRole \in [Procs -> Roles \cup {NoRole}]
      /\ targetRole \in [Procs -> Roles \cup {NoRole}]
  BY DEF TypeOK
<1>2. \A u \in Users : memberLock'[u] # NoProc => IsMember(u)'
  BY StoreAssumption DEF MemberLocks, RolesHeld, Commit, Unlock, IsMember
<1>3. ASSUME NEW q \in Procs \ {p}
      PROVE  /\ pc'[q] = pc[q] /\ req'[q] = req[q]
             /\ actorRole'[q] = actorRole[q] /\ targetRole'[q] = targetRole[q]
  BY <1>1 DEF Commit, EndRequest
<1>4. \A u \in Users, q \in Procs \ {p} :
          memberLock[u] = q => memberLock'[u] = q /\ role'[u] = role[u]
  BY StoreAssumption DEF Commit, Unlock
<1>5. pc'[p] = next
  BY <1>1 DEF Commit, EndRequest
<1>6. \A q \in Procs : pc[q] \notin Ended =>
                            req[q].actor \in Users /\ req[q].target \in Users
  BY DEF RequestShape, Shape
<1> QED
  BY <1>2, <1>3, <1>4, <1>5, <1>6 DEF MemberLocks, RolesHeld, Actor, Target, RemovalDecision

\* A commit or rollback leaves the task rows that other requests have locked
\* alone, and whatever it does to others makes their version grow.
LEMMA CommitTaskLocks ==
    ASSUME TypeOK, TaskLocks, RequestShape, FreshIds, NEW p \in Procs,
           NEW next \in Ended, Commit(p, next),
           task' \in [Tasks -> Rows],
           \A q \in Procs \ {p} :
               pc[q] \in RowLabels
                  => task'[req[q].task] = task[req[q].task],
           \A t \in Tasks : \/ task'[t] = task[t]
                            \/ task[t].state = "absent"
                            \/ task'[t].state # "live"
                            \/ task[t].state = "live" /\ task'[t].version > task[t].version
    PROVE  TaskLocks'
<1>1. /\ pc \in [Procs -> Labels] /\ req \in [Procs -> Requests]
      /\ seen \in [Procs -> Rows] /\ view \in [Procs -> Rows]
      /\ taskLock \in [Tasks -> Procs \cup {NoProc}] /\ task \in [Tasks -> Rows]
  BY DEF TypeOK
<1>2. ASSUME NEW q \in Procs \ {p}
      PROVE  /\ pc'[q] = pc[q] /\ req'[q] = req[q]
             /\ seen'[q] = seen[q] /\ view'[q] = view[q]
  BY <1>1 DEF Commit, EndRequest
<1>3. pc'[p] = next /\ req'[p] = NoRequest
  BY <1>1 DEF Commit, EndRequest
<1>4. \A t \in Tasks, q \in Procs \ {p} : taskLock[t] = q => taskLock'[t] = q
  BY DEF Commit, Unlock
<1>5. ASSUME NEW q \in Procs \ {p},
             pc[q] \in RowLabels
      PROVE  /\ taskLock'[req[q].task] = q
             /\ Live(req[q].task)' /\ seen'[q] = task'[req[q].task]
  <2>1. req[q].task \in Tasks
    BY <1>5 DEF RequestShape, Shape, TaskLabels, TaskOps
  <2>2. /\ taskLock[req[q].task] = q
        /\ Live(req[q].task) /\ seen[q] = task[req[q].task]
    BY <1>5 DEF TaskLocks, RowHeld
  <2> QED
    BY <1>2, <1>4, <1>5, <2>1, <2>2 DEF Live
<1>6. ASSUME NEW q \in Procs \ {p}, req[q].op = "UpdateTask",
             task'[req[q].task].state = "live"
      PROVE  \/ view[q].version < task'[req[q].task].version
             \/ view[q] = task'[req[q].task]
  <2> DEFINE t == req[q].task
  <2>1. t \in Tasks /\ task[t].state # "absent"
    BY <1>6 DEF RequestShape, Shape, FreshIds, TaskOps
  <2>2. task[t].state = "live"
    BY <1>6, <2>1
  <2>3. view[q].version < task[t].version \/ view[q] = task[t]
    BY <1>6, <2>2 DEF TaskLocks, RowHeld, Live
  <2>4. view[q].version \in Nat /\ task[t].version \in Nat /\ task'[t].version \in Nat
    BY <1>1, <2>1 DEF Rows
  <2> QED
    BY <1>6, <2>1, <2>2, <2>3, <2>4
<1>7. RowHeld(p)'
  BY <1>3 DEF RowHeld, NoRequest, TaskLabels
<1>8. ASSUME NEW q \in Procs \ {p}
      PROVE  RowHeld(q)'
  <2>1. RowHeld(q)
    BY DEF TaskLocks
  <2> QED
    BY <1>2, <1>5, <1>6, <2>1 DEF RowHeld, VersionMatches, Live
<1> QED
  BY <1>7, <1>8 DEF TaskLocks

\* A transaction that ends without touching what others hold, and leaves the
\* team with one owner, keeps the invariant.
LEMMA CommitInv ==
    ASSUME Inv, TypeOK', ExactlyOneOwner', NEW p \in Procs,
           NEW next \in Ended, Commit(p, next),
           \A u \in Users : memberLock[u] \notin {NoProc, p} => role'[u] = role[u],
           \A q \in Procs \ {p} :
               pc[q] \in RowLabels
                  => task'[req[q].task] = task[req[q].task],
           \A q \in Procs \ {p} : req[q].op = "CreateTeam" => team' = "absent",
           \A q \in Procs \ {p} :
               req[q].op = "CreateTask" => task'[req[q].task].state = "absent",
           \A t \in Tasks : \/ task'[t] = task[t]
                            \/ task[t].state = "absent" /\ task'[t].state # "absent"
                            \/ task'[t].state = "deleted"
                            \/ /\ task[t].state = "live" /\ task'[t].state = "live"
                               /\ task'[t].version > task[t].version
    PROVE  Inv'
<1>1. TypeOK /\ RequestShape /\ FreshIds /\ MemberLocks /\ TaskLocks
  BY DEF Inv
<1>2. task' \in [Tasks -> Rows]
  BY DEF TypeOK
<1>3. RequestShape'
  BY <1>1, CommitShape
<1>4. FreshIds'
  BY <1>1, CommitFresh
<1>5. MemberLocks'
  BY <1>1, CommitMemberLocks
<1>6. TaskLocks'
  BY <1>1, <1>2, CommitTaskLocks
<1> QED
  BY <1>3, <1>4, <1>5, <1>6 DEF Inv

\* A request that is refused, that fails or that only invalidates.
LEMMA RollbackInv ==
    ASSUME Inv, NEW p \in Procs, Rollback(p)
    PROVE  Inv'
<1>1. TypeOK'
  BY RollbackType DEF Inv
<1>2. Commit(p, "idle") /\ UNCHANGED <<team, role, task, history>>
  BY DEF Rollback, Commit, dbVars
<1>3. ExactlyOneOwner'
  BY <1>2 DEF Inv, ExactlyOneOwner
<1>4. /\ \A q \in Procs : req[q].op = "CreateTeam" => team = "absent"
      /\ \A q \in Procs : req[q].op = "CreateTask" => task[req[q].task].state = "absent"
  BY DEF Inv, FreshIds
<1> QED
  BY <1>1, <1>2, <1>3, <1>4, CommitInv

-----------------------------------------------------------------------------
(* A step inside a transaction.                                            *)

\* It may lock free rows and changes only its own variables.
Inside(p, next) ==
    /\ pc[p] \notin Ended \cup {"create_team"}
    /\ Goto(p, next)
    /\ \A u \in Users : \/ memberLock'[u] = memberLock[u]
                        \/ /\ memberLock[u] = NoProc /\ memberLock'[u] = p
                           /\ IsMember(u)
    /\ \A t \in Tasks : \/ taskLock'[t] = taskLock[t]
                        \/ taskLock[t] \in {NoProc, p} /\ taskLock'[t] = p
    /\ \A q \in Procs \ {p} :
          /\ actorRole'[q] = actorRole[q] /\ targetRole'[q] = targetRole[q]
          /\ seen'[q] = seen[q]

\* The invariant is kept when the step establishes what its own next
\* statement needs.
LEMMA InsideInv ==
    ASSUME Inv, TypeOK', NEW p \in Procs, NEW next, Inside(p, next),
           Shape(p)', RolesHeld(p)', RowHeld(p)'
    PROVE  Inv'
<1>1. /\ pc \in [Procs -> Labels] /\ RequestShape /\ FreshIds
      /\ MemberLocks /\ TaskLocks /\ ExactlyOneOwner
  BY DEF Inv, TypeOK
<1>2. UNCHANGED <<team, role, task, req, view>>
  BY DEF Inside, Goto, dbVars
<1>3. ASSUME NEW q \in Procs \ {p}
      PROVE  /\ pc'[q] = pc[q]
             /\ actorRole'[q] = actorRole[q] /\ targetRole'[q] = targetRole[q]
             /\ seen'[q] = seen[q]
  BY <1>1 DEF Inside, Goto
<1>4. ASSUME NEW q \in Procs \ {p}
      PROVE  Shape(q)'
  BY <1>1, <1>2, <1>3 DEF RequestShape, Shape
<1>5. FreshIds'
  BY <1>1, <1>2 DEF FreshIds
<1>6. ASSUME NEW q \in Procs \ {p}
      PROVE  RolesHeld(q)'
  <2>1. \A u \in Users : memberLock[u] = q => memberLock'[u] = q
    BY StoreAssumption DEF Inside
  <2>2. pc[q] \notin Ended =>
           req[q].actor \in Users /\ req[q].target \in Users
    BY <1>1 DEF RequestShape, Shape
  <2>3. RolesHeld(q)
    BY <1>1 DEF MemberLocks
  <2> QED
    BY <1>2, <1>3, <2>1, <2>2, <2>3 DEF RolesHeld, Actor, Target, RemovalDecision
<1>7. ASSUME NEW q \in Procs \ {p}
      PROVE  RowHeld(q)'
  <2>1. \A t \in Tasks : taskLock[t] = q => taskLock'[t] = q
    BY StoreAssumption DEF Inside
  <2>2. pc[q] \in TaskLabels => req[q].task \in Tasks
    BY <1>1 DEF RequestShape, Shape
  <2>3. RowHeld(q)
    BY <1>1 DEF TaskLocks
  <2> QED
    BY <1>2, <1>3, <2>1, <2>2, <2>3 DEF RowHeld, TaskLabels, Live, VersionMatches
<1>8. \A u \in Users : memberLock'[u] # NoProc => IsMember(u)'
  BY <1>1, <1>2 DEF MemberLocks, Inside, IsMember
<1>9. ExactlyOneOwner'
  BY <1>1, <1>2 DEF ExactlyOneOwner
<1> QED
  BY <1>4, <1>5, <1>6, <1>7, <1>8, <1>9 DEF Inv, RequestShape, MemberLocks, TaskLocks

\* The statements that read or lock the memberships and the task rows.
LEMMA InsideSteps ==
    ASSUME Inv, TypeOK', NEW p \in Procs, ~Rollback(p),
           \/ ReadActor(p) \/ LockActor(p) \/ LockTarget(p) \/ TransferTarget(p)
           \/ UnassignHistory(p) \/ CreateAssignee(p) \/ LockTask(p)
           \/ UpdateRole(p) \/ UpdateAssignee(p) \/ UpdateTask(p) \/ DeleteRole(p)
           \/ DeleteTeamTasks(p)
    PROVE  Inv'
<1>1. /\ pc \in [Procs -> Labels] /\ req \in [Procs -> Requests]
      /\ actorRole \in [Procs -> Roles \cup {NoRole}]
      /\ targetRole \in [Procs -> Roles \cup {NoRole}]
      /\ memberLock \in [Users -> Procs \cup {NoProc}]
      /\ taskLock \in [Tasks -> Procs \cup {NoProc}]
      /\ seen \in [Procs -> Rows]
  BY DEF Inv, TypeOK
<1>2. Shape(p) /\ RolesHeld(p) /\ RowHeld(p)
  BY DEF Inv, RequestShape, MemberLocks, TaskLocks
<1>3. pc[p] \notin Ended => Actor(p) \in Users /\ Target(p) \in Users
  BY <1>2 DEF Shape, Actor, Target
<1>4. pc[p] \in TaskLabels => req[p].task \in Tasks
  BY <1>2 DEF Shape
<1>5. CASE ReadActor(p)
  <2> DEFINE next == AfterReadActor(req[p].op)
  <2>1. /\ pc[p] = "read_actor" /\ Goto(p, next)
        /\ actorRole' = [actorRole EXCEPT ![p] = role[Actor(p)]]
        /\ UNCHANGED <<memberLock, taskLock, targetRole, seen, audited>>
    BY <1>5 DEF ReadActor, lockVars
  <2>2. /\ next \in {"invite", "create_assignee", "lock_target"}
        /\ next = "create_assignee" => req[p].op = "CreateTask"
    BY DEF AfterReadActor
  <2>3. Inside(p, next)
    BY <1>1, <2>1 DEF Inside
  <2>4. pc'[p] = next /\ req' = req
    BY <1>1, <2>1 DEF Goto
  <2>5. Shape(p)' /\ RolesHeld(p)' /\ RowHeld(p)'
    BY <1>2, <2>1, <2>2, <2>4 DEF Shape, RolesHeld, RowHeld, TaskLabels, TaskOps
  <2> QED
    BY <2>3, <2>5, InsideInv
<1>6. CASE LockActor(p)
  <2> DEFINE next == IF req[p].op = "DeleteTeam" THEN "delete_team" ELSE "transfer_target"
  <2>1. /\ pc[p] = "lock_actor" /\ Goto(p, next)
        /\ LockMember(p, Actor(p))
        /\ actorRole' = [actorRole EXCEPT ![p] = role[Actor(p)]]
        /\ UNCHANGED <<taskLock, targetRole, seen, audited>>
    BY <1>6 DEF LockActor
  <2>2. Actor(p) \in Users
    BY <1>3, <2>1
  <2>3. Inside(p, next)
    BY <1>1, <2>1, <2>2 DEF Inside, LockMember
  <2>4. pc'[p] = next /\ req' = req /\ role' = role
    BY <1>1, <2>1 DEF Goto, dbVars
  <2>5. memberLock'[Actor(p)] = p /\ actorRole'[p] = role[Actor(p)]
    BY <1>1, <2>1, <2>2 DEF LockMember
  <2>6. Shape(p)' /\ RolesHeld(p)' /\ RowHeld(p)'
    BY <1>2, <2>1, <2>4, <2>5 DEF Shape, RolesHeld, RowHeld, TaskLabels, TaskOps, Actor
  <2> QED
    BY <2>3, <2>6, InsideInv
<1>7. CASE LockTarget(p)
  <2> DEFINE next == IF req[p].op = "ChangeMemberRole" THEN "change_role" ELSE "unassign_history"
  <2>1. /\ pc[p] = "lock_target" /\ Goto(p, next)
        /\ LockMember(p, Target(p))
        /\ targetRole' = [targetRole EXCEPT ![p] = role[Target(p)]]
        /\ UNCHANGED <<taskLock, actorRole, seen, audited>>
    BY <1>7 DEF LockTarget
  <2>2. Target(p) \in Users
    BY <1>3, <2>1
  <2>3. Inside(p, next)
    BY <1>1, <2>1, <2>2 DEF Inside, LockMember
  <2>4. pc'[p] = next /\ req' = req /\ role' = role
    BY <1>1, <2>1 DEF Goto, dbVars
  <2>5. memberLock'[Target(p)] = p /\ targetRole'[p] = role[Target(p)]
    BY <1>1, <2>1, <2>2 DEF LockMember
  <2>6. Shape(p)' /\ RolesHeld(p)' /\ RowHeld(p)'
    BY <1>2, <2>1, <2>4, <2>5 DEF Shape, RolesHeld, RowHeld, TaskLabels, TaskOps, Target
  <2> QED
    BY <2>3, <2>6, InsideInv
<1>8. CASE TransferTarget(p)
  <2>1. /\ pc[p] = "transfer_target" /\ Goto(p, "transfer")
        /\ CanTransferOwnership(actorRole[p], Actor(p) = Target(p)) = "ok"
        /\ LockMember(p, Target(p))
        /\ UNCHANGED <<taskLock, actorRole, targetRole, seen, audited>>
    BY <1>8 DEF TransferTarget
  <2>2. Target(p) \in Users /\ Actor(p) \in Users
    BY <1>3, <2>1
  <2>3. Inside(p, "transfer")
    BY <1>1, <2>1, <2>2 DEF Inside, LockMember
  <2>4. pc'[p] = "transfer" /\ req' = req /\ role' = role
    BY <1>1, <2>1 DEF Goto, dbVars
  <2>5. memberLock'[Target(p)] = p
    BY <1>1, <2>1, <2>2 DEF LockMember
  <2>6. memberLock'[Actor(p)] = p /\ role[Actor(p)] = actorRole[p]
    BY <1>1, <1>2, <2>1, <2>2 DEF RolesHeld, LockMember
  <2>7. Shape(p)' /\ RolesHeld(p)' /\ RowHeld(p)'
    BY <1>2, <2>1, <2>4, <2>5, <2>6
       DEF Shape, RolesHeld, RowHeld, TaskLabels, TaskOps, Target, Actor
  <2> QED
    BY <2>3, <2>7, InsideInv
<1>9. CASE UnassignHistory(p)
  <2> DEFINE S == AssignedTo(Target(p))
  <2>1. /\ pc[p] = "unassign_history" /\ Goto(p, "unassign_update")
        /\ RemovalDecision(p) = "ok"
        /\ Lockable(p, S) /\ LockTasks(p, S)
        /\ UNCHANGED <<memberLock, actorRole, targetRole, seen>>
    BY <1>9 DEF UnassignHistory
  <2>2. S \subseteq Tasks
    BY DEF AssignedTo
  <2>3. Inside(p, "unassign_update")
    BY <1>1, <2>1, <2>2 DEF Inside, Lockable, LockTasks
  <2>4. pc'[p] = "unassign_update" /\ req' = req /\ role' = role
    BY <1>1, <2>1 DEF Goto, dbVars
  <2>5. Shape(p)' /\ RolesHeld(p)' /\ RowHeld(p)'
    BY <1>2, <2>1, <2>4 DEF Shape, RolesHeld, RowHeld, TaskLabels, TaskOps, Target, Actor,
                            RemovalDecision
  <2> QED
    BY <2>3, <2>5, InsideInv
<1>10. CASE CreateAssignee(p)
  <2>1. /\ pc[p] = "create_assignee" /\ Goto(p, "create_task")
        /\ UNCHANGED <<memberLock, taskLock, actorRole, targetRole, seen, audited>>
    BY <1>10 DEF CreateAssignee, lockVars
  <2>2. Inside(p, "create_task")
    BY <1>1, <2>1 DEF Inside
  <2>3. pc'[p] = "create_task" /\ req' = req
    BY <1>1, <2>1 DEF Goto
  <2>4. Shape(p)' /\ RolesHeld(p)' /\ RowHeld(p)'
    BY <1>2, <2>1, <2>3 DEF Shape, RolesHeld, RowHeld, TaskLabels, TaskOps
  <2> QED
    BY <2>2, <2>4, InsideInv
<1>11. CASE LockTask(p)
  <2> DEFINE t    == req[p].task
             next == IF req[p].op = "UpdateTask" THEN "update_role" ELSE "delete_role"
  <2>1. /\ pc[p] = "lock_task" /\ Goto(p, next)
        /\ taskLock[t] = NoProc /\ Live(t)
        /\ taskLock' = [taskLock EXCEPT ![t] = p]
        /\ seen' = [seen EXCEPT ![p] = task[t]]
        /\ UNCHANGED <<memberLock, actorRole, targetRole, audited>>
    BY <1>11 DEF LockTask
  <2>2. t \in Tasks
    BY <1>4, <2>1 DEF TaskLabels
  <2>3. Inside(p, next)
    BY <1>1, <2>1, <2>2 DEF Inside
  <2>4. pc'[p] = next /\ req' = req /\ task' = task /\ view' = view
    BY <1>1, <2>1 DEF Goto, dbVars
  <2>5. taskLock'[t] = p /\ seen'[p] = task[t]
    BY <1>1, <2>1, <2>2
  <2>6. Shape(p)' /\ RolesHeld(p)' /\ RowHeld(p)'
    BY <1>2, <2>1, <2>4, <2>5 DEF Shape, RolesHeld, RowHeld, TaskLabels, TaskOps, Live
  <2> QED
    BY <2>3, <2>6, InsideInv
<1>12. CASE UpdateRole(p)
  <2> DEFINE assigns == /\ "assignee_id" \in Changed(seen[p], req[p].edit)
                        /\ req[p].edit.assignee_id # NoUser
             next == IF assigns THEN "update_assignee" ELSE "update"
  <2>1. /\ pc[p] = "update_role" /\ Goto(p, next) /\ VersionMatches(p)
        /\ UNCHANGED <<memberLock, taskLock, actorRole, targetRole, seen, audited>>
    BY <1>12 DEF UpdateRole, lockVars
  <2>2. assigns => req[p].edit.assignee_id \in Users
    <3>1. SUFFICES ASSUME assigns PROVE req[p].edit.assignee_id # "keep"
      BY <1>1 DEF Requests, Edits
    <3>2. seen[p] \in Rows
      BY <1>1
    <3>3. req[p].edit.assignee_id = "keep" =>
             Apply(seen[p], req[p].edit)["assignee_id"] = seen[p]["assignee_id"]
      BY <3>2 DEF Apply, Edited, Rows
    <3> QED
      BY <3>1, <3>3 DEF Changed
  <2>3. Inside(p, next)
    BY <1>1, <2>1 DEF Inside
  <2>4. pc'[p] = next /\ req' = req /\ task' = task /\ view' = view
    BY <1>1, <2>1 DEF Goto, dbVars
  <2>5. Shape(p)' /\ RolesHeld(p)' /\ RowHeld(p)'
    BY <1>2, <2>1, <2>2, <2>4
       DEF Shape, RolesHeld, RowHeld, TaskLabels, TaskOps, Live, VersionMatches
  <2> QED
    BY <2>3, <2>5, InsideInv
<1>13. CASE UpdateAssignee(p)
  <2>1. /\ pc[p] = "update_assignee" /\ Goto(p, "update")
        /\ UNCHANGED <<memberLock, taskLock, actorRole, targetRole, seen, audited>>
    BY <1>13 DEF UpdateAssignee, lockVars
  <2>2. Inside(p, "update")
    BY <1>1, <2>1 DEF Inside
  <2>3. pc'[p] = "update" /\ req' = req /\ task' = task /\ view' = view
    BY <1>1, <2>1 DEF Goto, dbVars
  <2>4. Shape(p)' /\ RolesHeld(p)' /\ RowHeld(p)'
    BY <1>2, <2>1, <2>3
       DEF Shape, RolesHeld, RowHeld, TaskLabels, TaskOps, Live, VersionMatches
  <2> QED
    BY <2>2, <2>4, InsideInv
<1>14. CASE DeleteTeamTasks(p)
  <2> DEFINE S == {t \in Tasks : Live(t)}
  <2>1. /\ pc[p] = "delete_team" /\ Goto(p, "cascade")
        /\ CanDeleteTeam(actorRole[p]) = "ok"
        /\ Lockable(p, Tasks) /\ LockTasks(p, S)
        /\ UNCHANGED <<memberLock, actorRole, targetRole, seen, audited>>
    BY <1>14 DEF DeleteTeamTasks
  <2>2. Inside(p, "cascade")
    BY <1>1, <2>1 DEF Inside, Lockable, LockTasks
  <2>3. pc'[p] = "cascade" /\ req' = req /\ role' = role
    BY <1>1, <2>1 DEF Goto, dbVars
  <2>4. Shape(p)' /\ RolesHeld(p)' /\ RowHeld(p)'
    BY <1>2, <2>1, <2>3 DEF Shape, RolesHeld, RowHeld, TaskLabels, TaskOps, Target, Actor
  <2> QED
    BY <2>2, <2>4, InsideInv
<1>15. CASE DeleteRole(p)
  <2>1. /\ pc[p] = "delete_role" /\ Goto(p, "delete_task")
        /\ UNCHANGED <<memberLock, taskLock, actorRole, targetRole, seen, audited>>
    BY <1>15 DEF DeleteRole, lockVars
  <2>2. Inside(p, "delete_task")
    BY <1>1, <2>1 DEF Inside
  <2>3. pc'[p] = "delete_task" /\ req' = req /\ task' = task /\ view' = view
    BY <1>1, <2>1 DEF Goto, dbVars
  <2>4. Shape(p)' /\ RolesHeld(p)' /\ RowHeld(p)'
    BY <1>2, <2>1, <2>3
       DEF Shape, RolesHeld, RowHeld, TaskLabels, TaskOps, Live, VersionMatches
  <2> QED
    BY <2>2, <2>4, InsideInv
<1>16. CASE UpdateTask(p)
  <2>1. /\ pc[p] = "update" /\ Goto(p, "record")
        /\ Changed(seen[p], req[p].edit) # {}
        /\ UNCHANGED <<memberLock, taskLock, actorRole, targetRole, seen, audited>>
    BY <1>16 DEF UpdateTask, lockVars
  <2>2. Inside(p, "record")
    BY <1>1, <2>1 DEF Inside
  <2>3. pc'[p] = "record" /\ req' = req /\ task' = task /\ view' = view
    BY <1>1, <2>1 DEF Goto, dbVars
  <2>4. Shape(p)' /\ RolesHeld(p)' /\ RowHeld(p)'
    BY <1>2, <2>1, <2>3
       DEF Shape, RolesHeld, RowHeld, TaskLabels, TaskOps, Live, VersionMatches
  <2> QED
    BY <2>2, <2>4, InsideInv
<1> QED
  BY <1>5, <1>6, <1>7, <1>8, <1>9, <1>10, <1>11, <1>12, <1>13, <1>14, <1>15, <1>16

-----------------------------------------------------------------------------
(* The transactions that change the team.                                  *)

\* A commit that leaves every task row alone.
LEMMA TeamCommitInv ==
    ASSUME Inv, TypeOK', ExactlyOneOwner', NEW p \in Procs, Commit(p, "idle"),
           \A u \in Users : memberLock[u] \notin {NoProc, p} => role'[u] = role[u],
           \A q \in Procs \ {p} : req[q].op = "CreateTeam" => team' = "absent",
           UNCHANGED task
    PROVE  Inv'
<1>1. \A q \in Procs : req[q].op = "CreateTask" => task[req[q].task].state = "absent"
  BY DEF Inv, FreshIds
<1> QED
  BY <1>1, CommitInv

\* CreateTeam, InviteMember, ChangeMemberRole and TransferOwnership.
LEMMA TeamSteps ==
    ASSUME Inv, TypeOK', NEW p \in Procs, ~Rollback(p),
           CreateTeam(p) \/ InviteMember(p) \/ ChangeMemberRole(p) \/ TransferOwnership(p)
    PROVE  Inv'
<1>1. /\ role \in [Users -> Roles \cup {NoRole}] /\ ExactlyOneOwner
      /\ memberLock \in [Users -> Procs \cup {NoProc}]
  BY DEF Inv, TypeOK
<1>2. Shape(p) /\ RolesHeld(p) /\ MemberLocks
  BY DEF Inv, RequestShape, MemberLocks
<1>3. pc[p] \notin Ended => Actor(p) \in Users /\ Target(p) \in Users
  BY <1>2 DEF Shape, Actor, Target
<1>4. \A q \in Procs : req[q].op = "CreateTeam" => team = "absent"
  BY DEF Inv, FreshIds
<1>5. CASE CreateTeam(p)
  <2>1. /\ pc[p] = "create_team" /\ team' = "live" /\ Commit(p, "idle")
        /\ role' = [role EXCEPT ![Actor(p)] = "owner"] /\ UNCHANGED task
    BY <1>5 DEF CreateTeam
  <2>2. Actor(p) \in Users /\ req[p].op = "CreateTeam"
    BY <1>2, <1>3, <2>1 DEF Shape
  <2>3. team = "absent" /\ \A q \in Procs \ {p} : req[q].op # "CreateTeam"
    BY <2>2 DEF Inv, FreshIds
  <2>4. \A u \in Users : role[u] = NoRole /\ memberLock[u] = NoProc
    BY <1>1, <1>2, <2>3 DEF ExactlyOneOwner, MemberLocks, IsMember
  <2>5. ExactlyOneOwner'
    BY <1>1, <2>1, <2>2, <2>4 DEF ExactlyOneOwner, NoRole
  <2> QED
    BY <2>1, <2>3, <2>4, <2>5, TeamCommitInv
<1>6. CASE InviteMember(p)
  <2>1. /\ pc[p] = "invite" /\ CanInvite(actorRole[p], req[p].newRole) = "ok"
        /\ memberLock[Target(p)] = NoProc /\ ~IsMember(Target(p)) /\ team = "live"
        /\ role' = [role EXCEPT ![Target(p)] = req[p].newRole]
        /\ Commit(p, "idle") /\ UNCHANGED <<team, task>>
    BY <1>6 DEF InviteMember
  <2>2. Target(p) \in Users /\ req[p].newRole \in GrantableRoles
    BY <1>3, <2>1 DEF CanInvite
  <2>3. ExactlyOneOwner'
    BY <1>1, <2>1, <2>2 DEF ExactlyOneOwner, IsMember, NoRole, GrantableRoles
  <2> QED
    BY <1>1, <1>4, <2>1, <2>2, <2>3, TeamCommitInv
<1>7. CASE ChangeMemberRole(p)
  <2>1. /\ pc[p] = "change_role"
        /\ CanChangeRole(actorRole[p], targetRole[p], req[p].newRole, Actor(p) = Target(p)) = "ok"
        /\ role' = [role EXCEPT ![Target(p)] = req[p].newRole]
        /\ Commit(p, "idle") /\ UNCHANGED <<team, task>>
    BY <1>7 DEF ChangeMemberRole
  <2>2. Target(p) \in Users /\ memberLock[Target(p)] = p /\ role[Target(p)] = targetRole[p]
    BY <1>2, <1>3, <2>1 DEF RolesHeld
  <2>3. req[p].newRole \in GrantableRoles /\ role[Target(p)] # "owner"
    BY <2>1, <2>2 DEF CanChangeRole
  <2>4. role[Target(p)] # NoRole
    BY <1>2, <2>2, StoreAssumption DEF MemberLocks, IsMember
  <2>5. ExactlyOneOwner'
    BY <1>1, <2>1, <2>2, <2>3, <2>4 DEF ExactlyOneOwner, GrantableRoles
  <2> QED
    BY <1>1, <1>4, <2>1, <2>2, <2>5, TeamCommitInv
<1>8. CASE TransferOwnership(p)
  <2>1. /\ pc[p] = "transfer"
        /\ role' = [role EXCEPT ![Target(p)] = "owner", ![Actor(p)] = "admin"]
        /\ Commit(p, "idle") /\ UNCHANGED <<team, task>>
    BY <1>8 DEF TransferOwnership
  <2>2. /\ Target(p) \in Users /\ Actor(p) \in Users
        /\ memberLock[Target(p)] = p /\ memberLock[Actor(p)] = p
        /\ CanTransferOwnership(role[Actor(p)], Actor(p) = Target(p)) = "ok"
    BY <1>2, <1>3, <2>1 DEF RolesHeld
  <2>3. role[Actor(p)] = "owner" /\ Actor(p) # Target(p)
    BY <2>2 DEF CanTransferOwnership
  <2>4. /\ role'[Target(p)] = "owner" /\ role'[Actor(p)] = "admin"
        /\ \A u \in Users \ {Actor(p), Target(p)} : role'[u] = role[u]
    BY <1>1, <2>1, <2>2, <2>3
  <2>5. team = "live"
    BY <1>1, <2>2, <2>3 DEF ExactlyOneOwner, NoRole
  <2>6. ExactlyOneOwner'
    BY <1>1, <2>1, <2>2, <2>3, <2>4, <2>5 DEF ExactlyOneOwner
  <2> QED
    BY <1>4, <2>1, <2>2, <2>4, <2>6, TeamCommitInv
<1> QED
  BY <1>5, <1>6, <1>7, <1>8

-----------------------------------------------------------------------------
(* The transactions that change tasks.                                     *)

\* A row that a request at one of these labels has locked cannot be changed
\* by a statement of another request that waits for the row's lock.
LEMMA LockedRowStays ==
    ASSUME Inv, NEW p \in Procs, NEW S \in SUBSET Tasks, Lockable(p, S),
           \A t \in Tasks \ S : task'[t] = task[t], NEW q \in Procs \ {p},
           pc[q] \in RowLabels
    PROVE  task'[req[q].task] = task[req[q].task]
<1>1. RowHeld(q) /\ Shape(q)
  BY DEF Inv, TaskLocks, RequestShape
<1>2. taskLock[req[q].task] = q /\ req[q].task \in Tasks
  BY <1>1 DEF RowHeld, Shape, TaskLabels, TaskOps
<1> QED
  BY <1>2, StoreAssumption DEF Lockable

\* DeleteTeam and UnassignUpdate wait for the locks of the rows they change.
LEMMA RemovalSteps ==
    ASSUME Inv, TypeOK', NEW p \in Procs, ~Rollback(p),
           DeleteTeam(p) \/ UnassignUpdate(p)
    PROVE  Inv'
<1>1. /\ role \in [Users -> Roles \cup {NoRole}] /\ ExactlyOneOwner
      /\ task \in [Tasks -> Rows]
  BY DEF Inv, TypeOK
<1>2. Shape(p) /\ RolesHeld(p) /\ MemberLocks
  BY DEF Inv, RequestShape, MemberLocks
<1>3. pc[p] \notin Ended => Actor(p) \in Users /\ Target(p) \in Users
  BY <1>2 DEF Shape, Actor, Target
<1>4. \A q \in Procs : /\ req[q].op = "CreateTeam" => team = "absent"
                       /\ req[q].op = "CreateTask" =>
                            req[q].task \in Tasks /\ task[req[q].task].state = "absent"
  BY DEF Inv, FreshIds, RequestShape, Shape
<1>5. CASE DeleteTeam(p)
  <2>1. /\ pc[p] = "cascade"
        /\ \A u \in Users : memberLock[u] \in {NoProc, p}
        /\ Lockable(p, Tasks)
        /\ team' = "deleted" /\ role' = [u \in Users |-> NoRole]
        /\ task' = [t \in Tasks |-> IF Live(t) THEN DeletedRow ELSE task[t]]
        /\ CommitTasks(p)
    BY <1>5 DEF DeleteTeam
  <2>2. Actor(p) \in Users /\ role[Actor(p)] = "owner"
    BY <1>2, <1>3, <2>1 DEF RolesHeld, CanDeleteTeam
  <2>3. team = "live"
    BY <1>1, <2>2 DEF ExactlyOneOwner, NoRole
  <2>4. ExactlyOneOwner'
    BY <2>1 DEF ExactlyOneOwner
  <2>5. \A t \in Tasks : \/ task'[t] = task[t] /\ task[t].state # "live"
                         \/ task[t].state = "live" /\ task'[t].state = "deleted"
    BY <2>1 DEF Live, DeletedRow, NoRow
  <2>6. \A q \in Procs \ {p} :
           pc[q] \in RowLabels
              => task'[req[q].task] = task[req[q].task]
    BY <2>1, LockedRowStays
  <2>7. \A q \in Procs \ {p} :
           req[q].op = "CreateTask" => task'[req[q].task].state = "absent"
    BY <1>4, <2>5
  <2> QED
    BY <1>4, <2>1, <2>3, <2>4, <2>5, <2>6, <2>7, CommitInv
<1>6. CASE UnassignUpdate(p)
  <2> DEFINE S == AssignedTo(Target(p))
  <2>1. /\ pc[p] = "unassign_update" /\ Lockable(p, S)
        /\ task' = [t \in Tasks |-> IF t \in S THEN Unassigned(task[t]) ELSE task[t]]
        /\ role' = [role EXCEPT ![Target(p)] = NoRole]
        /\ \E next \in Ended : Commit(p, next)
        /\ UNCHANGED team
    BY <1>6 DEF UnassignUpdate
  <2>2. /\ Target(p) \in Users /\ memberLock[Target(p)] = p
        /\ role[Target(p)] = targetRole[p] /\ RemovalDecision(p) = "ok"
    BY <1>2, <1>3, <2>1 DEF RolesHeld
  <2>3. role[Target(p)] # "owner" /\ role[Target(p)] # NoRole
    BY <1>2, <2>2, StoreAssumption
       DEF RemovalDecision, CanLeave, CanRemoveMember, MemberLocks, IsMember
  <2>4. ExactlyOneOwner'
    BY <1>1, <2>1, <2>2, <2>3 DEF ExactlyOneOwner, NoRole
  <2>5. ASSUME NEW t \in S
        PROVE  /\ task[t].state = "live" /\ task'[t].state = "live"
               /\ task'[t].version > task[t].version
    <3>1. t \in Tasks /\ task[t].state = "live" /\ task[t] \in Rows
      BY <1>1 DEF AssignedTo, Live
    <3>2. task'[t] = Unassigned(task[t])
      BY <2>1, <3>1
    <3>3. task'[t].state = task[t].state /\ task'[t].version = task[t].version + 1
      BY <3>1, <3>2 DEF Unassigned, Rows
    <3>4. task[t].version \in Nat
      BY <3>1 DEF Rows
    <3> QED
      BY <3>1, <3>3, <3>4
  <2>6. S \in SUBSET Tasks /\ \A t \in Tasks \ S : task'[t] = task[t]
    BY <2>1 DEF AssignedTo
  <2>7. \A q \in Procs \ {p} :
           pc[q] \in RowLabels
              => task'[req[q].task] = task[req[q].task]
    BY <2>1, <2>6, LockedRowStays
  <2>8. \A q \in Procs \ {p} :
           req[q].op = "CreateTask" => task'[req[q].task].state = "absent"
    BY <1>4, <2>5, <2>6
  <2>9. \A u \in Users : memberLock[u] \notin {NoProc, p} => role'[u] = role[u]
    BY <1>1, <2>1, <2>2
  <2> HIDE DEF S
  <2> QED
    BY <1>4, <2>1, <2>4, <2>5, <2>6, <2>7, <2>8, <2>9, CommitInv
<1> QED
  BY <1>5, <1>6

\* CreateTask, DeleteTask and UpdateTask's commit change one row, which is fresh or
\* which the transaction has locked.
LEMMA TaskSteps ==
    ASSUME Inv, TypeOK', NEW p \in Procs, ~Rollback(p),
           CreateTask(p) \/ DeleteTask(p) \/ RecordHistory(p)
    PROVE  Inv'
<1> DEFINE t == req[p].task
<1>1. task \in [Tasks -> Rows] /\ seen \in [Procs -> Rows] /\ req \in [Procs -> Requests]
  BY DEF Inv, TypeOK
<1>2. Shape(p) /\ RowHeld(p) /\ ExactlyOneOwner
  BY DEF Inv, RequestShape, TaskLocks
<1>3. t \in Tasks
  BY <1>2 DEF Shape, CreateTask, DeleteTask, RecordHistory, TaskLabels
<1>4. \A q \in Procs : req[q].op = "CreateTeam" => team = "absent"
  BY DEF Inv, FreshIds
<1>5. SUFFICES ASSUME CommitTasks(p), UNCHANGED <<team, role>>,
                      \A s \in Tasks \ {t} : task'[s] = task[s],
                      \/ task[t].state = "absent" /\ task'[t].state = "live"
                      \/ task[t].state = "live" /\ task'[t].state = "deleted"
                      \/ /\ task[t].state = "live" /\ task'[t].state = "live"
                         /\ task'[t].version > task[t].version,
                      \/ req[p].op = "CreateTask" /\ task[t].state = "absent"
                      \/ taskLock[t] = p /\ task[t].state = "live"
               PROVE  Inv'
  <2>1. CASE CreateTask(p)
    <3>1. /\ task' = [task EXCEPT ![t] = NewRow(Actor(p), Target(p))]
          /\ CommitTasks(p) /\ UNCHANGED <<team, role>>
          /\ pc[p] = "create_task"
      BY <2>1 DEF CreateTask
    <3>2. req[p].op = "CreateTask" /\ task[t].state = "absent"
      BY <1>2, <3>1 DEF Shape, Inv, FreshIds
    <3>3. task'[t].state = "live"
      BY <1>1, <1>3, <3>1 DEF NewRow, NoRow
    <3> QED
      BY <1>1, <1>5, <3>1, <3>2, <3>3
  <2>2. CASE DeleteTask(p)
    <3>1. /\ task' = [task EXCEPT ![t] = DeletedRow]
          /\ CommitTasks(p) /\ UNCHANGED <<team, role>>
          /\ pc[p] = "delete_task"
      BY <2>2 DEF DeleteTask
    <3>2. taskLock[t] = p /\ task[t].state = "live"
      BY <1>2, <3>1 DEF RowHeld, Live, TaskLabels
    <3>3. task'[t].state = "deleted"
      BY <1>1, <1>3, <3>1 DEF DeletedRow, NoRow
    <3> QED
      BY <1>1, <1>5, <3>1, <3>2, <3>3
  <2>3. CASE RecordHistory(p)
    <3> DEFINE row == [Apply(seen[p], req[p].edit) EXCEPT !.version = @ + 1]
    <3>1. /\ task' = [task EXCEPT ![t] = row]
          /\ CommitTasks(p) /\ UNCHANGED <<team, role>>
          /\ pc[p] = "record"
      BY <2>3 DEF RecordHistory, NewVersion
    <3>2. taskLock[t] = p /\ task[t].state = "live" /\ seen[p] = task[t]
      BY <1>2, <3>1 DEF RowHeld, Live, TaskLabels
    <3>3. seen[p] \in Rows
      BY <1>1
    <3>4. /\ Apply(seen[p], req[p].edit).state = seen[p].state
          /\ Apply(seen[p], req[p].edit).version = seen[p].version
      BY <3>3 DEF Apply, Rows
    <3>5. Apply(seen[p], req[p].edit) \in Rows
      BY <1>1, <3>3, ApplyType DEF Requests
    <3>6. row.state = seen[p].state /\ row.version = seen[p].version + 1
      BY <3>4, <3>5 DEF Rows
    <3>7. seen[p].version \in Nat
      BY <3>3 DEF Rows
    <3>8. task'[t] = row
      BY <1>1, <1>3, <3>1
    <3>9. \A s \in Tasks \ {t} : task'[s] = task[s]
      BY <1>1, <3>1
    <3>10. task'[t].state = "live" /\ task'[t].version > task[t].version
      BY <3>2, <3>6, <3>7, <3>8
    <3> QED
      BY <1>5, <3>1, <3>2, <3>9, <3>10
  <2> QED
    BY <2>1, <2>2, <2>3
<1>6. ExactlyOneOwner'
  BY <1>2, <1>5 DEF ExactlyOneOwner
<1>7. ASSUME NEW q \in Procs \ {p}, req[q].op = "CreateTask"
      PROVE  task'[req[q].task].state = "absent"
  <2>1. /\ req[q].task \in Tasks /\ task[req[q].task].state = "absent"
        /\ req[q].task # t
    BY <1>7 DEF Inv, RequestShape, Shape, FreshIds
  <2> QED
    BY <1>5, <2>1
<1>8. ASSUME NEW q \in Procs \ {p},
             pc[q] \in RowLabels
      PROVE  task'[req[q].task] = task[req[q].task]
  <2>1. /\ req[q].task \in Tasks /\ taskLock[req[q].task] = q
        /\ task[req[q].task].state = "live"
    BY <1>8 DEF Inv, RequestShape, Shape, TaskLocks, RowHeld, TaskLabels, TaskOps, Live
  <2> QED
    BY <1>5, <2>1
<1> QED
  BY <1>4, <1>5, <1>6, <1>7, <1>8, CommitInv

-----------------------------------------------------------------------------
(* The theorems.                                                           *)

\* Every step of every request keeps the invariant.
LEMMA NextInv ==
    ASSUME Inv, [Next]_vars
    PROVE  Inv'
<1>1. CASE UNCHANGED vars
  BY <1>1 DEF vars, dbVars, lockVars, reqVars, locals, Inv, TypeOK, RequestShape, Shape,
     FreshIds, MemberLocks, RolesHeld, TaskLocks, RowHeld, ExactlyOneOwner, Actor, Target,
     IsMember, Live, RemovalDecision, VersionMatches
<1>2. ASSUME NEW p \in Procs, Request(p)
      PROVE  Inv'
  BY <1>2, RequestInv
<1>3. ASSUME NEW p \in Procs, Abort(p)
      PROVE  Inv'
  BY <1>3, RollbackInv DEF Abort
<1>4. ASSUME NEW p \in Procs, Step(p)
      PROVE  Inv'
  <2>1. CASE Rollback(p)
    BY <2>1, RollbackInv
  <2>2. CASE ~Rollback(p)
    <3>1. TypeOK'
      BY <1>4, StepType
    <3>2. ~Invalidate(p) /\ ~ReturnError(p)
      BY <2>2 DEF Invalidate, ReturnError
    <3> QED
      BY <1>4, <2>2, <3>1, <3>2, InsideSteps, TeamSteps, RemovalSteps, TaskSteps DEF Step
  <2> QED
    BY <2>1, <2>2
<1> QED
  BY <1>1, <1>2, <1>3, <1>4 DEF Next

\* The empty database satisfies the invariant.
LEMMA InitInv ==
    ASSUME Init
    PROVE  Inv
<1>1. TypeOK
  <2>1. "idle" \in Labels /\ NoRow \in Rows /\ NoRequest \in Requests
    BY ConstantTypes, LabelFacts
  <2>2. /\ team \in {"absent", "live", "deleted"}
        /\ role \in [Users -> Roles \cup {NoRole}]
        /\ memberLock \in [Users -> Procs \cup {NoProc}]
        /\ taskLock \in [Tasks -> Procs \cup {NoProc}]
        /\ actorRole \in [Procs -> Roles \cup {NoRole}]
        /\ targetRole \in [Procs -> Roles \cup {NoRole}]
        /\ audited \in [Procs -> SUBSET Tasks]
    BY DEF Init
  <2>3. /\ task \in [Tasks -> Rows] /\ history \in [Tasks -> Seq(Entries)]
        /\ pc \in [Procs -> Labels] /\ req \in [Procs -> Requests]
        /\ view \in [Procs -> Rows] /\ seen \in [Procs -> Rows]
    BY <2>1 DEF Init
  <2> QED
    BY <2>2, <2>3 DEF TypeOK
<1>2. RequestShape
  BY StoreAssumption DEF Init, RequestShape, Shape, NoRequest, TaskLabels, TaskOps
<1>3. FreshIds
  BY DEF Init, FreshIds, NoRequest, TaskOps
<1>4. MemberLocks
  BY DEF Init, MemberLocks, RolesHeld
<1>5. TaskLocks
  BY DEF Init, TaskLocks, RowHeld, NoRequest, TaskLabels
<1>6. ExactlyOneOwner
  BY DEF Init, ExactlyOneOwner
<1> QED
  BY <1>1, <1>2, <1>3, <1>4, <1>5, <1>6 DEF Inv

\* The inductive invariant holds for any number of users, tasks and
\* concurrent requests: the roles and rows that the services check under a
\* lock are what is in the tables when they commit.
THEOREM Invariance == Spec => []Inv
<1>1. Init => Inv
  BY InitInv
<1>2. Inv /\ [Next]_vars => Inv'
  BY NextInv
<1> QED
  BY <1>1, <1>2, PTL DEF Spec

\* Every table, lock and request variable keeps its type.
THEOREM TypeCorrect == Spec => []TypeOK
<1>1. Inv => TypeOK
  BY DEF Inv
<1> QED
  BY <1>1, Invariance, PTL

\* A live team always has exactly one owner, whatever transfers, role
\* changes, removals, departures and invitations run at the same time.
THEOREM OneOwner == Spec => []ExactlyOneOwner
<1>1. Inv => ExactlyOneOwner
  BY DEF Inv
<1> QED
  BY <1>1, Invariance, PTL

\* UpdateTask only ever replaces the row its client had loaded: a concurrent
\* edit, unassignment or deletion makes it fail instead.
THEOREM NeverLost == Spec => NoLostUpdate
<1> DEFINE Kept == \A p \in Procs :
                      pc[p] = "record" /\ pc'[p] \in {"invalidate", "commit_error"}
                         => task[req[p].task] = view[p]
<1>1. ASSUME Inv, [Next]_vars
      PROVE  [Kept]_vars
  <2>1. SUFFICES ASSUME NEW p \in Procs, pc[p] = "record"
                 PROVE  task[req[p].task] = view[p]
    OBVIOUS
  <2>2. RowHeld(p) /\ Shape(p)
    BY <1>1 DEF Inv, TaskLocks, RequestShape
  <2>3. /\ Live(req[p].task) /\ seen[p] = task[req[p].task]
        /\ view[p].version = seen[p].version /\ req[p].op = "UpdateTask"
    BY <2>1, <2>2 DEF RowHeld, Shape, VersionMatches, TaskLabels
  <2>4. seen[p].version \in Nat
    <3>1. seen[p] \in Rows
      BY <1>1 DEF Inv, TypeOK
    <3> QED
      BY <3>1 DEF Rows
  <2>5. \/ view[p].version < task[req[p].task].version
        \/ view[p] = task[req[p].task]
    BY <2>2, <2>3 DEF RowHeld
  <2>6. ~(view[p].version < task[req[p].task].version)
    BY <2>3, <2>4
  <2> QED
    BY <2>5, <2>6
<1> QED
  BY <1>1, Invariance, PTL DEF Spec, NoLostUpdate

\* A step of one request leaves the others where they are.
LEMMA OthersWait ==
    ASSUME Inv, NEW p \in Procs, NEW q \in Procs, p # q, Request(q) \/ Step(q) \/ Abort(q)
    PROVE  pc'[p] = pc[p]
<1>1. pc \in [Procs -> Labels]
  BY DEF Inv, TypeOK
<1>2. CASE Request(q)
  BY <1>1, <1>2 DEF Request, RequestCreateTeam, RequestDeleteTeam, RequestLeaveTeam,
     RequestTransfer, RequestRemoveMember, RequestInvite, RequestChangeRole,
     RequestCreateTask, RequestUpdateTask, RequestDeleteTask, Receive, ReceiveTask
<1>3. CASE Abort(q)
  BY <1>1, <1>3 DEF Abort, Rollback, Commit, EndRequest
<1>4. CASE Step(q)
  BY <1>1, <1>4 DEF Step, ReadActor, LockActor, LockTarget, TransferTarget, UnassignHistory,
     DeleteTeamTasks, CreateAssignee, LockTask, UpdateRole, UpdateAssignee, DeleteRole,
     Invalidate, ReturnError, RecordHistory, CreateTeam, InviteMember, ChangeMemberRole, TransferOwnership, DeleteTeam,
     UnassignUpdate, CreateTask, DeleteTask, UpdateTask, Goto, Commit, Rollback, EndRequest
<1> QED
  BY <1>2, <1>3, <1>4

\* Whoever changes or removes another one's membership was entitled to it by
\* the role he had when it was read and by the target's role of this moment.
THEOREM EntitledChanges == Spec => AdminsTouchOnlyMembers
<1> DEFINE Changes(p) == /\ pc[p] \in {"change_role", "unassign_update"} /\ pc'[p] # pc[p]
                         /\ req[p].op # "LeaveTeam"
                         /\ role'[Target(p)] # role[Target(p)]
           Entitled(p) == \/ actorRole[p] = "admin" /\ role[Target(p)] = "member"
                          \/ actorRole[p] = "owner" /\ role[Target(p)] # "owner"
<1>1. ASSUME Inv, [Next]_vars
      PROVE  [\A p \in Procs : Changes(p) => Entitled(p)]_vars
  <2>1. SUFFICES ASSUME NEW p \in Procs, Changes(p)
                 PROVE  Entitled(p)
    OBVIOUS
  <2>2. PICK q \in Procs : Request(q) \/ Step(q) \/ Abort(q)
    BY <1>1, <2>1 DEF Next, vars, dbVars
  <2>3. q = p
    BY <1>1, <2>1, <2>2, OthersWait
  <2>4. /\ RolesHeld(p) /\ Shape(p) /\ role[Target(p)] = targetRole[p]
        /\ memberLock[Target(p)] = p
    BY <1>1, <2>1 DEF Inv, MemberLocks, RequestShape, RolesHeld
  <2>5. Target(p) \in Users
    BY <2>1, <2>4 DEF Shape, Target
  <2>6. actorRole[p] \in Roles \cup {NoRole} /\ role[Target(p)] \in Roles
    BY <1>1, <2>4, <2>5, StoreAssumption DEF Inv, TypeOK, MemberLocks, IsMember
  <2>7. CASE pc[p] = "unassign_update"
    BY <2>1, <2>4, <2>6, <2>7 DEF RolesHeld, RemovalDecision, CanRemoveMember, IsManager, Roles
  <2>8. CASE pc[p] = "change_role"
    <3>1. ~Request(p) /\ ~Abort(p)
      BY <2>1 DEF Request, RequestCreateTeam, RequestDeleteTeam, RequestLeaveTeam,
         RequestTransfer, RequestRemoveMember, RequestInvite, RequestChangeRole,
         RequestCreateTask, RequestUpdateTask, RequestDeleteTask, Receive, ReceiveTask,
         Abort, Rollback, dbVars
    <3>2. ChangeMemberRole(p) /\ ~Rollback(p)
      BY <2>1, <2>2, <2>3, <2>8, <3>1 DEF Step, ReadActor, LockActor, LockTarget, TransferTarget,
         UnassignHistory, DeleteTeamTasks, CreateAssignee, LockTask, UpdateRole, UpdateAssignee,
         DeleteRole, Invalidate, ReturnError, CreateTeam, InviteMember, TransferOwnership,
         DeleteTeam, UnassignUpdate, CreateTask, DeleteTask, UpdateTask, RecordHistory,
         Goto, Rollback, dbVars
    <3>3. CanChangeRole(actorRole[p], role[Target(p)], req[p].newRole, Actor(p) = Target(p)) = "ok"
      BY <2>4, <3>2 DEF ChangeMemberRole
    <3> QED
      BY <2>6, <3>3 DEF CanChangeRole, IsManager, Roles
  <2> QED
    BY <2>1, <2>7, <2>8
<1> QED
  BY <1>1, Invariance, PTL DEF Spec, AdminsTouchOnlyMembers

-----------------------------------------------------------------------------
(* Workspace implements Board, and with it Team.                           *)

\* applyUpdate keeps the closing time in step with the status, and what it
\* calls a change is one of a column that clients can edit.
LEMMA ApplyEdits ==
    ASSUME NEW row \in Rows, NEW e \in Edits,
           row.closed_at = "time" <=> row.status = "done"
    PROVE  LET new == [Apply(row, e) EXCEPT !.version = @ + 1]
           IN /\ new \in Rows /\ new.version = row.version + 1
              /\ new.state = row.state /\ new.created_by = row.created_by
              /\ new.closed_at = IF new.status = "done" THEN "time" ELSE "null"
              /\ Changed(row, e) # {} =>
                   \E column \in {"content", "status", "assignee_id"} : new[column] # row[column]
<1> DEFINE mid == Apply(row, e)
           new == [mid EXCEPT !.version = @ + 1]
<1>1. mid \in Rows
  BY ApplyType
<1>2. new \in Rows
  BY <1>1, BumpType
<1>3. /\ mid.version = row.version /\ mid.state = row.state /\ mid.created_by = row.created_by
      /\ mid.closed_at = IF mid.status = row.status THEN row.closed_at
                         ELSE IF mid.status = "done" THEN "time" ELSE "null"
  BY DEF Apply, Rows
<1>4. row.closed_at = IF row.status = "done" THEN "time" ELSE "null"
  BY DEF Rows, ClosingTimes
<1> HIDE DEF mid
<1>5. /\ new.version = mid.version + 1 /\ new.state = mid.state
      /\ new.created_by = mid.created_by /\ new.closed_at = mid.closed_at
      /\ \A f \in Fields : new[f] = mid[f]
  BY <1>1 DEF Rows, Fields
<1>6. new.status = mid.status /\ new.content = mid.content /\ new.assignee_id = mid.assignee_id
  BY <1>5 DEF Fields
<1> HIDE DEF new
<1>7. new.closed_at = IF new.status = "done" THEN "time" ELSE "null"
  BY <1>3, <1>4, <1>5, <1>6
<1>8. ASSUME Changed(row, e) # {}
      PROVE  \E column \in {"content", "status", "assignee_id"} : new[column] # row[column]
  <2>1. PICK f \in Fields : mid[f] # row[f]
    BY <1>8 DEF Changed, mid
  <2>2. CASE f = "closed_at"
    <3>1. mid.closed_at # row.closed_at
      BY <2>1, <2>2
    <3>2. new.status # row.status
      BY <1>3, <1>6, <3>1
    <3> QED
      BY <3>2
  <2> QED
    BY <1>5, <2>1, <2>2 DEF Fields
<1> QED
  BY <1>2, <1>3, <1>5, <1>7, <1>8 DEF new, mid

\* What UpdateTask writes is an edit of the row in the table.
LEMMA UpdateEdits ==
    ASSUME Inv, ClosedWhenDone, NEW p \in Procs, RecordHistory(p)
    PROVE  LET t   == req[p].task
               new == task'[t]
           IN /\ t \in Tasks /\ Live(t) /\ task' = [task EXCEPT ![t] = new]
              /\ UNCHANGED <<team, role>>
              /\ new \in Rows /\ new.version = task[t].version + 1
              /\ new.state = "live" /\ new.created_by = task[t].created_by
              /\ new.closed_at = IF new.status = "done" THEN "time" ELSE "null"
              /\ \E column \in {"content", "status", "assignee_id"} : new[column] # task[t][column]
<1> DEFINE t   == req[p].task
           row == [Apply(seen[p], req[p].edit) EXCEPT !.version = @ + 1]
<1>1. /\ task \in [Tasks -> Rows] /\ Shape(p) /\ RowHeld(p)
      /\ seen[p] \in Rows /\ req[p].edit \in Edits
  BY DEF Inv, TypeOK, RequestShape, TaskLocks, Requests
<1>2. /\ task' = [task EXCEPT ![t] = row] /\ UNCHANGED <<team, role>>
      /\ pc[p] = "record"
  BY DEF RecordHistory, NewVersion
<1>3. /\ t \in Tasks /\ Live(t) /\ seen[p] = task[t]
      /\ Changed(seen[p], req[p].edit) # {}
  BY <1>1, <1>2 DEF Shape, RowHeld, TaskLabels, TaskOps
<1>4. seen[p].closed_at = "time" <=> seen[p].status = "done"
  BY <1>3 DEF ClosedWhenDone
<1>5. /\ row \in Rows /\ row.version = seen[p].version + 1
      /\ row.state = seen[p].state /\ row.created_by = seen[p].created_by
      /\ row.closed_at = IF row.status = "done" THEN "time" ELSE "null"
      /\ \E column \in {"content", "status", "assignee_id"} : row[column] # seen[p][column]
  BY <1>1, <1>3, <1>4, ApplyEdits
<1> HIDE DEF row
<1>6. task'[t] = row
  BY <1>1, <1>2, <1>3
<1> QED
  BY <1>2, <1>3, <1>5, <1>6 DEF Live

\* Whoever unassigns a member's tasks changes neither their status nor their
\* state.
LEMMA UnassignKeeps ==
    ASSUME NEW row \in Rows
    PROVE  /\ Unassigned(row).state = row.state /\ Unassigned(row).status = row.status
           /\ Unassigned(row).closed_at = row.closed_at
  BY DEF Unassigned, Rows

\* The commits that change tasks keep closing times, and tasks in their team.
LEMMA StepBoardInv ==
    ASSUME Inv, ClosedWhenDone, TasksHaveTeam, NEW p \in Procs, Step(p), ~Rollback(p)
    PROVE  ClosedWhenDone' /\ TasksHaveTeam'
<1>1. task \in [Tasks -> Rows] /\ Shape(p)
  BY DEF Inv, TypeOK, RequestShape
<1>2. CASE CreateTask(p)
  <2> DEFINE row == NewRow(Actor(p), Target(p))
  <2>1. task' = [task EXCEPT ![req[p].task] = row] /\ team = "live" /\ team' = team
    BY <1>2 DEF CreateTask
  <2>2. row.status = "todo" /\ row.closed_at = "null"
    BY DEF NewRow, NoRow
  <2> QED
    BY <1>1, <2>1, <2>2 DEF ClosedWhenDone, TasksHaveTeam, Live
<1>3. CASE RecordHistory(p)
  <2> DEFINE t == req[p].task
  <2>1. /\ t \in Tasks /\ Live(t) /\ task' = [task EXCEPT ![t] = task'[t]] /\ team' = team
        /\ task'[t].closed_at = IF task'[t].status = "done" THEN "time" ELSE "null"
    BY <1>3, UpdateEdits
  <2>2. \A s \in Tasks \ {t} : task'[s] = task[s]
    BY <1>1, <2>1
  <2> QED
    BY <2>1, <2>2 DEF ClosedWhenDone, TasksHaveTeam, Live
<1>4. CASE UnassignUpdate(p)
  <2>1. /\ task' = [t \in Tasks |-> IF t \in AssignedTo(Target(p)) THEN Unassigned(task[t])
                                     ELSE task[t]]
        /\ team' = team
    BY <1>4 DEF UnassignUpdate
  <2>2. ASSUME NEW t \in Tasks
        PROVE  /\ task'[t].state = task[t].state /\ task'[t].status = task[t].status
               /\ task'[t].closed_at = task[t].closed_at
    BY <1>1, <2>1, UnassignKeeps
  <2> QED
    BY <2>1, <2>2 DEF ClosedWhenDone, TasksHaveTeam, Live
<1>5. CASE DeleteTask(p) \/ DeleteTeam(p)
  <2>1. DeletedRow.state = "deleted"
    BY DEF DeletedRow, NoRow
  <2>2. CASE DeleteTask(p)
    <3>1. task' = [task EXCEPT ![req[p].task] = DeletedRow] /\ team' = team
      BY <2>2 DEF DeleteTask
    <3> QED
      BY <1>1, <2>1, <3>1 DEF ClosedWhenDone, TasksHaveTeam, Live
  <2>3. CASE DeleteTeam(p)
    <3>1. task' = [t \in Tasks |-> IF Live(t) THEN DeletedRow ELSE task[t]]
      BY <2>3 DEF DeleteTeam
    <3> QED
      BY <2>1, <3>1 DEF ClosedWhenDone, TasksHaveTeam, Live
  <2> QED
    BY <1>5, <2>2, <2>3
<1>6. CASE CreateTeam(p)
  BY <1>6 DEF CreateTeam, ClosedWhenDone, TasksHaveTeam, Live
<1>7. ASSUME ~CreateTask(p), ~RecordHistory(p), ~UnassignUpdate(p), ~DeleteTask(p), ~DeleteTeam(p),
             ~CreateTeam(p)
      PROVE  ClosedWhenDone' /\ TasksHaveTeam'
  <2>1. UNCHANGED <<team, task>>
    BY <1>7 DEF Step, ReadActor, LockActor, LockTarget, TransferTarget, UnassignHistory,
       DeleteTeamTasks, CreateAssignee, LockTask, UpdateRole, UpdateAssignee, UpdateTask, DeleteRole,
       Invalidate, ReturnError, Goto,
       dbVars, InviteMember, ChangeMemberRole, TransferOwnership
  <2> QED
    BY <2>1 DEF ClosedWhenDone, TasksHaveTeam, Live
<1> QED
  BY <1>2, <1>3, <1>4, <1>5, <1>6, <1>7

\* A request that arrives, rolls back or is aborted changes no table.
LEMMA OthersChangeNothing ==
    ASSUME NEW p \in Procs, Request(p) \/ Abort(p) \/ Rollback(p)
    PROVE  UNCHANGED <<team, role, task>>
  BY DEF Request, RequestCreateTeam, RequestDeleteTeam, RequestLeaveTeam, RequestTransfer,
     RequestRemoveMember, RequestInvite, RequestChangeRole, RequestCreateTask,
     RequestUpdateTask, RequestDeleteTask, Receive, ReceiveTask, Abort, Rollback, dbVars

\* So does every step.
LEMMA NextBoardInv ==
    ASSUME Inv, ClosedWhenDone, TasksHaveTeam, [Next]_vars
    PROVE  ClosedWhenDone' /\ TasksHaveTeam'
<1>1. CASE UNCHANGED <<team, role, task>>
  BY <1>1 DEF ClosedWhenDone, TasksHaveTeam, Live
<1>2. ASSUME NEW p \in Procs, Step(p), ~Rollback(p)
      PROVE  ClosedWhenDone' /\ TasksHaveTeam'
  BY <1>2, StepBoardInv
<1> QED
  BY <1>1, <1>2, OthersChangeNothing DEF Next, vars, dbVars

\* Both invariants hold, by induction together.
LEMMA ClosedAndHoused == Spec => [](ClosedWhenDone /\ TasksHaveTeam)
<1>1. Init => ClosedWhenDone /\ TasksHaveTeam
  BY DEF Init, ClosedWhenDone, TasksHaveTeam, Live, NoRow
<1>2. Inv /\ ClosedWhenDone /\ TasksHaveTeam /\ [Next]_vars => ClosedWhenDone' /\ TasksHaveTeam'
  BY NextBoardInv
<1> QED
  BY <1>1, <1>2, Invariance, PTL DEF Spec

\* Through any sequence of edits, a task has a closing time exactly when it is
\* done.
THEOREM ClosedOnlyDone == Spec => []ClosedWhenDone
  BY ClosedAndHoused, PTL

\* No task exists outside a team, whoever deletes the team while the task is
\* being created.
THEOREM TasksHoused == Spec => []TasksHaveTeam
  BY ClosedAndHoused, PTL

\* Nine statements commit a change of the team or its tasks, and each is one
\* of Board's steps: the roles and the row it needs are the ones the request
\* has locked.
LEMMA StepImplements ==
    ASSUME Inv, ClosedWhenDone, NEW p \in Procs, Step(p)
    PROVE  Promise!BoardNext \/ UNCHANGED <<team, role, task>>
<1> USE DEF Promise!GrantableRoles, Promise!NoRole, GrantableRoles, NoRole
<1>1. /\ role \in [Users -> Roles \cup {NoRole}] /\ ExactlyOneOwner /\ MemberLocks
      /\ task \in [Tasks -> Rows]
  BY DEF Inv, TypeOK
<1>2. Shape(p) /\ RolesHeld(p) /\ RowHeld(p)
  BY DEF Inv, RequestShape, MemberLocks, TaskLocks
<1>3. pc[p] \notin Ended => Actor(p) \in Users /\ Target(p) \in Users
  BY <1>2 DEF Shape, Actor, Target
<1>4. CASE Rollback(p)
  BY <1>4 DEF Rollback, dbVars
<1> SUFFICES ASSUME ~Rollback(p)
             PROVE  Promise!BoardNext \/ UNCHANGED <<team, role, task>>
  BY <1>4
<1>5. CASE CreateTeam(p)
  <2>1. /\ Actor(p) \in Users /\ team' = "live"
        /\ role' = [role EXCEPT ![Actor(p)] = "owner"]
        /\ UNCHANGED task
    BY <1>3, <1>5 DEF CreateTeam
  <2>2. team = "absent"
    BY <1>2, <1>5 DEF CreateTeam, Shape, Inv, FreshIds
  <2> QED
    BY <2>1, <2>2 DEF Promise!BoardNext, Promise!Reorganise, Promise!Found
<1>6. CASE InviteMember(p)
  <2>1. /\ Target(p) \in Users /\ team = "live" /\ role[Target(p)] = NoRole
        /\ CanInvite(actorRole[p], req[p].newRole) = "ok"
        /\ role' = [role EXCEPT ![Target(p)] = req[p].newRole]
        /\ UNCHANGED <<team, task>>
    BY <1>3, <1>6 DEF InviteMember, IsMember
  <2>2. req[p].newRole \in GrantableRoles
    BY <2>1 DEF CanInvite
  <2> QED
    BY <2>1, <2>2 DEF Promise!BoardNext, Promise!Reorganise, Promise!Join
<1>7. CASE ChangeMemberRole(p)
  <2>1. /\ Target(p) \in Users /\ role[Target(p)] = targetRole[p]
        /\ memberLock[Target(p)] = p
        /\ CanChangeRole(actorRole[p], targetRole[p], req[p].newRole, Actor(p) = Target(p)) = "ok"
        /\ role' = [role EXCEPT ![Target(p)] = req[p].newRole]
        /\ UNCHANGED <<team, task>>
    BY <1>2, <1>3, <1>7 DEF ChangeMemberRole, RolesHeld
  <2>2. role[Target(p)] # NoRole
    BY <1>1, <2>1, StoreAssumption DEF MemberLocks, IsMember
  <2>3. /\ req[p].newRole \in GrantableRoles
        /\ role[Target(p)] \in GrantableRoles \ {req[p].newRole}
    BY <1>1, <2>1, <2>2 DEF CanChangeRole, Roles
  <2> QED
    BY <2>1, <2>3 DEF Promise!BoardNext, Promise!Reorganise, Promise!Regrade
<1>8. CASE TransferOwnership(p)
  <2>1. /\ Target(p) \in Users /\ Actor(p) \in Users
        /\ memberLock[Target(p)] = p
        /\ CanTransferOwnership(role[Actor(p)], Actor(p) = Target(p)) = "ok"
        /\ role' = [role EXCEPT ![Target(p)] = "owner", ![Actor(p)] = "admin"]
        /\ UNCHANGED <<team, task>>
    BY <1>2, <1>3, <1>8 DEF TransferOwnership, RolesHeld
  <2>2. role[Target(p)] # NoRole
    BY <1>1, <2>1, StoreAssumption DEF MemberLocks, IsMember
  <2>3. role[Actor(p)] = "owner" /\ Actor(p) # Target(p)
    BY <2>1 DEF CanTransferOwnership
  <2> QED
    BY <2>1, <2>2, <2>3 DEF Promise!BoardNext, Promise!Reorganise, Promise!HandOver
<1>9. CASE DeleteTeam(p)
  <2>1. /\ team' = "deleted" /\ role' = [u \in Users |-> NoRole]
        /\ task' = [t \in Tasks |-> IF Live(t) THEN DeletedRow ELSE task[t]]
        /\ Actor(p) \in Users /\ role[Actor(p)] = "owner"
    BY <1>2, <1>3, <1>9 DEF DeleteTeam, RolesHeld, CanDeleteTeam
  <2>2. team = "live"
    BY <1>1, <2>1 DEF ExactlyOneOwner
  <2> QED
    BY <2>1, <2>2 DEF Promise!BoardNext, Promise!Disband, Promise!Dissolve, Promise!Exists,
       Promise!Deleted, DeletedRow, Live
<1>10. CASE UnassignUpdate(p)
  <2>1. /\ Target(p) \in Users /\ memberLock[Target(p)] = p
        /\ role[Target(p)] = targetRole[p] /\ RemovalDecision(p) = "ok"
        /\ role' = [role EXCEPT ![Target(p)] = NoRole]
        /\ task' = [t \in Tasks |-> IF t \in AssignedTo(Target(p)) THEN Unassigned(task[t])
                                     ELSE task[t]]
        /\ UNCHANGED team
    BY <1>2, <1>3, <1>10 DEF UnassignUpdate, RolesHeld
  <2>2. role[Target(p)] # "owner" /\ role[Target(p)] # NoRole
    BY <1>1, <2>1, StoreAssumption
       DEF RemovalDecision, CanLeave, CanRemoveMember, MemberLocks, IsMember
  <2>3. role[Target(p)] \in GrantableRoles
    BY <1>1, <2>1, <2>2 DEF Roles
  <2>4. task' = [t \in Tasks |->
                   IF task[t].state = "live" /\ task[t].assignee_id = Target(p)
                   THEN [task[t] EXCEPT !.assignee_id = NoUser, !.version = @ + 1]
                   ELSE task[t]]
    BY <2>1 DEF AssignedTo, Live, Unassigned
  <2>5. Promise!Leave(Target(p))
    BY <2>1, <2>3, <2>4 DEF Promise!Leave, Promise!Depart, Promise!Exists
  <2> QED
    BY <2>1, <2>5 DEF Promise!BoardNext
<1>11. CASE CreateTask(p)
  <2>1. /\ team = "live" /\ pc[p] = "create_task" /\ UNCHANGED <<team, role>>
        /\ task' = [task EXCEPT ![req[p].task] = NewRow(Actor(p), Target(p))]
    BY <1>11 DEF CreateTask
  <2>2. /\ req[p].task \in Tasks /\ task[req[p].task].state = "absent"
        /\ Actor(p) \in Users /\ Target(p) \in Users
    BY <1>2, <1>3, <2>1 DEF Shape, Inv, FreshIds
  <2>3. Promise!Create(req[p].task, Actor(p), Target(p))
    BY <2>1, <2>2 DEF Promise!Create, NewRow
  <2> QED
    BY <2>2, <2>3 DEF Promise!BoardNext
<1>12. CASE DeleteTask(p)
  <2>1. /\ pc[p] = "delete_task" /\ UNCHANGED <<team, role>>
        /\ task' = [task EXCEPT ![req[p].task] = DeletedRow]
    BY <1>12 DEF DeleteTask
  <2>2. req[p].task \in Tasks /\ Live(req[p].task)
    BY <1>2, <2>1 DEF Shape, RowHeld, TaskLabels, TaskOps
  <2>3. Promise!Discard(req[p].task)
    BY <2>1, <2>2 DEF Promise!Discard, Promise!Exists, Promise!Deleted, DeletedRow, Live
  <2> QED
    BY <2>2, <2>3 DEF Promise!BoardNext
<1>13. CASE RecordHistory(p)
  <2> DEFINE t   == req[p].task
             new == task'[t]
  <2>1. /\ t \in Tasks /\ Live(t) /\ task' = [task EXCEPT ![t] = new]
        /\ UNCHANGED <<team, role>>
        /\ new \in Rows /\ new.version = task[t].version + 1
        /\ new.state = "live" /\ new.created_by = task[t].created_by
        /\ new.closed_at = IF new.status = "done" THEN "time" ELSE "null"
        /\ \E column \in {"content", "status", "assignee_id"} : new[column] # task[t][column]
    BY <1>13, UpdateEdits
  <2>2. /\ new.content \in Contents /\ new.status \in Statuses
        /\ new.assignee_id \in Users \cup {NoUser}
    BY <2>1 DEF Rows
  <2>3. Promise!Edit(t)
    BY <2>1, <2>2 DEF Promise!Edit, Promise!Exists, Live
  <2> QED
    BY <2>1, <2>3 DEF Promise!BoardNext
<1>14. ASSUME ~CreateTeam(p), ~InviteMember(p), ~ChangeMemberRole(p),
              ~TransferOwnership(p), ~DeleteTeam(p), ~UnassignUpdate(p),
              ~CreateTask(p), ~DeleteTask(p), ~RecordHistory(p)
       PROVE  UNCHANGED <<team, role, task>>
  BY <1>14 DEF Step, ReadActor, LockActor, LockTarget, TransferTarget, UnassignHistory,
     DeleteTeamTasks, CreateAssignee, LockTask, UpdateRole, UpdateAssignee, UpdateTask, DeleteRole,
       Invalidate, ReturnError, Goto,
     dbVars
<1> QED
  BY <1>5, <1>6, <1>7, <1>8, <1>9, <1>10, <1>11, <1>12, <1>13, <1>14

\* The services change a team and its tasks only in Board's indivisible ways:
\* removing a member and unassigning all of his tasks is one step, deleting a
\* team with all of its tasks is one, and every edit is one of the row it
\* replaces.
THEOREM ImplementsBoard == Spec => BoardContract
<1>1. Init => Promise!BoardInit
  BY DEF Init, Promise!BoardInit, Promise!Init, NoRole, Promise!NoRole
<1>2. Inv /\ ClosedWhenDone /\ [Next]_vars => [Promise!BoardNext]_<<team, role, task>>
  BY StepImplements, OthersChangeNothing DEF Next, vars, dbVars
<1> QED
  BY <1>1, <1>2, Invariance, ClosedAndHoused, PTL DEF Spec, BoardContract, Promise!BoardSpec

\* Roles read under a lock are the committed ones until the request commits.
THEOREM RolesStayCurrent == Spec => []MemberLocks
<1>1. Inv => MemberLocks
  BY DEF Inv
<1> QED
  BY <1>1, Invariance, PTL

\* So are task rows read under a lock, and a version names one row.
THEOREM RowsStayCurrent == Spec => []TaskLocks
<1>1. Inv => TaskLocks
  BY DEF Inv
<1> QED
  BY <1>1, Invariance, PTL

\* Board is a Team with tasks, so the services change a team only in Team's
\* indivisible ways, although they decide on roles that they read several
\* statements before they commit.
THEOREM Implements == Spec => TeamContract
<1>1. Promise!BoardInit => Contract!Init
  BY DEF Promise!BoardInit, Promise!Init, Contract!Init, Promise!NoRole, Contract!NoRole
<1>2. [Promise!BoardNext]_<<team, role, task>> => [Contract!Next]_<<team, role>>
  <2> USE DEF Promise!GrantableRoles, Contract!GrantableRoles, Promise!NoRole, Contract!NoRole
  <2>1. ASSUME Promise!Reorganise
        PROVE  Contract!Next
    BY <2>1 DEF Promise!Reorganise, Promise!Found, Promise!Join, Promise!Regrade,
       Promise!HandOver, Contract!Next, Contract!Found, Contract!Join, Contract!Regrade,
       Contract!HandOver
  <2>2. ASSUME Promise!Disband
        PROVE  Contract!Next
    BY <2>2 DEF Promise!Disband, Promise!Dissolve, Contract!Next, Contract!Dissolve
  <2>3. ASSUME NEW u \in Users, Promise!Leave(u)
        PROVE  Contract!Next
    BY <2>3 DEF Promise!Leave, Promise!Depart, Contract!Next, Contract!Depart
  <2>4. ASSUME NEW t \in Tasks,
               Promise!Edit(t) \/ Promise!Discard(t) \/ \E u, v \in Users : Promise!Create(t, u, v)
        PROVE  UNCHANGED <<team, role>>
    BY <2>4 DEF Promise!Edit, Promise!Discard, Promise!Create
  <2> QED
    BY <2>1, <2>2, <2>3, <2>4 DEF Promise!BoardNext
<1> QED
  BY <1>1, <1>2, ImplementsBoard, PTL DEF BoardContract, Promise!BoardSpec, TeamContract, Contract!Spec

\* Board's tasks come and go as Work says, so that the environment Comments is
\* built on is the one these services provide.
THEOREM ImplementsWork == Spec => WorkContract
<1> DEFINE states == [t \in Tasks |-> task[t].state]
<1>1. Promise!BoardInit => Ground!WorkInit
  BY DEF Promise!BoardInit, Promise!Init, Ground!WorkInit, Ground!Init, Promise!NoRole,
     Ground!NoRole, NoRow
<1>2. Inv /\ TasksHaveTeam /\ [Promise!BoardNext]_<<team, role, task>>
        => [Ground!WorkNext]_<<team, role, states>>
  <2> SUFFICES ASSUME Inv, TasksHaveTeam, Promise!BoardNext
               PROVE  Ground!WorkNext \/ UNCHANGED <<team, role, states>>
    OBVIOUS
  <2> USE DEF Promise!GrantableRoles, Ground!GrantableRoles, Promise!NoRole, Ground!NoRole
  <2>1. task \in [Tasks -> Rows] /\ \A t \in Tasks : task[t].state = "live" => team = "live"
    BY DEF Inv, TypeOK, TasksHaveTeam, Live
  <2>2. ASSUME Ground!Next, \A t \in Tasks : task'[t].state = task[t].state,
               team' = "deleted" => team = "deleted"
        PROVE  Ground!WorkNext
    BY <2>1, <2>2 DEF Ground!WorkNext, Ground!ChangeTeam, Ground!Live
  <2>3. CASE Promise!Reorganise
    <3>1. Ground!Next /\ (team' = "deleted" => team = "deleted")
      BY <2>3 DEF Promise!Reorganise, Promise!Found, Promise!Join, Promise!Regrade,
         Promise!HandOver, Ground!Next, Ground!Found, Ground!Join, Ground!Regrade,
         Ground!HandOver
    <3> QED
      BY <2>2, <2>3, <3>1 DEF Promise!Reorganise
  <2>4. ASSUME NEW u \in Users, Promise!Leave(u)
        PROVE  Ground!WorkNext
    <3>1. Ground!Next /\ team' = team
      BY <2>4 DEF Promise!Leave, Promise!Depart, Ground!Next, Ground!Depart
    <3>2. \A t \in Tasks : task'[t].state = task[t].state
      BY <2>1, <2>4 DEF Promise!Leave, Promise!Exists, Rows
    <3> QED
      BY <2>2, <3>1, <3>2
  <2>5. CASE Promise!Disband
    <3>1. Ground!Next /\ team' = "deleted"
      BY <2>5 DEF Promise!Disband, Promise!Dissolve, Ground!Next, Ground!Dissolve
    <3>2. Promise!Deleted.state = "deleted"
      BY DEF Promise!Deleted, NoRow
    <3>3. states' = [t \in Tasks |-> IF states[t] = "live" THEN "deleted" ELSE states[t]]
      BY <2>5, <3>2 DEF Promise!Disband, Promise!Exists
    <3> QED
      BY <3>1, <3>3 DEF Ground!WorkNext, Ground!ChangeTeam, Ground!Live
  <2>6. ASSUME NEW t \in Tasks, Promise!Edit(t)
        PROVE  UNCHANGED <<team, role, states>>
    <3>1. /\ task[t].state = "live" /\ task'[t].state = "live" /\ UNCHANGED <<team, role>>
          /\ \A s \in Tasks : s # t => task'[s] = task[s]
      BY <2>1, <2>6 DEF Promise!Edit, Promise!Exists
    <3> QED
      BY <3>1
  <2>7. ASSUME NEW t \in Tasks, Promise!Discard(t)
        PROVE  Ground!DeleteTask(t)
    <3>1. Promise!Deleted.state = "deleted"
      BY DEF Promise!Deleted, NoRow
    <3> QED
      BY <2>1, <2>7, <3>1 DEF Promise!Discard, Promise!Exists, Ground!DeleteTask, Ground!Live
  <2>8. ASSUME NEW t \in Tasks, NEW u \in Users, NEW v \in Users, Promise!Create(t, u, v)
        PROVE  Ground!CreateTask(t)
    <3> DEFINE row == [NoRow EXCEPT !.state = "live", !.created_by = u,
                                    !.assignee_id = v, !.version = 1]
    <3>1. row.state = "live"
      BY DEF NoRow
    <3>2. task' = [task EXCEPT ![t] = row]
      BY <2>8 DEF Promise!Create
    <3> HIDE DEF row
    <3> QED
      BY <2>1, <2>8, <3>1, <3>2 DEF Promise!Create, Ground!CreateTask
  <2> QED
    BY <2>3, <2>4, <2>5, <2>6, <2>7, <2>8 DEF Promise!BoardNext, Ground!WorkNext
<1> QED
  BY <1>1, <1>2, Invariance, ClosedAndHoused, ImplementsBoard, PTL
  DEF BoardContract, Promise!BoardSpec, WorkContract, Ground!WorkSpec, Ground!workVars

\* Every transaction that changes a task, in either service, goes on to
\* invalidate the team's cached task lists, unless the reply to its COMMIT is
\* lost: then the service returns the error, although MySQL applied it.
THEOREM WritesInvalidate == Spec => EveryWriteInvalidates
<1> DEFINE Told == task' # task =>
              \E p \in Procs : /\ pc[p] \notin Ended
                               /\ pc'[p] \in {"invalidate", "commit_error"}
<1>1. ASSUME Inv, [Next]_vars
      PROVE  [Told]_vars
  <2>1. SUFFICES ASSUME task' # task PROVE Told
    BY DEF vars, dbVars
  <2>2. pc \in [Procs -> Labels] /\ task \in [Tasks -> Rows]
    BY <1>1 DEF Inv, TypeOK
  <2>3. PICK p \in Procs : Request(p) \/ Step(p) \/ Abort(p)
    BY <1>1, <2>1 DEF Next, vars, dbVars
  <2>4. ~Request(p)
    BY <2>1 DEF Request, RequestCreateTeam, RequestDeleteTeam, RequestLeaveTeam,
       RequestTransfer, RequestRemoveMember, RequestInvite, RequestChangeRole,
       RequestCreateTask, RequestUpdateTask, RequestDeleteTask, Receive, ReceiveTask, dbVars
  <2>5. ~Rollback(p) /\ ~Abort(p)
    BY <2>1 DEF Abort, Rollback, dbVars
  <2>6. UnassignUpdate(p) => AssignedTo(Target(p)) # {}
    <3>1. SUFFICES ASSUME UnassignUpdate(p), AssignedTo(Target(p)) = {}
                   PROVE  task' = task
      BY <2>1
    <3>2. task' = [t \in Tasks |-> task[t]]
      BY <3>1 DEF UnassignUpdate
    <3> QED
      BY <2>2, <3>2
  <2>7. \/ DeleteTeam(p) \/ UnassignUpdate(p) \/ CreateTask(p) \/ DeleteTask(p)
        \/ RecordHistory(p)
    BY <2>1, <2>3, <2>4, <2>5 DEF Step, ReadActor, LockActor, LockTarget, TransferTarget,
       UnassignHistory, DeleteTeamTasks, CreateAssignee, LockTask, UpdateRole,
       UpdateAssignee, UpdateTask, DeleteRole, Invalidate, ReturnError, Goto, dbVars,
       CreateTeam, InviteMember, ChangeMemberRole, TransferOwnership
  <2>8. CommitTasks(p) /\ pc[p] \notin Ended
    BY <2>5, <2>6, <2>7 DEF DeleteTeam, UnassignUpdate, CreateTask, DeleteTask, RecordHistory
  <2>9. pc'[p] \in {"invalidate", "commit_error"}
    BY <2>2, <2>8 DEF Commit, EndRequest
  <2> QED
    BY <2>8, <2>9
<1> QED
  BY <1>1, Invariance, PTL DEF Spec, EveryWriteInvalidates, Ended

-----------------------------------------------------------------------------
(* Who holds which lock.                                                   *)

\* A step of p that gives q no lock and takes none from it, changes none of
\* the tasks that q's removal has recorded and adds none to the team that q
\* deletes, leaves q what it holds.
LEMMA OthersHold ==
    ASSUME TypeOK, NEW p \in Procs, NEW q \in Procs, Holds(q),
           pc'[q] = pc[q], req'[q] = req[q], audited'[q] = audited[q],
           \A u \in Users : memberLock'[u] = q => memberLock[u] = q,
           \A t \in Tasks : taskLock'[t] = q <=> taskLock[t] = q,
           pc[q] = "unassign_update" => \A t \in audited[q] : task'[t] = task[t],
           pc[q] = "cascade" => \A t \in Tasks : Live(t)' => Live(t)
    PROVE  Holds(q)'
<1>1. audited[q] \in SUBSET Tasks
  BY DEF TypeOK
<1> QED
  BY <1>1 DEF Holds, Actor, Target, AssignedTo, Live

\* The tasks that the removal q has recorded exist, and are locked by q.
LEMMA RecordedAreLocked ==
    ASSUME TypeOK, LockHolders, NEW q \in Procs, pc[q] = "unassign_update",
           NEW t \in audited[q]
    PROVE  t \in Tasks /\ taskLock[t] = q /\ Live(t) /\ task[t].assignee_id = Target(q)
  BY DEF TypeOK, LockHolders, Holds, AssignedTo

\* Commit and rollback leave p without locks and the others with theirs.
LEMMA CommitHolds ==
    ASSUME TypeOK, LockHolders, NEW p \in Procs, NEW next \in Ended,
           Commit(p, next),
           \A t \in Tasks : Live(t) /\ taskLock[t] \notin {NoProc, p} => task'[t] = task[t],
           \A q \in Procs \ {p} : pc[q] = "cascade" => \A t \in Tasks : Live(t)' => Live(t)
    PROVE  LockHolders'
<1>1. /\ pc \in [Procs -> Labels] /\ req \in [Procs -> Requests]
      /\ audited \in [Procs -> SUBSET Tasks]
  BY DEF TypeOK
<1>2. Holds(p)'
  <2>1. \A u \in Users : memberLock'[u] # p
    BY StoreAssumption DEF Commit, Unlock
  <2>2. \A t \in Tasks : taskLock'[t] # p
    BY StoreAssumption DEF Commit, Unlock
  <2>3. pc'[p] \notin {"unassign_update", "cascade"}
    BY <1>1 DEF Commit, EndRequest
  <2> QED
    BY <2>1, <2>2, <2>3 DEF Holds
<1>3. ASSUME NEW q \in Procs \ {p}
      PROVE  Holds(q)'
  <2>1. pc'[q] = pc[q] /\ req'[q] = req[q] /\ audited'[q] = audited[q]
    BY <1>1 DEF Commit, EndRequest
  <2>2. \A u \in Users : memberLock'[u] = q => memberLock[u] = q
    BY StoreAssumption DEF Commit, Unlock
  <2>3. \A t \in Tasks : taskLock'[t] = q <=> taskLock[t] = q
    BY StoreAssumption DEF Commit, Unlock
  <2>4. pc[q] = "unassign_update" => \A t \in audited[q] : task'[t] = task[t]
    BY RecordedAreLocked, StoreAssumption
  <2>5. Holds(q)
    BY DEF LockHolders
  <2> QED
    BY <2>1, <2>2, <2>3, <2>4, <2>5, OthersHold
<1> QED
  BY <1>2, <1>3 DEF LockHolders

\* A request that arrives holds nothing.
LEMMA RequestHolds ==
    ASSUME TypeOK, LockHolders, NEW p \in Procs, Request(p)
    PROVE  LockHolders'
<1>1. /\ pc \in [Procs -> Labels] /\ req \in [Procs -> Requests]
  BY DEF TypeOK
<1>2. /\ UNCHANGED <<task, memberLock, taskLock, audited>>
      /\ pc[p] = "idle"
      /\ \E at \in Labels \ {"unassign_update", "cascade"} : pc' = [pc EXCEPT ![p] = at]
      /\ \E r : req' = [req EXCEPT ![p] = r]
  BY DEF Request, RequestCreateTeam, RequestDeleteTeam, RequestLeaveTeam,
     RequestTransfer, RequestRemoveMember, RequestInvite, RequestChangeRole,
     RequestCreateTask, RequestUpdateTask, RequestDeleteTask, Receive, ReceiveTask,
     dbVars, lockVars, locals, Labels
<1>3. Holds(p)'
  <2>1. \A u \in Users : memberLock'[u] # p
    BY <1>2 DEF LockHolders, Holds
  <2>2. \A t \in Tasks : taskLock'[t] # p
    BY <1>2 DEF LockHolders, Holds, TaskLabels
  <2>3. pc'[p] \notin {"unassign_update", "cascade"}
    BY <1>1, <1>2
  <2> QED
    BY <2>1, <2>2, <2>3 DEF Holds
<1>4. ASSUME NEW q \in Procs \ {p}
      PROVE  Holds(q)'
  <2>1. pc'[q] = pc[q] /\ req'[q] = req[q]
    BY <1>1, <1>2
  <2>2. Holds(q)
    BY DEF LockHolders
  <2> QED
    BY <1>2, <2>1, <2>2, OthersHold DEF Live
<1> QED
  BY <1>3, <1>4 DEF LockHolders

\* A statement inside a transaction, seen by the other requests: it takes
\* locks that nobody has.
LEMMA GotoHolds ==
    ASSUME TypeOK, LockHolders, NEW p \in Procs, NEW next, Goto(p, next),
           \A q \in Procs \ {p} : audited'[q] = audited[q],
           \A q \in Procs \ {p}, u \in Users : memberLock'[u] = q => memberLock[u] = q,
           \A q \in Procs \ {p}, t \in Tasks : taskLock'[t] = q <=> taskLock[t] = q,
           Holds(p)'
    PROVE  LockHolders'
<1>1. pc \in [Procs -> Labels] /\ UNCHANGED <<task, req>>
  BY DEF TypeOK, Goto, dbVars
<1>2. ASSUME NEW q \in Procs \ {p}
      PROVE  Holds(q)'
  <2>1. pc'[q] = pc[q]
    BY <1>1 DEF Goto
  <2>2. Holds(q)
    BY DEF LockHolders
  <2> QED
    BY <1>1, <2>1, <2>2, OthersHold DEF Live
<1> QED
  BY <1>2 DEF LockHolders

\* The statements that lock rows, or only read, keep to what their label may
\* hold.
LEMMA InsideHolds ==
    ASSUME Inv, LockHolders, NEW p \in Procs, ~Rollback(p),
           \/ ReadActor(p)       \/ LockActor(p)       \/ LockTarget(p)
           \/ TransferTarget(p)  \/ DeleteTeamTasks(p) \/ UnassignHistory(p)
           \/ CreateAssignee(p)  \/ LockTask(p)
           \/ UpdateRole(p)      \/ UpdateAssignee(p) \/ UpdateTask(p)
           \/ DeleteRole(p)
    PROVE  LockHolders'
<1>1. /\ TypeOK /\ pc \in [Procs -> Labels] /\ audited \in [Procs -> SUBSET Tasks]
      /\ memberLock \in [Users -> Procs \cup {NoProc}]
      /\ taskLock \in [Tasks -> Procs \cup {NoProc}]
  BY DEF Inv, TypeOK
<1>2. Holds(p) /\ Shape(p)
  BY DEF LockHolders, Inv, RequestShape
<1>3. pc[p] \notin Ended => Actor(p) \in Users /\ Target(p) \in Users
  BY <1>2 DEF Shape, Actor, Target
<1> DEFINE NoneBefore == \A u \in Users : memberLock[u] # p
           NoTasks    == \A t \in Tasks : taskLock[t] # p
<1>4. CASE ReadActor(p) \/ CreateAssignee(p)
  <2>1. /\ UNCHANGED <<memberLock, taskLock, audited>>
        /\ pc[p] \in {"read_actor", "create_assignee"}
        /\ \E next \in {"invite", "create_assignee", "lock_target", "create_task"} : Goto(p, next)
    BY <1>4 DEF ReadActor, CreateAssignee, AfterReadActor, lockVars
  <2>2. NoneBefore /\ NoTasks
    BY <1>2, <2>1 DEF Holds, TaskLabels
  <2>3. PICK next \in {"invite", "create_assignee", "lock_target", "create_task"} : Goto(p, next)
    BY <2>1
  <2>4. pc'[p] = next
    BY <1>1, <2>3 DEF Goto
  <2>5. Holds(p)'
    BY <2>1, <2>2, <2>4 DEF Holds
  <2> QED
    BY <1>1, <2>1, <2>3, <2>5, GotoHolds
<1>5. CASE LockActor(p)
  <2>1. PICK next \in {"delete_team", "transfer_target"} : Goto(p, next)
    BY <1>5 DEF LockActor
  <2>2. /\ memberLock[Actor(p)] = NoProc /\ pc[p] = "lock_actor"
        /\ memberLock' = [memberLock EXCEPT ![Actor(p)] = p]
        /\ UNCHANGED <<taskLock, audited>>
    BY <1>5 DEF LockActor, LockMember
  <2>3. NoneBefore /\ NoTasks
    BY <1>2, <2>2 DEF Holds, TaskLabels
  <2>4. pc'[p] = next /\ req'[p] = req[p]
    BY <1>1, <2>1 DEF Goto
  <2>5. Holds(p)'
    BY <1>1, <2>2, <2>3, <2>4 DEF Holds, Actor
  <2> QED
    BY <1>1, <2>1, <2>2, <2>5, GotoHolds
<1>6. CASE LockTarget(p)
  <2>1. PICK next \in {"change_role", "unassign_history"} : Goto(p, next)
    BY <1>6 DEF LockTarget
  <2>2. /\ memberLock[Target(p)] = NoProc /\ pc[p] = "lock_target"
        /\ memberLock' = [memberLock EXCEPT ![Target(p)] = p]
        /\ UNCHANGED <<taskLock, audited>>
    BY <1>6 DEF LockTarget, LockMember
  <2>3. NoneBefore /\ NoTasks
    BY <1>2, <2>2 DEF Holds, TaskLabels
  <2>4. pc'[p] = next /\ req'[p] = req[p]
    BY <1>1, <2>1 DEF Goto
  <2>5. Holds(p)'
    BY <1>1, <2>2, <2>3, <2>4 DEF Holds, Target
  <2> QED
    BY <1>1, <2>1, <2>2, <2>5, GotoHolds
<1>7. CASE TransferTarget(p)
  <2>1. /\ Goto(p, "transfer") /\ pc[p] = "transfer_target"
        /\ memberLock[Target(p)] = NoProc
        /\ memberLock' = [memberLock EXCEPT ![Target(p)] = p]
        /\ UNCHANGED <<taskLock, audited>>
    BY <1>7 DEF TransferTarget, LockMember
  <2>2. NoTasks /\ \A u \in Users : memberLock[u] = p => u = Actor(p)
    BY <1>2, <2>1 DEF Holds, TaskLabels
  <2>3. pc'[p] = "transfer" /\ req'[p] = req[p]
    BY <1>1, <2>1 DEF Goto
  <2>4. Holds(p)'
    BY <1>1, <2>1, <2>2, <2>3 DEF Holds, Target, Actor
  <2> QED
    BY <1>1, <2>1, <2>4, GotoHolds
<1>8. CASE DeleteTeamTasks(p)
  <2>1. /\ Goto(p, "cascade") /\ pc[p] = "delete_team"
        /\ Lockable(p, Tasks) /\ LockTasks(p, {t \in Tasks : Live(t)})
        /\ UNCHANGED <<memberLock, audited>>
    BY <1>8 DEF DeleteTeamTasks
  <2>2. pc'[p] = "cascade" /\ req'[p] = req[p] /\ UNCHANGED task
    BY <1>1, <2>1 DEF Goto, dbVars
  <2>3. Holds(p)'
    <3>1. \A t \in Tasks : Live(t)' => taskLock'[t] = p
      BY <2>1, <2>2 DEF LockTasks, Live
    <3> QED
      BY <1>2, <2>1, <2>2, <3>1 DEF Holds, Actor
  <2>4. \A q \in Procs \ {p}, t \in Tasks : taskLock'[t] # q /\ taskLock[t] # q
    BY <2>1, StoreAssumption DEF Lockable, LockTasks
  <2> QED
    BY <1>1, <2>1, <2>3, <2>4, GotoHolds
<1>9. CASE UnassignHistory(p)
  <2> DEFINE S == AssignedTo(Target(p))
  <2>1. /\ Goto(p, "unassign_update") /\ pc[p] = "unassign_history"
        /\ Lockable(p, S) /\ LockTasks(p, S)
        /\ audited' = [audited EXCEPT ![p] = S]
        /\ UNCHANGED memberLock
    BY <1>9 DEF UnassignHistory
  <2>2. pc'[p] = "unassign_update" /\ req'[p] = req[p] /\ audited'[p] = S
        /\ UNCHANGED task
    BY <1>1, <2>1 DEF Goto, dbVars
  <2>3. NoTasks /\ \A u \in Users : memberLock[u] = p => u = Target(p)
    BY <1>2, <2>1 DEF Holds, TaskLabels
  <2>4. S \subseteq Tasks /\ S = AssignedTo(Target(p))'
    BY <2>2 DEF AssignedTo, Live, Target
  <2>5. \A t \in Tasks : taskLock'[t] = p <=> t \in S
    BY <2>1, <2>3, <2>4 DEF LockTasks
  <2>6. Holds(p)'
    BY <2>1, <2>2, <2>3, <2>4, <2>5 DEF Holds, Target
  <2>7. \A q \in Procs \ {p}, t \in Tasks : taskLock'[t] = q <=> taskLock[t] = q
    BY <2>1, <2>4, StoreAssumption DEF Lockable, LockTasks
  <2>8. \A q \in Procs \ {p} : audited'[q] = audited[q]
    BY <1>1, <2>1
  <2> QED
    BY <1>1, <2>1, <2>6, <2>7, <2>8, GotoHolds
<1>10. CASE LockTask(p)
  <2> DEFINE t0 == req[p].task
  <2>1. PICK next \in {"update_role", "delete_role"} : Goto(p, next)
    BY <1>10 DEF LockTask
  <2>2. /\ pc[p] = "lock_task" /\ taskLock[t0] = NoProc
        /\ taskLock' = [taskLock EXCEPT ![t0] = p]
        /\ UNCHANGED <<memberLock, audited>>
    BY <1>10 DEF LockTask
  <2>3. NoneBefore /\ NoTasks
    BY <1>2, <2>2 DEF Holds, TaskLabels
  <2>4. pc'[p] = next /\ req'[p] = req[p]
    BY <1>1, <2>1 DEF Goto
  <2>5. Holds(p)'
    BY <1>1, <2>2, <2>3, <2>4 DEF Holds, TaskLabels
  <2>6. \A q \in Procs \ {p}, t \in Tasks : taskLock'[t] = q <=> taskLock[t] = q
    BY <1>1, <2>2, StoreAssumption
  <2> QED
    BY <1>1, <2>1, <2>2, <2>5, <2>6, GotoHolds
<1>11. CASE UpdateRole(p) \/ UpdateAssignee(p) \/ UpdateTask(p) \/ DeleteRole(p)
  <2>1. PICK next \in {"update_assignee", "update", "record", "delete_task"} : Goto(p, next)
    BY <1>11 DEF UpdateRole, UpdateAssignee, UpdateTask, DeleteRole
  <2>2. /\ pc[p] \in {"update_role", "update_assignee", "update", "delete_role"}
        /\ UNCHANGED <<memberLock, taskLock, audited>>
    BY <1>11 DEF UpdateRole, UpdateAssignee, UpdateTask, DeleteRole, lockVars
  <2>3. pc'[p] = next /\ req'[p] = req[p]
    BY <1>1, <2>1 DEF Goto
  <2>4. NoneBefore /\ \A t \in Tasks : taskLock[t] = p => t = req[p].task
    BY <1>2, <2>2 DEF Holds
  <2>5. Holds(p)'
    BY <2>2, <2>3, <2>4 DEF Holds, TaskLabels
  <2> QED
    BY <1>1, <2>1, <2>2, <2>5, GotoHolds
<1> QED
  BY <1>4, <1>5, <1>6, <1>7, <1>8, <1>9, <1>10, <1>11

\* A commit only changes tasks that its transaction has locked, that nobody
\* has locked, or that did not exist.
LEMMA CommittedTasks ==
    ASSUME Inv, NEW p \in Procs, Step(p), ~Rollback(p), NEW t \in Tasks,
           Live(t), taskLock[t] \notin {NoProc, p}
    PROVE  task'[t] = task[t]
<1>1. task \in [Tasks -> Rows] /\ Shape(p) /\ RowHeld(p)
  BY DEF Inv, TypeOK, RequestShape, TaskLocks
<1>2. CASE UnassignUpdate(p)
  BY <1>2 DEF UnassignUpdate, Lockable
<1>3. CASE DeleteTeam(p)
  BY <1>3 DEF DeleteTeam, Lockable
<1>4. CASE CreateTask(p)
  <2>1. task' = [task EXCEPT ![req[p].task] = NewRow(Actor(p), Target(p))] /\ pc[p] = "create_task"
    BY <1>4 DEF CreateTask
  <2>2. task[req[p].task].state = "absent"
    BY <1>1, <2>1 DEF Shape, Inv, FreshIds
  <2> QED
    BY <1>1, <2>1, <2>2 DEF Live
<1>5. CASE RecordHistory(p) \/ DeleteTask(p)
  <2>1. PICK row : task' = [task EXCEPT ![req[p].task] = row]
    BY <1>5 DEF RecordHistory, DeleteTask
  <2>2. taskLock[req[p].task] = p
    BY <1>1, <1>5 DEF RowHeld, RecordHistory, DeleteTask, TaskLabels
  <2> QED
    BY <1>1, <2>1, <2>2
<1>6. CASE ~UnassignUpdate(p) /\ ~DeleteTeam(p) /\ ~CreateTask(p) /\ ~RecordHistory(p) /\ ~DeleteTask(p)
  BY <1>6 DEF Step, ReadActor, LockActor, LockTarget, TransferTarget, UnassignHistory,
     DeleteTeamTasks, CreateAssignee, LockTask, UpdateRole, UpdateAssignee, UpdateTask, DeleteRole,
       Invalidate, ReturnError, Goto,
     dbVars, CreateTeam, InviteMember, ChangeMemberRole, TransferOwnership
<1> QED
  BY <1>2, <1>3, <1>4, <1>5, <1>6

\* While a team's deletion is at its cascade no task is added to the team.
LEMMA NothingAdded ==
    ASSUME Inv, NEW p \in Procs, Step(p), ~Rollback(p), NEW q \in Procs, pc[q] = "cascade",
           NEW t \in Tasks, Live(t)'
    PROVE  Live(t)
<1>1. task \in [Tasks -> Rows] /\ Shape(p) /\ RowHeld(p)
  BY DEF Inv, TypeOK, RequestShape, TaskLocks
<1>2. ~CreateTask(p)
  BY DEF CreateTask, TeamFree
<1>3. CASE UnassignUpdate(p)
  <2>1. task'[t] \in {task[t], Unassigned(task[t])}
    BY <1>3 DEF UnassignUpdate
  <2> QED
    BY <1>1, <2>1, UnassignKeeps DEF Live
<1>4. CASE DeleteTeam(p)
  BY <1>4 DEF DeleteTeam, DeletedRow, NoRow, Live
<1>5. CASE RecordHistory(p) \/ DeleteTask(p)
  <2>1. PICK row : task' = [task EXCEPT ![req[p].task] = row]
    BY <1>5 DEF RecordHistory, DeleteTask
  <2>2. Live(req[p].task)
    BY <1>1, <1>5 DEF RowHeld, RecordHistory, DeleteTask, TaskLabels
  <2> QED
    BY <1>1, <2>1, <2>2 DEF Live
<1>6. CASE ~UnassignUpdate(p) /\ ~DeleteTeam(p) /\ ~RecordHistory(p) /\ ~DeleteTask(p)
  BY <1>2, <1>6 DEF Step, ReadActor, LockActor, LockTarget, TransferTarget, UnassignHistory,
     DeleteTeamTasks, CreateAssignee, LockTask, UpdateRole, UpdateAssignee, UpdateTask, DeleteRole,
       Invalidate, ReturnError, Goto,
     dbVars, CreateTeam, InviteMember, ChangeMemberRole, TransferOwnership, Live
<1> QED
  BY <1>3, <1>4, <1>5, <1>6

\* Every step keeps the locks where they belong.
LEMMA NextHolds ==
    ASSUME Inv, LockHolders, [Next]_vars
    PROVE  LockHolders'
<1>1. TypeOK
  BY DEF Inv
<1>2. CASE UNCHANGED vars
  BY <1>2 DEF vars, dbVars, lockVars, reqVars, locals, LockHolders, Holds, Actor, Target,
     AssignedTo, Live
<1>3. ASSUME NEW p \in Procs, Request(p)
      PROVE  LockHolders'
  BY <1>1, <1>3, RequestHolds
<1>4. ASSUME NEW p \in Procs, Rollback(p)
      PROVE  LockHolders'
  <2>1. Commit(p, "idle") /\ UNCHANGED task
    BY <1>4 DEF Rollback, Commit, dbVars
  <2> QED
    BY <1>1, <2>1, CommitHolds DEF Live
<1>5. ASSUME NEW p \in Procs, Step(p), ~Rollback(p)
      PROVE  LockHolders'
  <2>1. \/ ReadActor(p)       \/ LockActor(p)       \/ LockTarget(p)
        \/ TransferTarget(p)  \/ DeleteTeamTasks(p) \/ UnassignHistory(p)
        \/ CreateAssignee(p)  \/ LockTask(p)
        \/ UpdateRole(p)      \/ UpdateAssignee(p)  \/ UpdateTask(p)
        \/ DeleteRole(p)      \/ Commit(p, "idle")  \/ CommitTasks(p)
    BY <1>5 DEF Step, Invalidate, ReturnError, CreateTeam, InviteMember, ChangeMemberRole,
       TransferOwnership, DeleteTeam, UnassignUpdate, CreateTask, DeleteTask, RecordHistory
  <2>2. \A t \in Tasks : Live(t) /\ taskLock[t] \notin {NoProc, p} => task'[t] = task[t]
    BY <1>5, CommittedTasks
  <2>3. \A q \in Procs : pc[q] = "cascade" => \A t \in Tasks : Live(t)' => Live(t)
    BY <1>5, NothingAdded
  <2> QED
    BY <1>1, <1>5, <2>1, <2>2, <2>3, CommitHolds, InsideHolds
<1> QED
  BY <1>2, <1>3, <1>4, <1>5 DEF Next, Abort

\* No transaction ever holds a row that it is not working on, whatever error
\* or abort ended the ones before it.
THEOREM NoStrayLocks == Spec => []LockHolders
<1>1. Init => LockHolders
  BY StoreAssumption DEF Init, LockHolders, Holds
<1>2. Inv /\ LockHolders /\ [Next]_vars => LockHolders'
  BY NextHolds
<1> QED
  BY <1>1, <1>2, Invariance, PTL DEF Spec

\* In a circle of waiting requests without a cascade nobody waits for a task:
\* its holder would be another removal of the same member, whose row is
\* locked by one of them only.  So everybody waits for a membership, at the
\* second lock of a transfer; but only the owner gets there.
LEMMA CirclesCascade ==
    ASSUME Inv, LockHolders, NEW S \in SUBSET Procs, Circle(S)
    PROVE  \E p \in S : pc[p] = "cascade"
<1>1. SUFFICES ASSUME \A p \in S : pc[p] # "cascade"
               PROVE  FALSE
  OBVIOUS
<1>2. \A p \in S : RolesHeld(p) /\ Shape(p) /\ Holds(p) /\ p \in Procs
  BY DEF Inv, MemberLocks, RequestShape, LockHolders
<1>3. \A p \in S : pc[p] \in {"transfer_target", "delete_team", "unassign_history", "unassign_update"}
  BY <1>1 DEF Circle, WaitsFor
<1>4. ASSUME NEW p \in S, NEW t \in Tasks, taskLock[t] = p
      PROVE  pc[p] = "unassign_update" /\ t \in AssignedTo(Target(p))
  BY <1>2, <1>3, <1>4 DEF Holds, TaskLabels
<1>5. ASSUME NEW p \in S, pc[p] \in {"unassign_history", "unassign_update"}
      PROVE  FALSE
  <2>1. PICK q \in S, t \in AssignedTo(Target(p)) : p # q /\ taskLock[t] = q
    BY <1>5 DEF Circle, WaitsFor
  <2>2. t \in Tasks /\ task[t].assignee_id = Target(p)
    BY <2>1 DEF AssignedTo
  <2>3. pc[q] = "unassign_update" /\ task[t].assignee_id = Target(q)
    BY <1>4, <2>1, <2>2 DEF AssignedTo
  <2>4. memberLock[Target(p)] = p /\ memberLock[Target(q)] = q
    BY <1>2, <1>5, <2>3 DEF RolesHeld
  <2> QED
    BY <2>1, <2>2, <2>3, <2>4
<1>6. ASSUME NEW p \in S
      PROVE  /\ pc[p] = "transfer_target" /\ Actor(p) \in Users /\ Target(p) \in Users
             /\ role[Actor(p)] = "owner" /\ Actor(p) # Target(p)
             /\ memberLock[Target(p)] \in S
  <2>1. PICK q \in S : WaitsFor(p, q)
    BY DEF Circle
  <2>2. pc[p] # "delete_team"
    BY <1>4, <1>5, <2>1 DEF WaitsFor
  <2>3. pc[p] = "transfer_target"
    BY <1>3, <1>5, <2>2
  <2>4. /\ CanTransferOwnership(actorRole[p], Actor(p) = Target(p)) = "ok"
        /\ memberLock[Target(p)] = q
    BY <2>1, <2>3 DEF WaitsFor
  <2>5. role[Actor(p)] = actorRole[p] /\ Actor(p) \in Users /\ Target(p) \in Users
    BY <1>2, <2>3 DEF RolesHeld, Shape, Actor, Target
  <2> QED
    BY <2>1, <2>3, <2>4, <2>5 DEF CanTransferOwnership
<1>7. PICK p \in S : TRUE
  BY DEF Circle
<1>8. PICK q \in S : memberLock[Target(p)] = q
  BY <1>6
<1>9. Target(p) = Actor(q)
  BY <1>2, <1>6, <1>8 DEF Holds
<1>10. \A u, v \in Users : role[u] = "owner" /\ role[v] = "owner" => u = v
  BY DEF Inv, ExactlyOneOwner, NoRole
<1> QED
  BY <1>6, <1>9, <1>10

\* However many requests wait for however many rows, the services' own locks
\* never form a circle: every deadlock has the cascade of a deletion in it.
THEOREM CascadesOnly == Spec => []OnlyCascadesDeadlock
<1>1. Inv /\ LockHolders => OnlyCascadesDeadlock
  BY CirclesCascade DEF OnlyCascadesDeadlock
<1> QED
  BY <1>1, Invariance, NoStrayLocks, PTL

\* Who waits where nobody waits for him waits for somebody who holds a row;
\* and who holds a row and waits, waits for another such request.  A deletion
\* at its cascade has all tasks of the team, so it waits for a membership.
LEMMA StuckCircle ==
    ASSUME Inv, LockHolders, NEW p0 \in Procs, pc[p0] # "idle",
           \A p \in Procs : pc[p] # "idle" => Waiting(p)
    PROVE  \E S \in SUBSET {p \in Procs : pc[p] # "idle"} : Circle(S)
<1> DEFINE Holding == {"transfer_target", "transfer", "delete_team", "cascade", "change_role",
                       "unassign_history", "unassign_update"} \cup (TaskLabels \ {"lock_task"})
           Waits   == {"transfer_target", "delete_team", "cascade", "unassign_history",
                       "unassign_update"}
           S       == {p \in Procs : pc[p] \in Holding}
<1>1. /\ memberLock \in [Users -> Procs \cup {NoProc}]
      /\ taskLock \in [Tasks -> Procs \cup {NoProc}]
  BY DEF Inv, TypeOK
<1>2. \A p \in Procs : RolesHeld(p) /\ RowHeld(p) /\ Shape(p) /\ Holds(p)
  BY DEF Inv, MemberLocks, TaskLocks, RequestShape, LockHolders
<1>3. ASSUME NEW u \in Users, memberLock[u] # NoProc
      PROVE  memberLock[u] \in S
  BY <1>1, <1>2, <1>3 DEF Holds
<1>4. ASSUME NEW t \in Tasks, taskLock[t] # NoProc
      PROVE  taskLock[t] \in S
  BY <1>1, <1>2, <1>4 DEF Holds
<1>5. ASSUME NEW p \in Procs, pc[p] # "idle"
      PROVE  /\ Waiting(p) /\ Actor(p) \in Users /\ Target(p) \in Users
             /\ pc[p] = "lock_task" => req[p].task \in Tasks
  <2>1. Waiting(p) /\ pc[p] \notin Ended
    BY <1>5 DEF Waiting
  <2> QED
    BY <1>2, <2>1 DEF Shape, Actor, Target, TaskLabels, TaskOps
<1>6. \A p \in S : p \in Procs /\ pc[p] # "idle" /\ pc[p] \in Waits
  <2> TAKE p \in S
  <2>1. p \in Procs /\ pc[p] # "idle"
    BY DEF TaskLabels
  <2> QED
    BY <1>5, <2>1 DEF Waiting, TaskLabels
<1>7. S # {}
  <2>1. CASE pc[p0] \in Holding
    BY <2>1
  <2>2. CASE ~TeamFree
    BY <2>2 DEF TeamFree
  <2>3. CASE pc[p0] \notin Holding /\ TeamFree
    <3>1. \/ pc[p0] = "lock_actor" /\ memberLock[Actor(p0)] # NoProc
          \/ pc[p0] = "lock_task" /\ taskLock[req[p0].task] # NoProc
          \/ memberLock[Target(p0)] # NoProc
      BY <1>5, <2>3 DEF Waiting
    <3> QED
      BY <1>3, <1>4, <1>5, <3>1
  <2> QED
    BY <2>1, <2>2, <2>3
<1>8. ASSUME NEW p \in S
      PROVE  \E q \in S : WaitsFor(p, q)
  <2>1. p \in Procs /\ Waiting(p) /\ Actor(p) \in Users /\ Target(p) \in Users /\ pc[p] \in Waits
    BY <1>5, <1>6
  <2>2. CASE pc[p] = "transfer_target"
    <3>1. /\ CanTransferOwnership(actorRole[p], Actor(p) = Target(p)) = "ok"
          /\ memberLock[Target(p)] # NoProc
      BY <2>1, <2>2 DEF Waiting
    <3>2. Actor(p) # Target(p)
      BY <3>1 DEF CanTransferOwnership
    <3>3. memberLock[Target(p)] # p
      BY <1>2, <2>1, <2>2, <3>2 DEF Holds
    <3> QED
      BY <1>3, <2>1, <2>2, <3>1, <3>3 DEF WaitsFor
  <2>3. CASE pc[p] = "delete_team"
    <3>1. PICK t \in Tasks : taskLock[t] \notin {NoProc, p}
      BY <2>1, <2>3 DEF Waiting, Lockable
    <3>2. CanDeleteTeam(actorRole[p]) = "ok"
      BY <2>1, <2>3 DEF Waiting
    <3> QED
      BY <1>4, <2>3, <3>1, <3>2 DEF WaitsFor
  <2>4. CASE pc[p] \in {"unassign_history", "unassign_update"}
    <3>1. PICK t \in AssignedTo(Target(p)) : taskLock[t] \notin {NoProc, p}
      BY <2>1, <2>4 DEF Waiting, Lockable
    <3>2. RemovalDecision(p) = "ok" /\ t \in Tasks
      BY <2>1, <2>4 DEF Waiting, AssignedTo
    <3> QED
      BY <1>4, <2>4, <3>1, <3>2 DEF WaitsFor
  <2>5. CASE pc[p] = "cascade"
    <3>1. ASSUME NEW t \in Tasks, taskLock[t] \notin {NoProc, p}
          PROVE  FALSE
      <4>1. PICK q \in S : taskLock[t] = q
        BY <1>4, <3>1
      <4>2. q \in Procs /\ pc[q] \in Waits
        BY <1>6
      <4>3. CASE pc[q] = "cascade"
        <5>1. /\ memberLock[Actor(p)] = p /\ role[Actor(p)] = actorRole[p]
              /\ memberLock[Actor(q)] = q /\ role[Actor(q)] = actorRole[q]
              /\ CanDeleteTeam(actorRole[p]) = "ok" /\ CanDeleteTeam(actorRole[q]) = "ok"
          BY <1>2, <2>1, <2>5, <4>2, <4>3 DEF RolesHeld
        <5>2. Actor(q) \in Users
          BY <1>5, <1>6
        <5>3. role[Actor(p)] = "owner" /\ role[Actor(q)] = "owner"
          BY <5>1 DEF CanDeleteTeam
        <5>4. Actor(p) = Actor(q)
          BY <2>1, <5>2, <5>3 DEF Inv, ExactlyOneOwner, NoRole
        <5> QED
          BY <3>1, <4>1, <5>1, <5>4
      <4>4. CASE pc[q] # "cascade"
        <5>1. pc[q] = "unassign_update" /\ t \in audited[q]
          BY <1>2, <4>1, <4>2, <4>4 DEF Holds, TaskLabels
        <5>2. Live(t)
          BY <1>2, <4>2, <5>1 DEF Holds, AssignedTo
        <5> QED
          BY <1>2, <2>1, <2>5, <3>1, <5>2 DEF Holds
      <4> QED
        BY <4>3, <4>4
    <3>2. Lockable(p, Tasks)
      BY <3>1 DEF Lockable
    <3>3. PICK u \in Users : memberLock[u] \notin {NoProc, p}
      BY <2>1, <2>5, <3>2 DEF Waiting
    <3> QED
      BY <1>3, <2>5, <3>3 DEF WaitsFor
  <2> QED
    BY <2>1, <2>2, <2>3, <2>4, <2>5
<1>9. S \in SUBSET {p \in Procs : pc[p] # "idle"}
  BY <1>6
<1> QED
  BY <1>7, <1>8, <1>9 DEF Circle

\* Whenever all requests in flight wait, InnoDB finds a circle to break: no
\* wait of the services is for a lock that nobody will release.
THEOREM StuckIsSeen == Spec => []StuckMeansCircle
<1>1. Inv /\ LockHolders => StuckMeansCircle
  BY StuckCircle DEF StuckMeansCircle
<1> QED
  BY <1>1, Invariance, NoStrayLocks, PTL

\* The statement of a request that waits is not executed: its row is locked.
LEMMA WaiterBlocked ==
    ASSUME NEW p \in Procs, Waiting(p)
    PROVE  ~Step(p)
<1>1. pc[p] \in {"lock_actor", "lock_target", "lock_task", "invite", "create_task",
                 "transfer_target", "delete_team", "cascade", "unassign_history",
                 "unassign_update"}
  BY DEF Waiting
<1>2. ~LockActor(p) /\ ~LockTarget(p) /\ ~TransferTarget(p)
  BY DEF Waiting, LockActor, LockTarget, TransferTarget, LockMember, IsMember
<1>3. ~LockTask(p) /\ ~CreateTask(p)
  BY DEF Waiting, LockTask, CreateTask
<1>4. ~InviteMember(p)
  BY DEF Waiting, InviteMember
<1>5. ~DeleteTeamTasks(p) /\ ~DeleteTeam(p)
  BY DEF Waiting, DeleteTeamTasks, DeleteTeam
<1>6. ~UnassignHistory(p) /\ ~UnassignUpdate(p)
  BY DEF Waiting, UnassignHistory, UnassignUpdate
<1>7. /\ ~ReadActor(p) /\ ~CreateTeam(p) /\ ~ChangeMemberRole(p) /\ ~TransferOwnership(p)
      /\ ~CreateAssignee(p) /\ ~DeleteTask(p) /\ ~UpdateRole(p) /\ ~UpdateAssignee(p)
      /\ ~UpdateTask(p) /\ ~RecordHistory(p) /\ ~DeleteRole(p)
      /\ ~Invalidate(p) /\ ~ReturnError(p)
  BY <1>1 DEF ReadActor, CreateTeam, ChangeMemberRole, TransferOwnership, CreateAssignee,
      DeleteTask, UpdateRole, UpdateAssignee, UpdateTask, RecordHistory, DeleteRole,
      Invalidate, ReturnError
<1> QED
  BY <1>2, <1>3, <1>4, <1>5, <1>6, <1>7 DEF Step

\* A request that Waiting names executes none of its statements until the
\* lock is gone: what StuckMeansCircle says of waiting requests is so about
\* blocked ones.
THEOREM WaitersStandStill == Spec => [][\A p \in Procs : Waiting(p) => ~Step(p)]_vars
<1>1. [Next]_vars => [\A p \in Procs : Waiting(p) => ~Step(p)]_vars
  BY WaiterBlocked
<1> QED
  BY <1>1, PTL DEF Spec

-----------------------------------------------------------------------------
(* The audit trail.                                                        *)

\* A further row in a history changes nothing about what its first rows say,
\* and the whole then says what the new row does, if it mentions the column.
LEMMA AppendRecorded ==
    ASSUME NEW h \in Seq(Entries), NEW e \in Entries, NEW f \in Fields, NEW v
    PROVE  /\ Len(Append(h, e)) = Len(h) + 1
           /\ \A i \in 1 .. Len(h) : Records(Append(h, e), f, i) = Records(h, f, i)
           /\ Records(Append(h, e), f, Len(h) + 1) = {c \in e.changes : c.field = f}
           /\ \A n \in 0 .. Len(h) :
                 Recorded(h, f, n, v) => Recorded(Append(h, e), f, n, v)
           /\ (\E c \in e.changes : c.field = f /\ c.new = v)
                 => Recorded(Append(h, e), f, Len(h) + 1, v)
           /\ Recorded(h, f, Len(h), v) /\ {c \in e.changes : c.field = f} = {}
                 => Recorded(Append(h, e), f, Len(h) + 1, v)
<1> DEFINE g == Append(h, e)
           N == Len(h)
<1>1. N \in Nat /\ Len(g) = N + 1
  OBVIOUS
<1>2. \A i \in 1 .. N : g[i] = h[i]
  OBVIOUS
<1>3. g[N + 1] = e
  OBVIOUS
<1>4. \A i \in 1 .. N : Records(g, f, i) = Records(h, f, i)
  BY <1>2 DEF Records
<1>5. Records(g, f, N + 1) = {c \in e.changes : c.field = f}
  BY <1>3 DEF Records
<1> HIDE DEF g, N
<1>6. \A n \in 0 .. N : Recorded(h, f, n, v) => Recorded(g, f, n, v)
  <2> SUFFICES ASSUME NEW n \in 0 .. N, Recorded(h, f, n, v)
               PROVE  Recorded(g, f, n, v)
    OBVIOUS
  <2>1. \A i \in 1 .. n : i \in 1 .. N
    BY <1>1
  <2>2. CASE v = NoRow[f] /\ \A i \in 1 .. n : Records(h, f, i) = {}
    BY <1>4, <2>1, <2>2 DEF Recorded
  <2>3. ASSUME NEW i \in 1 .. n, \E c \in Records(h, f, i) : c.new = v,
               \A j \in (i + 1) .. n : Records(h, f, j) = {}
        PROVE  Recorded(g, f, n, v)
    <3>1. \A j \in (i + 1) .. n : j \in 1 .. N
      BY <1>1
    <3> QED
      BY <1>4, <2>1, <2>3, <3>1 DEF Recorded
  <2> QED
    BY <2>2, <2>3 DEF Recorded
<1>7. ASSUME NEW c \in e.changes, c.field = f, c.new = v
      PROVE  Recorded(g, f, N + 1, v)
  <2>1. N + 1 \in 1 .. (N + 1) /\ \A j \in ((N + 1) + 1) .. (N + 1) : FALSE
    BY <1>1
  <2>2. c \in Records(g, f, N + 1)
    BY <1>5, <1>7
  <2> QED
    BY <1>7, <2>1, <2>2 DEF Recorded
<1>8. ASSUME Recorded(h, f, N, v), Records(g, f, N + 1) = {}
      PROVE  Recorded(g, f, N + 1, v)
  <2>1. Recorded(g, f, N, v)
    BY <1>1, <1>6, <1>8
  <2>2. \A i \in 1 .. (N + 1) : i \in 1 .. N \/ i = N + 1
    BY <1>1
  <2>3. CASE v = NoRow[f] /\ \A i \in 1 .. N : Records(g, f, i) = {}
    BY <1>8, <2>2, <2>3 DEF Recorded
  <2>4. ASSUME NEW i \in 1 .. N, \E c \in Records(g, f, i) : c.new = v,
               \A j \in (i + 1) .. N : Records(g, f, j) = {}
        PROVE  Recorded(g, f, N + 1, v)
    <3>1. i \in 1 .. (N + 1)
      BY <1>1
    <3>2. \A j \in (i + 1) .. (N + 1) : j \in (i + 1) .. N \/ j = N + 1
      BY <1>1
    <3> QED
      BY <1>8, <2>4, <3>1, <3>2 DEF Recorded
  <2> QED
    BY <2>1, <2>3, <2>4 DEF Recorded
<1> QED
  BY <1>1, <1>4, <1>5, <1>6, <1>7, <1>8 DEF g, N

\* What one history row says of a column: its old and its new value if the
\* column is among those it names, and nothing otherwise.
LEMMA EntryRecords ==
    ASSUME NEW u, NEW S, NEW before, NEW after, NEW f
    PROVE  /\ \A c \in Entry(u, S, before, after).changes :
                 c.field = f => f \in S /\ c.old = before[f] /\ c.new = after[f]
           /\ f \in S => \E c \in Entry(u, S, before, after).changes :
                            c.field = f /\ c.new = after[f]
<1> DEFINE change(g) == [field |-> g, old |-> before[g], new |-> after[g]]
<1>1. Entry(u, S, before, after).changes = {change(g) : g \in S}
  BY DEF Entry
<1>2. \A g : change(g).field = g /\ change(g).old = before[g] /\ change(g).new = after[g]
  OBVIOUS
<1> HIDE DEF change
<1> QED
  BY <1>1, <1>2

\* If a history replays the row before a change and the new row names every
\* column that differs, then the longer history replays the row after it.
LEMMA AppendReplays ==
    ASSUME NEW h \in Seq(Entries), NEW u \in Users, NEW S \in SUBSET Fields,
           NEW before \in Rows, NEW after \in Rows,
           \A f \in Fields \ S : after[f] = before[f],
           \A f \in Fields \ {"assignee_id"} : Replays(h, f, before),
           ReplaysAssignee(h, before)
    PROVE  LET g == Append(h, Entry(u, S, before, after))
           IN /\ \A f \in Fields \ {"assignee_id"} : Replays(g, f, after)
              /\ ReplaysAssignee(g, after)
<1> DEFINE e == Entry(u, S, before, after)
           g == Append(h, e)
           N == Len(h)
<1>1. e \in Entries /\ N \in Nat
  BY EntryType
<1>2. \A c \in e.changes, f \in Fields :
         c.field = f => f \in S /\ c.old = before[f] /\ c.new = after[f]
  BY EntryRecords
<1>3. \A f \in S : \E c \in e.changes : c.field = f /\ c.new = after[f]
  BY EntryRecords
<1> HIDE DEF e
<1>4. Len(g) = N + 1 /\ \A i \in 1 .. (N + 1) : (i \in 1 .. N /\ i - 1 \in 0 .. N) \/ i = N + 1
  BY <1>1
<1>a. N \in 0 .. N /\ (N + 1) - 1 = N
  BY <1>1
<1> HIDE DEF g, N
<1>5. ASSUME NEW f \in Fields, f \notin S
      PROVE  {c \in e.changes : c.field = f} = {} /\ after[f] = before[f]
  BY <1>2, <1>5
<1>6. ASSUME NEW f \in Fields
      PROVE  /\ \A i \in 1 .. N : Records(g, f, i) = Records(h, f, i)
             /\ Records(g, f, N + 1) = {c \in e.changes : c.field = f}
             /\ \A n \in 0 .. N : \A v : Recorded(h, f, n, v) => Recorded(g, f, n, v)
             /\ f \in S => Recorded(g, f, N + 1, after[f])
             /\ f \notin S /\ Recorded(h, f, N, after[f]) => Recorded(g, f, N + 1, after[f])
  <2>1. ASSUME NEW v
        PROVE  /\ \A i \in 1 .. N : Records(g, f, i) = Records(h, f, i)
               /\ Records(g, f, N + 1) = {c \in e.changes : c.field = f}
               /\ \A n \in 0 .. N : Recorded(h, f, n, v) => Recorded(g, f, n, v)
               /\ (\E c \in e.changes : c.field = f /\ c.new = v) => Recorded(g, f, N + 1, v)
               /\ Recorded(h, f, N, v) /\ {c \in e.changes : c.field = f} = {}
                     => Recorded(g, f, N + 1, v)
    BY <1>1, AppendRecorded DEF g, N
  <2>2. f \in S => Recorded(g, f, N + 1, after[f])
    BY <1>3, <2>1
  <2>3. f \notin S /\ Recorded(h, f, N, after[f]) => Recorded(g, f, N + 1, after[f])
    BY <1>5, <2>1
  <2> QED
    BY <2>1, <2>2, <2>3
<1>7. ASSUME NEW f \in Fields \ {"assignee_id"}
      PROVE  Replays(g, f, after)
  <2>1. Replays(h, f, before)
    OBVIOUS
  <2>2. Recorded(g, f, N + 1, after[f])
    BY <1>5, <1>6, <2>1 DEF Replays, N
  <2>3. ASSUME NEW i \in 1 .. (N + 1), NEW c \in Records(g, f, i)
        PROVE  Recorded(g, f, i - 1, c.old)
    <3>1. CASE i \in 1 .. N /\ i - 1 \in 0 .. N
      BY <1>6, <2>1, <2>3, <3>1 DEF Replays, N
    <3>2. CASE i = N + 1
      <4>1. c.old = before[f]
        BY <1>2, <1>6, <2>3, <3>2
      <4>2. Recorded(h, f, N, before[f])
        BY <2>1 DEF Replays, N
      <4> QED
        BY <1>6, <1>a, <3>2, <4>1, <4>2
    <3> QED
      BY <1>4, <3>1, <3>2
  <2> QED
    BY <1>4, <2>2, <2>3 DEF Replays
<1>8. ReplaysAssignee(g, after)
  <2> DEFINE f == "assignee_id"
  <2>1. f \in Fields
    BY DEF Fields
  <2>2. Follows(g, N + 1, after[f])
    <3>1. CASE f \in S
      BY <1>6, <2>1, <3>1 DEF Follows
    <3>2. CASE f \notin S
      <4>1. Follows(h, N, after[f])
        BY <1>5, <2>1, <3>2 DEF ReplaysAssignee, N
      <4> QED
        BY <1>6, <2>1, <3>2, <4>1 DEF Follows
    <3> QED
      BY <3>1, <3>2
  <2>3. ASSUME NEW i \in 1 .. (N + 1), NEW c \in Records(g, f, i)
        PROVE  Follows(g, i - 1, c.old)
    <3>1. CASE i \in 1 .. N /\ i - 1 \in 0 .. N
      <4>1. Follows(h, i - 1, c.old)
        BY <1>6, <2>1, <2>3, <3>1 DEF ReplaysAssignee, N
      <4> QED
        BY <1>6, <2>1, <3>1, <4>1 DEF Follows
    <3>2. CASE i = N + 1
      <4>1. c.old = before[f]
        BY <1>2, <1>6, <2>1, <2>3, <3>2
      <4>2. Follows(h, N, before[f])
        BY DEF ReplaysAssignee, N
      <4> QED
        BY <1>6, <1>a, <2>1, <3>2, <4>1, <4>2 DEF Follows
    <3> QED
      BY <1>4, <3>1, <3>2
  <2> QED
    BY <1>4, <2>2, <2>3 DEF ReplaysAssignee
<1> QED
  BY <1>7, <1>8 DEF g, e

\* The same for the whole trail, when the change is a new version.
LEMMA AppendTrail ==
    ASSUME NEW h \in Seq(Entries), NEW u \in Users, NEW S \in SUBSET Fields,
           NEW before \in Rows, NEW after \in Rows,
           \A f \in Fields \ S : after[f] = before[f],
           after.version = before.version + 1,
           Trail(h, before)
    PROVE  Trail(Append(h, Entry(u, S, before, after)), after)
<1>1. before.version \in Nat /\ Len(h) <= before.version
  BY DEF Rows, Trail
<1>2. Len(Append(h, Entry(u, S, before, after))) = Len(h) + 1 /\ Len(h) \in Nat
  BY EntryType
<1>3. Len(Append(h, Entry(u, S, before, after))) <= after.version
  BY <1>1, <1>2
<1> QED
  BY <1>3, AppendReplays DEF Trail

\* An empty history replays a row that was just created.
LEMMA EmptyTrail == Trail(<<>>, NoRow)
<1>1. \A f \in Fields : Recorded(<<>>, f, 0, NoRow[f])
  BY DEF Recorded
<1>2. Len(<<>>) = 0 /\ NoRow.version = 0 /\ 1 .. 0 = {}
  BY DEF NoRow
<1>3. NoRow.assignee_id = NoUser
  BY DEF NoRow
<1> QED
  BY <1>1, <1>2, <1>3 DEF Trail, Replays, ReplaysAssignee, Follows

\* CreateTask: the first history row names every column that is not empty.
LEMMA CreateTrail ==
    ASSUME Inv, AuditTrail, NEW p \in Procs, CreateTask(p), ~Rollback(p)
    PROVE  AuditTrail'
<1> DEFINE t   == req[p].task
           row == NewRow(Actor(p), Target(p))
           S   == Fields \ {"closed_at"}
<1>1. /\ task \in [Tasks -> Rows] /\ history \in [Tasks -> Seq(Entries)] /\ Shape(p)
  BY DEF Inv, TypeOK, RequestShape
<1>2. /\ task' = [task EXCEPT ![t] = row] /\ pc[p] = "create_task"
      /\ history' = [history EXCEPT ![t] = Append(@, Entry(Actor(p), S, NoRow, row))]
  BY DEF CreateTask
<1>3. t \in Tasks /\ ~Live(t) /\ Actor(p) \in Users /\ Target(p) \in Users
  BY <1>1, <1>2 DEF Shape, Inv, FreshIds, Live, Actor, Target
<1>4. history[t] = <<>>
  BY <1>3 DEF AuditTrail
<1>5. /\ row \in Rows /\ NoRow \in Rows /\ row.state = "live"
      /\ row.version = NoRow.version + 1 /\ row.closed_at = NoRow.closed_at
  <2>1. NoRow \in Rows /\ NoRow.version = 0
    BY ConstantTypes DEF NoRow
  <2>2. row \in Rows
    BY <1>3, <2>1 DEF NewRow, Rows
  <2>3. row.state = "live" /\ row.version = 1 /\ row.closed_at = NoRow.closed_at
    BY <2>1 DEF NewRow, Rows
  <2> QED
    BY <2>1, <2>2, <2>3
<1>6. \A f \in Fields \ S : row[f] = NoRow[f]
  BY <1>5 DEF Fields
<1>7. Trail(Append(history[t], Entry(Actor(p), S, NoRow, row)), row)
  <2>1. history[t] \in Seq(Entries) /\ S \in SUBSET Fields
    BY <1>1, <1>3
  <2>2. Trail(history[t], NoRow)
    BY <1>4, EmptyTrail
  <2> HIDE DEF row, S, t
  <2> QED
    BY <1>3, <1>5, <1>6, <2>1, <2>2, AppendTrail
<1>8. task'[t] = row /\ history'[t] = Append(history[t], Entry(Actor(p), S, NoRow, row))
  BY <1>1, <1>2, <1>3
<1>9. \A s \in Tasks \ {t} : task'[s] = task[s] /\ history'[s] = history[s]
  BY <1>1, <1>2
<1> QED
  BY <1>5, <1>7, <1>8, <1>9 DEF AuditTrail, Live

\* UpdateTask: the history row names every column that changes, and the row
\* it was computed from is the one in the table.
LEMMA UpdateTrail ==
    ASSUME Inv, AuditTrail, NEW p \in Procs, RecordHistory(p)
    PROVE  AuditTrail'
<1> DEFINE t   == req[p].task
           new == Apply(seen[p], req[p].edit)
           row == [new EXCEPT !.version = @ + 1]
           S   == Changed(seen[p], req[p].edit)
<1>1. /\ task \in [Tasks -> Rows] /\ history \in [Tasks -> Seq(Entries)]
      /\ Shape(p) /\ RowHeld(p) /\ seen[p] \in Rows /\ req[p].edit \in Edits
  BY DEF Inv, TypeOK, RequestShape, TaskLocks, Requests
<1>2. /\ task' = [task EXCEPT ![t] = row] /\ pc[p] = "record"
      /\ history' = [history EXCEPT ![t] = Append(@, Entry(Actor(p), S, seen[p], row))]
  BY DEF RecordHistory, NewVersion
<1>3. t \in Tasks /\ Live(t) /\ seen[p] = task[t] /\ Actor(p) \in Users
  BY <1>1, <1>2 DEF Shape, RowHeld, Actor, TaskLabels, TaskOps
<1>4. /\ new \in Rows /\ row \in Rows
      /\ new.state = seen[p].state /\ new.version = seen[p].version
  <2>1. new \in Rows
    BY <1>1, ApplyType
  <2>2. row \in Rows
    BY <2>1, BumpType
  <2>3. new.state = seen[p].state /\ new.version = seen[p].version
    BY <1>1 DEF Apply, Rows
  <2> QED
    BY <2>1, <2>2, <2>3
<1>5. /\ row.state = seen[p].state /\ row.version = seen[p].version + 1
      /\ \A f \in Fields : row[f] = new[f]
  BY <1>4 DEF Rows, Fields
<1>6. S \subseteq Fields /\ \A f \in Fields \ S : row[f] = seen[p][f]
  BY <1>5 DEF Changed
<1>7. Trail(history[t], seen[p]) /\ history[t] \in Seq(Entries)
  BY <1>1, <1>3 DEF AuditTrail
<1>8. Trail(Append(history[t], Entry(Actor(p), S, seen[p], row)), row)
  <2> HIDE DEF row, S
  <2> QED
    BY <1>1, <1>3, <1>4, <1>5, <1>6, <1>7, AppendTrail
<1>9. /\ task'[t] = row /\ row.state = "live"
      /\ history'[t] = Append(history[t], Entry(Actor(p), S, seen[p], row))
  BY <1>1, <1>2, <1>3, <1>5 DEF Live
<1>10. \A s \in Tasks \ {t} : task'[s] = task[s] /\ history'[s] = history[s]
  BY <1>1, <1>2
<1> QED
  BY <1>8, <1>9, <1>10 DEF AuditTrail, Live

\* UnassignUser: the tasks with a history row of the first statement are among
\* those that the second one changes; a task that it changes beyond them
\* loses its assignee without a record.
LEMMA UnassignTrail ==
    ASSUME Inv, LockHolders, AuditTrail, NEW p \in Procs, UnassignUpdate(p)
    PROVE  AuditTrail'
<1>1. /\ task \in [Tasks -> Rows] /\ history \in [Tasks -> Seq(Entries)] /\ TypeOK /\ Shape(p)
  BY DEF Inv, TypeOK, RequestShape
<1> DEFINE S == AssignedTo(Target(p))
           e(t) == Entry(Actor(p), {"assignee_id"}, task[t], Unassigned(task[t]))
<1>2. /\ pc[p] = "unassign_update"
      /\ task' = [t \in Tasks |-> IF t \in S THEN Unassigned(task[t]) ELSE task[t]]
      /\ history' = [t \in Tasks |-> IF t \in audited[p] THEN Append(history[t], e(t))
                                      ELSE history[t]]
  BY DEF UnassignUpdate
<1>3. Actor(p) \in Users
  BY <1>1, <1>2 DEF Shape, Actor
<1>4. SUFFICES ASSUME NEW t \in Tasks
               PROVE  IF Live(t)' THEN Trail(history'[t], task'[t]) ELSE history'[t] = <<>>
  BY DEF AuditTrail
<1> DEFINE row == Unassigned(task[t])
<1>5. /\ row \in Rows /\ row.assignee_id = NoUser /\ row.state = task[t].state
      /\ row.version = task[t].version + 1 /\ task[t].version \in Nat
      /\ row.content = task[t].content /\ row.status = task[t].status
      /\ row.closed_at = task[t].closed_at
  <2>1. task[t] \in Rows
    BY <1>1
  <2> QED
    BY <2>1, UnassignedType DEF Unassigned, Rows
<1>6. \A f \in Fields \ {"assignee_id"} : row[f] = task[t][f]
  BY <1>5 DEF Fields
<1> HIDE DEF row
<1>7. CASE t \in audited[p]
  <2>1. t \in S /\ Live(t)
    BY <1>1, <1>2, <1>7, RecordedAreLocked DEF AssignedTo
  <2>2. Trail(history[t], task[t])
    BY <2>1 DEF AuditTrail
  <2>3. Trail(Append(history[t], Entry(Actor(p), {"assignee_id"}, task[t], row)), row)
    <3>1. history[t] \in Seq(Entries) /\ task[t] \in Rows /\ {"assignee_id"} \in SUBSET Fields
      BY <1>1 DEF Fields
    <3> QED
      BY <1>3, <1>5, <1>6, <2>2, <3>1, AppendTrail
  <2>4. task'[t] = row /\ history'[t] = Append(history[t], Entry(Actor(p), {"assignee_id"}, task[t], row))
    BY <1>2, <1>7, <2>1 DEF row
  <2> QED
    BY <1>5, <2>1, <2>3, <2>4 DEF Live
<1>8. CASE t \notin audited[p] /\ t \in S
  <2>1. task'[t] = row /\ history'[t] = history[t] /\ Live(t)
    BY <1>2, <1>8 DEF row, AssignedTo
  <2>2. Trail(history[t], task[t])
    BY <2>1 DEF AuditTrail
  <2>3. \A f \in Fields \ {"assignee_id"} : Replays(history[t], f, row)
    BY <1>6, <2>2 DEF Trail, Replays
  <2>4. ReplaysAssignee(history[t], row)
    BY <1>5, <2>2 DEF Trail, ReplaysAssignee, Follows
  <2>5. Len(history[t]) <= row.version
    <3>1. Len(history[t]) \in Nat /\ Len(history[t]) <= task[t].version
      BY <1>1, <2>2 DEF Trail
    <3> QED
      BY <1>5, <3>1
  <2> QED
    BY <1>5, <2>1, <2>3, <2>4, <2>5 DEF Trail, Live
<1>9. CASE t \notin audited[p] /\ t \notin S
  <2>1. task'[t] = task[t] /\ history'[t] = history[t]
    BY <1>2, <1>9
  <2> QED
    BY <2>1 DEF AuditTrail, Live
<1> QED
  BY <1>7, <1>8, <1>9

\* Deletions, of a task or of the team, take the histories along.
LEMMA DeleteTrail ==
    ASSUME Inv, AuditTrail, NEW p \in Procs, DeleteTask(p) \/ DeleteTeam(p), ~Rollback(p)
    PROVE  AuditTrail'
<1>1. /\ task \in [Tasks -> Rows] /\ history \in [Tasks -> Seq(Entries)]
  BY DEF Inv, TypeOK
<1>2. DeletedRow.state = "deleted"
  BY DEF DeletedRow, NoRow
<1>3. CASE DeleteTask(p)
  <2>1. /\ task' = [task EXCEPT ![req[p].task] = DeletedRow]
        /\ history' = [history EXCEPT ![req[p].task] = <<>>]
    BY <1>3 DEF DeleteTask
  <2> QED
    BY <1>1, <1>2, <2>1 DEF AuditTrail, Live
<1>4. CASE DeleteTeam(p)
  <2>1. /\ task' = [t \in Tasks |-> IF Live(t) THEN DeletedRow ELSE task[t]]
        /\ history' = [t \in Tasks |-> <<>>]
    BY <1>4 DEF DeleteTeam
  <2> QED
    BY <1>2, <2>1 DEF AuditTrail, Live
<1> QED
  BY <1>3, <1>4

\* Every step keeps the trail.
LEMMA NextTrail ==
    ASSUME Inv, LockHolders, AuditTrail, [Next]_vars
    PROVE  AuditTrail'
<1>1. CASE UNCHANGED <<task, history>>
  BY <1>1 DEF AuditTrail, Live
<1>2. CASE ~UNCHANGED <<task, history>>
  <2>1. PICK p \in Procs : Request(p) \/ Step(p) \/ Abort(p)
    BY <1>2 DEF Next, vars, dbVars
  <2>2. ~Request(p)
    BY <1>2 DEF Request, RequestCreateTeam, RequestDeleteTeam, RequestLeaveTeam,
       RequestTransfer, RequestRemoveMember, RequestInvite, RequestChangeRole,
       RequestCreateTask, RequestUpdateTask, RequestDeleteTask, Receive, ReceiveTask, dbVars
  <2>3. ~Rollback(p) /\ ~Abort(p)
    BY <1>2 DEF Abort, Rollback, dbVars
  <2>4. \/ CreateTask(p) \/ RecordHistory(p) \/ DeleteTask(p) \/ DeleteTeam(p)
        \/ UnassignUpdate(p)
    BY <1>2, <2>1, <2>2, <2>3 DEF Step, ReadActor, LockActor, LockTarget, TransferTarget,
       UnassignHistory, DeleteTeamTasks, CreateAssignee, LockTask, UpdateRole, UpdateAssignee,
       UpdateTask, DeleteRole, Invalidate, ReturnError, Goto, dbVars, CreateTeam,
       InviteMember, ChangeMemberRole, TransferOwnership
  <2> QED
    BY <2>3, <2>4, CreateTrail, UpdateTrail, DeleteTrail, UnassignTrail
<1> QED
  BY <1>1, <1>2

\* For any number of requests, tasks and versions: history replays every
\* column, except that a removal may leave out that nobody is assigned.
THEOREM TrailKept == Spec => []AuditTrail
<1>1. Init => AuditTrail
  BY DEF Init, AuditTrail, Live, NoRow
<1>2. Inv /\ LockHolders /\ AuditTrail /\ [Next]_vars => AuditTrail'
  BY NextTrail
<1> QED
  BY <1>1, <1>2, Invariance, NoStrayLocks, PTL DEF Spec
=============================================================================
