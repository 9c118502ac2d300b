----------------------------- MODULE MCWorkspace ----------------------------
(* Small instances of Workspace for TLC. *)
EXTENDS Workspace, TLC

TeamOps == {"CreateTeam", "DeleteTeam", "InviteMember", "LeaveTeam",
            "TransferOwnership", "ChangeMemberRole", "RemoveMember"}

\* The operations of the two findings.
AssignOps == {"CreateTeam", "InviteMember", "RemoveMember",
              "CreateTask", "UpdateTask"}

\* The operations that wait for a lock while they hold another, or hold what
\* those wait for.
WaitOps == {"CreateTeam", "InviteMember", "DeleteTeam",
            "RemoveMember", "CreateTask", "DeleteTask"}

\* The operations that change tasks, and those that give a team its members.
\* RemoveMember unassigns by the same statements as LeaveTeam.
WriteOps == {"CreateTeam", "DeleteTeam", "InviteMember", "LeaveTeam",
             "CreateTask", "UpdateTask", "DeleteTask"}

\* Reassigning with reopening and the old content (any of them may be no change),
\* and closing with a new content.  (Unassigning is left to departures.)
SmallEdits ==
    {[assignee_id |-> u, status |-> "todo", content |-> InitialContent] : u \in Users} \cup
    {[NoEdit EXCEPT !.content = c, !.status = "done"] :
        c \in Contents \ {InitialContent}}

CloseEdit == {[NoEdit EXCEPT !.status = "done"]}

\* Users and processes are interchangeable.  Not used with liveness.
Symmetry == Permutations(Users) \cup Permutations(Procs)
=============================================================================
