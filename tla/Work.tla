-------------------------------- MODULE Work --------------------------------
(***************************************************************************)
(* What a part of the system that works on tasks may rely on: the team     *)
(* changes as module Team promises, a task is created in a team that       *)
(* exists, goes at the latest with its team, and never comes back.         *)
(* Comments is built on these steps, and Workspace is shown to take no     *)
(* others.                                                                 *)
(***************************************************************************)
EXTENDS Team

CONSTANT Tasks      \* the task ids that may ever be generated

VARIABLE task       \* task[t]: "absent", "live" or "deleted"

workVars == <<team, role, task>>

Live(t) == task[t] = "live"

WorkInit == Init /\ task = [t \in Tasks |-> "absent"]

\* A deleted team takes its tasks with it.
ChangeTeam ==
    /\ Next
    /\ task' = [t \in Tasks |-> IF team' = "deleted" /\ Live(t) THEN "deleted" ELSE task[t]]

CreateTask(t) ==
    /\ team = "live" /\ task[t] = "absent"
    /\ task' = [task EXCEPT ![t] = "live"]
    /\ UNCHANGED <<team, role>>

DeleteTask(t) ==
    /\ Live(t)
    /\ task' = [task EXCEPT ![t] = "deleted"]
    /\ UNCHANGED <<team, role>>

WorkNext == ChangeTeam \/ \E t \in Tasks : CreateTask(t) \/ DeleteTask(t)

WorkSpec == WorkInit /\ [][WorkNext]_workVars
=============================================================================
