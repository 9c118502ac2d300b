------------------------------ MODULE Migration -----------------------------
(***************************************************************************)
(* What the migrator promises of a schema, whoever migrates it: files are  *)
(* applied and reverted one at a time and next to the version, each is     *)
(* bracketed by the dirty flag, and a file that was given up leaves a      *)
(* dirty schema which nobody touches again.                                *)
(***************************************************************************)
EXTENDS Integers

CONSTANT Numbers    \* the migrations of all images

VARIABLES
    version,    \* the version that is recorded
    dirty,      \* whether its file is marked as begun
    schema,     \* schema[m]: how much of migration m is in the schema
    file        \* the file that somebody is at, 0 for none

stateVars == <<version, dirty, schema, file>>

Init ==
    /\ version = 0 /\ dirty = FALSE /\ file = 0
    /\ schema = [m \in Numbers |-> "none"]

\* The next file is begun, or the last one is begun to be reverted.
Begin(m) ==
    /\ file = 0 /\ ~dirty
    /\ \/ m = version + 1 /\ version' = m
       \/ m = version /\ version' = m - 1
    /\ dirty' = TRUE /\ file' = m
    /\ UNCHANGED schema

\* What the file is to become: the recorded version includes it, or not.
Goal == IF file = version THEN "full" ELSE "none"

\* Some of its statements are executed, or all of them.
Execute ==
    /\ file # 0
    /\ \E s \in {"part", Goal} : schema' = [schema EXCEPT ![file] = s]
    /\ UNCHANGED <<version, dirty, file>>

\* The mark is removed when all of them are.
Finish ==
    /\ file # 0 /\ schema[file] = Goal
    /\ dirty' = FALSE /\ file' = 0
    /\ UNCHANGED <<version, schema>>

\* A statement fails, or the process dies: the mark stays.
GiveUp ==
    /\ file # 0
    /\ file' = 0
    /\ UNCHANGED <<version, dirty, schema>>

Next == (\E m \in Numbers : Begin(m)) \/ Execute \/ Finish \/ GiveUp

Spec == Init /\ [][Next]_stateVars
=============================================================================
