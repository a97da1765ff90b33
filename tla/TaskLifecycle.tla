---------------------------- MODULE TaskLifecycle ----------------------------
(***************************************************************************)
(* What the life cycle of a task promises to everyone who reads its state: *)
(* it is created once, moves only along the table of legal transitions and *)
(* never leaves a terminal state. TaskEngine implements it.                *)
(***************************************************************************)
EXTENDS TaskTables

CONSTANT Task

VARIABLE state

LifecycleInit == state = [t \in Task |-> Absent]

Create(t) ==
    /\ state[t] = Absent
    /\ state' = [state EXCEPT ![t] = "created"]

Move(t) ==
    \E to \in Transitions(state[t]) : state' = [state EXCEPT ![t] = to]

LifecycleNext == \E t \in Task : Create(t) \/ Move(t)

Lifecycle == LifecycleInit /\ [][LifecycleNext]_state
===============================================================================
