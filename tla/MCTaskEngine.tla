----------------------------- MODULE MCTaskEngine -----------------------------
(***************************************************************************)
(* Small instances of TaskEngine. RunningInit is the state an executing    *)
(* task reaches from Init when nothing fails: planned, queued and started  *)
(* at instant 0; the runs about steps start there.                         *)
(***************************************************************************)
EXTENDS TaskEngine, TLC

CONSTANTS t1, t2

\* 2 waits for 1 and 3 for 2; 4 waits for nobody.
BranchDeps == [s \in Step |-> IF s \in {2, 3} THEN {s - 1} ELSE {}]

\* Each step waits for the one before it.
ChainDeps == [s \in Step |-> {s - 1} \cap Step]

NoDeps == [s \in Step |-> {}]

Orphans == [t \in Task |-> None]

PlanningChild == [t \in Task |-> IF t = t2 THEN t1 ELSE None]

NoDeadline == [t \in Task |-> MaxTime + 1]

DeadlineAt1 == [t \in Task |-> 1]

LongTrails == [t \in Task |-> 8]

\* The parent is followed to its end, its planning child until it is created and stopped.
ParentsTrail == [t \in Task |-> IF t = t2 THEN 1 ELSE 7]

RunningInit ==
    /\ \E k \in Key :
        /\ row = [t \in Task |-> [state |-> "executing", plan |-> k, created |-> 0]]
        /\ planned = [t \in Task |-> k]
        /\ trail = [t \in Task |->
              LET moved(op) == [op |-> op, step |-> None, key |-> None, at |-> 0]
              IN <<moved("start_planning"), [moved("plan") EXCEPT !.key = k],
                   moved("queue"), moved("start")>>]
    /\ steps = [t \in Task |-> [s \in Step |-> "pending"]]
    /\ audit = [t \in Task |-> <<0, 1, 2, 3, 4>>]
    /\ asked = [t \in Task |-> None]
    /\ lock = [t \in Task |-> None]
    /\ call = [c \in Caller |-> Idle]
    /\ stop = {}
    /\ clock = 0
    /\ faults = 0

RunningSpec == RunningInit /\ [][Next]_vars

Symmetric == Permutations(Caller) \cup Permutations(Key)
===============================================================================
