------------------------------ MODULE MCExecution ------------------------------
(***************************************************************************)
(* Small instances of Execution: one task for the life of a step, two that *)
(* spend for the cap of the month.                                         *)
(***************************************************************************)
EXTENDS Execution, TLC

CONSTANTS t1, t2, t3, p1, p2

NoSpending == [t \in Task |-> 0]
Spending == [t \in Task |-> IF t = t1 THEN 0 ELSE 1]

InTheQueue == {t \in Task : task[t] = "queued"}
OneOrTwo == Init /\ InTheQueue \in {{t1}, {t2, t3}}
OneAsksOrTwoSpend == OneOrTwo /\ [][Next]_vars

SymmetricPages == Permutations(Page)
SymmetricPagesAndSpenders == Permutations(Page) \cup Permutations({t2, t3})
================================================================================
