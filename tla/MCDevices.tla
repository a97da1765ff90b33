---- MODULE MCDevices ----
EXTENDS Devices, TLC

CONSTANTS p1, p2, h1, h2, c1, c2, n1, n2, q1, q2, t1

\* From nothing: two codes and a page, two processes, no announcement.
Births == [codes |-> 3, starts |-> 2, says |-> 0, revokes |-> 0, faults |-> 1]

\* From one node enrolled with a tool, its identity in one folder: two starts and a fault, three
\* starts, or one process and two revocations.
Twins == [codes |-> 0, starts |-> 2, says |-> 4, revokes |-> 0, faults |-> 1]
Restarts == [codes |-> 0, starts |-> 3, says |-> 4, revokes |-> 0, faults |-> 0]
Revoked == [codes |-> 0, starts |-> 1, says |-> 2, revokes |-> 2, faults |-> 1]
BudgetOfBirths == {Births}
Enrolled == \E n0 \in Node, c0 \in Code, h0 \in Home :
    /\ codes = [c \in Code |-> [role |-> "worker", offered |-> c = c0, late |-> c = c0, by |-> IF c = c0 THEN n0 ELSE None]]
    /\ rows = [n \in Node |-> IF n = n0 THEN [NoRow EXCEPT !.halves = <<{t1}>>] ELSE NoRow]
    /\ audit = {Event("enrolled", n0, 1, {t1}, {})}
    /\ serving = [q \in Req |-> NoRequest]
    /\ procs = [p \in Proc |-> NoProcess]
    /\ files = [h \in Home |-> IF h = h0 THEN n0 ELSE None]
    /\ cut = {}
    /\ left \in {Twins, Restarts, Revoked}

BirthsOrTwins == (Init \/ Enrolled) /\ [][Next]_vars

\* Processes, slots, codes, ids and folders are each interchangeable.
Both(F, G) == {f @@ g : f \in F, g \in G}
Symmetric == Both(Both(Permutations(Proc), Permutations(Req)),
                  Both(Permutations(Node), Both(Permutations(Code), Permutations(Home))))
====
