----------------------------- MODULE MCAssignments -----------------------------
(***************************************************************************)
(* One task of two. The tool of t1 cannot be repeated on another machine,  *)
(* and the Core may crash; the tool of t2 can, two nodes are the same to   *)
(* the Core and it does not crash. The other task was stopped before.      *)
(***************************************************************************)
EXTENDS Assignments, TLC

CONSTANTS t1, t2

Only(one) == [t \in Task |-> IF t = one THEN "queued" ELSE "ended"]

\* The clock tells the instances apart: t2 is heard only in its own. Nothing more is asked of the
\* other task, no node is revoked twice, and the Core crashes with t1 alone.
Other == IF seen[t2] = 0 THEN t2 ELSE t1
LeftAlone ==
    \A c \in {RunOf(Other), StopOf(Other)} \cup {RevokeOf(d) : d \in revoked} :
        call[c] = Idle => call'[c] = Idle
CrashesWithT1 == Other = t1 => UNCHANGED crashes

OnceOrAgain ==
    /\ \/ \E d \in Node : Serving(0, Only(t1), {d})
       \/ Serving(1, Only(t2), {})
    /\ [][Next /\ LeftAlone /\ CrashesWithT1]_vars

SymmetricNodes == Permutations(Node)
================================================================================
