-------------------------------- MODULE MCPages --------------------------------
(***************************************************************************)
(* Two tasks that want the profile at the same time; one beside the        *)
(* windows of the user; and one alone.                                     *)
(***************************************************************************)
EXTENDS Pages, TLC

CONSTANTS t1, t2, p1, p2, p3, g1, g2, a1, a2

Opens(b) == [on |-> b, continues |-> FALSE, asks |-> FALSE]
Goes(b, asks) == [on |-> b, continues |-> TRUE, asks |-> asks]
InOrder(steps) == [steps |-> steps, order |-> [i \in DOMAIN steps |-> i]]

Read == Opens("profile")
Gesture == InOrder(<<Read, Goes("profile", TRUE)>>)

\* A gesture on the page of a read; on a page of the other browser; two steps that continue, and
\* one that does not and asks, run in the order of their dependencies.
Various ==
    { Gesture,
      InOrder(<<Opens("empty"), Goes("profile", FALSE)>>),
      [steps |-> <<Opens("empty"), Goes("empty", FALSE), Goes("empty", FALSE)>>, order |-> <<1, 3, 2>>],
      [steps |-> <<Read, Goes("profile", FALSE), [Read EXCEPT !.asks = TRUE]>>, order |-> <<1, 3, 2>>] }

\* Beside any of them a task that reads on the profile, for the verifier alone.
TwoTasks == {[t \in Task |-> IF t = t1 THEN p ELSE InOrder(<<Read>>)] : p \in Various}

\* Which tasks live, which windows and closes are asked for, and whether ELA's user starts a
\* browser by hand on the folder.
Lives(T, W, A, started) ==
    /\ \A t \in Task : task[t] = "live" <=> t \in T
    /\ \A g \in Window : WinAt(g, "new") <=> g \in W
    /\ \A a \in Asker : AskerAt(a, "idle") <=> a \in A
    /\ other.pc = "none" <=> started

\* The two tasks by themselves; and one of them at most beside the windows, where the plan of the
\* task that ended makes no difference.
Scenes ==
    /\ Init
    /\ \/ Lives(Task, {}, {}, FALSE)
       \/ /\ plan[t1] = Gesture
          /\ \/ Lives({}, {g1, g2}, {a1}, FALSE)
             \/ Lives({}, {g1}, {a1, a2}, FALSE)
             \/ Lives({}, {g1}, {a1}, TRUE)
             \/ Lives({}, {}, {a1, a2}, TRUE)
             \/ Lives({t2}, {g1}, {a1}, FALSE)
             \/ Lives({t2}, {}, {a1}, TRUE)

PagesAndWindows == Scenes /\ [][Next]_vars /\ Fairness

Gestures == {[t \in Task |-> Gesture]}
===============================================================================
