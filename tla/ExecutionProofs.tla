---------------------------- MODULE ExecutionProofs ----------------------------
(***************************************************************************)
(* What holds of a step on the machine of the Core for every set of tasks, *)
(* surfaces and caps, and every number of questions, crashes and restarts. *)
(*                                                                         *)
(* The inductive invariant follows the holder of the lock of a task: where *)
(* it is says which writes are done and which are still to come.           *)
(***************************************************************************)
EXTENDS Execution, SetLemmas

-------------------------------------------------------------------------------
(* The inductive invariant *)

\* What a log tells, the rows of a status, and the grants that were spent.
Told(log, event, about) == \E i \in DOMAIN log : log[i] = [event |-> event, about |-> about]
WithStatus(rows, status) == {i \in DOMAIN rows : rows[i].status = status}
SpentIn(given) == {i \in 1 .. MaxAsks : given[i] = "used"}

\* Where the holder of the lock of a task is.
Pc(t) == IF lock[t] = None THEN "idle" ELSE call[lock[t]].pc

\* A call works under the lock of its task exactly while it is the holder.
Locks ==
    /\ \A t \in Task : lock[t] # None => lock[t].of = t /\ call[lock[t]].pc \in Holding
    /\ \A c \in Calls : /\ call[c].pc \in Loose \cup Holding
                        /\ call[c].pc \in Holding => lock[c.of] = c

\* What an answer carries fits what it is about to do.
Carries ==
    \A c \in Calls : call[c].pc = "respond" => /\ call[c].id \in DOMAIN approvals[c.of]
                                             /\ call[c].said \in {"granted", "rejected"}

\* The step follows the holder, and a step that is closed stays closed.
StepFollows(t) ==
    /\ Pc(t) \in {"start", "open"} => step[t] \in {"pending", "running"}
    /\ Pc(t) \in Executing => step[t] = "running"
    /\ Pc(t) \in {"fail", "tell"} => step[t] = "failed"
    /\ Pc(t) = "complete" => step[t] = "completed"
    /\ Pc(t) \in {"close", "denied"} \/ step[t] = "cancelled" => task[t] \in Ended
    /\ t \in cut => task[t] \in Ended /\ step[t] # "pending"

\* The two records of a call: STARTED before it, the outcome after it.
Recording(t) ==
    /\ Len(outcomes[t]) <= 1
    /\ t \in started => t \notin Idempotent
    /\ Pc(t) \in Before => t \notin started
    /\ Pc(t) \in Before \cup Calling \cup {"refused", "interrupted", "lost"} => outcomes[t] = <<>>
    /\ Pc(t) \in After => outcomes[t] # <<>>
    /\ Pc(t) \in {"interrupted", "lost"} => t \in started
    /\ Pc(t) \in Calling => t \in started \/ t \in Idempotent
    /\ Pc(t) = "store" => Mine(t).made \in Outcome /\ Mine(t).made.cost <= Worst[t]
    /\ outcomes[t] # <<>> => outcomes[t][1].cost <= Worst[t]

\* An outcome says that the tool passed its point only where it did.
Truthful(made, times, repeatable) ==
    /\ made.status = "succeeded" => made.passed
    /\ made.passed => times > 0
    /\ times > 0 /\ ~repeatable => made.passed

\* A tool that cannot be repeated acts after its STARTED record, and an outcome is of what it did.
Acting(t) ==
    /\ t \notin Idempotent =>
        /\ acted[t] <= 1
        /\ acted[t] > 0 => t \in started
        /\ Pc(t) \in {"call", "point", "refused"} => acted[t] = 0
    /\ Pc(t) = "store" => Truthful(Mine(t).made, acted[t], t \in Idempotent)
    /\ outcomes[t] # <<>> => Truthful(outcomes[t][1], acted[t], t \in Idempotent)
    /\ step[t] = "cancelled" => /\ outcomes[t] = <<>> \/ ~outcomes[t][1].passed
                                /\ acted[t] = 0 \/ t \in Idempotent

\* What the audit of a task tells is in the stores, and what it does not tell yet is still to come.
Telling(t) ==
    LET executed == Told(audit[t], "executed", "outcome")
        verified == Told(audit[t], "verified", "passed") \/ Told(audit[t], "verified", "failed")
    IN  /\ executed => outcomes[t] # <<>>
        /\ Told(audit[t], "executed", "started") => t \in started /\ outcomes[t] = <<>> /\ Pc(t) \notin Calling
        /\ Pc(t) = "executed" => ~executed
        /\ Pc(t) \in {"settle", "close_step"} => executed
        /\ verified => executed /\ outcomes[t][1].status = "succeeded"
        /\ Pc(t) = "close_step" => verified
        /\ step[t] = "completed" => Told(audit[t], "verified", "passed")

\* A reason a step failed with, told in the audit or about to be.
Reason(t, r) ==
    /\ r \in Reasons
    /\ step[t] = "failed"
    /\ r = "interrupted" => t \in started /\ outcomes[t] = <<>>
    /\ t \in cut => r # "refused" /\ (r \in {"tool", "verification"} => acted[t] > 0)

Failing(t) ==
    /\ \A r \in Reasons : Told(audit[t], "step_failed", r) => Reason(t, r) /\ Pc(t) # "tell"
    /\ Pc(t) = "tell" => Reason(t, Mine(t).said)

\* One execution, one verdict after it, one failure, one birth of each grant.
Follows(first, later) ==
    /\ first.event = later.event => first.event = "granted" /\ first.about # later.about
    /\ ~(first.event = "verified" /\ later.event = "executed")
ToldOnce(log) == \A i, j \in DOMAIN log : i < j => Follows(log[i], log[j])

\* A call on its way from a stop to the close is about a task that has ended.
Closers == \A c \in Calls : call[c].pc \in {"signal", "free"} => task[c.of] \in Ended

\* An ended task whose step runs has somebody who closes it, unless its questions expire.
Closing(t) ==
    up # "down" /\ task[t] \in Ended /\ step[t] = "running" /\ t \notin Expiring
        => lock[t] # None \/ \E c \in Calls : c.of = t /\ call[c].pc \in {"signal", "free"}

\* Grants belong to questions answered yes, and a question is only asked where the yes to an earlier
\* one is spent or too old to be looked at again.
Asked(t) ==
    /\ \A i \in DOMAIN approvals[t] : approvals[t][i].late => t \in Expiring
    /\ \A i \in 1 .. MaxAsks : grants[t][i] # "none" => i \in WithStatus(approvals[t], "granted")
    /\ \A j \in DOMAIN approvals[t] : \A i \in 1 .. j - 1 :
            /\ approvals[t][i].status # "pending"
            /\ approvals[t][i].status = "granted" => grants[t][i] \in {"old", "used"}

\* Between the permission and the act nobody answers, the yes at hand is the last one given, and the
\* one a tool acts on was given to the last question.
Permitted(t) ==
    LET i == Mine(t).id
        yes == WithStatus(approvals[t], "granted")
    IN  Pc(t) \in Permitting \cup {"call", "point"} =>
        /\ WithStatus(approvals[t], "pending") = {}
        /\ i = None => yes = {} /\ Pc(t) \notin {"grant", "record"}
        /\ i # None => i \in yes /\ \A j \in yes : j <= i
        /\ i # None /\ Pc(t) # "grant" => grants[t][i] # "none"
        /\ i # None /\ Pc(t) = "ask" => grants[t][i] \in {"old", "used"}
        /\ i # None /\ t \in Asking /\ Pc(t) \in {"spend", "begin", "call", "point"} => i = Len(approvals[t])

\* A yes that was spent is behind every act, or is in the hands of the call about to act.
AboutToAct(t) == IF Pc(t) \in {"begin", "call", "point"} THEN 1 ELSE 0
Spent(t) == t \in Asking => acted[t] + AboutToAct(t) <= Cardinality(SpentIn(grants[t])) + covered[t]

StepInv(t) ==
    StepFollows(t) /\ Recording(t) /\ Acting(t) /\ Telling(t) /\ Failing(t) /\ ToldOnce(audit[t])
ConsentInv(t) == Asked(t) /\ Permitted(t) /\ Spent(t)

Typed == TypeOK /\ Locks /\ Carries
IInv == Typed /\ Closers /\ \A t \in Task : StepInv(t) /\ Closing(t) /\ ConsentInv(t)

-------------------------------------------------------------------------------
(* What a step of the holder does to the locks and the calls *)

\* The other tasks: their lock, and their holder with all it carries.
OthersHold(t) ==
    \A u \in Task \ {t} : /\ lock'[u] = lock[u] /\ Pc(u)' = Pc(u)
                          /\ lock[u] # None => Mine(u)' = Mine(u)

\* The calls that hold no lock.
LooseStay ==
    \A c \in Calls : /\ call[c].pc \in Loose => call'[c] = call[c]
                     /\ call'[c].pc \in Loose \ {"idle"} => call'[c] = call[c]

Apart(t) == OthersHold(t) /\ LooseStay

\* What the types say of the calls and the locks.
LEMMA TypedFacts ==
    ASSUME Typed
    PROVE  /\ call \in [Calls -> CallState] /\ lock \in [Task -> Calls \cup {None}] /\ None \notin Calls
           /\ \A c \in Calls : c.of \in Task
           /\ \A t \in Task : lock[t] # None => lock[t] \in Calls /\ Mine(t) \in CallState /\ Pc(t) = Mine(t).pc
           /\ \A t \in Task : Pc(t) # "idle" <=> lock[t] # None
           /\ \A t, u \in Task : lock[t] # None /\ t # u => lock[t] # lock[u]
<1>1. call \in [Calls -> CallState] /\ lock \in [Task -> Calls \cup {None}] /\ None \notin Calls
  BY NoneAssumption DEF Typed, TypeOK
<1>2. \A c \in Calls : c.of \in Task
  BY DEF Calls
<1>3. \A t \in Task : lock[t] # None => lock[t] \in Calls /\ Mine(t) \in CallState /\ Pc(t) = Mine(t).pc
  BY <1>1 DEF Mine, Pc
<1>4. \A t \in Task : Pc(t) # "idle" <=> lock[t] # None
  <2>1. "idle" \notin Holding
    BY DEF Holding, Walking, Executing, Before, Permitting, Calling, After
  <2>2. QED
    BY <2>1 DEF Pc, Typed, Locks
<1>5. \A t, u \in Task : lock[t] # None /\ t # u => lock[t] # lock[u]
  BY DEF Typed, Locks
<1>6. QED
  BY <1>1, <1>2, <1>3, <1>4, <1>5

\* The holder goes on.
LEMMA HolderGoes ==
    ASSUME Typed, NEW t \in Task, lock[t] # None, NEW new \in CallState, new.pc \in Holding,
           call' = [call EXCEPT ![lock[t]] = new], lock' = lock
    PROVE  /\ call' \in [Calls -> CallState] /\ lock' \in [Task -> Calls \cup {None}] /\ Locks'
           /\ Pc(t)' = new.pc /\ Mine(t)' = new /\ lock'[t] # None
           /\ \A c \in Calls : call'[c].pc \in Loose => call'[c] = call[c]
           /\ \A c \in Calls : call[c].pc \in Loose => call'[c] = call[c]
           /\ Apart(t)
<1>1. Loose \cap Holding = {}
  BY DEF Loose, Holding, Walking, Executing, Before, Permitting, Calling, After
<1>2. call' \in [Calls -> CallState] /\ lock' \in [Task -> Calls \cup {None}]
  BY TypedFacts
<1>3. \A c \in Calls : call'[c] = IF c = lock[t] THEN new ELSE call[c]
  BY TypedFacts
<1>4. Pc(t)' = new.pc /\ Mine(t)' = new
  BY <1>3, TypedFacts DEF Pc, Mine
<1>5. \A u \in Task \ {t} : lock[u] # None => call'[lock[u]] = call[lock[u]]
  BY <1>3, TypedFacts
<1>6. OthersHold(t)
  BY <1>5, TypedFacts DEF OthersHold, Pc, Mine
<1>7. lock[t].of = t /\ call[lock[t]].pc \in Holding
  BY DEF Typed, Locks
<1>8. Locks'
  BY <1>1, <1>3, <1>5, <1>7, TypedFacts DEF Locks, Typed
<1>9. \A c \in Calls : call'[c].pc \in Loose => call'[c] = call[c]
  BY <1>1, <1>3
<1>10. \A c \in Calls : call[c].pc \in Loose => call'[c] = call[c]
  BY <1>1, <1>3, <1>7
<1>11. QED
  BY <1>2, <1>4, <1>6, <1>8, <1>9, <1>10 DEF Apart, LooseStay

\* The holder returns, and the lock is free.
LEMMA HolderReturns ==
    ASSUME Typed, NEW t \in Task, lock[t] # None, Release(t)
    PROVE  /\ call' \in [Calls -> CallState] /\ lock' \in [Task -> Calls \cup {None}] /\ Locks'
           /\ Pc(t)' = "idle" /\ lock'[t] = None
           /\ \A c \in Calls : call[c].pc \in Loose => call'[c] = call[c]
           /\ \A c \in Calls : call'[c].pc = "respond" => call'[c] = call[c]
           /\ Apart(t)
<1>1. Loose \cap Holding = {} /\ Idle \in CallState /\ Idle.pc = "idle" /\ "idle" \in Loose
  <2>1. Loose \cap Holding = {} /\ "idle" \in Loose
    BY DEF Loose, Holding, Walking, Executing, Before, Permitting, Calling, After
  <2>2. Idle \in CallState /\ Idle.pc = "idle"
    BY <2>1 DEF Idle, CallState
  <2>3. QED
    BY <2>1, <2>2
<1>2. call' \in [Calls -> CallState] /\ lock' \in [Task -> Calls \cup {None}]
  BY <1>1, TypedFacts DEF Release, Return
<1>3. \A c \in Calls : call'[c] = IF c = lock[t] THEN Idle ELSE call[c]
  BY TypedFacts DEF Release, Return
<1>4. lock'[t] = None /\ \A u \in Task \ {t} : lock'[u] = lock[u]
  BY TypedFacts DEF Release
<1>5. \A u \in Task \ {t} : lock[u] # None => call'[lock[u]] = call[lock[u]]
  BY <1>3, TypedFacts
<1>6. OthersHold(t)
  BY <1>4, <1>5, TypedFacts DEF OthersHold, Pc, Mine
<1>7. lock[t].of = t /\ call[lock[t]].pc \in Holding
  BY DEF Typed, Locks
<1>8. Locks'
  <2>1. ASSUME NEW u \in Task, lock'[u] # None
        PROVE  lock'[u].of = u /\ call'[lock'[u]].pc \in Holding
    BY <2>1, <1>4, <1>5 DEF Typed, Locks
  <2>2. ASSUME NEW c \in Calls
        PROVE  /\ call'[c].pc \in Loose \cup Holding
               /\ call'[c].pc \in Holding => lock'[c.of] = c
    BY <1>1, <1>3, <1>4, <1>7, TypedFacts DEF Typed, Locks
  <2>3. QED
    BY <2>1, <2>2 DEF Locks
<1>9. \A c \in Calls : call[c].pc \in Loose => call'[c] = call[c]
  BY <1>1, <1>3, <1>7
<1>10. \A c \in Calls : call'[c].pc \in Loose \ {"idle"} => call'[c] = call[c]
  BY <1>1, <1>3
<1>11. "respond" \in Loose \ {"idle"}
  BY DEF Loose
<1>12. QED
  BY <1>2, <1>4, <1>6, <1>8, <1>9, <1>10, <1>11 DEF Pc, Apart, LooseStay

\* The holder of a task turns into new, and holds the lock as it did.
Turns(t, new) == call' = [call EXCEPT ![lock[t]] = new] /\ lock' = lock

\* A holder that goes on only changes where it is.
LEMMA GoTurns ==
    ASSUME Typed, NEW t \in Task, lock[t] # None, NEW pc \in Holding, Go(t, pc)
    PROVE  LET new == [Mine(t) EXCEPT !.pc = pc] IN
           /\ Turns(t, new) /\ new \in CallState
           /\ new.pc = pc /\ new.id = Mine(t).id /\ new.said = Mine(t).said /\ new.made = Mine(t).made
BY TypedFacts DEF Go, Turns, Mine, CallState

\* The same, with the question it is about.
LEMMA GoWithTurns ==
    ASSUME Typed, NEW t \in Task, lock[t] # None, NEW pc \in Holding, NEW i \in 1 .. MaxAsks \cup {None},
           GoWith(t, pc, i)
    PROVE  \E new \in CallState : /\ Turns(t, new)
                                   /\ new.pc = pc /\ new.id = i /\ new.said = Mine(t).said /\ new.made = Mine(t).made
<1> DEFINE new == [Mine(t) EXCEPT !.pc = pc, !.id = i]
<1>1. Turns(t, new) /\ new \in CallState
      /\ new.pc = pc /\ new.id = i /\ new.said = Mine(t).said /\ new.made = Mine(t).made
  BY TypedFacts DEF GoWith, Turns, Mine, CallState
<1> HIDE DEF new
<1>2. QED
  BY <1>1

\* The same, with the outcome the tool made.
LEMMA ToolTurns ==
    ASSUME Typed, NEW t \in Task, lock[t] # None, NEW made \in Outcome, ToolReturns(t, made)
    PROVE  LET new == [Mine(t) EXCEPT !.pc = "store", !.made = made] IN
           /\ Turns(t, new) /\ new \in CallState
           /\ new.pc = "store" /\ new.id = Mine(t).id /\ new.said = Mine(t).said /\ new.made = made
BY TypedFacts DEF ToolReturns, Turns, Mine, CallState, Holding, Executing, Calling

\* What a step on one task leaves as it was of every other.
OthersKept(t) ==
    \A u \in Task \ {t} :
        /\ task'[u] = task[u] /\ step'[u] = step[u] /\ (u \in cut' <=> u \in cut)
        /\ approvals'[u] = approvals[u] /\ grants'[u] = grants[u] /\ covered'[u] = covered[u]
        /\ (u \in started' <=> u \in started) /\ outcomes'[u] = outcomes[u]
        /\ audit'[u] = audit[u] /\ acted'[u] = acted[u]

KeepsOthers(t) == Apart(t) /\ OthersKept(t)

Good(t) == StepInv(t) /\ ConsentInv(t)

\* What holds of a task nobody touched still holds.
LEMMA OthersStayGood ==
    ASSUME Typed, NEW t \in Task, OthersHold(t), OthersKept(t), NEW u \in Task \ {t}, Good(u)
    PROVE  Good(u)'
<1>1. /\ task'[u] = task[u] /\ step'[u] = step[u] /\ (u \in cut' <=> u \in cut)
      /\ approvals'[u] = approvals[u] /\ grants'[u] = grants[u] /\ covered'[u] = covered[u]
      /\ (u \in started' <=> u \in started) /\ outcomes'[u] = outcomes[u]
      /\ audit'[u] = audit[u] /\ acted'[u] = acted[u]
      /\ Pc(u)' = Pc(u)
      /\ Pc(u) # "idle" => Mine(u)' = Mine(u)
  BY TypedFacts DEF OthersHold, OthersKept
<1>2. "idle" \notin Holding /\ "idle" \notin Executing
  BY DEF Holding, Walking, Executing, Before, Permitting, Calling, After
<1>3. StepFollows(u)'
  BY <1>1 DEF Good, StepInv, StepFollows
<1>4. Recording(u)'
  BY <1>1 DEF Good, StepInv, Recording
<1>5. Acting(u)'
  BY <1>1 DEF Good, StepInv, Acting
<1>6. Telling(u)' /\ ToldOnce(audit[u])'
  BY <1>1 DEF Good, StepInv, Telling
<1>7. Failing(u)'
  BY <1>1 DEF Good, StepInv, Failing, Reason
<1>8. Asked(u)' /\ Spent(u)'
  BY <1>1 DEF Good, ConsentInv, Asked, Spent, AboutToAct
<1>9. Permitted(u)'
  BY <1>1, <1>2 DEF Good, ConsentInv, Permitted, Permitting
<1>10. QED
  BY <1>3, <1>4, <1>5, <1>6, <1>7, <1>8, <1>9 DEF Good, StepInv, ConsentInv

-------------------------------------------------------------------------------
(* The walk *)

\* A holder that is doing something is there.
LEMMA DoingIs ==
    ASSUME Typed, NEW t \in Task, NEW pc, Doing(t, pc)
    PROVE  lock[t] # None /\ Pc(t) = pc
BY DEF Doing, Pc

\* The parts a holder can be in.
LEMMA HoldingNames ==
    /\ Walking \subseteq Holding /\ Executing \subseteq Holding /\ "tell" \in Holding
    /\ Before \subseteq Executing /\ Calling \subseteq Executing /\ After \subseteq Executing
    /\ Permitting \subseteq Before /\ "respond" \in Loose
BY DEF Holding, Walking, Executing, Before, Permitting, Calling, After, Loose

\* The grants that were spent are finitely many.
LEMMA SpentIsFinite ==
    ASSUME NEW given
    PROVE  IsFiniteSet(SpentIn(given)) /\ Cardinality(SpentIn(given)) \in Nat
<1>1. IsFiniteSet(1 .. MaxAsks)
  BY FS_Interval, ExecutionAssumption
<1>2. SpentIn(given) \in SUBSET (1 .. MaxAsks)
  BY DEF SpentIn
<1>3. QED
  BY <1>1, <1>2, FS_Subset, FS_CardinalityType

\* Whoever stops being about to act leaves the count of the yes as it was.
LEMMA SpentKept ==
    ASSUME Typed, NEW t \in Task, Spent(t),
           acted'[t] = acted[t], grants'[t] = grants[t], covered'[t] = covered[t],
           AboutToAct(t)' = 0 \/ AboutToAct(t)' = AboutToAct(t)
    PROVE  Spent(t)'
<1>1. acted[t] \in Nat /\ covered[t] \in Nat /\ AboutToAct(t) \in {0, 1}
  BY DEF Typed, TypeOK, AboutToAct
<1>2. Cardinality(SpentIn(grants[t])) \in Nat
  BY SpentIsFinite
<1>3. QED
  BY <1>1, <1>2 DEF Spent

\* What a turn of the holder keeps, whatever it writes.
LEMMA TurnKeeps ==
    ASSUME Typed, NEW t \in Task, lock[t] # None, NEW new \in CallState, new.pc \in Holding, Turns(t, new),
           \A u \in Task : DOMAIN approvals[u] \subseteq DOMAIN approvals'[u]
    PROVE  /\ call' \in [Calls -> CallState] /\ lock' \in [Task -> Calls \cup {None}] /\ Locks' /\ Carries'
           /\ Pc(t)' = new.pc /\ Mine(t)' = new /\ Apart(t)
<1>1. /\ call' \in [Calls -> CallState] /\ lock' \in [Task -> Calls \cup {None}] /\ Locks'
      /\ Pc(t)' = new.pc /\ Mine(t)' = new
      /\ \A c \in Calls : call'[c].pc \in Loose => call'[c] = call[c]
      /\ Apart(t)
  BY HolderGoes DEF Turns
<1>2. Carries'
  BY <1>1, HoldingNames, TypedFacts DEF Typed, Carries
<1>3. QED
  BY <1>1, <1>2

\* A turn of the holder that writes no store: the types, the other tasks, and all that is said of
\* this one without naming its holder.
LEMMA TurnWritesNothing ==
    ASSUME Typed, NEW t \in Task, Good(t), lock[t] # None,
           NEW new \in CallState, new.pc \in Holding, Turns(t, new),
           UNCHANGED <<up, crashes, stop, tasks, consent, results>>
    PROVE  /\ Typed' /\ KeepsOthers(t) /\ Pc(t)' = new.pc /\ Mine(t)' = new
           /\ Asked(t)' /\ ToldOnce(audit[t])'
<1>1. /\ call' \in [Calls -> CallState] /\ lock' \in [Task -> Calls \cup {None}] /\ Locks' /\ Carries'
      /\ Pc(t)' = new.pc /\ Mine(t)' = new /\ Apart(t)
  BY TurnKeeps DEF consent
<1>2. TypeOK'
  BY <1>1 DEF Typed, TypeOK, tasks, consent, results
<1>3. KeepsOthers(t)
  BY <1>1 DEF KeepsOthers, OthersKept, tasks, consent, results
<1>4. Asked(t)' /\ ToldOnce(audit[t])'
  BY DEF Good, ConsentInv, StepInv, Asked, consent, results
<1>5. QED
  BY <1>1, <1>2, <1>3, <1>4 DEF Typed

\* A turn back into the walk, from anywhere.
LEMMA TurnToTheWalk ==
    ASSUME Typed, NEW t \in Task, Good(t), lock[t] # None,
           NEW pc \in {"walk", "leave", "close"}, Go(t, pc), pc = "close" => task[t] \in Ended,
           UNCHANGED <<up, crashes, stop, tasks, consent, results>>
    PROVE  Typed' /\ KeepsOthers(t) /\ Good(t)'
<1>1. pc \in Holding
  BY HoldingNames DEF Walking
<1> DEFINE new == [Mine(t) EXCEPT !.pc = pc]
<1>2. Turns(t, new) /\ new \in CallState /\ new.pc = pc
  BY <1>1, GoTurns
<1> HIDE DEF new
<1>3. Typed' /\ KeepsOthers(t) /\ Pc(t)' = pc /\ Asked(t)' /\ ToldOnce(audit[t])'
  BY <1>1, <1>2, TurnWritesNothing
<1>4. StepInv(t)'
  BY <1>3 DEF Good, StepInv, StepFollows, Recording, Acting, Telling, Failing, Reason, tasks, results,
              Executing, Before, Permitting, Calling, After
<1>5. ConsentInv(t)'
  <2>1. Spent(t)'
    BY <1>3, SpentKept DEF Good, ConsentInv, AboutToAct, consent, results
  <2>2. QED
    BY <1>3, <2>1 DEF Good, ConsentInv, Permitted, Permitting, consent
<1>6. QED
  BY <1>3, <1>4, <1>5 DEF Good

\* The lock is let go, from anywhere.
LEMMA ReleaseGood ==
    ASSUME Typed, NEW t \in Task, Good(t), lock[t] # None, Release(t),
           UNCHANGED <<up, crashes, stop, tasks, consent, results>>
    PROVE  Typed' /\ KeepsOthers(t) /\ Good(t)'
<1>1. /\ call' \in [Calls -> CallState] /\ lock' \in [Task -> Calls \cup {None}] /\ Locks'
      /\ Pc(t)' = "idle" /\ \A c \in Calls : call'[c].pc = "respond" => call'[c] = call[c]
      /\ Apart(t)
  BY HolderReturns
<1>2. TypeOK' /\ Carries'
  BY <1>1, TypedFacts DEF Typed, TypeOK, Carries, tasks, consent, results
<1>3. KeepsOthers(t)
  BY <1>1 DEF KeepsOthers, OthersKept, tasks, consent, results
<1>4. StepInv(t)'
  BY <1>1 DEF Good, StepInv, StepFollows, Recording, Acting, Telling, Failing, Reason, tasks, results,
              Executing, Before, Permitting, Calling, After
<1>5. ConsentInv(t)'
  <2>1. Spent(t)'
    BY <1>1, SpentKept DEF Good, ConsentInv, AboutToAct, consent, results
  <2>2. QED
    BY <1>1, <2>1 DEF Good, ConsentInv, Asked, Permitted, Permitting, consent
<1>6. QED
  BY <1>1, <1>2, <1>3, <1>4, <1>5 DEF Good, Typed

\* Each step of the holder of the lock keeps what is known of its task, and touches no other.
LEMMA RunWalksGood ==
    ASSUME Typed, NEW t \in Task, Good(t), RunWalks(t)
    PROVE  Typed' /\ KeepsOthers(t) /\ Good(t)'
<1>1. lock[t] # None /\ Pc(t) = "walk" /\ UNCHANGED <<up, crashes, stop, tasks, consent, results>>
  BY DoingIs DEF RunWalks
<1>2. PICK pc \in {"close", "leave", "fail", "complete", "start"} :
        /\ Go(t, pc)
        /\ pc = "close" => task[t] \in Ended
        /\ pc = "fail" => step[t] = "failed"
        /\ pc = "complete" => step[t] = "completed"
        /\ pc = "start" => task[t] \notin Ended /\ step[t] \notin {"failed", "completed"}
  BY DEF RunWalks, HasEnded
<1>3. pc \in Holding
  BY HoldingNames DEF Walking
<1> DEFINE new == [Mine(t) EXCEPT !.pc = pc]
<1>4. Turns(t, new) /\ new \in CallState /\ new.pc = pc
  BY <1>1, <1>2, <1>3, GoTurns
<1> HIDE DEF new
<1>5. Typed' /\ KeepsOthers(t) /\ Pc(t)' = pc /\ Mine(t)' = new /\ Asked(t)' /\ ToldOnce(audit[t])'
  BY <1>1, <1>3, <1>4, TurnWritesNothing
<1>6. StepInv(t)'
  BY <1>1, <1>2, <1>5 DEF Good, StepInv, StepFollows, Recording, Acting, Telling, Failing, Reason, tasks, results, Executing, Before, Permitting, Calling, After, TypeOK, Typed, StepStates
<1>7. ConsentInv(t)'
  BY <1>1, <1>2, <1>5 DEF Good, ConsentInv, Permitted, Spent, AboutToAct, Permitting, consent, results
<1>8. QED
  BY <1>5, <1>6, <1>7 DEF Good

\* The last look of a run under the lock.
LEMMA RunLeavesGood ==
    ASSUME Typed, NEW t \in Task, Good(t), RunLeaves(t)
    PROVE  Typed' /\ KeepsOthers(t) /\ Good(t)'
<1>1. lock[t] # None /\ UNCHANGED <<up, crashes, stop, tasks, consent, results>>
  BY DoingIs DEF RunLeaves
<1>2. CASE HasEnded(t)
  BY <1>1, <1>2, TurnToTheWalk DEF RunLeaves, HasEnded
<1>3. CASE ~HasEnded(t)
  BY <1>1, <1>3, ReleaseGood DEF RunLeaves
<1>4. QED
  BY <1>2, <1>3

\* A write the engine refuses leads to the close, from anywhere.
LEMMA RefusedGood ==
    ASSUME Typed, NEW t \in Task, Good(t), lock[t] # None, Refused(t),
           UNCHANGED <<up, crashes, stop, consent, results>>
    PROVE  Typed' /\ KeepsOthers(t) /\ Good(t)'
BY TurnToTheWalk DEF Refused, HasEnded, tasks

\* The engine moves a task that has not ended.
LEMMA MoveOfTask ==
    ASSUME Typed, NEW t \in Task, Good(t), lock[t] # None, task[t] \notin Ended,
           NEW pc \in {"open", "walk", "denied"}, Go(t, pc), NEW s \in TaskStates, SetTask(t, s),
           pc = "open" => step[t] \in {"pending", "running"},
           pc = "denied" => Pc(t) = "deny" /\ s \in Ended,
           UNCHANGED <<up, crashes, stop, step, cut, consent, results>>
    PROVE  Typed' /\ KeepsOthers(t) /\ Good(t)'
<1>1. pc \in Holding
  BY HoldingNames DEF Walking, Before
<1> DEFINE new == [Mine(t) EXCEPT !.pc = pc]
<1>2. Turns(t, new) /\ new \in CallState /\ new.pc = pc
  BY <1>1, GoTurns
<1> HIDE DEF new
<1>3. /\ call' \in [Calls -> CallState] /\ lock' \in [Task -> Calls \cup {None}] /\ Locks' /\ Carries'
      /\ Pc(t)' = pc /\ Apart(t)
  BY <1>1, <1>2, TurnKeeps DEF consent
<1>4. TypeOK' /\ task' = [task EXCEPT ![t] = s]
  BY <1>3 DEF Typed, TypeOK, consent, results, SetTask
<1>5. KeepsOthers(t)
  BY <1>3, <1>4 DEF KeepsOthers, OthersKept, consent, results
<1>6. StepInv(t)'
  BY <1>3, <1>4 DEF Good, StepInv, StepFollows, Recording, Acting, Telling, Failing, Reason, results,
              Executing, Before, Permitting, Calling, After, Typed, TypeOK
<1>7. ConsentInv(t)'
  <2>1. Spent(t)'
    BY <1>3, SpentKept DEF Good, ConsentInv, AboutToAct, consent, results
  <2>2. QED
    BY <1>3, <2>1 DEF Good, ConsentInv, Asked, Permitted, Permitting, consent
<1>8. QED
  BY <1>3, <1>4, <1>5, <1>6, <1>7 DEF Good, Typed

\* The writes of the walk, accepted or refused by the engine.
LEMMA WalkWritesGood ==
    ASSUME Typed, NEW t \in Task, Good(t),
           StartTask(t) \/ FailTask(t) \/ CompleteTask(t) \/ WaitForAnswer(t) \/ DenyTask(t)
    PROVE  Typed' /\ KeepsOthers(t) /\ Good(t)'
<1> USE DEF Walks, HasEnded, TaskStates, Ended
<1>1. CASE StartTask(t)
  <2>1. lock[t] # None /\ Pc(t) = "start" /\ step[t] \in {"pending", "running"}
    BY <1>1, DoingIs DEF StartTask, Good, StepInv, StepFollows
  <2>2. CASE Refused(t)
    BY <1>1, <2>1, <2>2, RefusedGood DEF StartTask
  <2>3. CASE ~Refused(t)
    BY <1>1, <2>1, <2>3, MoveOfTask DEF StartTask
  <2>4. QED
    BY <2>2, <2>3
<1>2. CASE FailTask(t)
  <2>1. lock[t] # None
    BY <1>2, DoingIs DEF FailTask
  <2>2. CASE Refused(t)
    BY <1>2, <2>1, <2>2, RefusedGood DEF FailTask
  <2>3. CASE Release(t) /\ UNCHANGED tasks
    BY <1>2, <2>1, <2>3, ReleaseGood DEF FailTask
  <2>4. CASE ~Refused(t) /\ ~(Release(t) /\ UNCHANGED tasks)
    BY <1>2, <2>1, <2>4, MoveOfTask DEF FailTask
  <2>5. QED
    BY <2>2, <2>3, <2>4
<1>3. CASE CompleteTask(t)
  <2>1. lock[t] # None
    BY <1>3, DoingIs DEF CompleteTask
  <2>2. CASE Refused(t)
    BY <1>3, <2>1, <2>2, RefusedGood DEF CompleteTask
  <2>3. CASE ~Refused(t)
    BY <1>3, <2>1, <2>3, MoveOfTask DEF CompleteTask
  <2>4. QED
    BY <2>2, <2>3
<1>4. CASE WaitForAnswer(t)
  <2>1. lock[t] # None
    BY <1>4, DoingIs DEF WaitForAnswer
  <2>2. CASE Refused(t)
    BY <1>4, <2>1, <2>2, RefusedGood DEF WaitForAnswer
  <2>3. CASE ~Refused(t)
    BY <1>4, <2>1, <2>3, MoveOfTask DEF WaitForAnswer
  <2>4. QED
    BY <2>2, <2>3
<1>5. CASE DenyTask(t)
  <2>1. lock[t] # None /\ Pc(t) = "deny"
    BY <1>5, DoingIs DEF DenyTask
  <2>2. CASE Refused(t)
    BY <1>5, <2>1, <2>2, RefusedGood DEF DenyTask
  <2>3. CASE ~Refused(t)
    BY <1>5, <2>1, <2>3, MoveOfTask DEF DenyTask
  <2>4. QED
    BY <2>2, <2>3
<1>6. QED
  BY <1>1, <1>2, <1>3, <1>4, <1>5

-------------------------------------------------------------------------------
(* The end of a step *)

\* The engine writes the step while the holder goes on to where no permission is held.
LEMMA WriteOfStep ==
    ASSUME Typed, NEW t \in Task, Good(t), lock[t] # None,
           NEW new \in CallState, new.pc \in Holding, Turns(t, new), new.pc \notin Permitting \cup {"call", "point"},
           NEW s \in StepStates, SetStep(t, s),
           UNCHANGED <<up, crashes, stop, task, cut, consent, results>>
    PROVE  /\ Typed' /\ KeepsOthers(t) /\ Pc(t)' = new.pc /\ Mine(t)' = new /\ step'[t] = s
           /\ ConsentInv(t)' /\ ToldOnce(audit[t])'
<1>1. /\ call' \in [Calls -> CallState] /\ lock' \in [Task -> Calls \cup {None}] /\ Locks' /\ Carries'
      /\ Pc(t)' = new.pc /\ Mine(t)' = new /\ Apart(t)
  BY TurnKeeps DEF consent
<1>2. TypeOK' /\ step' = [step EXCEPT ![t] = s] /\ step'[t] = s
  BY <1>1 DEF Typed, TypeOK, consent, results, SetStep
<1>3. KeepsOthers(t)
  BY <1>1, <1>2 DEF KeepsOthers, OthersKept, consent, results
<1>4. ConsentInv(t)'
  <2>1. Spent(t)'
    BY <1>1, SpentKept DEF Good, ConsentInv, AboutToAct, consent, results, Permitting
  <2>2. QED
    BY <1>1, <2>1 DEF Good, ConsentInv, Asked, Permitted, consent
<1>5. ToldOnce(audit[t])'
  BY DEF Good, StepInv, results
<1>6. QED
  BY <1>1, <1>2, <1>3, <1>4, <1>5 DEF Typed

\* The step starts, or was running already.
LEMMA StartStepGood ==
    ASSUME Typed, NEW t \in Task, Good(t), StartStep(t)
    PROVE  Typed' /\ KeepsOthers(t) /\ Good(t)'
<1>1. lock[t] # None /\ Pc(t) = "open" /\ step[t] \in {"pending", "running"}
  BY DoingIs DEF StartStep, Walks, Good, StepInv, StepFollows
<1>2. CASE Refused(t)
  BY <1>1, <1>2, RefusedGood DEF StartStep
<1>3. CASE ~Refused(t)
  <2> DEFINE new == [Mine(t) EXCEPT !.pc = "execute"]
  <2>1. Turns(t, new) /\ new \in CallState /\ new.pc = "execute" /\ new.pc \in Holding
    BY <1>1, <1>3, GoTurns, HoldingNames DEF StartStep, Executing
  <2> HIDE DEF new
  <2>2. /\ "execute" \notin Permitting \cup {"call", "point"} /\ "running" \in StepStates
        /\ SetStep(t, "running") /\ UNCHANGED <<up, crashes, stop, task, cut, consent, results>>
    BY <1>3 DEF StartStep, Permitting, StepStates
  <2>3. /\ Typed' /\ KeepsOthers(t) /\ Pc(t)' = "execute" /\ step'[t] = "running"
        /\ ConsentInv(t)' /\ ToldOnce(audit[t])'
    BY <1>1, <2>1, <2>2, WriteOfStep
  <2>4. StepInv(t)'
    BY <1>1, <2>2, <2>3 DEF Good, StepInv, StepFollows, Recording, Acting, Telling, Failing, Reason, results,
                Before, Permitting, Calling, After
  <2>5. QED
    BY <2>3, <2>4 DEF Good
<1>4. QED
  BY <1>2, <1>3

\* fail_step on a running step, for a reason that fits what happened.
LEMMA FailStepGood ==
    ASSUME Typed, NEW t \in Task, Good(t), lock[t] # None, Pc(t) \in Executing,
           NEW r \in Reasons, NEW didAct \in BOOLEAN, FailStep(t, r, didAct),
           ~didAct => /\ outcomes[t] = <<>> \/ ~outcomes[t][1].passed
                      /\ acted[t] = 0 \/ t \in Idempotent,
           didAct => r # "refused" /\ (r \in {"tool", "verification"} => acted[t] > 0),
           r = "interrupted" => t \in started /\ outcomes[t] = <<>>
    PROVE  Typed' /\ KeepsOthers(t) /\ Good(t)'
<1>1. step[t] = "running" /\ (t \in cut => task[t] \in Ended)
  BY DEF Good, StepInv, StepFollows
<1>2. UNCHANGED <<up, crashes, stop, task, cut, consent, results>>
  BY DEF FailStep
<1>3. \A q \in Reasons : ~Told(audit[t], "step_failed", q)
  BY <1>1 DEF Good, StepInv, Failing, Reason
<1>4. CASE task[t] \in Ended /\ ~didAct
  <2> DEFINE new == [Mine(t) EXCEPT !.pc = "walk"]
  <2>1. Turns(t, new) /\ new \in CallState /\ new.pc = "walk" /\ new.pc \in Holding
    BY <1>4, GoTurns, HoldingNames DEF FailStep, Walking, HasEnded
  <2> HIDE DEF new
  <2>2. "walk" \notin Permitting \cup {"call", "point"} /\ "cancelled" \in StepStates /\ SetStep(t, "cancelled")
    BY <1>4 DEF FailStep, Permitting, StepStates, HasEnded
  <2>3. /\ Typed' /\ KeepsOthers(t) /\ Pc(t)' = "walk" /\ step'[t] = "cancelled"
        /\ ConsentInv(t)' /\ ToldOnce(audit[t])'
    BY <1>2, <2>1, <2>2, WriteOfStep
  <2>4. StepInv(t)'
    BY <1>1, <1>2, <1>3, <1>4, <2>3 DEF Good, StepInv, StepFollows, Recording, Acting, Telling, Failing, Reason,
                results, Executing, Before, Permitting, Calling, After
  <2>5. QED
    BY <2>3, <2>4 DEF Good
<1>5. CASE ~(task[t] \in Ended /\ ~didAct)
  <2> DEFINE new == [Mine(t) EXCEPT !.pc = "tell", !.said = r]
  <2>1. Turns(t, new) /\ new \in CallState /\ new.pc = "tell" /\ new.said = r /\ new.pc \in Holding
    BY <1>5, TypedFacts, HoldingNames, ZenonT(40) DEF FailStep, HasEnded, Turns, Mine, CallState
  <2> HIDE DEF new
  <2>2. "tell" \notin Permitting \cup {"call", "point"} /\ "failed" \in StepStates /\ SetStep(t, "failed")
    BY <1>5 DEF FailStep, Permitting, StepStates, HasEnded
  <2>3. /\ Typed' /\ KeepsOthers(t) /\ Pc(t)' = "tell" /\ Mine(t)' = new /\ step'[t] = "failed"
        /\ ConsentInv(t)' /\ ToldOnce(audit[t])'
    BY <1>2, <2>1, <2>2, WriteOfStep
  <2>4. StepInv(t)'
    BY <1>1, <1>2, <1>3, <1>5, <2>1, <2>3 DEF Good, StepInv, StepFollows, Recording, Acting, Telling, Failing, Reason,
                results, Executing, Before, Permitting, Calling, After
  <2>5. QED
    BY <2>3, <2>4 DEF Good
<1>6. QED
  BY <1>4, <1>5

\* stop_step, where the tool did not act.
LEMMA StopStepGood ==
    ASSUME Typed, NEW t \in Task, Good(t), Pc(t) \in Before, lock[t] # None, StopStep(t, "walk")
    PROVE  Typed' /\ KeepsOthers(t) /\ Good(t)'
<1>1. step[t] = "running" /\ task[t] \in Ended /\ t \notin started /\ outcomes[t] = <<>>
  BY HoldingNames DEF Good, StepInv, StepFollows, Recording, StopStep, HasEnded
<1>2. UNCHANGED <<up, crashes, stop, task, cut, consent, results>>
  BY DEF StopStep
<1> DEFINE new == [Mine(t) EXCEPT !.pc = "walk"]
<1>3. Turns(t, new) /\ new \in CallState /\ new.pc = "walk" /\ new.pc \in Holding
  BY GoTurns, HoldingNames DEF StopStep, Walking
<1> HIDE DEF new
<1>4. "walk" \notin Permitting \cup {"call", "point"} /\ "cancelled" \in StepStates /\ SetStep(t, "cancelled")
  BY DEF StopStep, Permitting, StepStates
<1>5. /\ Typed' /\ KeepsOthers(t) /\ Pc(t)' = "walk" /\ step'[t] = "cancelled"
      /\ ConsentInv(t)' /\ ToldOnce(audit[t])'
  BY <1>2, <1>3, <1>4, WriteOfStep
<1>6. acted[t] = 0 \/ t \in Idempotent
  BY <1>1 DEF Good, StepInv, Acting, Typed, TypeOK
<1>7. StepInv(t)'
  BY <1>1, <1>2, <1>5, <1>6 DEF Good, StepInv, StepFollows, Recording, Acting, Telling, Failing, Reason,
              results, Executing, Before, Permitting, Calling, After
<1>8. QED
  BY <1>5, <1>7 DEF Good

-------------------------------------------------------------------------------
(* The permission *)

\* The executor reads the task again.
LEMMA ExecuteReadsGood ==
    ASSUME Typed, NEW t \in Task, Good(t), ExecuteReads(t)
    PROVE  Typed' /\ KeepsOthers(t) /\ Good(t)'
<1>1. lock[t] # None /\ Pc(t) = "execute" /\ UNCHANGED <<up, crashes, stop, tasks, consent, results>>
  BY DoingIs DEF ExecuteReads
<1>2. CASE HasEnded(t)
  BY <1>1, <1>2, TurnToTheWalk DEF ExecuteReads, HasEnded
<1>3. CASE ~HasEnded(t)
  <2> DEFINE new == [Mine(t) EXCEPT !.pc = "resolve"]
  <2>1. Turns(t, new) /\ new \in CallState /\ new.pc = "resolve" /\ new.pc \in Holding
    BY <1>1, <1>3, GoTurns, HoldingNames DEF ExecuteReads, Executing
  <2> HIDE DEF new
  <2>2. Typed' /\ KeepsOthers(t) /\ Pc(t)' = "resolve" /\ Mine(t)' = new /\ Asked(t)' /\ ToldOnce(audit[t])'
    BY <1>1, <2>1, TurnWritesNothing
  <2>3. StepInv(t)'
    BY <1>1, <2>2 DEF Good, StepInv, StepFollows, Recording, Acting, Telling, Failing, Reason, tasks, results,
                Executing, Before, Permitting, Calling, After
  <2>4. ConsentInv(t)'
    BY <1>1, <2>2 DEF Good, ConsentInv, Permitted, Spent, AboutToAct, Permitting, consent, results
  <2>5. QED
    BY <2>2, <2>3, <2>4 DEF Good
<1>4. QED
  BY <1>2, <1>3

\* The last question of a status is one of them.
LEMMA LastQuestion ==
    ASSUME Typed, NEW t \in Task, NEW s, Questions(t, s) # {}
    PROVE  LET i == Max(Questions(t, s)) IN
           /\ i \in Questions(t, s) /\ i \in 1 .. MaxAsks /\ \A j \in Questions(t, s) : j <= i
<1>1. MaxAsks \in Nat /\ Len(approvals[t]) \in Nat /\ Len(approvals[t]) <= MaxAsks
      /\ DOMAIN approvals[t] = 1 .. Len(approvals[t])
  BY ExecutionAssumption DEF Typed, TypeOK
<1>2. Questions(t, s) \in SUBSET (0 .. MaxAsks) /\ Questions(t, s) \subseteq 1 .. MaxAsks
  BY <1>1 DEF Questions
<1>3. QED
  BY <1>1, <1>2, MaxOfInterval

\* Where earlier calls left the step decides where this one resumes.
LEMMA ResolveGood ==
    ASSUME Typed, NEW t \in Task, Good(t), Resolve(t)
    PROVE  Typed' /\ KeepsOthers(t) /\ Good(t)'
<1> DEFINE pending == Questions(t, "pending")
           granted == Questions(t, "granted")
<1>1. lock[t] # None /\ Pc(t) = "resolve" /\ UNCHANGED <<up, crashes, stop, tasks, consent, results>>
  BY DoingIs DEF Resolve, ResolveFrom
<1>2. pending = WithStatus(approvals[t], "pending") /\ granted = WithStatus(approvals[t], "granted")
  BY DEF Questions, WithStatus
<1>3. /\ pending # {} => Max(pending) \in 1 .. MaxAsks
      /\ granted # {} => Max(granted) \in 1 .. MaxAsks /\ Max(granted) \in granted
                         /\ \A j \in granted : j <= Max(granted)
  BY LastQuestion
<1>4. \/ outcomes[t] # <<>> /\ Go(t, "resume")
      \/ outcomes[t] = <<>> /\ t \in started /\ Go(t, "interrupted")
      \/ Release(t)
      \/ outcomes[t] = <<>> /\ t \notin started /\ pending # {} /\ GoWith(t, "wait", Max(pending))
      \/ outcomes[t] = <<>> /\ t \notin started /\ pending = {} /\ granted # {} /\ GoWith(t, "grant", Max(granted))
      \/ outcomes[t] = <<>> /\ t \notin started /\ pending = {} /\ granted = {} /\ GoWith(t, "decide", None)
  BY DEF Resolve, ResolveFrom
<1>5. CASE Release(t)
  BY <1>1, <1>5, ReleaseGood
<1>6. CASE ~Release(t)
  <2>1. PICK new \in CallState :
          /\ Turns(t, new)
          /\ new.pc \in {"resume", "interrupted", "wait", "grant", "decide"}
          /\ new.pc = "resume" => outcomes[t] # <<>>
          /\ new.pc # "resume" => outcomes[t] = <<>>
          /\ new.pc = "interrupted" => t \in started
          /\ new.pc \in {"wait", "grant", "decide"} => t \notin started
          /\ new.pc \in {"grant", "decide"} => pending = {}
          /\ new.pc = "grant" => new.id \in granted /\ \A j \in granted : j <= new.id
          /\ new.pc = "grant" => new.id # None
          /\ new.pc = "decide" => new.id = None /\ granted = {}
    <3>1. CASE outcomes[t] # <<>> /\ Go(t, "resume")
      <4> "resume" \in Holding
        BY HoldingNames DEF After
      <4> QED
        BY <1>1, <3>1, GoTurns
    <3>2. CASE outcomes[t] = <<>> /\ t \in started /\ Go(t, "interrupted")
      <4> "interrupted" \in Holding
        BY HoldingNames DEF Executing
      <4> QED
        BY <1>1, <3>2, GoTurns
    <3>3. CASE outcomes[t] = <<>> /\ t \notin started /\ pending # {} /\ GoWith(t, "wait", Max(pending))
      <4> "wait" \in Holding
        BY HoldingNames DEF Before
      <4>2. \E next \in CallState : Turns(t, next) /\ next.pc = "wait" /\ next.id = Max(pending)
        <5>1. Max(pending) \in 1 .. MaxAsks \cup {None} /\ lock[t] # None /\ GoWith(t, "wait", Max(pending))
          BY <1>1, <1>3, <3>3
        <5>2. QED
          BY <5>1, GoWithTurns
      <4> QED
        BY <1>3, <3>3, <4>2
    <3>4. CASE outcomes[t] = <<>> /\ t \notin started /\ pending = {} /\ granted # {} /\ GoWith(t, "grant", Max(granted))
      <4> "grant" \in Holding
        BY HoldingNames DEF Permitting
      <4>1. Max(granted) # None
        BY <1>3, <3>4, NoneAssumption
      <4>2. \E next \in CallState : Turns(t, next) /\ next.pc = "grant" /\ next.id = Max(granted)
        <5>1. Max(granted) \in 1 .. MaxAsks \cup {None} /\ lock[t] # None /\ GoWith(t, "grant", Max(granted))
          BY <1>1, <1>3, <3>4
        <5>2. QED
          BY <5>1, GoWithTurns, ZenonT(40)
      <4> QED
        BY <1>3, <3>4, <4>1, <4>2
    <3>5. CASE outcomes[t] = <<>> /\ t \notin started /\ pending = {} /\ granted = {} /\ GoWith(t, "decide", None)
      <4> "decide" \in Holding
        BY HoldingNames DEF Permitting
      <4>2. \E next \in CallState : Turns(t, next) /\ next.pc = "decide" /\ next.id = None
        <5>1. None \in 1 .. MaxAsks \cup {None} /\ lock[t] # None /\ GoWith(t, "decide", None)
          BY <1>1, <3>5
        <5>2. ASSUME NEW i \in 1 .. MaxAsks \cup {None}, GoWith(t, "decide", i)
              PROVE  \E next \in CallState : Turns(t, next) /\ next.pc = "decide" /\ next.id = i
          BY <5>1, <5>2, GoWithTurns
        <5>3. QED
          BY <5>1, <5>2
      <4> QED
        BY <1>3, <3>5, <4>2
    <3>6. QED
      BY <1>4, <1>6, <3>1, <3>2, <3>3, <3>4, <3>5
  <2>2. new.pc \in Holding
    BY <2>1, HoldingNames DEF Executing, Before, Permitting, After
  <2>3. Typed' /\ KeepsOthers(t) /\ Pc(t)' = new.pc /\ Mine(t)' = new /\ Asked(t)' /\ ToldOnce(audit[t])'
    BY <1>1, <2>1, <2>2, TurnWritesNothing
  <2>4. StepInv(t)'
    BY <1>1, <2>1, <2>3 DEF Good, StepInv, StepFollows, Recording, Acting, Telling, Failing, Reason, tasks, results,
                Executing, Before, Permitting, Calling, After
  <2>5. Spent(t)' /\ Permitted(t)'
    <3> HIDE DEF pending, granted
    <3>1. Spent(t)'
      BY <1>1, <2>1, <2>3 DEF Good, ConsentInv, Spent, AboutToAct, consent, results
    <3>2. Permitted(t)'
      BY <1>1, <1>2, <2>1, <2>3 DEF Good, ConsentInv, Permitted, Permitting, consent, results
    <3>3. QED
      BY <3>1, <3>2
  <2>6. QED
    BY <2>3, <2>4, <2>5 DEF Good, ConsentInv
<1>7. QED
  BY <1>5, <1>6

-------------------------------------------------------------------------------
(* The audit *)

\* A log that tells one event more tells that event and what it told.
LEMMA TellsOneMore ==
    ASSUME NEW log \in Seq(Event), NEW e \in Event
    PROVE  /\ Append(log, e) \in Seq(Event)
           /\ \A event, about : Told(Append(log, e), event, about)
                <=> Told(log, event, about) \/ e = [event |-> event, about |-> about]
           /\ (ToldOnce(log) /\ \A i \in DOMAIN log : Follows(log[i], e)) => ToldOnce(Append(log, e))
<1> DEFINE more == Append(log, e)
<1>1. more \in Seq(Event) /\ Len(more) = Len(log) + 1 /\ Len(log) \in Nat /\ more[Len(log) + 1] = e
      /\ DOMAIN log = 1 .. Len(log) /\ DOMAIN more = 1 .. Len(log) + 1
      /\ \A i \in DOMAIN log : more[i] = log[i]
  OBVIOUS
<1> HIDE DEF more
<1>2. ASSUME NEW event, NEW about
      PROVE  Told(more, event, about) <=> Told(log, event, about) \/ e = [event |-> event, about |-> about]
  <2>1. \A i \in DOMAIN more : i \in DOMAIN log \/ i = Len(log) + 1
    BY <1>1
  <2>2. Len(log) + 1 \in DOMAIN more /\ DOMAIN log \subseteq DOMAIN more
    BY <1>1
  <2>3. QED
    BY <1>1, <2>1, <2>2 DEF Told
<1>3. ASSUME ToldOnce(log), \A i \in DOMAIN log : Follows(log[i], e)
      PROVE  ToldOnce(more)
  <2>1. SUFFICES ASSUME NEW i \in DOMAIN more, NEW j \in DOMAIN more, i < j
                 PROVE  Follows(more[i], more[j])
    BY DEF ToldOnce
  <2>2. i \in DOMAIN log
    BY <1>1, <2>1
  <2>3. CASE j \in DOMAIN log
    BY <1>1, <1>3, <2>1, <2>2, <2>3 DEF ToldOnce
  <2>4. CASE j = Len(log) + 1
    BY <1>1, <1>3, <2>2, <2>4
  <2>5. QED
    BY <1>1, <2>3, <2>4
<1>4. QED
  BY <1>1, <1>2, <1>3 DEF more

\* A log that tells no event of a kind has none of that kind.
LEMMA NotTold ==
    ASSUME NEW log \in Seq(Event), NEW i \in DOMAIN log
    PROVE  Told(log, log[i].event, log[i].about) /\ log[i] \in Event
           /\ log[i] = [event |-> log[i].event, about |-> log[i].about]
<1>1. log[i] \in Event
  OBVIOUS
<1>2. log[i] = [event |-> log[i].event, about |-> log[i].about]
  BY <1>1 DEF Event
<1>3. QED
  BY <1>1, <1>2 DEF Told

\* The holder tells an event and goes on.
LEMMA TellTurns ==
    ASSUME Typed, NEW t \in Task, Good(t), lock[t] # None,
           NEW new \in CallState, new.pc \in Holding, Turns(t, new),
           NEW e \in Event, audit' = [audit EXCEPT ![t] = Append(@, e)],
           \A i \in DOMAIN audit[t] : Follows(audit[t][i], e),
           UNCHANGED <<up, crashes, stop, tasks, consent, started, outcomes, acted>>
    PROVE  /\ Typed' /\ KeepsOthers(t) /\ Pc(t)' = new.pc /\ Mine(t)' = new
           /\ Asked(t)' /\ ToldOnce(audit[t])'
           /\ audit'[t] = Append(audit[t], e)
           /\ \A event, about : Told(audit'[t], event, about)
                <=> Told(audit[t], event, about) \/ e = [event |-> event, about |-> about]
<1>1. /\ call' \in [Calls -> CallState] /\ lock' \in [Task -> Calls \cup {None}] /\ Locks' /\ Carries'
      /\ Pc(t)' = new.pc /\ Mine(t)' = new /\ Apart(t)
  BY TurnKeeps DEF consent
<1>2. audit[t] \in Seq(Event)
  BY DEF Typed, TypeOK
<1>3. audit'[t] = Append(audit[t], e) /\ \A u \in Task \ {t} : audit'[u] = audit[u]
  BY DEF Typed, TypeOK
<1>4. TypeOK'
  BY <1>1, <1>2, <1>3, TellsOneMore DEF Typed, TypeOK, tasks, consent
<1>5. KeepsOthers(t)
  BY <1>1, <1>3 DEF KeepsOthers, OthersKept, tasks, consent
<1>6. Asked(t)'
  BY DEF Good, ConsentInv, Asked, consent
<1>7. ToldOnce(audit[t])'
  BY <1>2, <1>3, TellsOneMore DEF Good, StepInv
<1>8. QED
  BY <1>1, <1>2, <1>3, <1>4, <1>5, <1>6, <1>7, TellsOneMore DEF Typed

-------------------------------------------------------------------------------
(* The grant, the decision, the question *)

\* A grant is born of a yes.
LEMMA StoreGrantGood ==
    ASSUME Typed, NEW t \in Task, Good(t), StoreGrant(t)
    PROVE  Typed' /\ KeepsOthers(t) /\ Good(t)'
<1> DEFINE id == Mine(t).id
           g == IF grants[t][id] = "none" THEN "fresh" ELSE grants[t][id]
<1>1. /\ lock[t] # None /\ Pc(t) = "grant" /\ Go(t, "record")
      /\ UNCHANGED <<up, crashes, stop, tasks, approvals, policy, covered, results>>
      /\ grants' = [grants EXCEPT ![t][id] = g]
  BY DoingIs DEF StoreGrant
<1>2. id # None /\ id \in 1 .. MaxAsks /\ id \in WithStatus(approvals[t], "granted")
  <2>1. id # None /\ id \in WithStatus(approvals[t], "granted")
    BY <1>1 DEF Good, ConsentInv, Permitted, Permitting
  <2>2. id \in 1 .. MaxAsks \cup {None}
    BY <1>1, TypedFacts DEF CallState
  <2>3. QED
    BY <2>1, <2>2
<1>3. /\ grants \in [Task -> [1 .. MaxAsks -> GrantStates]] /\ grants[t][id] \in GrantStates /\ g \in GrantStates \ {"none"}
      /\ g # grants[t][id] => grants[t][id] = "none" /\ g = "fresh"
  <2>1. grants \in [Task -> [1 .. MaxAsks -> GrantStates]]
    BY DEF Typed, TypeOK
  <2> HIDE DEF id
  <2>2. grants[t][id] \in GrantStates
    BY <1>2, <2>1
  <2>3. QED
    BY <2>1, <2>2 DEF GrantStates
<1> DEFINE new == [Mine(t) EXCEPT !.pc = "record"]
<1>4. Turns(t, new) /\ new \in CallState /\ new.pc = "record" /\ new.id = id /\ new.pc \in Holding
  BY <1>1, GoTurns, HoldingNames DEF Permitting
<1> HIDE DEF new, g, id
<1>5. /\ grants' \in [Task -> [1 .. MaxAsks -> GrantStates]]
      /\ grants'[t][id] = g /\ \A i \in 1 .. MaxAsks : i # id => grants'[t][i] = grants[t][i]
      /\ \A u \in Task \ {t} : grants'[u] = grants[u]
  BY <1>1, <1>2, <1>3
<1>6. /\ call' \in [Calls -> CallState] /\ lock' \in [Task -> Calls \cup {None}] /\ Locks' /\ Carries'
      /\ Pc(t)' = "record" /\ Mine(t)' = new /\ Apart(t)
  BY <1>1, <1>4, TurnKeeps
<1>7. Typed' /\ KeepsOthers(t)
  BY <1>1, <1>5, <1>6 DEF Typed, TypeOK, KeepsOthers, OthersKept, tasks, results
<1>8. StepInv(t)'
  BY <1>1, <1>6 DEF Good, StepInv, StepFollows, Recording, Acting, Telling, Failing, Reason, tasks, results,
              Executing, Before, Permitting, Calling, After
<1>9. SpentIn(grants'[t]) = SpentIn(grants[t])
  BY <1>3, <1>5 DEF SpentIn
<1>10. Spent(t)'
  BY <1>1, <1>6, <1>9 DEF Good, ConsentInv, Spent, AboutToAct, results
<1>11. Asked(t)'
  <2>1. \A i \in DOMAIN approvals[t] : i \in 1 .. MaxAsks
    BY ExecutionAssumption DEF Typed, TypeOK
  <2>2. \A j \in DOMAIN approvals[t] : \A i \in 1 .. j - 1 : i \in DOMAIN approvals[t]
    BY DEF Typed, TypeOK
  <2>3. QED
    BY <1>1, <1>2, <1>3, <1>5, <2>1, <2>2 DEF Good, ConsentInv, Asked
<1>12. Permitted(t)'
  BY <1>1, <1>2, <1>3, <1>4, <1>5, <1>6 DEF Good, ConsentInv, Permitted, Permitting, id
<1>13. QED
  BY <1>7, <1>8, <1>10, <1>11, <1>12 DEF Good, ConsentInv

\* The birth of a grant is told once.
LEMMA RecordGrantGood ==
    ASSUME Typed, NEW t \in Task, Good(t), RecordGrant(t)
    PROVE  Typed' /\ KeepsOthers(t) /\ Good(t)'
<1>1. /\ lock[t] # None /\ Pc(t) = "record" /\ Go(t, "decide")
      /\ UNCHANGED <<up, crashes, stop, tasks, consent, started, outcomes, acted>>
  BY DoingIs DEF RecordGrant
<1> DEFINE new == [Mine(t) EXCEPT !.pc = "decide"]
           e == [event |-> "granted", about |-> Mine(t).id]
<1>2. Turns(t, new) /\ new \in CallState /\ new.pc = "decide" /\ new.id = Mine(t).id /\ new.pc \in Holding
  BY <1>1, GoTurns, HoldingNames DEF Permitting
<1>3. Recorded(t, "granted", Mine(t).id) <=> Told(audit[t], "granted", Mine(t).id)
  BY DEF Recorded, Told
<1>4. Typed' /\ KeepsOthers(t) /\ Pc(t)' = "decide" /\ Mine(t)' = new /\ Asked(t)' /\ ToldOnce(audit[t])'
      /\ \A event, about : event # "granted" => (Told(audit'[t], event, about) <=> Told(audit[t], event, about))
  <2>1. CASE UNCHANGED audit
    BY <1>1, <1>2, <2>1, TurnWritesNothing DEF results
  <2>2. CASE ~Told(audit[t], "granted", Mine(t).id) /\ audit' = [audit EXCEPT ![t] = Append(@, e)]
    <3>1. Mine(t).id \in 1 .. MaxAsks
      <4>1. Mine(t).id # None
        BY <1>1 DEF Good, ConsentInv, Permitted, Permitting
      <4>2. QED
        BY <1>1, <4>1, TypedFacts DEF CallState
    <3>2. e \in Event
      BY <3>1 DEF Event
    <3>3. \A i \in DOMAIN audit[t] : Follows(audit[t][i], e)
      <4> TAKE i \in DOMAIN audit[t]
      <4>1. audit[t] \in Seq(Event)
        BY DEF Typed, TypeOK
      <4>2. Told(audit[t], audit[t][i].event, audit[t][i].about)
        BY <4>1, NotTold
      <4>3. ~Told(audit[t], "granted", Mine(t).id)
        BY <2>2
      <4>4. QED
        BY <4>2, <4>3 DEF Follows
    <3> HIDE DEF new
    <3>4. QED
      BY <1>1, <1>2, <2>2, <3>2, <3>3, TellTurns
  <2>3. QED
    BY <1>1, <1>3, <2>1, <2>2 DEF RecordGrant, Tell
<1> HIDE DEF new
<1>5. StepInv(t)'
  BY <1>1, <1>4 DEF Good, StepInv, StepFollows, Recording, Acting, Telling, Failing, Reason, tasks,
              Executing, Before, Permitting, Calling, After
<1>6. ConsentInv(t)'
  BY <1>1, <1>2, <1>4 DEF Good, ConsentInv, Permitted, Spent, AboutToAct, Permitting, consent
<1>7. QED
  BY <1>4, <1>5, <1>6 DEF Good

\* The decision of the Guardian.
LEMMA DecideGood ==
    ASSUME Typed, NEW t \in Task, Good(t), Decide(t)
    PROVE  Typed' /\ KeepsOthers(t) /\ Good(t)'
<1>1. lock[t] # None /\ Pc(t) = "decide" /\ UNCHANGED <<up, crashes, stop, tasks, consent, results>>
  BY DoingIs DEF Decide
<1>2. PICK pc \in {"deny", "ask", "spend"} :
        /\ Go(t, pc)
        /\ pc = "ask" => ~Usable(t)
        /\ pc = "spend" => t \notin Asking \/ Usable(t)
  BY DEF Decide
<1>3. pc \in Holding
  BY HoldingNames DEF Before, Permitting
<1> DEFINE new == [Mine(t) EXCEPT !.pc = pc]
<1>4. Turns(t, new) /\ new \in CallState /\ new.pc = pc /\ new.id = Mine(t).id
  BY <1>1, <1>2, <1>3, GoTurns
<1> HIDE DEF new
<1>5. Typed' /\ KeepsOthers(t) /\ Pc(t)' = pc /\ Mine(t)' = new /\ Asked(t)' /\ ToldOnce(audit[t])'
  BY <1>1, <1>3, <1>4, TurnWritesNothing
<1>6. StepInv(t)'
  BY <1>1, <1>2, <1>5 DEF Good, StepInv, StepFollows, Recording, Acting, Telling, Failing, Reason, tasks, results,
              Executing, Before, Permitting, Calling, After
<1>7. Permitted(t)'
  <2>1. ASSUME Mine(t).id # None
        PROVE  /\ Mine(t).id \in WithStatus(approvals[t], "granted") /\ Mine(t).id \in 1 .. MaxAsks
               /\ grants[t][Mine(t).id] \in {"fresh", "old", "used"}
    <3>1. Mine(t).id \in WithStatus(approvals[t], "granted") /\ grants[t][Mine(t).id] # "none"
      BY <1>1, <2>1 DEF Good, ConsentInv, Permitted, Permitting
    <3>2. Mine(t).id \in 1 .. MaxAsks
      BY <1>1, <2>1, TypedFacts DEF CallState
    <3>3. grants[t][Mine(t).id] \in GrantStates
      <4>1. grants \in [Task -> [1 .. MaxAsks -> GrantStates]]
        BY DEF Typed, TypeOK
      <4>2. QED
        BY <3>2, <4>1
    <3>4. QED
      BY <3>1, <3>2, <3>3 DEF GrantStates
  <2>2. ASSUME pc = "spend", Mine(t).id # None, t \in Asking
        PROVE  Mine(t).id = Len(approvals[t])
    <3>1. grants[t][Mine(t).id] = "fresh"
      BY <1>2, <2>2 DEF Usable
    <3>2. Mine(t).id \in 1 .. Len(approvals[t]) /\ approvals[t][Mine(t).id].status = "granted"
          /\ Len(approvals[t]) \in Nat /\ DOMAIN approvals[t] = 1 .. Len(approvals[t])
      BY <2>1, <2>2 DEF WithStatus, Typed, TypeOK
    <3>3. ~(Len(approvals[t]) > Mine(t).id)
      <4>1. SUFFICES ASSUME Len(approvals[t]) > Mine(t).id
                     PROVE  FALSE
        OBVIOUS
      <4>2. Len(approvals[t]) \in DOMAIN approvals[t] /\ Mine(t).id \in 1 .. Len(approvals[t]) - 1
        BY <3>2, <4>1
      <4>3. \A j \in DOMAIN approvals[t] : \A i \in 1 .. j - 1 :
              approvals[t][i].status = "granted" => grants[t][i] \in {"old", "used"}
        BY DEF Good, ConsentInv, Asked
      <4>4. grants[t][Mine(t).id] \in {"old", "used"}
        BY <3>2, <4>2, <4>3
      <4>5. QED
        BY <3>1, <4>4
    <3>4. QED
      BY <3>2, <3>3
  <2>3. ASSUME pc = "ask", Mine(t).id # None
        PROVE  grants[t][Mine(t).id] \in {"old", "used"}
    BY <1>2, <2>1, <2>3 DEF Usable
  <2>4. QED
    BY <1>1, <1>4, <1>5, <2>2, <2>3 DEF Good, ConsentInv, Permitted, Permitting, consent
<1>8. Spent(t)'
  BY <1>1, <1>5, SpentKept DEF Good, ConsentInv, AboutToAct, consent, results
<1>9. QED
  BY <1>5, <1>6, <1>7, <1>8 DEF Good, ConsentInv

\* A call that is refused before it is made.
LEMMA GivesUpGood ==
    ASSUME Typed, NEW t \in Task, Good(t), lock[t] # None, Pc(t) \in Permitting,
           NEW pc \in {"refused", "deny"}, Go(t, pc),
           UNCHANGED <<up, crashes, stop, tasks, consent, results>>
    PROVE  Typed' /\ KeepsOthers(t) /\ Good(t)'
<1>1. pc \in Holding
  BY HoldingNames DEF Executing, Before
<1> DEFINE new == [Mine(t) EXCEPT !.pc = pc]
<1>2. Turns(t, new) /\ new \in CallState /\ new.pc = pc
  BY <1>1, GoTurns
<1> HIDE DEF new
<1>3. Typed' /\ KeepsOthers(t) /\ Pc(t)' = pc /\ Asked(t)' /\ ToldOnce(audit[t])'
  BY <1>1, <1>2, TurnWritesNothing
<1>4. step[t] = "running" /\ t \notin started /\ outcomes[t] = <<>> /\ (t \notin Idempotent => acted[t] = 0)
  BY HoldingNames DEF Good, StepInv, StepFollows, Recording, Acting, Typed, TypeOK
<1>5. StepInv(t)'
  BY <1>3, <1>4 DEF Good, StepInv, StepFollows, Recording, Acting, Telling, Failing, Reason, tasks, results,
              Executing, Before, Permitting, Calling, After
<1>6. ConsentInv(t)'
  <2>1. Spent(t)'
    BY <1>3, SpentKept DEF Good, ConsentInv, AboutToAct, consent, results
  <2>2. QED
    BY <1>3, <2>1 DEF Good, ConsentInv, Permitted, Permitting, consent
<1>7. QED
  BY <1>3, <1>5, <1>6 DEF Good

\* A question is asked where no earlier one is open and every earlier yes is used or old.
LEMMA AskGood ==
    ASSUME Typed, NEW t \in Task, Good(t), Ask(t)
    PROVE  Typed' /\ KeepsOthers(t) /\ Good(t)'
<1>1. /\ lock[t] # None /\ Pc(t) = "ask"
      /\ UNCHANGED <<up, crashes, stop, tasks, grants, policy, covered, results>>
  BY DoingIs DEF Ask
<1> DEFINE new == [Mine(t) EXCEPT !.pc = "wait", !.id = Len(approvals[t]) + 1]
           asked == [status |-> "pending", late |-> FALSE]
           n == Len(approvals[t])
<1>2. CASE (Go(t, "refused") \/ Go(t, "deny")) /\ UNCHANGED approvals
  BY <1>1, <1>2, GivesUpGood DEF Permitting, consent
<1>3. CASE /\ n < MaxAsks /\ approvals' = [approvals EXCEPT ![t] = Append(@, asked)]
           /\ GoWith(t, "wait", n + 1)
  <2>1. /\ approvals \in [Task -> Seq(Approval)] /\ approvals[t] \in Seq(Approval) /\ n \in Nat /\ MaxAsks \in Nat
        /\ DOMAIN approvals[t] = 1 .. n /\ asked \in Approval
    BY ExecutionAssumption DEF Typed, TypeOK, Approval
  <2>2. "wait" \in Holding /\ n + 1 \in 1 .. MaxAsks \cup {None}
    BY <1>3, <2>1, HoldingNames DEF Before
  <2> HIDE DEF n
  <2>3. PICK next \in CallState : Turns(t, next) /\ next.pc = "wait"
    <3>1. ASSUME NEW i \in 1 .. MaxAsks \cup {None}, GoWith(t, "wait", i)
          PROVE  \E next \in CallState : Turns(t, next) /\ next.pc = "wait"
      BY <1>1, <2>2, <3>1, GoWithTurns
    <3>2. QED
      BY <1>3, <2>2, <3>1
  <2>4. /\ approvals'[t] = Append(approvals[t], asked) /\ \A u \in Task \ {t} : approvals'[u] = approvals[u]
        /\ approvals' \in [Task -> Seq(Approval)]
    BY <1>3, <2>1
  <2>5. /\ DOMAIN approvals'[t] = 1 .. n + 1 /\ Len(approvals'[t]) = n + 1
        /\ \A i \in 1 .. n : approvals'[t][i] = approvals[t][i]
        /\ approvals'[t][n + 1] = asked
    BY <2>1, <2>4 DEF n
  <2>6. /\ call' \in [Calls -> CallState] /\ lock' \in [Task -> Calls \cup {None}] /\ Locks' /\ Carries'
        /\ Pc(t)' = "wait" /\ Apart(t)
    <3>1. \A u \in Task : DOMAIN approvals[u] \subseteq DOMAIN approvals'[u]
      <4>1. DOMAIN approvals[t] \subseteq DOMAIN approvals'[t]
        BY <2>1, <2>5
      <4>2. QED
        BY <2>4, <4>1
    <3>2. QED
      BY <1>1, <2>2, <2>3, <3>1, TurnKeeps
  <2>7. Typed' /\ KeepsOthers(t)
    <3>1. \A u \in Task : Len(approvals'[u]) <= MaxAsks
      BY <1>3, <2>1, <2>4, <2>5 DEF Typed, TypeOK
    <3>2. QED
      BY <1>1, <2>4, <2>6, <3>1 DEF Typed, TypeOK, KeepsOthers, OthersKept, tasks, results
  <2>8. StepInv(t)'
    BY <1>1, <2>6 DEF Good, StepInv, StepFollows, Recording, Acting, Telling, Failing, Reason, tasks, results,
                Executing, Before, Permitting, Calling, After
  <2>9. Permitted(t)' /\ Spent(t)'
    BY <1>1, <2>6 DEF Good, ConsentInv, Permitted, Permitting, Spent, AboutToAct, results
  <2>10. Asked(t)'
    <3>1. Asked(t) /\ Permitted(t)
      BY DEF Good, ConsentInv
    <3>2. \A i \in 1 .. n + 1 : approvals'[t][i].late => t \in Expiring
      BY <2>1, <2>5, <3>1 DEF Asked
    <3>3. \A i \in 1 .. MaxAsks : grants'[t][i] # "none" => i \in WithStatus(approvals'[t], "granted")
      BY <1>1, <2>1, <2>5, <3>1 DEF Asked, WithStatus
    <3>4. ASSUME NEW i \in 1 .. n
          PROVE  /\ approvals[t][i].status # "pending"
                 /\ approvals[t][i].status = "granted" => grants[t][i] \in {"old", "used"}
      <4>1. approvals[t][i].status # "pending"
        BY <1>1, <2>1, <3>1 DEF Permitted, Permitting, WithStatus
      <4>2. ASSUME approvals[t][i].status = "granted"
            PROVE  grants[t][i] \in {"old", "used"}
        <5>1. i \in WithStatus(approvals[t], "granted")
          BY <2>1, <4>2 DEF WithStatus
        <5> DEFINE id == Mine(t).id
        <5>2. /\ id # None /\ id \in WithStatus(approvals[t], "granted") /\ i <= id
              /\ grants[t][id] \in {"old", "used"}
          BY <1>1, <3>1, <5>1 DEF Permitted, Permitting
        <5>3. id \in 1 .. n
          BY <2>1, <5>2 DEF WithStatus
        <5> HIDE DEF id
        <5>4. CASE i = id
          BY <5>2, <5>4
        <5>5. CASE i # id
          <6>1. i \in 1 .. id - 1 /\ id \in DOMAIN approvals[t]
            BY <2>1, <5>2, <5>3, <5>5
          <6>2. \A j \in DOMAIN approvals[t] : \A k \in 1 .. j - 1 :
                  approvals[t][k].status = "granted" => grants[t][k] \in {"old", "used"}
            BY <3>1 DEF Asked
          <6>3. QED
            BY <4>2, <6>1, <6>2
        <5>6. QED
          BY <5>4, <5>5
      <4>3. QED
        BY <4>1, <4>2
    <3>5. \A j \in 1 .. n + 1 : \A i \in 1 .. j - 1 : i \in 1 .. n
      BY <2>1
    <3>6. QED
      BY <1>1, <2>5, <3>2, <3>3, <3>4, <3>5 DEF Asked
  <2>11. QED
    BY <2>7, <2>8, <2>9, <2>10 DEF Good, ConsentInv
<1>4. QED
  BY <1>2, <1>3 DEF Ask

\* A step that is stopped or refused before its tool acts.
LEMMA StopsAndRefusalsGood ==
    ASSUME Typed, NEW t \in Task, Good(t), StopDenied(t) \/ HearStop(t) \/ FailRefused(t)
    PROVE  Typed' /\ KeepsOthers(t) /\ Good(t)'
<1>1. CASE StopDenied(t)
  BY <1>1, DoingIs, StopStepGood DEF StopDenied, Before
<1>2. CASE HearStop(t)
  BY <1>2, DoingIs, StopStepGood DEF HearStop, Before, Permitting
<1>3. CASE FailRefused(t)
  <2>1. lock[t] # None /\ Pc(t) = "refused" /\ FailStep(t, "refused", FALSE) /\ "refused" \in Reasons
        /\ Pc(t) \in Executing
    BY <1>3, DoingIs DEF FailRefused, Reasons, Executing
  <2>2. outcomes[t] = <<>> /\ (acted[t] = 0 \/ t \in Idempotent)
    BY <2>1 DEF Good, StepInv, Recording, Acting
  <2>3. QED
    BY <2>1, <2>2, FailStepGood
<1>4. QED
  BY <1>1, <1>2, <1>3

-------------------------------------------------------------------------------
(* The yes, the record, the tool *)

\* A yes that is used for the first time is one more that was.
LEMMA OneMoreSpent ==
    ASSUME NEW given \in [1 .. MaxAsks -> GrantStates], NEW i \in 1 .. MaxAsks, given[i] # "used"
    PROVE  Cardinality(SpentIn([given EXCEPT ![i] = "used"])) = Cardinality(SpentIn(given)) + 1
<1>1. i \notin SpentIn(given) /\ SpentIn([given EXCEPT ![i] = "used"]) = SpentIn(given) \cup {i}
  BY DEF SpentIn
<1>2. QED
  BY <1>1, SpentIsFinite, FS_AddElement

\* The yes is spent, once.
LEMMA SpendGood ==
    ASSUME Typed, NEW t \in Task, Good(t), Spend(t)
    PROVE  Typed' /\ KeepsOthers(t) /\ Good(t)'
<1> DEFINE id == Mine(t).id
<1>1. /\ lock[t] # None /\ Pc(t) = "spend"
      /\ UNCHANGED <<up, crashes, stop, tasks, approvals, policy, results>>
  BY DoingIs DEF Spend
<1>2. /\ acted[t] \in Nat /\ covered \in [Task -> Nat] /\ covered[t] \in Nat
      /\ grants \in [Task -> [1 .. MaxAsks -> GrantStates]] /\ grants[t] \in [1 .. MaxAsks -> GrantStates]
      /\ Cardinality(SpentIn(grants[t])) \in Nat
  BY SpentIsFinite DEF Typed, TypeOK
<1>3. PICK pc \in {"begin", "ask"} :
        /\ Go(t, pc)
        /\ pc = "begin" /\ t \in Asking =>
             \/ /\ id # None /\ grants[t][id] \in {"fresh", "old"}
                /\ grants' = [grants EXCEPT ![t][id] = "used"] /\ UNCHANGED covered
             \/ id = None /\ covered' = [covered EXCEPT ![t] = @ + 1] /\ UNCHANGED grants
        /\ pc = "begin" /\ t \notin Asking => UNCHANGED <<grants, covered>>
        /\ pc = "ask" => /\ UNCHANGED <<grants, covered>>
                         /\ id # None => grants[t][id] = "used"
  BY DEF Spend, Consume
<1>4. pc \in Holding
  BY HoldingNames DEF Permitting
<1> DEFINE new == [Mine(t) EXCEPT !.pc = pc]
<1>5. Turns(t, new) /\ new \in CallState /\ new.pc = pc /\ new.id = id
  BY <1>1, <1>3, <1>4, GoTurns
<1> HIDE DEF new
<1>6. /\ call' \in [Calls -> CallState] /\ lock' \in [Task -> Calls \cup {None}] /\ Locks' /\ Carries'
      /\ Pc(t)' = pc /\ Mine(t)' = new /\ Apart(t)
  BY <1>1, <1>4, <1>5, TurnKeeps
<1>7. id # None => id \in 1 .. MaxAsks
  BY <1>1, TypedFacts DEF CallState
<1>8. StepInv(t)'
  BY <1>1, <1>3, <1>6 DEF Good, StepInv, StepFollows, Recording, Acting, Telling, Failing, Reason, tasks, results,
              Executing, Before, Permitting, Calling, After
<1>9. CASE UNCHANGED <<grants, covered>>
  <2>1. Typed' /\ KeepsOthers(t)
    BY <1>1, <1>6, <1>9 DEF Typed, TypeOK, KeepsOthers, OthersKept, tasks, results
  <2>2. Asked(t)' /\ Permitted(t)'
    BY <1>1, <1>3, <1>5, <1>6, <1>9 DEF Good, ConsentInv, Asked, Permitted, Permitting
  <2>3. Spent(t)'
    <3>1. CASE pc = "ask" \/ t \notin Asking
      BY <1>1, <1>6, <1>9, <3>1 DEF Good, ConsentInv, Spent, AboutToAct, results
    <3>2. CASE pc = "begin" /\ t \in Asking
      <4>1. id # None /\ grants' = [grants EXCEPT ![t][id] = "used"] /\ grants[t][id] # "used"
        BY <1>2, <1>3, <1>9, <3>2
      <4>2. grants'[t][id] = "used"
        BY <1>2, <1>7, <4>1
      <4>3. QED
        BY <1>9, <4>1, <4>2
    <3>3. QED
      BY <3>1, <3>2
  <2>4. QED
    BY <1>8, <2>1, <2>2, <2>3 DEF Good, ConsentInv
<1>10. CASE /\ pc = "begin" /\ id # None /\ grants[t][id] \in {"fresh", "old"}
            /\ grants' = [grants EXCEPT ![t][id] = "used"] /\ UNCHANGED covered
  <2> HIDE DEF id
  <2>1. /\ grants'[t] = [grants[t] EXCEPT ![id] = "used"] /\ \A u \in Task \ {t} : grants'[u] = grants[u]
        /\ grants' \in [Task -> [1 .. MaxAsks -> GrantStates]]
    BY <1>2, <1>7, <1>10 DEF GrantStates
  <2>2. /\ grants'[t][id] = "used" /\ \A i \in 1 .. MaxAsks : i # id => grants'[t][i] = grants[t][i]
    BY <1>2, <1>7, <1>10, <2>1
  <2>3. Typed' /\ KeepsOthers(t)
    BY <1>1, <1>6, <1>10, <2>1 DEF Typed, TypeOK, KeepsOthers, OthersKept, tasks, results
  <2>4. Asked(t)'
    <3>1. \A i \in DOMAIN approvals[t] : i \in 1 .. MaxAsks
      BY ExecutionAssumption DEF Typed, TypeOK
    <3>2. \A j \in DOMAIN approvals[t] : \A i \in 1 .. j - 1 : i \in DOMAIN approvals[t]
      BY DEF Typed, TypeOK
    <3>3. QED
      BY <1>1, <1>7, <1>10, <2>2, <3>1, <3>2 DEF Good, ConsentInv, Asked
  <2>5. Permitted(t)'
    BY <1>1, <1>5, <1>6, <1>10, <2>2 DEF Good, ConsentInv, Permitted, Permitting, id
  <2>6. Spent(t)'
    <3>1. Cardinality(SpentIn(grants'[t])) = Cardinality(SpentIn(grants[t])) + 1
      BY <1>2, <1>7, <1>10, <2>1, OneMoreSpent
    <3>2. t \in Asking => acted[t] + 0 <= Cardinality(SpentIn(grants[t])) + covered[t]
      BY <1>1 DEF Good, ConsentInv, Spent, AboutToAct
    <3>3. t \in Asking => acted[t] + 1 <= Cardinality(SpentIn(grants'[t])) + covered[t]
      BY <1>2, <3>1, <3>2
    <3>4. QED
      BY <1>1, <1>6, <1>10, <3>3 DEF Spent, AboutToAct, results
  <2>7. QED
    BY <1>8, <2>3, <2>4, <2>5, <2>6 DEF Good, ConsentInv
<1>11. CASE pc = "begin" /\ id = None /\ covered' = [covered EXCEPT ![t] = @ + 1] /\ UNCHANGED grants
  <2>1. covered' \in [Task -> Nat] /\ covered'[t] = covered[t] + 1 /\ \A u \in Task \ {t} : covered'[u] = covered[u]
    BY <1>2, <1>11
  <2>2. Typed' /\ KeepsOthers(t)
    BY <1>1, <1>6, <1>11, <2>1 DEF Typed, TypeOK, KeepsOthers, OthersKept, tasks, results
  <2>3. Asked(t)' /\ Permitted(t)'
    BY <1>1, <1>5, <1>6, <1>11 DEF Good, ConsentInv, Asked, Permitted, Permitting
  <2>4. Spent(t)'
    <3>1. t \in Asking => acted[t] + 0 <= Cardinality(SpentIn(grants[t])) + covered[t]
      BY <1>1 DEF Good, ConsentInv, Spent, AboutToAct
    <3>2. t \in Asking => acted[t] + 1 <= Cardinality(SpentIn(grants[t])) + covered'[t]
      BY <1>2, <2>1, <3>1
    <3>3. QED
      BY <1>1, <1>6, <1>11, <3>2 DEF Spent, AboutToAct, results
  <2>5. QED
    BY <1>8, <2>2, <2>3, <2>4 DEF Good, ConsentInv
<1>12. QED
  BY <1>3, <1>9, <1>10, <1>11

\* The STARTED record is written before the call.
LEMMA BeginGood ==
    ASSUME Typed, NEW t \in Task, Good(t), Begin(t)
    PROVE  Typed' /\ KeepsOthers(t) /\ Good(t)'
<1>1. /\ lock[t] # None /\ Pc(t) = "begin"
      /\ UNCHANGED <<up, crashes, stop, tasks, consent, outcomes, audit, acted>>
  BY DoingIs DEF Begin
<1>2. CASE Go(t, "deny") /\ UNCHANGED started
  BY <1>1, <1>2, GivesUpGood DEF Permitting, results
<1>3. CASE /\ Go(t, "call")
           /\ started' = IF t \in Idempotent THEN started ELSE started \cup {t}
  <2>1. t \notin started /\ outcomes[t] = <<>> /\ (t \notin Idempotent => acted[t] = 0) /\ step[t] = "running"
    BY <1>1, HoldingNames DEF Good, StepInv, StepFollows, Recording, Acting, Permitting, Before, Typed, TypeOK
  <2>2. "call" \in Holding
    BY HoldingNames DEF Calling
  <2> DEFINE new == [Mine(t) EXCEPT !.pc = "call"]
  <2>3. Turns(t, new) /\ new \in CallState /\ new.pc = "call" /\ new.id = Mine(t).id
    BY <1>1, <1>3, <2>2, GoTurns
  <2> HIDE DEF new
  <2>4. /\ call' \in [Calls -> CallState] /\ lock' \in [Task -> Calls \cup {None}] /\ Locks' /\ Carries'
        /\ Pc(t)' = "call" /\ Mine(t)' = new /\ Apart(t)
    BY <1>1, <2>2, <2>3, TurnKeeps DEF consent
  <2>5. Typed' /\ KeepsOthers(t)
    BY <1>1, <1>3, <2>4 DEF Typed, TypeOK, KeepsOthers, OthersKept, tasks, consent
  <2>6. StepInv(t)'
    BY <1>1, <1>3, <2>1, <2>4 DEF Good, StepInv, StepFollows, Recording, Acting, Telling, Failing, Reason, tasks,
                Executing, Before, Permitting, Calling, After
  <2>7. ConsentInv(t)'
    BY <1>1, <2>3, <2>4 DEF Good, ConsentInv, Asked, Permitted, Spent, AboutToAct, Permitting, consent
  <2>8. QED
    BY <2>5, <2>6, <2>7 DEF Good
<1>4. QED
  BY <1>2, <1>3 DEF Begin

\* The tool answers: it acted and passed its point, or it did neither.
LEMMA ToolAnswersGood ==
    ASSUME Typed, NEW t \in Task, Good(t), lock[t] # None, Pc(t) \in {"call", "point"},
           NEW made \in Outcome, made.cost <= Worst[t], ToolReturns(t, made),
           made.status = "succeeded" => made.passed,
           IF made.passed THEN acted' = [acted EXCEPT ![t] = @ + 1] ELSE UNCHANGED acted,
           UNCHANGED <<up, crashes, stop, tasks, consent, started, outcomes, audit>>
    PROVE  Typed' /\ KeepsOthers(t) /\ Good(t)'
<1> DEFINE new == [Mine(t) EXCEPT !.pc = "store", !.made = made]
<1>1. Turns(t, new) /\ new \in CallState /\ new.pc = "store" /\ new.made = made /\ new.pc \in Holding
  BY ToolTurns, HoldingNames DEF Calling
<1> HIDE DEF new
<1>2. /\ call' \in [Calls -> CallState] /\ lock' \in [Task -> Calls \cup {None}] /\ Locks' /\ Carries'
      /\ Pc(t)' = "store" /\ Mine(t)' = new /\ Apart(t)
  BY <1>1, TurnKeeps DEF consent
<1>3. acted \in [Task -> Nat] /\ acted[t] \in Nat /\ made.passed \in BOOLEAN
  BY DEF Typed, TypeOK, Outcome
<1>4. /\ acted'[t] = IF made.passed THEN acted[t] + 1 ELSE acted[t]
      /\ acted' \in [Task -> Nat] /\ \A u \in Task \ {t} : acted'[u] = acted[u]
  BY <1>3
<1>5. Typed' /\ KeepsOthers(t)
  BY <1>2, <1>4 DEF Typed, TypeOK, KeepsOthers, OthersKept, tasks, consent
<1>6. /\ step[t] = "running" /\ outcomes[t] = <<>> /\ (t \in started \/ t \in Idempotent)
      /\ (t \in started => t \notin Idempotent)
      /\ (t \notin Idempotent => acted[t] = 0)
  BY HoldingNames DEF Good, StepInv, StepFollows, Recording, Acting, Calling
<1>7. StepFollows(t)' /\ Recording(t)'
  BY <1>1, <1>2, <1>6 DEF Good, StepInv, StepFollows, Recording, tasks, Executing, Before, Permitting, Calling, After
<1>8. Acting(t)'
  BY <1>1, <1>2, <1>3, <1>4, <1>6 DEF Acting, Truthful, tasks
<1>9. Telling(t)' /\ ToldOnce(audit[t])'
  BY <1>2, <1>6 DEF Good, StepInv, Telling, Calling, tasks
<1>10. Failing(t)'
  BY <1>2, <1>6 DEF Good, StepInv, Failing, Reason, tasks
<1>11. Asked(t)' /\ Permitted(t)'
  BY <1>2 DEF Good, ConsentInv, Asked, Permitted, Permitting, consent
<1>12. Spent(t)'
  <2>1. t \in Asking => acted[t] + 1 <= Cardinality(SpentIn(grants[t])) + covered[t]
    BY DEF Good, ConsentInv, Spent, AboutToAct
  <2>2. covered[t] \in Nat /\ Cardinality(SpentIn(grants[t])) \in Nat
    BY SpentIsFinite DEF Typed, TypeOK
  <2>3. t \in Asking => acted'[t] + 0 <= Cardinality(SpentIn(grants[t])) + covered[t]
    BY <1>3, <1>4, <2>1, <2>2
  <2>4. QED
    BY <1>2, <2>3 DEF Spent, AboutToAct, consent
<1>13. QED
  BY <1>5, <1>7, <1>8, <1>9, <1>10, <1>11, <1>12 DEF Good, StepInv, ConsentInv

\* A tool that acts returns an outcome that passed its point, within its worst case.
LEMMA ActReturns ==
    ASSUME NEW t \in Task, Act(t)
    PROVE  \E made \in Outcome : /\ made.cost <= Worst[t] /\ made.passed = TRUE /\ ToolReturns(t, made)
                                 /\ acted' = [acted EXCEPT ![t] = @ + 1]
<1>1. PICK s \in {"succeeded", "failed"}, k \in 0 .. Worst[t] :
        ToolReturns(t, [status |-> s, passed |-> TRUE, cost |-> k])
  BY DEF Act
<1>2. Worst[t] \in Nat
  BY ExecutionAssumption
<1>3. [status |-> s, passed |-> TRUE, cost |-> k] \in Outcome
  BY <1>2 DEF Outcome
<1>4. QED
  BY <1>1, <1>2, <1>3 DEF Act

\* One that heard the stop, or fell over before its point, did not pass it.
LEMMA ToolTurnsBack ==
    ASSUME NEW t \in Task
    PROVE  /\ Stopped \in Outcome /\ Stopped.cost <= Worst[t] /\ ~Stopped.passed /\ Stopped.status # "succeeded"
           /\ \A k \in 0 .. Worst[t] :
                LET made == [status |-> "failed", passed |-> FALSE, cost |-> k] IN
                made \in Outcome /\ made.cost <= Worst[t] /\ ~made.passed /\ made.status # "succeeded"
<1>1. Worst[t] \in Nat
  BY ExecutionAssumption
<1>2. QED
  BY <1>1 DEF Stopped, Outcome

\* The tool is called, or is stopped right before.
LEMMA CallToolGood ==
    ASSUME Typed, NEW t \in Task, Good(t), CallTool(t) \/ ReachPoint(t)
    PROVE  Typed' /\ KeepsOthers(t) /\ Good(t)'
<1>1. /\ lock[t] # None /\ Pc(t) \in {"call", "point"}
      /\ UNCHANGED <<up, crashes, stop, tasks, consent, started, outcomes, audit>>
  BY DoingIs DEF CallTool, ReachPoint
<1>2. CASE ToolReturns(t, Stopped) /\ UNCHANGED acted
  BY <1>1, <1>2, ToolTurnsBack, ToolAnswersGood
<1>3. CASE UNCHANGED acted /\ \E k \in 0 .. Worst[t] : ToolReturns(t, [status |-> "failed", passed |-> FALSE, cost |-> k])
  <2>1. PICK k \in 0 .. Worst[t] : ToolReturns(t, [status |-> "failed", passed |-> FALSE, cost |-> k])
    BY <1>3
  <2> DEFINE made == [status |-> "failed", passed |-> FALSE, cost |-> k]
  <2>2. made \in Outcome /\ made.cost <= Worst[t] /\ ~made.passed /\ made.status # "succeeded" /\ ToolReturns(t, made)
    BY <2>1, ToolTurnsBack
  <2> HIDE DEF made
  <2>3. QED
    BY <1>1, <1>3, <2>2, ToolAnswersGood
<1>4. CASE Act(t)
  <2>1. PICK made \in Outcome : /\ made.cost <= Worst[t] /\ made.passed = TRUE /\ ToolReturns(t, made)
                                /\ acted' = [acted EXCEPT ![t] = @ + 1]
    BY <1>4, ActReturns
  <2>2. QED
    BY <1>1, <2>1, ToolAnswersGood
<1>5. CASE UNCHANGED acted /\ (Go(t, "refused") \/ Go(t, "point")) /\ Pc(t) = "call"
  <2>1. PICK pc \in {"refused", "point"} : Go(t, pc)
    BY <1>5
  <2>2. pc \in Holding
    BY HoldingNames DEF Executing, Calling
  <2> DEFINE new == [Mine(t) EXCEPT !.pc = pc]
  <2>3. Turns(t, new) /\ new \in CallState /\ new.pc = pc /\ new.id = Mine(t).id
    BY <1>1, <2>1, <2>2, GoTurns
  <2> HIDE DEF new
  <2>4. Typed' /\ KeepsOthers(t) /\ Pc(t)' = pc /\ Mine(t)' = new /\ Asked(t)' /\ ToldOnce(audit[t])'
    BY <1>1, <1>5, <2>2, <2>3, TurnWritesNothing DEF results
  <2>5. StepInv(t)'
    BY <1>1, <1>5, <2>4 DEF Good, StepInv, StepFollows, Recording, Acting, Telling, Failing, Reason, tasks,
                Executing, Before, Permitting, Calling, After
  <2>6. Permitted(t)'
    BY <1>1, <1>5, <2>3, <2>4 DEF Good, ConsentInv, Permitted, Permitting, consent
  <2>7. Spent(t)'
    BY <1>1, <1>5, <2>4, SpentKept DEF Good, ConsentInv, AboutToAct, consent
  <2>8. QED
    BY <2>4, <2>5, <2>6, <2>7 DEF Good, ConsentInv
<1>6. QED
  BY <1>2, <1>3, <1>4, <1>5, DoingIs DEF CallTool, ReachPoint

\* The outcome is stored once, after the call.
LEMMA StoreOutcomeGood ==
    ASSUME Typed, NEW t \in Task, Good(t), StoreOutcome(t)
    PROVE  Typed' /\ KeepsOthers(t) /\ Good(t)'
<1> DEFINE made == Mine(t).made
           new == [Mine(t) EXCEPT !.pc = "executed"]
<1>1. /\ lock[t] # None /\ Pc(t) = "store" /\ Go(t, "executed")
      /\ UNCHANGED <<up, crashes, stop, tasks, consent, started, audit, acted>>
      /\ outcomes' = [outcomes EXCEPT ![t] = Append(@, made)]
  BY DoingIs DEF StoreOutcome
<1>2. Turns(t, new) /\ new \in CallState /\ new.pc = "executed" /\ new.pc \in Holding
  BY <1>1, GoTurns, HoldingNames DEF After
<1>3. /\ made \in Outcome /\ made.cost <= Worst[t] /\ Truthful(made, acted[t], t \in Idempotent)
      /\ outcomes[t] = <<>> /\ step[t] = "running" /\ (t \in started \/ t \in Idempotent)
  BY <1>1, HoldingNames DEF Good, StepInv, StepFollows, Recording, Acting, Calling
<1> HIDE DEF made, new
<1>4. outcomes'[t] = <<made>> /\ outcomes' \in [Task -> Seq(Outcome)] /\ \A u \in Task \ {t} : outcomes'[u] = outcomes[u]
  BY <1>1, <1>3 DEF Typed, TypeOK
<1>5. outcomes'[t] # <<>> /\ Len(outcomes'[t]) = 1 /\ outcomes'[t][1] = made
  BY <1>4
<1>6. /\ call' \in [Calls -> CallState] /\ lock' \in [Task -> Calls \cup {None}] /\ Locks' /\ Carries'
      /\ Pc(t)' = "executed" /\ Apart(t)
  BY <1>1, <1>2, TurnKeeps DEF consent
<1>7. Typed' /\ KeepsOthers(t)
  BY <1>1, <1>4, <1>6 DEF Typed, TypeOK, KeepsOthers, OthersKept, tasks, consent
<1>8. StepFollows(t)' /\ Recording(t)' /\ Acting(t)'
  BY <1>1, <1>3, <1>5, <1>6 DEF Good, StepInv, StepFollows, Recording, Acting, tasks,
              Executing, Before, Permitting, Calling, After
<1>9. Telling(t)' /\ Failing(t)' /\ ToldOnce(audit[t])'
  BY <1>1, <1>3, <1>5, <1>6 DEF Good, StepInv, Telling, Failing, Reason, tasks, Calling
<1>10. ConsentInv(t)'
  <2>1. Spent(t)'
    BY <1>1, <1>6, SpentKept DEF Good, ConsentInv, AboutToAct, consent
  <2>2. QED
    BY <1>1, <1>6, <2>1 DEF Good, ConsentInv, Asked, Permitted, Permitting, consent
<1>11. QED
  BY <1>7, <1>8, <1>9, <1>10 DEF Good, StepInv

-------------------------------------------------------------------------------
(* What follows the outcome *)

\* What the audit tells, in the terms of the log.
LEMMA RecordedIsTold ==
    ASSUME NEW t, NEW event, NEW about
    PROVE  Recorded(t, event, about) <=> Told(audit[t], event, about)
BY DEF Recorded, Told

\* What the audit tells, in the terms of the log.
LEMMA VerdictsAreTold ==
    ASSUME NEW t \in Task
    PROVE  /\ "passed" \in Verdicts(t) <=> Told(audit[t], "verified", "passed")
           /\ "failed" \in Verdicts(t) <=> Told(audit[t], "verified", "failed")
           /\ Verdicts(t) = {} <=> ~Told(audit[t], "verified", "passed") /\ ~Told(audit[t], "verified", "failed")
           /\ Verdicts(t) \subseteq {"passed", "failed"}
BY RecordedIsTold DEF Verdicts

\* An event of the step, told where none of its kind was, nor the verdict it comes before.
LEMMA FollowsTheLog ==
    ASSUME Typed, NEW t \in Task, NEW e \in Event, e.event # "granted",
           \A about : ~Told(audit[t], e.event, about),
           e.event = "executed" => \A about : ~Told(audit[t], "verified", about)
    PROVE  \A i \in DOMAIN audit[t] : Follows(audit[t][i], e)
<1> TAKE i \in DOMAIN audit[t]
<1>1. audit[t] \in Seq(Event)
  BY DEF Typed, TypeOK
<1>2. Told(audit[t], audit[t][i].event, audit[t][i].about)
  BY <1>1, NotTold
<1>3. QED
  BY <1>2 DEF Follows

\* The log of a task tells nothing but events.
LEMMA ToldAreEvents ==
    ASSUME Typed, NEW t \in Task, NEW event, NEW about, Told(audit[t], event, about)
    PROVE  [event |-> event, about |-> about] \in Event
BY DEF Told, Typed, TypeOK

\* The events of a log.
LEMMA AboutOfEvents ==
    /\ \A about : [event |-> "executed", about |-> about] \in Event => about \in {"started", "outcome"}
    /\ \A about : [event |-> "verified", about |-> about] \in Event => about \in {"passed", "failed"}
    /\ \A about : [event |-> "step_failed", about |-> about] \in Event => about \in Reasons
<1>1. ASSUME NEW about, [event |-> "executed", about |-> about] \in Event
      PROVE  about \in {"started", "outcome"}
  <2> DEFINE e == [event |-> "executed", about |-> about]
  <2>1. e.event = "executed" /\ e.about = about /\ e \in Event
    BY <1>1
  <2> HIDE DEF e
  <2>2. QED
    BY <2>1 DEF Event
<1>2. ASSUME NEW about, [event |-> "verified", about |-> about] \in Event
      PROVE  about \in {"passed", "failed"}
  <2> DEFINE e == [event |-> "verified", about |-> about]
  <2>1. e.event = "verified" /\ e.about = about /\ e \in Event
    BY <1>2
  <2> HIDE DEF e
  <2>2. QED
    BY <2>1 DEF Event
<1>3. ASSUME NEW about, [event |-> "step_failed", about |-> about] \in Event
      PROVE  about \in Reasons
  <2> DEFINE e == [event |-> "step_failed", about |-> about]
  <2>1. e.event = "step_failed" /\ e.about = about /\ e \in Event
    BY <1>3
  <2> HIDE DEF e
  <2>2. QED
    BY <2>1 DEF Event
<1>4. QED
  BY <1>1, <1>2, <1>3

\* The execution is told once, whoever tells it.
LEMMA RecordExecutionGood ==
    ASSUME Typed, NEW t \in Task, Good(t), RecordExecution(t) \/ Resume(t)
    PROVE  Typed' /\ KeepsOthers(t) /\ Good(t)'
<1> DEFINE e == [event |-> "executed", about |-> "outcome"]
           new == [Mine(t) EXCEPT !.pc = "settle"]
<1>1. /\ lock[t] # None /\ Pc(t) \in {"executed", "resume"} /\ Go(t, "settle")
      /\ UNCHANGED <<up, crashes, stop, tasks, consent, started, outcomes, acted>>
      /\ \/ UNCHANGED audit /\ Told(audit[t], "executed", "outcome")
         \/ audit' = [audit EXCEPT ![t] = Append(@, e)] /\ ~Told(audit[t], "executed", "outcome")
  <2>1. CASE RecordExecution(t)
    <3>1. lock[t] # None /\ Pc(t) = "executed"
      BY <2>1, DoingIs DEF RecordExecution
    <3>2. ~Told(audit[t], "executed", "outcome")
      BY <3>1 DEF Good, StepInv, Telling
    <3>3. QED
      BY <2>1, <3>1, <3>2 DEF RecordExecution, Tell
  <2>2. CASE Resume(t)
    BY <2>2, DoingIs, RecordedIsTold DEF Resume, Tell
  <2>3. QED
    BY <2>1, <2>2
<1>2. Turns(t, new) /\ new \in CallState /\ new.pc = "settle" /\ new.pc \in Holding
  BY <1>1, GoTurns, HoldingNames DEF After
<1>3. outcomes[t] # <<>> /\ step[t] = "running" /\ ~Told(audit[t], "executed", "started")
  BY <1>1, HoldingNames DEF Good, StepInv, StepFollows, Recording, Telling, After
<1> HIDE DEF new
<1>4. /\ Typed' /\ KeepsOthers(t) /\ Pc(t)' = "settle" /\ Asked(t)' /\ ToldOnce(audit[t])'
      /\ Told(audit'[t], "executed", "outcome")
      /\ \A event, about : event # "executed" \/ about # "outcome"
            => (Told(audit'[t], event, about) <=> Told(audit[t], event, about))
  <2>1. CASE UNCHANGED audit /\ Told(audit[t], "executed", "outcome")
    BY <1>1, <1>2, <2>1, TurnWritesNothing DEF results
  <2>2. CASE audit' = [audit EXCEPT ![t] = Append(@, e)] /\ ~Told(audit[t], "executed", "outcome")
    <3>1. e \in Event /\ e.event = "executed"
      BY DEF Event
    <3>2. \A about : ~Told(audit[t], "executed", about)
      BY <1>3, <2>2, ToldAreEvents, AboutOfEvents
    <3>3. \A about : ~Told(audit[t], "verified", about)
      BY <2>2, ToldAreEvents, AboutOfEvents DEF Good, StepInv, Telling
    <3>4. \A i \in DOMAIN audit[t] : Follows(audit[t][i], e)
      BY <3>1, <3>2, <3>3, FollowsTheLog
    <3>5. QED
      BY <1>1, <1>2, <2>2, <3>1, <3>4, TellTurns
  <2>3. QED
    BY <1>1, <2>1, <2>2
<1>5. StepInv(t)'
  <2>1. StepFollows(t)' /\ Recording(t)' /\ Acting(t)'
    BY <1>1, <1>3, <1>4 DEF Good, StepInv, StepFollows, Recording, Acting, tasks, Executing, Before, Permitting, Calling, After
  <2>2. Telling(t)'
    BY <1>1, <1>3, <1>4 DEF Good, StepInv, Telling, tasks, Calling
  <2>3. Failing(t)'
    BY <1>1, <1>3, <1>4 DEF Good, StepInv, Failing, Reason, tasks
  <2>4. QED
    BY <1>4, <2>1, <2>2, <2>3 DEF StepInv
<1>6. ConsentInv(t)'
  <2>1. Spent(t)'
    BY <1>1, <1>4, SpentKept DEF Good, ConsentInv, AboutToAct, consent
  <2>2. QED
    BY <1>1, <1>4, <2>1 DEF Good, ConsentInv, Permitted, Permitting, consent
<1>7. QED
  BY <1>4, <1>5, <1>6 DEF Good

\* A verdict is told once, on an outcome that succeeded.
LEMMA VerifyGood ==
    ASSUME Typed, NEW t \in Task, Good(t), Verify(t)
    PROVE  Typed' /\ KeepsOthers(t) /\ Good(t)'
<1> DEFINE new == [Mine(t) EXCEPT !.pc = "close_step"]
<1>1. /\ lock[t] # None /\ Pc(t) = "settle" /\ Go(t, "close_step") /\ outcomes[t][1].status = "succeeded"
      /\ UNCHANGED <<up, crashes, stop, tasks, consent, started, outcomes, acted>>
  BY DoingIs DEF Verify, Succeeded
<1>2. Turns(t, new) /\ new \in CallState /\ new.pc = "close_step" /\ new.pc \in Holding
  BY <1>1, GoTurns, HoldingNames DEF After
<1>3. outcomes[t] # <<>> /\ step[t] = "running" /\ Told(audit[t], "executed", "outcome")
  BY <1>1, HoldingNames DEF Good, StepInv, StepFollows, Recording, Telling, After
<1> HIDE DEF new
<1>4. /\ Typed' /\ KeepsOthers(t) /\ Pc(t)' = "close_step" /\ Asked(t)' /\ ToldOnce(audit[t])'
      /\ Told(audit'[t], "verified", "passed") \/ Told(audit'[t], "verified", "failed")
      /\ \A event, about : event # "verified"
            => (Told(audit'[t], event, about) <=> Told(audit[t], event, about))
  <2>1. CASE Verdicts(t) # {} /\ UNCHANGED audit
    BY <1>1, <1>2, <2>1, TurnWritesNothing, VerdictsAreTold DEF results
  <2>2. CASE Verdicts(t) = {} /\ \E v \in {"passed", "failed"} : Tell(t, "verified", v)
    <3>1. PICK v \in {"passed", "failed"} : audit' = [audit EXCEPT ![t] = Append(@, [event |-> "verified", about |-> v])]
      BY <2>2 DEF Tell
    <3> DEFINE e == [event |-> "verified", about |-> v]
    <3>2. e \in Event /\ e.event = "verified" /\ e.about = v
      BY DEF Event
    <3>3. \A about : ~Told(audit[t], "verified", about)
      BY <2>2, VerdictsAreTold, ToldAreEvents, AboutOfEvents
    <3>4. audit' = [audit EXCEPT ![t] = Append(@, e)]
      BY <3>1
    <3>5. \A event, about : e = [event |-> event, about |-> about] => event = "verified"
      OBVIOUS
    <3>6. e = [event |-> "verified", about |-> v]
      OBVIOUS
    <3> HIDE DEF e
    <3>7. \A i \in DOMAIN audit[t] : Follows(audit[t][i], e)
      BY <3>2, <3>3, FollowsTheLog
    <3>8. /\ Typed' /\ KeepsOthers(t) /\ Pc(t)' = "close_step" /\ Asked(t)' /\ ToldOnce(audit[t])'
          /\ \A event, about : Told(audit'[t], event, about)
                <=> Told(audit[t], event, about) \/ e = [event |-> event, about |-> about]
      BY <1>1, <1>2, <3>2, <3>4, <3>7, TellTurns
    <3>9. Told(audit'[t], "verified", v)
      BY <3>6, <3>8
    <3>10. QED
      BY <3>5, <3>8, <3>9
  <2>3. QED
    BY <2>1, <2>2 DEF Verify
<1>5. StepInv(t)'
  <2>1. StepFollows(t)' /\ Recording(t)' /\ Acting(t)'
    BY <1>1, <1>3, <1>4 DEF Good, StepInv, StepFollows, Recording, Acting, tasks, Executing, Before, Permitting, Calling, After
  <2>2. Telling(t)'
    BY <1>1, <1>3, <1>4 DEF Good, StepInv, Telling, tasks, Calling
  <2>3. Failing(t)'
    BY <1>1, <1>3, <1>4 DEF Good, StepInv, Failing, Reason, tasks
  <2>4. QED
    BY <1>4, <2>1, <2>2, <2>3 DEF StepInv
<1>6. ConsentInv(t)'
  <2>1. Spent(t)'
    BY <1>1, <1>4, SpentKept DEF Good, ConsentInv, AboutToAct, consent
  <2>2. QED
    BY <1>1, <1>4, <2>1 DEF Good, ConsentInv, Permitted, Permitting, consent
<1>7. QED
  BY <1>4, <1>5, <1>6 DEF Good

\* A call that was started and never reported is told as such.
LEMMA RecordInterruptedGood ==
    ASSUME Typed, NEW t \in Task, Good(t), RecordInterrupted(t)
    PROVE  Typed' /\ KeepsOthers(t) /\ Good(t)'
<1> DEFINE e == [event |-> "executed", about |-> "started"]
           new == [Mine(t) EXCEPT !.pc = "lost"]
<1>1. /\ lock[t] # None /\ Pc(t) = "interrupted" /\ Go(t, "lost")
      /\ UNCHANGED <<up, crashes, stop, tasks, consent, started, outcomes, acted>>
      /\ \/ UNCHANGED audit /\ Told(audit[t], "executed", "started")
         \/ audit' = [audit EXCEPT ![t] = Append(@, e)] /\ ~Told(audit[t], "executed", "started")
  BY DoingIs, RecordedIsTold DEF RecordInterrupted, Tell
<1>2. Turns(t, new) /\ new \in CallState /\ new.pc = "lost" /\ new.pc \in Holding
  BY <1>1, GoTurns, HoldingNames DEF Executing
<1>3. outcomes[t] = <<>> /\ step[t] = "running" /\ ~Told(audit[t], "executed", "outcome") /\ t \in started
  BY <1>1, HoldingNames DEF Good, StepInv, StepFollows, Recording, Telling, Executing
<1> HIDE DEF new
<1>4. /\ Typed' /\ KeepsOthers(t) /\ Pc(t)' = "lost" /\ Asked(t)' /\ ToldOnce(audit[t])'
      /\ \A event, about : event # "executed" \/ about # "started"
            => (Told(audit'[t], event, about) <=> Told(audit[t], event, about))
  <2>1. CASE UNCHANGED audit /\ Told(audit[t], "executed", "started")
    BY <1>1, <1>2, <2>1, TurnWritesNothing DEF results
  <2>2. CASE audit' = [audit EXCEPT ![t] = Append(@, e)] /\ ~Told(audit[t], "executed", "started")
    <3>1. e \in Event /\ e.event = "executed"
      BY DEF Event
    <3>2. \A about : ~Told(audit[t], "executed", about)
      BY <1>3, <2>2, ToldAreEvents, AboutOfEvents
    <3>3. \A about : ~Told(audit[t], "verified", about)
      BY <1>3, ToldAreEvents, AboutOfEvents DEF Good, StepInv, Telling
    <3>4. \A i \in DOMAIN audit[t] : Follows(audit[t][i], e)
      BY <3>1, <3>2, <3>3, FollowsTheLog
    <3>5. QED
      BY <1>1, <1>2, <2>2, <3>1, <3>4, TellTurns
  <2>3. QED
    BY <1>1, <2>1, <2>2
<1>5. StepInv(t)'
  <2>1. StepFollows(t)' /\ Recording(t)' /\ Acting(t)'
    BY <1>1, <1>3, <1>4 DEF Good, StepInv, StepFollows, Recording, Acting, tasks, Executing, Before, Permitting, Calling, After
  <2>2. Telling(t)'
    BY <1>1, <1>3, <1>4 DEF Good, StepInv, Telling, tasks, Calling
  <2>3. Failing(t)'
    BY <1>1, <1>3, <1>4 DEF Good, StepInv, Failing, Reason, tasks
  <2>4. QED
    BY <1>4, <2>1, <2>2, <2>3 DEF StepInv
<1>6. ConsentInv(t)'
  <2>1. Spent(t)'
    BY <1>1, <1>4, SpentKept DEF Good, ConsentInv, AboutToAct, consent
  <2>2. QED
    BY <1>1, <1>4, <2>1 DEF Good, ConsentInv, Permitted, Permitting, consent
<1>7. QED
  BY <1>4, <1>5, <1>6 DEF Good

\* The failure of a step is told once.
LEMMA TellFailureGood ==
    ASSUME Typed, NEW t \in Task, Good(t), TellFailure(t)
    PROVE  Typed' /\ KeepsOthers(t) /\ Good(t)'
<1> DEFINE r == Mine(t).said
           e == [event |-> "step_failed", about |-> r]
           new == [Mine(t) EXCEPT !.pc = "walk"]
<1>1. /\ lock[t] # None /\ Pc(t) = "tell" /\ Go(t, "walk")
      /\ UNCHANGED <<up, crashes, stop, tasks, consent, started, outcomes, acted>>
      /\ audit' = [audit EXCEPT ![t] = Append(@, e)]
  BY DoingIs DEF TellFailure, Tell
<1>2. Turns(t, new) /\ new \in CallState /\ new.pc = "walk" /\ new.pc \in Holding
  BY <1>1, GoTurns, HoldingNames DEF Walking
<1>3. Reason(t, r) /\ r \in Reasons /\ \A q \in Reasons : ~Told(audit[t], "step_failed", q)
  BY <1>1 DEF Good, StepInv, Failing, Reason
<1>4. e \in Event /\ e.event = "step_failed" /\ e.about = r
  BY <1>3 DEF Event
<1>5. \A event, about : e = [event |-> event, about |-> about] => event = "step_failed" /\ about = r
  OBVIOUS
<1> HIDE DEF new, e, r
<1>6. \A about : ~Told(audit[t], "step_failed", about)
  BY <1>3, ToldAreEvents, AboutOfEvents
<1>7. \A i \in DOMAIN audit[t] : Follows(audit[t][i], e)
  BY <1>4, <1>6, FollowsTheLog
<1>8. /\ Typed' /\ KeepsOthers(t) /\ Pc(t)' = "walk" /\ Asked(t)' /\ ToldOnce(audit[t])'
      /\ \A event, about : Told(audit'[t], event, about)
            <=> Told(audit[t], event, about) \/ e = [event |-> event, about |-> about]
  BY <1>1, <1>2, <1>4, <1>7, TellTurns
<1>9. /\ \A event, about : event # "step_failed"
            => (Told(audit'[t], event, about) <=> Told(audit[t], event, about))
      /\ \A q \in Reasons : Told(audit'[t], "step_failed", q) => q = r
  BY <1>5, <1>6, <1>8
<1>10. StepInv(t)'
  <2>1. StepFollows(t)' /\ Recording(t)' /\ Acting(t)'
    BY <1>1, <1>8 DEF Good, StepInv, StepFollows, Recording, Acting, tasks, Executing, Before, Permitting, Calling, After
  <2>2. Telling(t)'
    BY <1>1, <1>8, <1>9 DEF Good, StepInv, Telling, tasks, Calling
  <2>3. Failing(t)'
    BY <1>1, <1>3, <1>8, <1>9 DEF Good, StepInv, Failing, Reason, tasks
  <2>4. QED
    BY <1>8, <2>1, <2>2, <2>3 DEF StepInv
<1>11. ConsentInv(t)'
  <2>1. Spent(t)'
    BY <1>1, <1>8, SpentKept DEF Good, ConsentInv, AboutToAct, consent
  <2>2. QED
    BY <1>1, <1>8, <2>1 DEF Good, ConsentInv, Permitted, Permitting, consent
<1>12. QED
  BY <1>8, <1>10, <1>11 DEF Good

-------------------------------------------------------------------------------
(* The close of a step *)

\* The failures of a step.
LEMMA FailuresGood ==
    ASSUME Typed, NEW t \in Task, Good(t), FailExecuted(t) \/ FailUnverified(t) \/ FailInterrupted(t)
    PROVE  Typed' /\ KeepsOthers(t) /\ Good(t)'
<1> USE DEF Reasons
<1>1. CASE FailExecuted(t)
  <2> DEFINE passed == outcomes[t][1].passed
  <2>1. lock[t] # None /\ Pc(t) = "settle" /\ FailStep(t, "tool", passed)
    BY <1>1, DoingIs DEF FailExecuted
  <2>2. outcomes[t] # <<>> /\ Truthful(outcomes[t][1], acted[t], t \in Idempotent) /\ Pc(t) \in Executing
    BY <2>1, HoldingNames DEF Good, StepInv, Recording, Acting, After
  <2>3. passed \in BOOLEAN /\ acted[t] \in Nat
    <3>1. outcomes[t] \in Seq(Outcome) /\ acted[t] \in Nat
      BY DEF Typed, TypeOK
    <3>2. outcomes[t][1] \in Outcome
      BY <2>2, <3>1
    <3>3. QED
      BY <3>1, <3>2 DEF Outcome
  <2>4. /\ ~passed => acted[t] = 0 \/ t \in Idempotent
        /\ passed => acted[t] > 0
    BY <2>2, <2>3 DEF Truthful
  <2> HIDE DEF passed
  <2>5. ~passed => outcomes[t] = <<>> \/ ~outcomes[t][1].passed
    BY DEF passed
  <2>6. QED
    BY <2>1, <2>2, <2>3, <2>4, <2>5, FailStepGood
<1>2. CASE FailUnverified(t)
  <2>1. lock[t] # None /\ Pc(t) = "close_step" /\ FailStep(t, "verification", TRUE)
    BY <1>2, DoingIs DEF FailUnverified
  <2>2. acted[t] > 0 /\ Pc(t) \in Executing
    BY <2>1, HoldingNames DEF Good, StepInv, Recording, Acting, Telling, Truthful, After
  <2>3. QED
    BY <2>1, <2>2, FailStepGood
<1>3. CASE FailInterrupted(t)
  <2>1. lock[t] # None /\ Pc(t) = "lost" /\ FailStep(t, "interrupted", TRUE)
    BY <1>3, DoingIs DEF FailInterrupted
  <2>2. t \in started /\ outcomes[t] = <<>> /\ Pc(t) \in Executing
    BY <2>1 DEF Good, StepInv, Recording, Executing
  <2>3. QED
    BY <2>1, <2>2, FailStepGood
<1>4. QED
  BY <1>1, <1>2, <1>3

\* A step completes on a verification that passed.
LEMMA CompleteStepGood ==
    ASSUME Typed, NEW t \in Task, Good(t), CompleteStep(t)
    PROVE  Typed' /\ KeepsOthers(t) /\ Good(t)'
<1> DEFINE new == [Mine(t) EXCEPT !.pc = "walk"]
<1>1. /\ lock[t] # None /\ Pc(t) = "close_step" /\ Go(t, "walk") /\ Told(audit[t], "verified", "passed")
      /\ SetStep(t, "completed") /\ UNCHANGED <<up, crashes, stop, task, cut, consent, results>>
  BY DoingIs, VerdictsAreTold DEF CompleteStep
<1>2. Turns(t, new) /\ new \in CallState /\ new.pc = "walk" /\ new.pc \in Holding
  BY <1>1, GoTurns, HoldingNames DEF Walking
<1> HIDE DEF new
<1>3. "walk" \notin Permitting \cup {"call", "point"} /\ "completed" \in StepStates
  BY DEF Permitting, StepStates
<1>4. /\ Typed' /\ KeepsOthers(t) /\ Pc(t)' = "walk" /\ step'[t] = "completed"
      /\ ConsentInv(t)' /\ ToldOnce(audit[t])'
  BY <1>1, <1>2, <1>3, WriteOfStep
<1>5. step[t] = "running"
  BY <1>1, HoldingNames DEF Good, StepInv, StepFollows, After
<1>6. StepInv(t)'
  BY <1>1, <1>4, <1>5 DEF Good, StepInv, StepFollows, Recording, Acting, Telling, Failing, Reason,
              results, Executing, Before, Permitting, Calling, After
<1>7. QED
  BY <1>4, <1>6 DEF Good

\* The step is written and the lock let go, in one operation.
LEMMA CancelAndRelease ==
    ASSUME Typed, NEW t \in Task, Good(t), lock[t] # None, Pc(t) = "close", step[t] = "running",
           outcomes[t] = <<>>, t \notin started, SetStep(t, "cancelled"), Release(t),
           UNCHANGED <<up, crashes, stop, task, cut, consent, results>>
    PROVE  Typed' /\ KeepsOthers(t) /\ Good(t)'
<1>1. /\ call' \in [Calls -> CallState] /\ lock' \in [Task -> Calls \cup {None}] /\ Locks'
      /\ Pc(t)' = "idle" /\ \A c \in Calls : call'[c].pc = "respond" => call'[c] = call[c]
      /\ Apart(t)
  BY HolderReturns
<1>2. /\ step' \in [Task -> StepStates] /\ step'[t] = "cancelled" /\ \A u \in Task \ {t} : step'[u] = step[u]
  BY DEF Typed, TypeOK, SetStep, StepStates
<1>3. TypeOK' /\ Carries'
  BY <1>1, <1>2, TypedFacts DEF Typed, TypeOK, Carries, consent, results
<1>4. KeepsOthers(t)
  BY <1>1, <1>2 DEF KeepsOthers, OthersKept, consent, results
<1>5. task[t] \in Ended /\ (acted[t] = 0 \/ t \in Idempotent)
  BY DEF Good, StepInv, StepFollows, Acting, Typed, TypeOK
<1>6. StepInv(t)'
  BY <1>1, <1>2, <1>5 DEF Good, StepInv, StepFollows, Recording, Acting, Telling, Failing, Reason, results,
              Executing, Before, Permitting, Calling, After
<1>7. ConsentInv(t)'
  <2>1. Spent(t)'
    BY <1>1, SpentKept DEF Good, ConsentInv, AboutToAct, consent, results
  <2>2. QED
    BY <1>1, <2>1 DEF Good, ConsentInv, Asked, Permitted, Permitting, consent
<1>8. QED
  BY <1>1, <1>3, <1>4, <1>6, <1>7 DEF Good, Typed

\* The step an ended task left running is closed from what is stored.
LEMMA CloseOpenStepGood ==
    ASSUME Typed, NEW t \in Task, Good(t), CloseOpenStep(t)
    PROVE  Typed' /\ KeepsOthers(t) /\ Good(t)'
<1>1. /\ lock[t] # None /\ Pc(t) = "close"
      /\ UNCHANGED <<up, crashes, stop, task, cut, consent, results>>
  BY DoingIs DEF CloseOpenStep
<1>2. CASE Release(t) /\ UNCHANGED step
  BY <1>1, <1>2, ReleaseGood DEF tasks
<1>3. CASE /\ step[t] = "running" /\ outcomes[t] = <<>> /\ t \notin started
           /\ SetStep(t, "cancelled") /\ Release(t)
  BY <1>1, <1>3, CancelAndRelease
<1>4. CASE /\ step[t] = "running" /\ UNCHANGED step
           /\ \/ outcomes[t] # <<>> /\ Go(t, "resume")
              \/ outcomes[t] = <<>> /\ t \in started /\ Go(t, "interrupted")
  <2>1. PICK pc \in {"resume", "interrupted"} :
          /\ Go(t, pc)
          /\ pc = "resume" => outcomes[t] # <<>>
          /\ pc = "interrupted" => outcomes[t] = <<>> /\ t \in started
    BY <1>4
  <2>2. pc \in Holding
    BY HoldingNames DEF Executing, After
  <2> DEFINE new == [Mine(t) EXCEPT !.pc = pc]
  <2>3. Turns(t, new) /\ new \in CallState /\ new.pc = pc
    BY <1>1, <2>1, <2>2, GoTurns
  <2> HIDE DEF new
  <2>4. Typed' /\ KeepsOthers(t) /\ Pc(t)' = pc /\ Mine(t)' = new /\ Asked(t)' /\ ToldOnce(audit[t])'
    BY <1>1, <1>4, <2>2, <2>3, TurnWritesNothing DEF tasks
  <2>5. StepInv(t)'
    BY <1>1, <1>4, <2>1, <2>4 DEF Good, StepInv, StepFollows, Recording, Acting, Telling, Failing, Reason, results,
                Executing, Before, Permitting, Calling, After
  <2>6. ConsentInv(t)'
    <3>1. Spent(t)'
      BY <1>1, <2>4, SpentKept DEF Good, ConsentInv, AboutToAct, consent, results
    <3>2. QED
      BY <1>1, <2>4, <3>1 DEF Good, ConsentInv, Permitted, Permitting, consent
  <2>7. QED
    BY <2>4, <2>5, <2>6 DEF Good
<1>5. QED
  BY <1>1, <1>2, <1>3, <1>4 DEF CloseOpenStep

\* Every step of the holder keeps what is known of its task.
LEMMA HolderGood ==
    ASSUME Typed, NEW t \in Task, Good(t), Holder(t)
    PROVE  Typed' /\ KeepsOthers(t) /\ Good(t)'
BY RunWalksGood, WalkWritesGood, StartStepGood, RunLeavesGood, ExecuteReadsGood, ResolveGood, StoreGrantGood,
   RecordGrantGood, DecideGood, AskGood, StopsAndRefusalsGood, SpendGood, BeginGood, CallToolGood,
   StoreOutcomeGood, RecordExecutionGood, FailuresGood, VerifyGood, CompleteStepGood, RecordInterruptedGood,
   TellFailureGood, CloseOpenStepGood DEF Holder

-------------------------------------------------------------------------------
(* The calls that do not hold the lock *)

\* A call that holds no lock goes on, or begins, and still holds none.
LEMMA LooseGoes ==
    ASSUME Typed, NEW c \in Calls, call[c].pc \in Loose, NEW new \in CallState, new.pc \in Loose,
           call' = [call EXCEPT ![c] = new], lock' = lock
    PROVE  /\ call' \in [Calls -> CallState] /\ lock' \in [Task -> Calls \cup {None}] /\ Locks'
           /\ call'[c] = new /\ \A d \in Calls \ {c} : call'[d] = call[d]
           /\ \A u \in Task : /\ lock'[u] = lock[u] /\ Pc(u)' = Pc(u)
                              /\ lock[u] # None => Mine(u)' = Mine(u)
<1>1. Loose \cap Holding = {}
  BY DEF Loose, Holding, Walking, Executing, Before, Permitting, Calling, After
<1>2. call' \in [Calls -> CallState] /\ lock' \in [Task -> Calls \cup {None}]
  BY TypedFacts
<1>3. \A d \in Calls : call'[d] = IF d = c THEN new ELSE call[d]
  BY TypedFacts
<1>4. \A u \in Task : lock[u] # None => lock[u] \in Calls /\ lock[u] # c
  BY <1>1, TypedFacts DEF Typed, Locks
<1>5. Locks'
  BY <1>1, <1>3, <1>4, TypedFacts DEF Locks, Typed
<1>6. QED
  BY <1>2, <1>3, <1>4, <1>5 DEF Pc, Mine

\* A call takes the lock of its task.
LEMMA LockIsTaken ==
    ASSUME Typed, NEW c \in Calls, call[c].pc \in Loose, lock[c.of] = None,
           NEW new \in CallState, new.pc \in Holding,
           call' = [call EXCEPT ![c] = new], lock' = [lock EXCEPT ![c.of] = c]
    PROVE  /\ call' \in [Calls -> CallState] /\ lock' \in [Task -> Calls \cup {None}] /\ Locks'
           /\ call'[c] = new /\ \A d \in Calls \ {c} : call'[d] = call[d]
           /\ Pc(c.of)' = new.pc /\ Mine(c.of)' = new /\ lock'[c.of] # None
           /\ OthersHold(c.of)
<1>1. Loose \cap Holding = {}
  BY DEF Loose, Holding, Walking, Executing, Before, Permitting, Calling, After
<1>2. c.of \in Task /\ c # None
  BY TypedFacts
<1>3. call' \in [Calls -> CallState] /\ lock' \in [Task -> Calls \cup {None}]
  BY <1>2, TypedFacts
<1>4. \A d \in Calls : call'[d] = IF d = c THEN new ELSE call[d]
  BY TypedFacts
<1>5. lock'[c.of] = c /\ \A u \in Task \ {c.of} : lock'[u] = lock[u]
  BY <1>2, TypedFacts
<1>6. \A u \in Task : lock[u] # None => lock[u] \in Calls /\ lock[u] # c
  BY <1>1, TypedFacts DEF Typed, Locks
<1>7. Locks'
  <2>1. ASSUME NEW u \in Task, lock'[u] # None
        PROVE  lock'[u].of = u /\ call'[lock'[u]].pc \in Holding
    BY <2>1, <1>4, <1>5, <1>6 DEF Typed, Locks
  <2>2. ASSUME NEW d \in Calls
        PROVE  /\ call'[d].pc \in Loose \cup Holding
               /\ call'[d].pc \in Holding => lock'[d.of] = d
    <3>1. CASE d = c
      BY <1>4, <1>5, <3>1
    <3>2. CASE d # c
      <4>1. call'[d] = call[d]
        BY <1>4, <3>2
      <4>2. call[d].pc \in Loose \cup Holding /\ (call[d].pc \in Holding => lock[d.of] = d)
        BY DEF Typed, Locks
      <4>3. ASSUME call[d].pc \in Holding
            PROVE  lock'[d.of] = d
        <5>1. lock[d.of] = d /\ d # None /\ d.of \in Task
          BY <4>2, <4>3, TypedFacts
        <5>2. d.of # c.of
          BY <5>1
        <5>3. QED
          BY <1>5, <5>1, <5>2
      <4>4. QED
        BY <4>1, <4>2, <4>3
    <3>3. QED
      BY <3>1, <3>2
  <2>3. QED
    BY <2>1, <2>2 DEF Locks
<1>8. Pc(c.of)' = new.pc /\ Mine(c.of)' = new /\ lock'[c.of] # None
  BY <1>2, <1>4, <1>5 DEF Pc, Mine
<1>9. OthersHold(c.of)
  BY <1>4, <1>5, <1>6, TypedFacts DEF OthersHold, Pc, Mine
<1>10. QED
  BY <1>3, <1>4, <1>7, <1>8, <1>9

\* The states a call that holds no lock, or takes one, can be in.
LEMMA NewStates ==
    /\ \A c \in Calls, pc \in Loose \cup Holding : call \in [Calls -> CallState] =>
         LET new == [call[c] EXCEPT !.pc = pc] IN
         /\ new \in CallState /\ new.pc = pc /\ new.id = call[c].id /\ new.said = call[c].said
         /\ [call EXCEPT ![c].pc = pc] = [call EXCEPT ![c] = new]
    /\ Idle \in CallState /\ Idle.pc = "idle"
    /\ "idle" \in Loose /\ "respond" \in Loose /\ "move" \in Loose /\ "signal" \in Loose /\ "free" \in Loose
<1>1. "idle" \in Loose /\ "respond" \in Loose /\ "move" \in Loose /\ "signal" \in Loose /\ "free" \in Loose
  BY DEF Loose
<1>2. Idle \in CallState /\ Idle.pc = "idle"
  BY <1>1 DEF Idle, CallState
<1>3. ASSUME NEW c \in Calls, NEW pc \in Loose \cup Holding, call \in [Calls -> CallState]
      PROVE  LET new == [call[c] EXCEPT !.pc = pc] IN
             /\ new \in CallState /\ new.pc = pc /\ new.id = call[c].id /\ new.said = call[c].said
             /\ [call EXCEPT ![c].pc = pc] = [call EXCEPT ![c] = new]
  BY <1>3 DEF CallState
<1>4. QED
  BY <1>1, <1>2, <1>3

\* A step on one task that leaves every other as it was.
LEMMA OneTaskMoves ==
    ASSUME IInv, NEW t \in Task, Typed', Closers', OthersHold(t), OthersKept(t), up' = up,
           \A c \in Calls : c.of # t => call'[c] = call[c] \/ call[c].pc \notin {"signal", "free"},
           Good(t)', Closing(t)'
    PROVE  IInv'
<1>1. ASSUME NEW u \in Task \ {t}
      PROVE  Good(u)'
  BY OthersStayGood DEF IInv, Good
<1>2. ASSUME NEW u \in Task \ {t}
      PROVE  Closing(u)'
  <2>1. task'[u] = task[u] /\ step'[u] = step[u] /\ lock'[u] = lock[u]
    BY DEF OthersKept, OthersHold
  <2>2. Closing(u)
    BY DEF IInv
  <2>3. ASSUME NEW c \in Calls, c.of = u, call[c].pc \in {"signal", "free"}
        PROVE  call'[c].pc \in {"signal", "free"}
    BY <2>3
  <2>4. QED
    BY <2>1, <2>2, <2>3 DEF Closing
<1>3. \A u \in Task : Good(u)' /\ Closing(u)'
  BY <1>1, <1>2
<1>4. QED
  BY <1>3 DEF IInv, Good

-------------------------------------------------------------------------------
(* A run begins, a stop, an answer *)

\* Each of the other steps of the Core keeps the invariant: a run takes the lock.
LEMMA RunStartsKeeps ==
    ASSUME IInv, NEW t \in Task, RunStarts(t)
    PROVE  IInv'
<1> DEFINE c == RunOf(t)
           new == [call[c] EXCEPT !.pc = "walk"]
<1>1. Typed /\ Closers /\ Good(t)
  BY DEF IInv, Good
<1>2. c \in Calls /\ c.of = t
  BY DEF Calls, RunOf
<1>3. /\ lock[t] = None /\ call[c].pc \in Loose /\ call[c].pc = "idle"
      /\ call' = [call EXCEPT ![c] = new] /\ lock' = [lock EXCEPT ![t] = c] /\ new \in CallState /\ new.pc = "walk"
      /\ UNCHANGED <<up, crashes, stop, tasks, consent, results>>
  <2>1. "walk" \in Loose \cup Holding /\ call \in [Calls -> CallState]
    BY <1>1, HoldingNames, TypedFacts DEF Walking
  <2>2. lock[t] = None /\ call[c] = Idle /\ call' = [call EXCEPT ![c].pc = "walk"] /\ lock' = [lock EXCEPT ![t] = c]
        /\ UNCHANGED <<up, crashes, stop, tasks, consent, results>>
    BY DEF RunStarts
  <2>3. QED
    BY <1>2, <2>1, <2>2, NewStates
<1> HIDE DEF new, c
<1>4. new.pc \in Holding
  BY <1>3, HoldingNames DEF Walking
<1>5. /\ call' \in [Calls -> CallState] /\ lock' \in [Task -> Calls \cup {None}] /\ Locks'
      /\ call'[c] = new /\ \A d \in Calls \ {c} : call'[d] = call[d]
      /\ Pc(t)' = "walk" /\ Mine(t)' = new /\ lock'[t] # None
      /\ OthersHold(t)
  BY <1>1, <1>2, <1>3, <1>4, LockIsTaken
<1>6. Typed' /\ Closers' /\ OthersKept(t)
  BY <1>1, <1>3, <1>5 DEF Typed, TypeOK, Carries, Closers, OthersKept, tasks, consent, results
<1>7. Pc(t) = "idle"
  BY <1>3 DEF Pc
<1>8. StepInv(t)'
  BY <1>1, <1>3, <1>5, <1>7 DEF Good, StepInv, StepFollows, Recording, Acting, Telling, Failing, Reason, tasks, results,
              Executing, Before, Permitting, Calling, After
<1>9. ConsentInv(t)'
  BY <1>1, <1>3, <1>5, <1>7 DEF Good, ConsentInv, Asked, Permitted, Spent, AboutToAct, Permitting, consent, results
<1>10. Closing(t)'
  BY <1>5 DEF Closing
<1>11. QED
  BY <1>2, <1>3, <1>5, <1>6, <1>8, <1>9, <1>10, OneTaskMoves DEF Good

\* A stop is written without the lock.
LEMMA StopTaskKeeps ==
    ASSUME IInv, NEW t \in Task, StopTask(t)
    PROVE  IInv'
<1> DEFINE c == StopOf(t)
           new == [call[c] EXCEPT !.pc = "signal"]
<1>1. Typed /\ Closers /\ Good(t)
  BY DEF IInv, Good
<1>2. c \in Calls /\ c.of = t
  BY DEF Calls, StopOf
<1>3. /\ call[c].pc \in Loose
      /\ call' = [call EXCEPT ![c] = new] /\ lock' = lock /\ new \in CallState /\ new.pc = "signal" /\ new.pc \in Loose
      /\ task' = [task EXCEPT ![t] = "cancelled"] /\ task[t] \notin Ended
      /\ cut' = IF step[t] = "running" THEN cut \cup {t} ELSE cut
      /\ UNCHANGED <<up, crashes, stop, lock, step, consent, results>>
  <2>1. "signal" \in Loose \cup Holding /\ call \in [Calls -> CallState]
    BY <1>1, NewStates, TypedFacts
  <2>2. call[c] = Idle /\ call' = [call EXCEPT ![c].pc = "signal"]
    BY DEF StopTask, Enter
  <2>3. QED
    BY <1>2, <2>1, <2>2, NewStates DEF StopTask, SetTask, HasEnded
<1> HIDE DEF new, c
<1>4. /\ call' \in [Calls -> CallState] /\ lock' \in [Task -> Calls \cup {None}] /\ Locks'
      /\ call'[c] = new /\ \A d \in Calls \ {c} : call'[d] = call[d]
      /\ \A u \in Task : /\ lock'[u] = lock[u] /\ Pc(u)' = Pc(u)
                         /\ lock[u] # None => Mine(u)' = Mine(u)
  BY <1>1, <1>2, <1>3, LooseGoes
<1>5. "cancelled" \in Ended /\ Ended \subseteq TaskStates
  BY DEF Ended, TaskStates
<1>6. /\ task' \in [Task -> TaskStates] /\ task'[t] = "cancelled" /\ \A u \in Task \ {t} : task'[u] = task[u]
  BY <1>1, <1>3, <1>5 DEF Typed, TypeOK
<1>7. Typed' /\ Closers' /\ OthersKept(t) /\ OthersHold(t)
  <2>1. TypeOK'
    BY <1>1, <1>3, <1>4, <1>6 DEF Typed, TypeOK, consent, results
  <2>2. Carries'
    BY <1>1, <1>3, <1>4 DEF Typed, Carries, consent
  <2>3. Closers'
    BY <1>1, <1>2, <1>4, <1>5, <1>6, TypedFacts DEF Closers
  <2>4. OthersKept(t) /\ OthersHold(t)
    BY <1>3, <1>4, <1>6 DEF OthersKept, OthersHold, consent, results
  <2>5. QED
    BY <1>4, <2>1, <2>2, <2>3, <2>4 DEF Typed
<1>8. StepInv(t)'
  <2>1. /\ Pc(t)' = Pc(t) /\ (Pc(t) # "idle" => Mine(t)' = Mine(t)) /\ UNCHANGED <<step, results>> /\ task'[t] \in Ended
        /\ t \in cut' => t \in cut \/ step[t] = "running"
    BY <1>1, <1>3, <1>4, <1>5, <1>6, TypedFacts
  <2>2. QED
    BY <1>1, <2>1 DEF Good, StepInv, StepFollows, Recording, Acting, Telling, Failing, Reason, results,
              Executing, Before, Permitting, Calling, After
<1>9. ConsentInv(t)'
  BY <1>1, <1>3, <1>4, TypedFacts DEF Good, ConsentInv, Asked, Permitted, Spent, AboutToAct, Permitting, consent, results
<1>10. Closing(t)'
  BY <1>2, <1>3, <1>4 DEF Closing
<1>11. QED
  BY <1>2, <1>3, <1>4, <1>7, <1>8, <1>9, <1>10, OneTaskMoves DEF Good

\* A step of a call that holds no lock, on its way: nothing that is said of a task changes.
LEMMA LooseTurns ==
    ASSUME IInv, NEW c \in Calls, call[c].pc \in Loose, NEW new \in CallState, new.pc \in Loose,
           call' = [call EXCEPT ![c] = new], lock' = lock, stop' \subseteq Task,
           new.pc = "respond" => new.id \in DOMAIN approvals[c.of] /\ new.said \in {"granted", "rejected"},
           call[c].pc \in {"signal", "free"} => new.pc = "free" \/ lock[c.of] # None,
           new.pc \in {"signal", "free"} => call[c].pc \in {"signal", "free"},
           UNCHANGED <<up, crashes, tasks, consent, results>>
    PROVE  IInv'
<1> DEFINE t == c.of
<1>1. Typed /\ Closers /\ Good(t) /\ Closing(t) /\ t \in Task
  BY TypedFacts DEF IInv, Good
<1> HIDE DEF t
<1>2. /\ call' \in [Calls -> CallState] /\ lock' \in [Task -> Calls \cup {None}] /\ Locks'
      /\ call'[c] = new /\ \A d \in Calls \ {c} : call'[d] = call[d]
      /\ \A u \in Task : /\ lock'[u] = lock[u] /\ Pc(u)' = Pc(u)
                         /\ lock[u] # None => Mine(u)' = Mine(u)
  BY <1>1, LooseGoes
<1>3. TypeOK' /\ OthersHold(t) /\ OthersKept(t)
  BY <1>1, <1>2 DEF Typed, TypeOK, OthersHold, OthersKept, tasks, consent, results
<1>4. Carries'
  BY <1>1, <1>2 DEF Typed, Carries, consent
<1>5. Closers'
  BY <1>1, <1>2 DEF Closers, tasks
<1>6. /\ Pc(t)' = Pc(t) /\ (Pc(t) # "idle" => Mine(t)' = Mine(t))
  BY <1>1, <1>2, TypedFacts
<1>7. StepInv(t)'
  BY <1>1, <1>6 DEF Good, StepInv, StepFollows, Recording, Acting, Telling, Failing, Reason, tasks, results,
              Executing, Before, Permitting, Calling, After
<1>8. ConsentInv(t)'
  BY <1>1, <1>6 DEF Good, ConsentInv, Asked, Permitted, Spent, AboutToAct, Permitting, consent, results
<1>9. Closing(t)'
  BY <1>1, <1>2 DEF Closing, tasks, t
<1>10. QED
  BY <1>1, <1>2, <1>3, <1>4, <1>5, <1>7, <1>8, <1>9, OneTaskMoves DEF Good, Typed, t

\* The stop reaches the process.
LEMMA SignalStopKeeps ==
    ASSUME IInv, NEW t \in Task, SignalStop(t)
    PROVE  IInv'
<1> DEFINE c == StopOf(t)
           new == [call[c] EXCEPT !.pc = "free"]
<1>1. Typed
  BY DEF IInv
<1>2. c \in Calls /\ c.of = t
  BY DEF Calls, StopOf
<1>3. /\ call[c].pc = "signal" /\ call[c].pc \in Loose
      /\ call' = [call EXCEPT ![c] = new] /\ lock' = lock /\ new \in CallState /\ new.pc = "free" /\ new.pc \in Loose
      /\ stop' \subseteq Task /\ UNCHANGED <<up, crashes, tasks, consent, results>>
  <2>1. "free" \in Loose \cup Holding /\ call \in [Calls -> CallState] /\ stop \subseteq Task
    BY <1>1, NewStates, TypedFacts DEF Typed, TypeOK
  <2>2. call[c].pc = "signal" /\ call' = [call EXCEPT ![c].pc = "free"] /\ lock' = lock /\ stop' = stop \cup {t}
        /\ UNCHANGED <<up, crashes, tasks, consent, results>>
    BY DEF SignalStop, At
  <2>3. QED
    BY <1>2, <2>1, <2>2, NewStates
<1> HIDE DEF new, c
<1>4. QED
  BY <1>2, <1>3, LooseTurns

\* The close takes the lock, or leaves it to the holder.
LEMMA CloseIfFreeKeeps ==
    ASSUME IInv, NEW c \in Calls, CloseIfFree(c)
    PROVE  IInv'
<1> DEFINE t == c.of
           new == [call[c] EXCEPT !.pc = "close"]
<1>1. Typed /\ Closers /\ t \in Task /\ Good(t)
  BY TypedFacts DEF IInv, Good
<1>2. call[c].pc = "free" /\ call[c].pc \in Loose /\ task[t] \in Ended
      /\ UNCHANGED <<up, crashes, stop, tasks, consent, results>>
  BY <1>1, NewStates DEF CloseIfFree, At, Closers
<1>3. CASE lock[t] # None
  <2>1. call' = [call EXCEPT ![c] = Idle] /\ lock' = lock /\ stop' \subseteq Task
    BY <1>1, <1>2, <1>3 DEF CloseIfFree, Return, Typed, TypeOK
  <2>2. Idle \in CallState /\ Idle.pc = "idle" /\ "idle" \in Loose
    BY NewStates
  <2>3. QED
    BY <1>2, <1>3, <2>1, <2>2, LooseTurns
<1>4. CASE lock[t] = None
  <2>1. call' = [call EXCEPT ![c] = new] /\ lock' = [lock EXCEPT ![t] = c] /\ new \in CallState /\ new.pc = "close"
    <3>1. "close" \in Loose \cup Holding /\ call \in [Calls -> CallState]
      BY <1>1, HoldingNames, TypedFacts DEF Walking
    <3>2. call' = [call EXCEPT ![c].pc = "close"] /\ lock' = [lock EXCEPT ![t] = c]
      BY <1>4 DEF CloseIfFree
    <3>3. QED
      BY <3>1, <3>2, NewStates
  <2>2. "close" \in Holding
    BY HoldingNames DEF Walking
  <2> HIDE DEF new
  <2>3. /\ call' \in [Calls -> CallState] /\ lock' \in [Task -> Calls \cup {None}] /\ Locks'
        /\ call'[c] = new /\ \A d \in Calls \ {c} : call'[d] = call[d]
        /\ Pc(t)' = "close" /\ Mine(t)' = new /\ lock'[t] # None
        /\ OthersHold(t)
    BY <1>1, <1>2, <1>4, <2>1, <2>2, LockIsTaken
  <2>4. Typed' /\ Closers' /\ OthersKept(t)
    BY <1>1, <1>2, <2>1, <2>3 DEF Typed, TypeOK, Carries, Closers, OthersKept, tasks, consent, results
  <2>5. Pc(t) = "idle"
    BY <1>4 DEF Pc
  <2>6. StepInv(t)'
    BY <1>1, <1>2, <2>3, <2>5 DEF Good, StepInv, StepFollows, Recording, Acting, Telling, Failing, Reason, tasks, results,
                Executing, Before, Permitting, Calling, After
  <2>7. ConsentInv(t)'
    BY <1>1, <1>2, <2>3, <2>5 DEF Good, ConsentInv, Asked, Permitted, Spent, AboutToAct, Permitting, consent, results
  <2>8. Closing(t)'
    BY <2>3 DEF Closing
  <2>9. QED
    BY <1>1, <1>2, <2>3, <2>4, <2>6, <2>7, <2>8, OneTaskMoves DEF Good
<1>5. QED
  BY <1>3, <1>4

\* An answer names a question.
LEMMA AnswerReadsKeeps ==
    ASSUME IInv, NEW t \in Task, NEW p \in Page, AnswerReads(t, p)
    PROVE  IInv'
<1> DEFINE c == AnswerOf(t, p)
<1>1. Typed
  BY DEF IInv
<1>2. c \in Calls /\ c.of = t
  BY DEF Calls, AnswerOf
<1>3. PICK i \in DOMAIN approvals[t], yes \in {"granted", "rejected"} :
        call' = [call EXCEPT ![c] = [pc |-> "respond", id |-> i, said |-> yes, made |-> None]]
  BY DEF AnswerReads
<1> DEFINE new == [pc |-> "respond", id |-> i, said |-> yes, made |-> None]
<1>4. /\ call[c].pc = "idle" /\ "idle" \in Loose /\ lock' = lock /\ stop' \subseteq Task
      /\ UNCHANGED <<up, crashes, tasks, consent, results>>
  BY <1>1, NewStates DEF AnswerReads, Typed, TypeOK
<1>5. i \in 1 .. MaxAsks
  BY <1>1, ExecutionAssumption DEF Typed, TypeOK
<1>6. new \in CallState /\ new.pc = "respond" /\ new.pc \in Loose /\ new.id \in DOMAIN approvals[t] /\ new.said \in {"granted", "rejected"}
  BY <1>5, NewStates DEF CallState
<1>7. call' = [call EXCEPT ![c] = new]
  BY <1>3
<1> HIDE DEF new, c
<1>8. QED
  BY <1>2, <1>4, <1>6, <1>7, LooseTurns

\* An answer writes a question that is open and in time: the last one, and no other.
LEMMA AnswerWrites ==
    ASSUME IInv, NEW t \in Task, NEW i \in DOMAIN approvals[t], NEW s \in {"granted", "rejected"},
           approvals[t][i].status = "pending", approvals' = [approvals EXCEPT ![t][i].status = s],
           NEW c \in Calls, c.of = t, call[c].pc = "respond",
           NEW new \in CallState, new.pc = "move", call' = [call EXCEPT ![c] = new],
           UNCHANGED <<up, crashes, stop, lock, tasks, grants, policy, covered, results>>
    PROVE  IInv'
<1>1. Typed /\ Closers /\ Good(t) /\ Closing(t)
  BY DEF IInv, Good
<1>2. call[c].pc \in Loose /\ new.pc \in Loose
  BY NewStates
<1>3. /\ call' \in [Calls -> CallState] /\ lock' \in [Task -> Calls \cup {None}] /\ Locks'
      /\ call'[c] = new /\ \A d \in Calls \ {c} : call'[d] = call[d]
      /\ \A u \in Task : /\ lock'[u] = lock[u] /\ Pc(u)' = Pc(u)
                         /\ lock[u] # None => Mine(u)' = Mine(u)
  BY <1>1, <1>2, LooseGoes
<1>4. approvals \in [Task -> Seq(Approval)] /\ approvals[t] \in Seq(Approval) /\ approvals[t][i] \in Approval
      /\ Len(approvals[t]) \in Nat /\ DOMAIN approvals[t] = 1 .. Len(approvals[t])
  BY <1>1 DEF Typed, TypeOK
<1> DEFINE row == [approvals[t][i] EXCEPT !.status = s]
<1>5. row \in Approval /\ row.status = s /\ row.late = approvals[t][i].late
  BY <1>4 DEF Approval
<1>6. approvals'[t] = [approvals[t] EXCEPT ![i] = row] /\ \A u \in Task \ {t} : approvals'[u] = approvals[u]
  BY <1>4
<1> HIDE DEF row
<1>7. /\ approvals'[t] \in Seq(Approval) /\ DOMAIN approvals'[t] = DOMAIN approvals[t] /\ Len(approvals'[t]) = Len(approvals[t])
      /\ approvals'[t][i] = row /\ \A j \in DOMAIN approvals[t] : j # i => approvals'[t][j] = approvals[t][j]
  BY <1>4, <1>5, <1>6
<1>8. approvals' \in [Task -> Seq(Approval)]
  <2>1. approvals' = [u \in Task |-> approvals'[u]]
    BY <1>4
  <2>2. \A u \in Task : approvals'[u] \in Seq(Approval)
    BY <1>4, <1>6, <1>7
  <2>3. QED
    BY <2>1, <2>2
<1>9. TypeOK'
  <2>1. \A u \in Task : Len(approvals'[u]) <= MaxAsks
    BY <1>1, <1>6, <1>7 DEF Typed, TypeOK
  <2>2. QED
    BY <1>1, <1>3, <1>8, <2>1 DEF Typed, TypeOK, tasks, results
<1>10. Carries' /\ Closers' /\ OthersKept(t) /\ OthersHold(t)
  <2>1. \A u \in Task : DOMAIN approvals'[u] = DOMAIN approvals[u]
    BY <1>6, <1>7
  <2>2. Carries'
    BY <1>1, <1>3, <2>1, TypedFacts DEF Typed, Carries
  <2>3. Closers'
    BY <1>1, <1>3 DEF Closers, tasks
  <2>4. QED
    BY <1>3, <1>6, <2>2, <2>3 DEF OthersKept, OthersHold, tasks, results
<1>11. /\ Pc(t)' = Pc(t) /\ (Pc(t) # "idle" => Mine(t)' = Mine(t))
  BY <1>1, <1>3, TypedFacts
<1>12. StepInv(t)'
  BY <1>1, <1>11 DEF Good, StepInv, StepFollows, Recording, Acting, Telling, Failing, Reason, tasks, results,
              Executing, Before, Permitting, Calling, After
<1>13. Asked(t)'
  <2>1. Asked(t)
    BY <1>1 DEF Good, ConsentInv
  <2>2. \A j \in DOMAIN approvals[t] : approvals'[t][j].late => t \in Expiring
    BY <1>5, <1>7, <2>1 DEF Asked
  <2>3. \A j \in 1 .. MaxAsks : grants[t][j] # "none" => j \in WithStatus(approvals'[t], "granted")
    BY <1>7, <2>1 DEF Asked, WithStatus
  <2>4. \A j \in DOMAIN approvals[t] : ~(i \in 1 .. j - 1)
    BY <2>1 DEF Asked
  <2>5. \A j \in DOMAIN approvals[t] : \A k \in 1 .. j - 1 : k \in DOMAIN approvals[t] /\ k # i
    BY <1>4, <2>4
  <2>6. QED
    BY <1>7, <2>1, <2>2, <2>3, <2>5, ZenonT(40) DEF Asked
<1>14. Permitted(t)' /\ Spent(t)'
  <2>1. Pc(t) \notin Permitting \cup {"call", "point"}
    BY <1>1 DEF Good, ConsentInv, Permitted, WithStatus
  <2>2. QED
    BY <1>1, <1>11, <2>1 DEF Good, ConsentInv, Permitted, Spent, AboutToAct, results
<1>15. Closing(t)'
  BY <1>1, <1>2, <1>3 DEF Closing, tasks
<1>16. QED
  BY <1>3, <1>9, <1>10, <1>12, <1>13, <1>14, <1>15, OneTaskMoves DEF Good, ConsentInv, Typed

\* A question is answered once.
LEMMA RespondKeeps ==
    ASSUME IInv, NEW t \in Task, NEW p \in Page, Respond(t, p)
    PROVE  IInv'
<1> DEFINE c == AnswerOf(t, p)
           i == call[c].id
           new == [call[c] EXCEPT !.pc = "move"]
<1>1. Typed /\ stop \subseteq Task
  BY DEF IInv, Typed, TypeOK
<1>2. c \in Calls /\ c.of = t
  BY DEF Calls, AnswerOf
<1>3. call[c].pc = "respond" /\ call[c].pc \in Loose /\ i \in DOMAIN approvals[t] /\ call[c].said \in {"granted", "rejected"}
      /\ UNCHANGED <<up, crashes, stop, lock, tasks, grants, policy, covered, results>>
  BY <1>1, <1>2, NewStates DEF Respond, At, Typed, Carries
<1>4. new \in CallState /\ new.pc = "move" /\ new.pc \in Loose /\ [call EXCEPT ![c].pc = "move"] = [call EXCEPT ![c] = new]
  BY <1>1, <1>2, NewStates, TypedFacts
<1>5. \/ /\ approvals[t][i].status = "pending" /\ approvals' = [approvals EXCEPT ![t][i].status = call[c].said]
         /\ call' = [call EXCEPT ![c].pc = "move"]
      \/ call' = [call EXCEPT ![c].pc = "move"] /\ UNCHANGED approvals
      \/ call' = [call EXCEPT ![c] = Idle] /\ UNCHANGED approvals
  BY DEF Respond, Return
<1> HIDE DEF new, c
<1>6. CASE /\ approvals[t][i].status = "pending" /\ approvals' = [approvals EXCEPT ![t][i].status = call[c].said]
           /\ call' = [call EXCEPT ![c].pc = "move"]
  BY <1>2, <1>3, <1>4, <1>6, AnswerWrites
<1>7. CASE call' = [call EXCEPT ![c].pc = "move"] /\ UNCHANGED approvals
  <2>1. call' = [call EXCEPT ![c] = new] /\ UNCHANGED <<up, crashes, tasks, consent, results>> /\ lock' = lock /\ stop' \subseteq Task
    BY <1>1, <1>3, <1>4, <1>7 DEF consent
  <2>2. QED
    BY <1>2, <1>3, <1>4, <2>1, LooseTurns
<1>8. CASE call' = [call EXCEPT ![c] = Idle] /\ UNCHANGED approvals
  <2>1. UNCHANGED <<up, crashes, tasks, consent, results>> /\ lock' = lock /\ stop' \subseteq Task
    BY <1>1, <1>3, <1>8 DEF consent
  <2>2. Idle \in CallState /\ Idle.pc = "idle" /\ "idle" \in Loose
    BY NewStates
  <2>3. QED
    BY <1>2, <1>3, <1>8, <2>1, <2>2, LooseTurns
<1>9. QED
  BY <1>5, <1>6, <1>7, <1>8

\* The engine moves the task after the answer.
LEMMA MoveKeeps ==
    ASSUME IInv, NEW t \in Task, NEW p \in Page, Move(t, p)
    PROVE  IInv'
<1> DEFINE c == AnswerOf(t, p)
<1>1. Typed /\ Closers /\ Good(t) /\ Closing(t) /\ stop \subseteq Task
  BY DEF IInv, Good, Typed, TypeOK
<1>2. c \in Calls /\ c.of = t
  BY DEF Calls, AnswerOf
<1>3. call[c].pc = "move" /\ call[c].pc \in Loose
      /\ UNCHANGED <<up, crashes, stop, lock, step, cut, consent, results>>
  BY NewStates DEF Move, At
<1>4. PICK new \in CallState :
        /\ new.pc \in {"idle", "free"} /\ new.pc \in Loose /\ call' = [call EXCEPT ![c] = new]
        /\ \/ new.pc = "idle" /\ UNCHANGED task
           \/ new.pc = "idle" /\ task[t] = "waiting" /\ task' = [task EXCEPT ![t] = "queued"]
           \/ new.pc = "free" /\ task[t] = "waiting" /\ task' = [task EXCEPT ![t] = "denied"]
  <2> DEFINE freed == [call[c] EXCEPT !.pc = "free"]
  <2>1. freed \in CallState /\ freed.pc = "free" /\ freed.pc \in Loose /\ [call EXCEPT ![c].pc = "free"] = [call EXCEPT ![c] = freed]
    BY <1>1, <1>2, NewStates, TypedFacts
  <2>2. Idle \in CallState /\ Idle.pc = "idle" /\ Idle.pc \in Loose
    BY NewStates
  <2> HIDE DEF freed
  <2>3. QED
    BY <2>1, <2>2 DEF Move, SetTask, Return
<1> HIDE DEF c
<1>5. CASE UNCHANGED task /\ new.pc = "idle"
  BY <1>1, <1>2, <1>3, <1>4, <1>5, LooseTurns DEF tasks
<1>6. CASE task[t] = "waiting" /\ \/ new.pc = "idle" /\ task' = [task EXCEPT ![t] = "queued"]
                                  \/ new.pc = "free" /\ task' = [task EXCEPT ![t] = "denied"]
  <2>1. /\ call' \in [Calls -> CallState] /\ lock' \in [Task -> Calls \cup {None}] /\ Locks'
        /\ call'[c] = new /\ \A d \in Calls \ {c} : call'[d] = call[d]
        /\ \A u \in Task : /\ lock'[u] = lock[u] /\ Pc(u)' = Pc(u)
                           /\ lock[u] # None => Mine(u)' = Mine(u)
    BY <1>1, <1>2, <1>3, <1>4, LooseGoes
  <2>2. task[t] \notin Ended /\ "denied" \in Ended /\ "queued" \notin Ended /\ Ended \subseteq TaskStates /\ "queued" \in TaskStates
    BY <1>6 DEF Ended, TaskStates
  <2>3. /\ task' \in [Task -> TaskStates] /\ \A u \in Task \ {t} : task'[u] = task[u]
        /\ task'[t] = IF new.pc = "free" THEN "denied" ELSE "queued"
    BY <1>1, <1>6, <2>2 DEF Typed, TypeOK
  <2>4. TypeOK'
    BY <1>1, <1>3, <2>1, <2>3 DEF Typed, TypeOK, consent, results
  <2>5. Carries'
    BY <1>1, <1>3, <1>4, <2>1 DEF Typed, Carries, consent
  <2>6. Closers'
    <3>1. ASSUME NEW d \in Calls, d # c, call'[d].pc \in {"signal", "free"}
          PROVE  task'[d.of] \in Ended
      <4>1. task[d.of] \in Ended /\ d.of \in Task /\ d.of # t
        BY <1>1, <2>1, <2>2, <3>1, TypedFacts DEF Closers
      <4>2. QED
        BY <2>3, <4>1
    <3>2. ASSUME call'[c].pc \in {"signal", "free"}
          PROVE  task'[c.of] \in Ended
      BY <1>2, <1>4, <2>1, <2>2, <2>3, <3>2
    <3>3. QED
      BY <3>1, <3>2 DEF Closers
  <2>7. OthersKept(t) /\ OthersHold(t)
    BY <1>3, <2>1, <2>3 DEF OthersKept, OthersHold, consent, results
  <2>8. /\ Pc(t)' = Pc(t) /\ (Pc(t) # "idle" => Mine(t)' = Mine(t))
    BY <1>1, <2>1, TypedFacts
  <2>9. StepInv(t)'
    BY <1>1, <1>3, <2>2, <2>8 DEF Good, StepInv, StepFollows, Recording, Acting, Telling, Failing, Reason, results,
                Executing, Before, Permitting, Calling, After
  <2>10. ConsentInv(t)'
    BY <1>1, <1>3, <2>8 DEF Good, ConsentInv, Asked, Permitted, Spent, AboutToAct, Permitting, consent, results
  <2>11. Closing(t)'
    BY <1>2, <1>4, <2>1, <2>2, <2>3 DEF Closing
  <2>12. QED
    BY <1>2, <1>3, <2>1, <2>4, <2>5, <2>6, <2>7, <2>9, <2>10, <2>11, OneTaskMoves DEF Good, Typed
<1>7. QED
  BY <1>4, <1>5, <1>6

-------------------------------------------------------------------------------
(* The policy, the time *)

\* A step that moves no call.
LEMMA NobodyMoves ==
    ASSUME IInv, UNCHANGED <<lock, call>>
    PROVE  /\ \A u \in Task : Pc(u)' = Pc(u) /\ Mine(u)' = Mine(u)
           /\ \A u \in Task : OthersHold(u)
           /\ Locks'
BY DEF Pc, Mine, OthersHold, IInv, Typed, Locks

\* The user revokes the policy.
LEMMA RevokePolicyKeeps ==
    ASSUME IInv, RevokePolicy
    PROVE  IInv'
<1>1. UNCHANGED <<process, tasks, approvals, grants, covered, results>> /\ policy' = FALSE
  BY DEF RevokePolicy
<1>2. /\ \A u \in Task : Pc(u)' = Pc(u) /\ Mine(u)' = Mine(u)
      /\ Locks'
  BY <1>1, NobodyMoves DEF process
<1>3. Typed' /\ Closers'
  BY <1>1, <1>2 DEF IInv, Typed, TypeOK, Carries, Closers, process, tasks, results
<1>4. ASSUME NEW u \in Task
      PROVE  StepInv(u)' /\ Closing(u)' /\ ConsentInv(u)'
  <2>1. StepInv(u)'
    BY <1>1, <1>2 DEF IInv, StepInv, StepFollows, Recording, Acting, Telling, Failing, Reason, process, tasks, results,
                Executing, Before, Permitting, Calling, After
  <2>2. ConsentInv(u)'
    BY <1>1, <1>2 DEF IInv, ConsentInv, Asked, Permitted, Spent, AboutToAct, Permitting, process, results
  <2>3. Closing(u)'
    BY <1>1 DEF IInv, Closing, process, tasks
  <2>4. QED
    BY <2>1, <2>2, <2>3
<1>5. QED
  BY <1>3, <1>4 DEF IInv

\* A question nobody answered expires.
LEMMA QuestionExpiresKeeps ==
    ASSUME IInv, NEW t \in Task, QuestionExpires(t)
    PROVE  IInv'
<1>1. Typed /\ Closers /\ Good(t) /\ Closing(t)
  BY DEF IInv, Good
<1>2. PICK i \in Questions(t, "pending") : approvals' = [approvals EXCEPT ![t][i].late = TRUE]
  BY DEF QuestionExpires
<1>3. t \in Expiring /\ UNCHANGED <<process, tasks, grants, policy, covered, results>>
  BY DEF QuestionExpires
<1>4. approvals \in [Task -> Seq(Approval)] /\ approvals[t] \in Seq(Approval) /\ i \in DOMAIN approvals[t]
      /\ approvals[t][i] \in Approval /\ Len(approvals[t]) \in Nat /\ DOMAIN approvals[t] = 1 .. Len(approvals[t])
  BY <1>1 DEF Typed, TypeOK, Questions
<1> DEFINE row == [approvals[t][i] EXCEPT !.late = TRUE]
<1>5. row \in Approval /\ row.status = approvals[t][i].status
  BY <1>4 DEF Approval
<1>6. approvals'[t] = [approvals[t] EXCEPT ![i] = row] /\ \A u \in Task \ {t} : approvals'[u] = approvals[u]
  BY <1>2, <1>4
<1> HIDE DEF row
<1>7. /\ approvals'[t] \in Seq(Approval) /\ DOMAIN approvals'[t] = DOMAIN approvals[t] /\ Len(approvals'[t]) = Len(approvals[t])
      /\ \A j \in DOMAIN approvals[t] : approvals'[t][j].status = approvals[t][j].status
  BY <1>4, <1>5, <1>6
<1>8. approvals' \in [Task -> Seq(Approval)]
  <2>1. approvals' = [u \in Task |-> approvals'[u]]
    BY <1>2, <1>4
  <2>2. \A u \in Task : approvals'[u] \in Seq(Approval)
    BY <1>4, <1>6, <1>7
  <2>3. QED
    BY <2>1, <2>2
<1>9. /\ \A u \in Task : Pc(u)' = Pc(u) /\ Mine(u)' = Mine(u)
      /\ OthersHold(t) /\ Locks'
  BY <1>3, NobodyMoves DEF process
<1>10. Typed' /\ Closers' /\ OthersKept(t)
  <2>1. \A u \in Task : Len(approvals'[u]) <= MaxAsks /\ DOMAIN approvals'[u] = DOMAIN approvals[u]
    BY <1>1, <1>6, <1>7 DEF Typed, TypeOK
  <2>2. TypeOK'
    BY <1>1, <1>3, <1>8, <2>1 DEF Typed, TypeOK, process, tasks, results
  <2>3. Carries'
    BY <1>1, <1>3, <2>1, TypedFacts DEF Typed, Carries, process
  <2>4. Closers' /\ OthersKept(t)
    BY <1>1, <1>3, <1>6 DEF Closers, OthersKept, process, tasks, results
  <2>5. QED
    BY <1>9, <2>2, <2>3, <2>4 DEF Typed
<1>11. StepInv(t)'
  BY <1>1, <1>3, <1>9 DEF Good, StepInv, StepFollows, Recording, Acting, Telling, Failing, Reason, process, tasks, results,
              Executing, Before, Permitting, Calling, After
<1>12. \A s : WithStatus(approvals'[t], s) = WithStatus(approvals[t], s)
  BY <1>7 DEF WithStatus
<1>13. ConsentInv(t)'
  <2>1. Asked(t)'
    <3>1. \A j \in DOMAIN approvals[t] : \A k \in 1 .. j - 1 : k \in DOMAIN approvals[t]
      BY <1>4
    <3>2. QED
      BY <1>1, <1>3, <1>7, <1>12, <3>1 DEF Good, ConsentInv, Asked
  <2>2. Permitted(t)'
    BY <1>1, <1>3, <1>7, <1>9, <1>12 DEF Good, ConsentInv, Permitted, process
  <2>3. Spent(t)'
    BY <1>1, <1>3, <1>9 DEF Good, ConsentInv, Spent, AboutToAct, process, results
  <2>4. QED
    BY <2>1, <2>2, <2>3 DEF ConsentInv
<1>14. Closing(t)'
  BY <1>3 DEF Closing
<1>15. QED
  BY <1>3, <1>9, <1>10, <1>11, <1>13, <1>14, OneTaskMoves DEF Good, process

\* A grant nobody used expires.
LEMMA GrantExpiresKeeps ==
    ASSUME IInv, NEW t \in Task, GrantExpires(t)
    PROVE  IInv'
<1>1. Typed /\ Closers /\ Good(t) /\ Closing(t)
  BY DEF IInv, Good
<1>2. PICK i \in 1 .. MaxAsks : grants[t][i] = "fresh" /\ grants' = [grants EXCEPT ![t][i] = "old"]
  BY DEF GrantExpires
<1>3. UNCHANGED <<process, tasks, approvals, policy, covered, results>>
  BY DEF GrantExpires
<1>4. grants \in [Task -> [1 .. MaxAsks -> GrantStates]]
  BY <1>1 DEF Typed, TypeOK
<1>5. /\ grants' \in [Task -> [1 .. MaxAsks -> GrantStates]] /\ \A u \in Task \ {t} : grants'[u] = grants[u]
      /\ grants'[t][i] = "old" /\ \A j \in 1 .. MaxAsks : j # i => grants'[t][j] = grants[t][j]
  BY <1>2, <1>4 DEF GrantStates
<1>6. /\ \A u \in Task : Pc(u)' = Pc(u) /\ Mine(u)' = Mine(u)
      /\ OthersHold(t) /\ Locks'
  BY <1>3, NobodyMoves DEF process
<1>7. Typed' /\ Closers' /\ OthersKept(t)
  BY <1>1, <1>3, <1>5, <1>6 DEF Typed, TypeOK, Carries, Closers, OthersKept, process, tasks, results
<1>8. StepInv(t)'
  BY <1>1, <1>3, <1>6 DEF Good, StepInv, StepFollows, Recording, Acting, Telling, Failing, Reason, process, tasks, results,
              Executing, Before, Permitting, Calling, After
<1>9. SpentIn(grants'[t]) = SpentIn(grants[t])
  BY <1>2, <1>5 DEF SpentIn
<1>10. ConsentInv(t)'
  <2>1. \A j \in DOMAIN approvals[t] : j \in 1 .. MaxAsks /\ \A k \in 1 .. j - 1 : k \in 1 .. MaxAsks
    BY <1>1, ExecutionAssumption DEF Typed, TypeOK
  <2>2. Asked(t)'
    BY <1>1, <1>2, <1>3, <1>5, <2>1 DEF Good, ConsentInv, Asked
  <2>3. Pc(t) # "idle" => Mine(t).id \in 1 .. MaxAsks \cup {None}
    BY <1>1, TypedFacts DEF CallState
  <2>4. Permitted(t)'
    BY <1>1, <1>2, <1>3, <1>5, <1>6, <2>3 DEF Good, ConsentInv, Permitted, Permitting, process
  <2>5. Spent(t)'
    BY <1>1, <1>3, <1>6, <1>9 DEF Good, ConsentInv, Spent, AboutToAct, process, results
  <2>6. QED
    BY <2>2, <2>4, <2>5 DEF ConsentInv
<1>11. Closing(t)'
  BY <1>1, <1>3 DEF Closing, process, tasks
<1>12. QED
  BY <1>3, <1>6, <1>7, <1>8, <1>10, <1>11, OneTaskMoves DEF Good, process

-------------------------------------------------------------------------------
(* Crashes and the start of the Core *)

\* A crash frees every lock and forgets every call; the stores stay.
LEMMA CrashKeeps ==
    ASSUME IInv, Crash
    PROVE  IInv'
<1>1. /\ up' = "down" /\ crashes' = crashes + 1 /\ crashes < MaxCrashes /\ stop' = {}
      /\ lock' = [t \in Task |-> None] /\ call' = [c \in Calls |-> Idle] /\ UNCHANGED <<tasks, consent, results>>
  BY DEF Crash
<1>2. Idle \in CallState /\ Idle.pc = "idle" /\ "idle" \in Loose /\ Loose \cap Holding = {}
  BY NewStates DEF Loose, Holding, Walking, Executing, Before, Permitting, Calling, After
<1>3. /\ call' \in [Calls -> CallState] /\ lock' \in [Task -> Calls \cup {None}] /\ Locks'
      /\ \A u \in Task : Pc(u)' = "idle"
      /\ \A c \in Calls : call'[c].pc = "idle"
  BY <1>1, <1>2 DEF Locks, Pc
<1>4. Typed' /\ Closers'
  <2>1. crashes' \in 0 .. MaxCrashes
    BY <1>1, ExecutionAssumption DEF IInv, Typed, TypeOK
  <2>2. TypeOK'
    BY <1>1, <1>3, <2>1 DEF IInv, Typed, TypeOK, tasks, consent, results
  <2>3. QED
    BY <1>3, <2>2 DEF Typed, Carries, Closers
<1>5. ASSUME NEW u \in Task
      PROVE  StepInv(u)' /\ Closing(u)' /\ ConsentInv(u)'
  <2>1. StepInv(u)'
    BY <1>1, <1>3 DEF IInv, StepInv, StepFollows, Recording, Acting, Telling, Failing, Reason, tasks, results,
                Executing, Before, Permitting, Calling, After
  <2>2. Spent(u)'
    BY <1>1, <1>3, SpentKept DEF IInv, ConsentInv, AboutToAct, consent, results
  <2>3. ConsentInv(u)'
    BY <1>1, <1>3, <2>2 DEF IInv, ConsentInv, Asked, Permitted, Permitting, consent
  <2>4. Closing(u)'
    BY <1>1 DEF Closing
  <2>5. QED
    BY <2>1, <2>3, <2>4
<1>6. QED
  BY <1>4, <1>5 DEF IInv

\* What the start-up makes of a task: one that has ended stays as it is.
LEMMA RecoveredIs ==
    ASSUME Typed, NEW orphans \in SUBSET {t \in Task : task[t] = "executing"}, NEW t \in Task
    PROVE  /\ Recovered(t, orphans) \in TaskStates
           /\ task[t] \in Ended => Recovered(t, orphans) = task[t]
<1>1. task[t] \in TaskStates /\ "failed" \in TaskStates /\ "expired" \in TaskStates
      /\ "executing" \notin Ended /\ "waiting" \notin Ended
  BY DEF Typed, TypeOK, TaskStates, Ended
<1> DEFINE expires == /\ task[t] = "waiting" /\ Questions(t, "pending") # {}
                      /\ approvals[t][Max(Questions(t, "pending"))].late
<1>2. t \in orphans => task[t] = "executing"
  OBVIOUS
<1>3. Recovered(t, orphans) = IF t \in orphans THEN "failed" ELSE IF expires THEN "expired" ELSE task[t]
  BY DEF Recovered
<1>4. expires => task[t] = "waiting"
  OBVIOUS
<1> HIDE DEF expires
<1>5. QED
  BY <1>1, <1>2, <1>3, <1>4

\* The start-up fails the orphans and closes the open steps.
LEMMA StartUpKeeps ==
    ASSUME IInv, StartUp
    PROVE  IInv'
<1>1. PICK orphans \in SUBSET {t \in Task : task[t] = "executing"} :
        LET found == [t \in Task |-> Recovered(t, orphans)]
            open == {t \in Task : found[t] \in Ended /\ step[t] = "running"}
        IN  /\ task' = found
            /\ call' = [c \in Calls |->
                           IF c.kind = "stop" /\ c.of \in open THEN [Idle EXCEPT !.pc = "close"] ELSE Idle]
            /\ lock' = [t \in Task |-> IF t \in open THEN StopOf(t) ELSE None]
  BY DEF StartUp
<1> DEFINE open == {t \in Task : task'[t] \in Ended /\ step[t] = "running"}
           closing == [Idle EXCEPT !.pc = "close"]
<1>2. up' = "booting" /\ UNCHANGED <<crashes, stop, step, cut, consent, results>> /\ Typed
  BY DEF StartUp, IInv
<1>3. /\ task' \in [Task -> TaskStates]
      /\ \A t \in Task : task[t] \in Ended => task'[t] = task[t]
  BY <1>1, <1>2, RecoveredIs
<1>4. /\ call' = [c \in Calls |-> IF c.kind = "stop" /\ c.of \in open THEN closing ELSE Idle]
      /\ lock' = [t \in Task |-> IF t \in open THEN StopOf(t) ELSE None]
  BY <1>1
<1>5. /\ Idle \in CallState /\ Idle.pc = "idle" /\ closing \in CallState /\ closing.pc = "close"
      /\ "idle" \in Loose /\ "idle" \notin Holding /\ "close" \in Holding
  <2>1. "close" \in Holding /\ "idle" \in Loose /\ "idle" \notin Holding
    BY DEF Loose, Holding, Walking, Executing, Before, Permitting, Calling, After
  <2>2. Idle \in CallState /\ Idle.pc = "idle"
    BY NewStates
  <2>3. closing \in CallState /\ closing.pc = "close"
    BY <2>1, <2>2 DEF CallState
  <2>4. QED
    BY <2>1, <2>2, <2>3
<1>6. \A t \in Task : StopOf(t) \in Calls /\ StopOf(t).kind = "stop" /\ StopOf(t).of = t
  BY DEF StopOf, Calls
<1>7. \A c \in Calls : c.of \in Task /\ (c.kind = "stop" => c = StopOf(c.of))
  <2> TAKE c \in Calls
  <2>1. CASE c \in [kind : {"run", "stop"}, of : Task]
    BY <2>1 DEF StopOf
  <2>2. CASE c \in [kind : {"answer"}, of : Task, page : Page]
    BY <2>2
  <2>3. QED
    BY <2>1, <2>2 DEF Calls
<1> HIDE DEF open, closing
<1>8. /\ call' \in [Calls -> CallState] /\ lock' \in [Task -> Calls \cup {None}]
      /\ \A t \in Task : IF t \in open THEN lock'[t] = StopOf(t) /\ Pc(t)' = "close" ELSE lock'[t] = None /\ Pc(t)' = "idle"
      /\ \A c \in Calls : call'[c].pc \in {"idle", "close"}
  <2>1. open \subseteq Task
    BY DEF open
  <2>2. call' \in [Calls -> CallState] /\ lock' \in [Task -> Calls \cup {None}]
        /\ \A c \in Calls : call'[c].pc \in {"idle", "close"}
    BY <1>4, <1>5, <1>6
  <2>3. \A t \in open : lock'[t] = StopOf(t) /\ call'[StopOf(t)] = closing
    BY <1>4, <1>6, <2>1
  <2>4. \A t \in Task \ open : lock'[t] = None
    BY <1>4
  <2>5. \A t \in Task : StopOf(t) # None
    BY <1>6, NoneAssumption
  <2>6. QED
    BY <1>5, <2>1, <2>2, <2>3, <2>4, <2>5 DEF Pc
<1>9. Locks'
  <2>1. ASSUME NEW t \in Task, lock'[t] # None
        PROVE  lock'[t].of = t /\ call'[lock'[t]].pc \in Holding
    BY <1>5, <1>6, <1>8, <2>1 DEF Pc
  <2>2. ASSUME NEW c \in Calls
        PROVE  call'[c].pc \in Loose \cup Holding /\ (call'[c].pc \in Holding => lock'[c.of] = c)
    BY <1>4, <1>5, <1>7
  <2>3. QED
    BY <2>1, <2>2 DEF Locks
<1>10. Typed' /\ Closers'
  <2>1. TypeOK'
    BY <1>2, <1>3, <1>8 DEF Typed, TypeOK, consent, results
  <2>2. QED
    BY <1>8, <1>9, <2>1 DEF Typed, Carries, Closers
<1>11. ASSUME NEW t \in Task
       PROVE  StepInv(t)' /\ Closing(t)' /\ ConsentInv(t)'
  <2>1. StepInv(t) /\ ConsentInv(t)
    BY DEF IInv
  <2>2. Pc(t)' \in {"idle", "close"} /\ (Pc(t)' = "close" => task'[t] \in Ended) /\ (task[t] \in Ended => task'[t] \in Ended)
    BY <1>3, <1>8 DEF open
  <2>3. StepInv(t)'
    BY <1>2, <2>1, <2>2 DEF StepInv, StepFollows, Recording, Acting, Telling, Failing, Reason, results,
                Executing, Before, Permitting, Calling, After
  <2>4. Spent(t)'
    BY <1>2, <2>1, <2>2, SpentKept DEF ConsentInv, AboutToAct, consent, results
  <2>5. ConsentInv(t)'
    BY <1>2, <2>1, <2>2, <2>4 DEF ConsentInv, Asked, Permitted, Permitting, consent
  <2>6. Closing(t)'
    <3>1. task'[t] \in Ended /\ step[t] = "running" => lock'[t] # None
      BY <1>6, <1>8, NoneAssumption DEF open
    <3>2. QED
      BY <1>2, <3>1 DEF Closing
  <2>7. QED
    BY <2>3, <2>5, <2>6
<1>12. QED
  BY <1>10, <1>11 DEF IInv

\* The Core serves once every close is done.
LEMMA ServeKeeps ==
    ASSUME IInv, Serve
    PROVE  IInv'
<1>1. up = "booting" /\ up' = "serving" /\ UNCHANGED <<crashes, stop, lock, call, tasks, consent, results>>
  BY DEF Serve
<1>2. /\ \A u \in Task : Pc(u)' = Pc(u) /\ Mine(u)' = Mine(u)
      /\ Locks'
  BY <1>1, NobodyMoves
<1>3. Typed' /\ Closers'
  BY <1>1, <1>2 DEF IInv, Typed, TypeOK, Carries, Closers, tasks, consent, results
<1>4. ASSUME NEW u \in Task
      PROVE  StepInv(u)' /\ Closing(u)' /\ ConsentInv(u)'
  <2>1. StepInv(u)'
    BY <1>1, <1>2 DEF IInv, StepInv, StepFollows, Recording, Acting, Telling, Failing, Reason, tasks, results,
                Executing, Before, Permitting, Calling, After
  <2>2. ConsentInv(u)'
    BY <1>1, <1>2 DEF IInv, ConsentInv, Asked, Permitted, Spent, AboutToAct, Permitting, consent, results
  <2>3. Closing(u)'
    BY <1>1 DEF IInv, Closing, tasks
  <2>4. QED
    BY <2>1, <2>2, <2>3
<1>5. QED
  BY <1>3, <1>4 DEF IInv

-------------------------------------------------------------------------------
(* The holder leaves nothing open *)

\* A run that lets the lock go has looked at the task again, or raised on a question that ran out.
LEMMA HolderLooksAgain ==
    ASSUME IInv, NEW t \in Task, Holder(t)
    PROVE  /\ up' = up
           /\ task[t] \in Ended => task'[t] = task[t]
           /\ lock'[t] # None \/ task'[t] \notin Ended \/ step'[t] # "running" \/ t \in Expiring
<1> DEFINE Looks == /\ up' = up
                    /\ task[t] \in Ended => task'[t] = task[t]
                    /\ lock'[t] # None \/ task'[t] \notin Ended \/ step'[t] # "running" \/ t \in Expiring
<1>1. lock[t] # None
  BY DoingIs DEF IInv, Holder, RunWalks, StartTask, StartStep, FailTask, CompleteTask, RunLeaves, ExecuteReads,
     Resolve, ResolveFrom, StoreGrant, RecordGrant, Decide, Ask, WaitForAnswer, DenyTask, StopDenied, FailRefused, HearStop,
     Spend, Begin, CallTool, ReachPoint, StoreOutcome, RecordExecution, Resume, FailExecuted, Verify, CompleteStep,
     FailUnverified, RecordInterrupted, FailInterrupted, TellFailure, CloseOpenStep, Walks
<1>2. CASE RunWalks(t) \/ ExecuteReads(t) \/ Decide(t)
  BY <1>1, <1>2 DEF RunWalks, ExecuteReads, Decide, Go, tasks
<1>3. CASE StartTask(t) \/ CompleteTask(t) \/ WaitForAnswer(t) \/ DenyTask(t)
  <2>1. lock' = lock /\ up' = up /\ (task[t] \in Ended => task' = task)
    BY <1>3 DEF StartTask, CompleteTask, WaitForAnswer, DenyTask, Refused, Go, HasEnded, tasks
  <2>2. QED
    BY <1>1, <2>1
<1>4. CASE StartStep(t) \/ CompleteStep(t) \/ StopDenied(t) \/ FailRefused(t) \/ HearStop(t) \/ FailExecuted(t)
           \/ FailUnverified(t) \/ FailInterrupted(t)
  <2>1. lock' = lock /\ up' = up /\ task' = task
    BY <1>4 DEF StartStep, CompleteStep, StopDenied, FailRefused, HearStop, FailExecuted, FailUnverified, FailInterrupted,
       FailStep, StopStep, Refused, Go, tasks
  <2>2. QED
    BY <1>1, <2>1
<1>5. CASE StoreGrant(t) \/ RecordGrant(t) \/ Ask(t) \/ Spend(t)
  <2>1. lock' = lock /\ up' = up /\ task' = task
    BY <1>5 DEF StoreGrant, RecordGrant, Ask, Spend, Consume, Go, GoWith, tasks
  <2>2. QED
    BY <1>1, <2>1
<1>6. CASE Begin(t) \/ CallTool(t) \/ ReachPoint(t) \/ StoreOutcome(t)
  <2>1. lock' = lock /\ up' = up /\ task' = task
    BY <1>6 DEF Begin, CallTool, ReachPoint, StoreOutcome, Act, ToolReturns, Go, tasks
  <2>2. QED
    BY <1>1, <2>1
<1>7. CASE RecordExecution(t) \/ Resume(t) \/ Verify(t) \/ RecordInterrupted(t) \/ TellFailure(t)
  <2>1. lock' = lock /\ up' = up /\ task' = task
    BY <1>7 DEF RecordExecution, Resume, Verify, RecordInterrupted, TellFailure, Go, tasks
  <2>2. QED
    BY <1>1, <2>1
<1>8. CASE FailTask(t)
  <2>1. step[t] = "failed" /\ UNCHANGED <<up, step>>
    BY <1>8, DoingIs DEF IInv, FailTask, Walks, StepInv, StepFollows, Refused, tasks
  <2>2. task[t] \in Ended => task' = task
    BY <1>8 DEF FailTask, Refused, HasEnded, tasks
  <2>3. QED
    BY <2>1, <2>2
<1>9. CASE RunLeaves(t)
  BY <1>1, <1>9 DEF RunLeaves, HasEnded, Go, tasks
<1>10. CASE Resolve(t)
  <2>1. UNCHANGED <<up, task, step>>
    BY <1>10 DEF Resolve, ResolveFrom, tasks
  <2>2. CASE lock' = lock
    BY <1>1, <2>1, <2>2
  <2>3. CASE lock' # lock
    <3>1. Questions(t, "pending") # {} /\ approvals[t][Max(Questions(t, "pending"))].late
      BY <1>10, <2>3 DEF Resolve, ResolveFrom, Go, GoWith
    <3>2. Max(Questions(t, "pending")) \in Questions(t, "pending")
      BY <3>1, LastQuestion DEF IInv
    <3>3. \A i \in DOMAIN approvals[t] : approvals[t][i].late => t \in Expiring
      BY DEF IInv, ConsentInv, Asked
    <3>4. t \in Expiring
      BY <3>1, <3>2, <3>3 DEF Questions
    <3>5. QED
      BY <2>1, <3>4
  <2>4. QED
    BY <2>2, <2>3
<1>11. CASE CloseOpenStep(t)
  <2>1. UNCHANGED <<up, task>> /\ (lock' = lock \/ (step' = step /\ step[t] # "running") \/ SetStep(t, "cancelled"))
    BY <1>11 DEF CloseOpenStep, Go
  <2>2. SetStep(t, "cancelled") => step'[t] = "cancelled"
    BY DEF IInv, Typed, TypeOK, SetStep
  <2>3. QED
    BY <1>1, <2>1, <2>2
<1>12. QED
  BY <1>2, <1>3, <1>4, <1>5, <1>6, <1>7, <1>8, <1>9, <1>10, <1>11 DEF Holder

\* A step of the holder keeps the whole invariant.
LEMMA HolderKeeps ==
    ASSUME IInv, NEW t \in Task, Holder(t)
    PROVE  IInv'
<1>1. Typed' /\ Apart(t) /\ OthersKept(t) /\ Good(t)'
  BY HolderGood DEF IInv, Good, KeepsOthers
<1>2. up' = up /\ (task[t] \in Ended => task'[t] = task[t])
      /\ (lock'[t] # None \/ task'[t] \notin Ended \/ step'[t] # "running" \/ t \in Expiring)
  BY HolderLooksAgain
<1>3. OthersHold(t) /\ LooseStay /\ "signal" \in Loose \ {"idle"} /\ "free" \in Loose \ {"idle"}
  BY <1>1, NewStates DEF Apart
<1>4. Closing(t)'
  BY <1>2 DEF Closing
<1>5. Closers'
  <2> SUFFICES ASSUME NEW c \in Calls, call'[c].pc \in {"signal", "free"}
               PROVE  task'[c.of] \in Ended
    BY DEF Closers
  <2>1. call'[c] = call[c]
    BY <1>3 DEF LooseStay
  <2>2. task[c.of] \in Ended /\ c.of \in Task
    BY <2>1, TypedFacts DEF IInv, Closers
  <2>3. QED
    BY <1>1, <1>2, <2>2 DEF OthersKept
<1>6. \A c \in Calls : c.of # t => call'[c] = call[c] \/ call[c].pc \notin {"signal", "free"}
  BY <1>3 DEF LooseStay
<1>7. QED
  BY <1>1, <1>2, <1>3, <1>4, <1>5, <1>6, OneTaskMoves

-------------------------------------------------------------------------------
(* The invariant *)

\* The invariant holds at the start.
LEMMA InitGood == Init => IInv
<1> SUFFICES ASSUME Init
             PROVE  IInv
  OBVIOUS
<1>1. Idle \in CallState /\ Idle.pc = "idle" /\ "idle" \in Loose /\ "idle" \notin Holding
  BY NewStates DEF Loose, Holding, Walking, Executing, Before, Permitting, Calling, After
<1>2. "queued" \in TaskStates /\ "cancelled" \in TaskStates /\ "pending" \in StepStates /\ "none" \in GrantStates
  BY DEF TaskStates, Ended, StepStates, GrantStates
<1>3. TypeOK
  <2>1. crashes \in 0 .. MaxCrashes /\ MaxAsks >= 0
    BY ExecutionAssumption DEF Init
  <2>2. task \in [Task -> TaskStates] /\ step \in [Task -> StepStates] /\ cut \subseteq Task
    BY <1>2 DEF Init
  <2>3. /\ approvals \in [Task -> Seq(Approval)] /\ \A t \in Task : Len(approvals[t]) <= MaxAsks
        /\ outcomes \in [Task -> Seq(Outcome)] /\ audit \in [Task -> Seq(Event)]
    BY ExecutionAssumption DEF Init
  <2>4. grants \in [Task -> [1 .. MaxAsks -> GrantStates]]
    BY <1>2 DEF Init
  <2>5. lock \in [Task -> Calls \cup {None}] /\ call \in [Calls -> CallState]
    BY <1>1 DEF Init
  <2>6. QED
    BY <2>1, <2>2, <2>3, <2>4, <2>5 DEF Init, TypeOK
<1>4. Locks /\ Carries /\ Closers
  BY <1>1 DEF Init, Locks, Carries, Closers
<1>5. ASSUME NEW t \in Task
      PROVE  StepInv(t) /\ Closing(t) /\ ConsentInv(t)
  <2>1. /\ Pc(t) = "idle" /\ step[t] = "pending" /\ t \notin cut /\ approvals[t] = <<>> /\ covered[t] = 0 /\ t \notin started
        /\ outcomes[t] = <<>> /\ audit[t] = <<>> /\ acted[t] = 0
        /\ \A i \in 1 .. MaxAsks : grants[t][i] = "none"
    BY DEF Init, Pc
  <2>2. \A event, about : ~Told(audit[t], event, about)
    BY <2>1 DEF Told
  <2>3. StepInv(t)
    BY <2>1, <2>2 DEF StepInv, StepFollows, Recording, Acting, Telling, Failing, ToldOnce,
       Executing, Before, Permitting, Calling, After
  <2>4. ConsentInv(t)
    <3>1. Asked(t) /\ Permitted(t)
      BY <2>1 DEF Asked, Permitted, Permitting
    <3>2. Spent(t)
      BY <2>1, SpentIsFinite DEF Spent, AboutToAct
    <3>3. QED
      BY <3>1, <3>2 DEF ConsentInv
  <2>5. Closing(t)
    BY <2>1 DEF Closing
  <2>6. QED
    BY <2>3, <2>4, <2>5
<1>6. QED
  BY <1>3, <1>4, <1>5 DEF IInv, Typed

\* Every step keeps it.
LEMMA NextKeeps == IInv /\ [Next]_vars => IInv'
<1> SUFFICES ASSUME IInv, [Next]_vars
             PROVE  IInv'
  OBVIOUS
<1>1. ASSUME NEW t \in Task, RunStarts(t) \/ Holder(t) \/ StopTask(t) \/ Stopping(t) \/ QuestionExpires(t) \/ GrantExpires(t)
      PROVE  IInv'
  <2>1. StopOf(t) \in Calls
    BY DEF StopOf, Calls
  <2>2. QED
    BY <1>1, <2>1, RunStartsKeeps, HolderKeeps, StopTaskKeeps, SignalStopKeeps, CloseIfFreeKeeps, QuestionExpiresKeeps,
       GrantExpiresKeeps DEF Stopping
<1>2. ASSUME NEW t \in Task, NEW p \in Page, AnswerReads(t, p) \/ Answering(t, p)
      PROVE  IInv'
  <2>1. AnswerOf(t, p) \in Calls
    BY DEF AnswerOf, Calls
  <2>2. QED
    BY <1>2, <2>1, AnswerReadsKeeps, RespondKeeps, MoveKeeps, CloseIfFreeKeeps DEF Answering
<1>3. CASE UNCHANGED vars
  <2>1. UNCHANGED <<process, tasks, consent, results>>
    BY <1>3 DEF vars
  <2>2. /\ \A u \in Task : Pc(u)' = Pc(u) /\ Mine(u)' = Mine(u)
        /\ Locks'
    BY <2>1, NobodyMoves DEF process
  <2>3. Typed' /\ Closers'
    BY <2>1, <2>2 DEF IInv, Typed, TypeOK, Carries, Closers, process, tasks, consent, results
  <2>4. ASSUME NEW u \in Task
        PROVE  StepInv(u)' /\ Closing(u)' /\ ConsentInv(u)'
    <3>1. StepInv(u)'
      BY <2>1, <2>2 DEF IInv, StepInv, StepFollows, Recording, Acting, Telling, Failing, Reason, process, tasks, results,
                  Executing, Before, Permitting, Calling, After
    <3>2. ConsentInv(u)'
      BY <2>1, <2>2 DEF IInv, ConsentInv, Asked, Permitted, Spent, AboutToAct, Permitting, process, consent, results
    <3>3. Closing(u)'
      BY <2>1 DEF IInv, Closing, process, tasks
    <3>4. QED
      BY <3>1, <3>2, <3>3
  <2>5. QED
    BY <2>3, <2>4 DEF IInv
<1>4. QED
  BY <1>1, <1>2, <1>3, RevokePolicyKeeps, CrashKeeps, StartUpKeeps, ServeKeeps DEF Next

\* The inductive invariant holds in every state the Core reaches.
THEOREM StepInvariant == Spec => []IInv
<1>1. Init => IInv
  BY InitGood
<1>2. IInv /\ [Next]_vars => IInv'
  BY NextKeeps
<1>3. QED
  BY <1>1, <1>2, PTL DEF Spec

-------------------------------------------------------------------------------
(* What the invariant says *)

\* A step is done once and told once.
LEMMA DoneOnceFollows == IInv => DoneOnce
<1> SUFFICES ASSUME IInv
             PROVE  DoneOnce
  OBVIOUS
<1>1. ActsOnce
  BY DEF IInv, StepInv, Acting, ActsOnce
<1>2. AuditOnce
  BY DEF IInv, StepInv, ToldOnce, Follows, AuditOnce
<1>3. QED
  BY <1>1, <1>2 DEF DoneOnce

\* A log that tells each verdict once tells one of the two.
LEMMA OneVerdict ==
    ASSUME NEW log \in Seq(Event), ToldOnce(log), Told(log, "verified", "passed")
    PROVE  ~Told(log, "verified", "failed")
<1>1. SUFFICES ASSUME Told(log, "verified", "failed")
               PROVE  FALSE
  OBVIOUS
<1>2. PICK i \in DOMAIN log : log[i] = [event |-> "verified", about |-> "passed"]
  BY DEF Told
<1>3. PICK j \in DOMAIN log : log[j] = [event |-> "verified", about |-> "failed"]
  BY <1>1 DEF Told
<1>4. log[i].event = "verified" /\ log[i].about = "passed" /\ log[j].event = "verified" /\ log[j].about = "failed"
  BY <1>2, <1>3
<1>5. i # j /\ i \in Nat /\ j \in Nat
  BY <1>4
<1>6. i < j \/ j < i
  BY <1>5
<1>7. QED
  BY <1>4, <1>6 DEF ToldOnce, Follows

\* A step closes as what happened.
LEMMA ClosesFollows == IInv => ClosesAsItHappened
<1> SUFFICES ASSUME IInv, NEW t \in Task
             PROVE  /\ Halt(t) = "not_acted" => acted[t] = 0 \/ t \in Idempotent
                    /\ Halt(t) \in {"acted", "acted_verified"} => acted[t] > 0
                    /\ Len(outcomes[t]) <= 1
                    /\ step[t] = "completed" => Succeeded(t) /\ Recorded(t, "executed", "outcome")
                                                  /\ Verdicts(t) = {"passed"}
                    /\ step[t] = "cancelled" => outcomes[t] = <<>> \/ ~outcomes[t][1].passed
                    /\ Recorded(t, "step_failed", "interrupted") => t \in started /\ outcomes[t] = <<>>
  BY DEF ClosesAsItHappened, HaltIsTrue, ClosedAsStored
<1>1. StepInv(t) /\ audit[t] \in Seq(Event)
  BY DEF IInv, Typed, TypeOK
<1>2. \A event, about : Recorded(t, event, about) <=> Told(audit[t], event, about)
  BY RecordedIsTold
<1>3. step[t] = "completed" => /\ Told(audit[t], "verified", "passed") /\ Told(audit[t], "executed", "outcome")
                               /\ outcomes[t] # <<>> /\ outcomes[t][1].status = "succeeded"
                               /\ acted[t] > 0
  BY <1>1 DEF StepInv, Telling, Acting, Truthful
<1>4. Halt(t) = "not_acted" => step[t] = "cancelled"
  BY DEF Halt
<1>5. Halt(t) = "acted_verified" => step[t] = "completed"
  BY DEF Halt
<1>6. ASSUME Halt(t) = "acted"
      PROVE  acted[t] > 0
  <2>1. t \in cut /\ \E a \in {"refused", "tool", "verification"} : Told(audit[t], "step_failed", a)
    BY <1>2, <1>6 DEF Halt
  <2>2. QED
    BY <1>1, <2>1 DEF StepInv, Failing, Reason, Reasons
<1>7. step[t] = "completed" => Verdicts(t) = {"passed"}
  BY <1>1, <1>3, OneVerdict, VerdictsAreTold DEF StepInv
<1>8. Recorded(t, "step_failed", "interrupted") => t \in started /\ outcomes[t] = <<>>
  BY <1>1, <1>2 DEF StepInv, Failing, Reason, Reasons
<1>9. step[t] = "cancelled" => /\ outcomes[t] = <<>> \/ ~outcomes[t][1].passed
                               /\ acted[t] = 0 \/ t \in Idempotent
  BY <1>1 DEF StepInv, Acting
<1>10. Len(outcomes[t]) <= 1
  BY <1>1 DEF StepInv, Recording
<1>11. QED
  BY <1>2, <1>3, <1>4, <1>5, <1>6, <1>7, <1>8, <1>9, <1>10 DEF Succeeded

\* The grants that were spent are of questions answered yes.
LEMMA YesFollows == IInv => YesBehindEveryAct
<1> SUFFICES ASSUME IInv, NEW t \in Asking
             PROVE  acted[t] <= Cardinality(Questions(t, "granted")) + covered[t]
  BY DEF YesBehindEveryAct
<1>1. t \in Task /\ Spent(t) /\ Asked(t) /\ acted[t] \in Nat /\ covered[t] \in Nat
  BY ExecutionAssumption DEF IInv, ConsentInv, Typed, TypeOK
<1>2. SpentIn(grants[t]) \subseteq Questions(t, "granted")
  BY <1>1 DEF SpentIn, Asked, WithStatus, Questions
<1>3. IsFiniteSet(Questions(t, "granted"))
  <2>1. approvals[t] \in Seq(Approval)
    BY <1>1 DEF IInv, Typed, TypeOK
  <2>2. Questions(t, "granted") \subseteq 1 .. Len(approvals[t]) /\ Len(approvals[t]) \in Nat
    BY <2>1 DEF Questions
  <2>3. IsFiniteSet(1 .. Len(approvals[t]))
    BY <2>2, FS_Interval
  <2>4. QED
    BY <2>2, <2>3, FS_Subset
<1>4. Cardinality(SpentIn(grants[t])) <= Cardinality(Questions(t, "granted"))
  BY <1>2, <1>3, FS_Subset
<1>5. Cardinality(SpentIn(grants[t])) \in Nat /\ Cardinality(Questions(t, "granted")) \in Nat /\ AboutToAct(t) \in {0, 1}
  BY <1>3, SpentIsFinite, FS_CardinalityType DEF AboutToAct
<1>6. acted[t] + AboutToAct(t) <= Cardinality(SpentIn(grants[t])) + covered[t]
  BY <1>1 DEF Spent
<1>7. QED
  BY <1>1, <1>4, <1>5, <1>6

-------------------------------------------------------------------------------
(* What a step of the Core writes *)

\* What a call did is written by the holder of the lock alone.
LEMMA HoldersWriteResults ==
    ASSUME [Next]_vars
    PROVE  (\E t \in Task : Holder(t)) \/ UNCHANGED results
<1>1. ASSUME NEW t \in Task, RunStarts(t) \/ StopTask(t) \/ Stopping(t) \/ QuestionExpires(t) \/ GrantExpires(t)
      PROVE  UNCHANGED results
  <2>1. CASE RunStarts(t)
    BY <2>1 DEF RunStarts
  <2>2. CASE StopTask(t)
    BY <2>2 DEF StopTask
  <2>3. CASE Stopping(t)
    BY <2>3 DEF Stopping, SignalStop, CloseIfFree
  <2>4. CASE QuestionExpires(t)
    BY <2>4 DEF QuestionExpires
  <2>5. CASE GrantExpires(t)
    BY <2>5 DEF GrantExpires
  <2>6. QED
    BY <1>1, <2>1, <2>2, <2>3, <2>4, <2>5
<1>2. ASSUME NEW t \in Task, NEW p \in Page, AnswerReads(t, p) \/ Answering(t, p)
      PROVE  UNCHANGED results
  <2>1. CASE AnswerReads(t, p)
    BY <2>1 DEF AnswerReads
  <2>2. CASE Respond(t, p)
    BY <2>2 DEF Respond
  <2>3. CASE Move(t, p)
    BY <2>3 DEF Move
  <2>4. CASE CloseIfFree(AnswerOf(t, p))
    BY <2>4 DEF CloseIfFree
  <2>5. QED
    BY <1>2, <2>1, <2>2, <2>3, <2>4 DEF Answering
<1>3. CASE RevokePolicy \/ Crash \/ StartUp \/ Serve
  <2>1. CASE RevokePolicy
    BY <2>1 DEF RevokePolicy
  <2>2. CASE Crash
    BY <2>2 DEF Crash
  <2>3. CASE StartUp
    BY <2>3 DEF StartUp
  <2>4. CASE Serve
    BY <2>4 DEF Serve
  <2>5. QED
    BY <1>3, <2>1, <2>2, <2>3, <2>4
<1>4. CASE UNCHANGED vars
  BY <1>4 DEF vars
<1>5. QED
  BY <1>1, <1>2, <1>3, <1>4 DEF Next

\* Only a tool that is called acts.
LEMMA OnlyToolsAct ==
    ASSUME IInv, [Next]_vars, NEW t \in Task, acted'[t] # acted[t]
    PROVE  lock[t] # None /\ Pc(t) \in {"call", "point"}
<1>1. ASSUME NEW u \in Task, Holder(u)
      PROVE  lock[t] # None /\ Pc(t) \in {"call", "point"}
  <2>1. u = t
    BY <1>1, HolderGood DEF IInv, Good, KeepsOthers, OthersKept
  <2>2. CallTool(t) \/ ReachPoint(t)
    BY <1>1, <2>1 DEF Holder, RunWalks, StartTask, StartStep, FailTask, CompleteTask, RunLeaves, ExecuteReads,
       Resolve, ResolveFrom, StoreGrant, RecordGrant, Decide, Ask, WaitForAnswer, DenyTask, StopDenied, FailRefused, HearStop,
       Spend, Begin, StoreOutcome, RecordExecution, Resume, FailExecuted, Verify, CompleteStep,
       FailUnverified, RecordInterrupted, FailInterrupted, TellFailure, CloseOpenStep, FailStep, StopStep, results
  <2>3. QED
    BY <2>2, DoingIs DEF IInv, CallTool, ReachPoint
<1>2. CASE UNCHANGED results
  BY <1>2 DEF results
<1>3. QED
  BY <1>1, <1>2, HoldersWriteResults

\* Only the STARTED record and the outcome of a call change what the month holds.
LEMMA OnlyRecordsCount ==
    ASSUME [Next]_vars, ~\E t \in Task : Begin(t) \/ StoreOutcome(t)
    PROVE  UNCHANGED <<started, outcomes>>
<1>1. ASSUME NEW u \in Task, Holder(u)
      PROVE  UNCHANGED <<started, outcomes>>
  BY <1>1 DEF Holder, RunWalks, StartTask, StartStep, FailTask, CompleteTask, RunLeaves, ExecuteReads,
     Resolve, ResolveFrom, StoreGrant, RecordGrant, Decide, Ask, WaitForAnswer, DenyTask, StopDenied, FailRefused, HearStop,
     Spend, CallTool, ReachPoint, RecordExecution, Resume, FailExecuted, Verify, CompleteStep,
     FailUnverified, RecordInterrupted, FailInterrupted, TellFailure, CloseOpenStep, FailStep, StopStep, results
<1>2. CASE UNCHANGED results
  BY <1>2 DEF results
<1>3. QED
  BY <1>1, <1>2, HoldersWriteResults

\* The yes a tool acts on was given to the last question.
LEMMA NoFollows ==
    ASSUME IInv, [Next]_vars, NEW t \in Asking, acted'[t] > acted[t], Mine(t).id # None
    PROVE  /\ approvals[t][Mine(t).id].status = "granted"
           /\ \A i \in Questions(t, "rejected") : i < Mine(t).id
<1>1. t \in Task
  BY ExecutionAssumption
<1>2. lock[t] # None /\ Pc(t) \in {"call", "point"}
  <2>1. acted'[t] # acted[t]
    BY <1>1 DEF IInv, Typed, TypeOK
  <2>2. QED
    BY <1>1, <2>1, OnlyToolsAct
<1> DEFINE id == Mine(t).id
<1>3. id \in WithStatus(approvals[t], "granted") /\ id = Len(approvals[t])
  BY <1>1, <1>2 DEF IInv, ConsentInv, Permitted
<1> HIDE DEF id
<1>4. approvals[t][id].status = "granted" /\ Len(approvals[t]) \in Nat /\ DOMAIN approvals[t] = 1 .. Len(approvals[t])
  BY <1>1, <1>3 DEF WithStatus, IInv, Typed, TypeOK
<1>5. \A i \in Questions(t, "rejected") : i < id
  <2> TAKE i \in Questions(t, "rejected")
  <2>1. i \in 1 .. Len(approvals[t]) /\ approvals[t][i].status = "rejected"
    BY <1>4 DEF Questions
  <2>2. i # id
    BY <1>4, <2>1
  <2>3. QED
    BY <1>3, <1>4, <2>1, <2>2
<1>6. QED
  BY <1>4, <1>5 DEF id

-------------------------------------------------------------------------------
(* The cap of the month *)

Spenders == {t \in Task : Worst[t] > 0}
Holds == [t \in Spenders |-> Held(t)]

\* The map Ledger sums, and the function its fold builds.
HeldSum(iter) == iter = [s \in SUBSET Spenders |-> IF s = {} THEN 0 ELSE Held(Chosen(s)) + iter[s \ {Chosen(s)}]]

\* What a task holds of the month.
LEMMA HeldIs ==
    ASSUME NEW t \in Task
    PROVE  /\ t \notin started => Held(t) = 0
           /\ t \in started /\ outcomes[t] = <<>> => Held(t) = Worst[t]
           /\ t \in started /\ outcomes[t] # <<>> => Held(t) = outcomes[t][1].cost
<1>1. t \notin started => Held(t) = 0
  BY DEF Held
<1>2. t \in started /\ outcomes[t] = <<>> => Held(t) = Worst[t]
  BY DEF Held
<1>3. t \in started /\ outcomes[t] # <<>> => Held(t) = outcomes[t][1].cost
  BY DEF Held
<1>4. QED
  BY <1>1, <1>2, <1>3

\* What each task that spends holds is a natural number.
LEMMA HeldIsNatural ==
    ASSUME IInv
    PROVE  /\ \A t \in Spenders : Held(t) \in Nat
           /\ Holds \in [Spenders -> Nat]
<1>1. ASSUME NEW t \in Spenders
      PROVE  Held(t) \in Nat
  <2>1. Worst[t] \in Nat /\ outcomes[t] \in Seq(Outcome)
    BY ExecutionAssumption DEF Spenders, IInv, Typed, TypeOK
  <2>2. ASSUME outcomes[t] # <<>>
        PROVE  outcomes[t][1].cost \in Nat
    <3>1. outcomes[t][1] \in Outcome
      BY <2>1, <2>2
    <3>2. QED
      BY <3>1 DEF Outcome
  <2>3. QED
    BY <2>1, <2>2, HeldIs DEF Spenders
<1>2. QED
  BY <1>1 DEF Holds

\* The ledger is a sum over the tasks that spend.
LEMMA LedgerIsSum ==
    ASSUME IInv, IsFiniteSet(Task)
    PROVE  Ledger = Sum(Holds, Spenders)
<1>1. IsFiniteSet(Spenders)
  <2>1. Spenders \subseteq Task
    BY DEF Spenders
  <2>2. QED
    BY <2>1, FS_Subset
<1>2. Holds \in [Spenders -> Nat]
  BY HeldIsNatural
<1>3. ASSUME NEW iter
      PROVE  HeldSum(iter) <=> IsSum(Holds, Spenders, iter)
  <2>1. ASSUME NEW s \in SUBSET Spenders
        PROVE  (IF s = {} THEN 0 ELSE Held(Chosen(s)) + iter[s \ {Chosen(s)}]) = Adds(Holds, iter, s)
    <3>1. s # {} => Chosen(s) \in Spenders
      BY DEF Chosen
    <3>2. s # {} => Holds[Chosen(s)] = Held(Chosen(s))
      BY <3>1 DEF Holds
    <3>3. QED
      BY <3>2 DEF Adds
  <2>2. [s \in SUBSET Spenders |-> IF s = {} THEN 0 ELSE Held(Chosen(s)) + iter[s \ {Chosen(s)}]]
          = [s \in SUBSET Spenders |-> Adds(Holds, iter, s)]
    BY <2>1
  <2>3. QED
    BY <2>2 DEF HeldSum, IsSum
<1>4. PICK g \in [SUBSET Spenders -> Nat] : IsSum(Holds, Spenders, g)
  BY <1>1, <1>2, SumExists
<1> DEFINE h == CHOOSE iter : HeldSum(iter)
<1>5. HeldSum(h)
  <2>1. \E iter : HeldSum(iter)
    BY <1>3, <1>4
  <2>2. QED
    BY <2>1
<1>6. Ledger = h[Spenders]
  BY DEF Ledger, MapThenSumSet, MapThenFoldSet, HeldSum, Chosen, Spenders
<1> HIDE DEF h
<1>7. IsSum(Holds, Spenders, h)
  BY <1>3, <1>5
<1>8. Sum(Holds, Spenders) = g[Spenders]
  BY <1>1, <1>2, <1>4, SumIs DEF Sum
<1>9. Spenders \in SUBSET (Spenders \cap Spenders) /\ \A x \in Spenders : Holds[x] = Holds[x]
  OBVIOUS
<1>10. h[Spenders] = g[Spenders]
  BY <1>1, <1>2, <1>4, <1>7, <1>9, SumAgrees
<1>11. QED
  BY <1>6, <1>8, <1>10

\* A month in which nothing is reserved or spent holds nothing.
LEMMA LedgerAtFirst ==
    ASSUME Init, IsFiniteSet(Task)
    PROVE  Ledger <= MonthCap
<1>1. IInv
  BY InitGood
<1>2. IsFiniteSet(Spenders)
  <2>1. Spenders \subseteq Task
    BY DEF Spenders
  <2>2. QED
    BY <2>1, FS_Subset
<1>3. \A t \in Spenders : Holds[t] = 0
  <2> TAKE t \in Spenders
  <2>1. t \in Task /\ t \notin started
    BY DEF Init, Spenders
  <2>2. QED
    BY <2>1, HeldIs DEF Holds
<1>4. Holds \in [Spenders -> Nat] /\ Ledger = Sum(Holds, Spenders)
  BY <1>1, HeldIsNatural, LedgerIsSum
<1>5. Sum(Holds, Spenders) = 0
  BY <1>2, <1>3, <1>4, SumOfZeros
<1>6. QED
  BY <1>4, <1>5, ExecutionAssumption

\* The ledger is such a sum in every state of the invariant.
LEMMA LedgerCounts ==
    IInv /\ IsFiniteSet(Task) => /\ \A u \in Spenders : Held(u) \in Nat
                                 /\ Holds \in [Spenders -> Nat]
                                 /\ Ledger = Sum(Holds, Spenders)
BY HeldIsNatural, LedgerIsSum

\* The same of the ledger after a step.
LEMMA LedgerStaysSum ==
    ASSUME IInv', IsFiniteSet(Task)
    PROVE  /\ \A u \in Spenders : Held(u)' \in Nat
           /\ Holds' \in [Spenders -> Nat]
           /\ Ledger' = Sum(Holds', Spenders)
<1>1. (IInv /\ IsFiniteSet(Task) => /\ \A u \in Spenders : Held(u) \in Nat
                                    /\ Holds \in [Spenders -> Nat]
                                    /\ Ledger = Sum(Holds, Spenders))'
  BY LedgerCounts, PTL
<1>2. Spenders' = Spenders
  BY DEF Spenders
<1>3. Sum(Holds, Spenders)' = Sum(Holds', Spenders')
  OBVIOUS
<1>4. QED
  BY <1>1, <1>2, <1>3

\* A step that changes what one task holds changes the ledger by as much.
LEMMA LedgerMoves ==
    ASSUME IInv, IInv', IsFiniteSet(Task), NEW t \in Spenders,
           \A u \in Task \ {t} : (u \in started' <=> u \in started) /\ outcomes'[u] = outcomes[u]
    PROVE  /\ Ledger' + Held(t) = Ledger + Held(t)'
           /\ Ledger \in Nat /\ Ledger' \in Nat /\ Held(t) \in Nat /\ Held(t)' \in Nat
<1>1. IsFiniteSet(Spenders) /\ Spenders' = Spenders
  <2>1. Spenders \subseteq Task
    BY DEF Spenders
  <2>2. QED
    BY <2>1, FS_Subset DEF Spenders
<1>2. Ledger = Sum(Holds, Spenders) /\ Holds \in [Spenders -> Nat]
  BY HeldIsNatural, LedgerIsSum
<1>3. Holds' \in [Spenders -> Nat] /\ Ledger' = Sum(Holds', Spenders) /\ \A u \in Spenders : Held(u)' \in Nat
  BY LedgerStaysSum
<1>4. ASSUME NEW u \in Spenders \ {t}
      PROVE  Holds[u] = Holds'[u]
  <2>1. u \in Task \ {t} /\ u \in Task
    BY DEF Spenders
  <2>2. Held(u) = Held(u)'
    BY <2>1 DEF Held
  <2>3. QED
    BY <1>1, <2>2 DEF Holds
<1>5. Sum(Holds', Spenders) + Holds[t] = Sum(Holds, Spenders) + Holds'[t]
  BY <1>1, <1>2, <1>3, <1>4, SumChanges
<1>6. Holds[t] = Held(t) /\ Holds'[t] = Held(t)'
  BY <1>1 DEF Holds
<1>7. Sum(Holds, Spenders) \in Nat /\ Sum(Holds', Spenders) \in Nat
  BY <1>1, <1>2, <1>3, SumIsNatural
<1>8. QED
  BY <1>2, <1>3, <1>5, <1>6, <1>7, HeldIsNatural

\* Where nothing a task that spends holds changes, neither does the ledger.
LEMMA LedgerStays ==
    ASSUME IInv, IInv', IsFiniteSet(Task),
           \A u \in Spenders : (u \in started' <=> u \in started) /\ outcomes'[u] = outcomes[u]
    PROVE  Ledger' = Ledger
<1>1. \A u \in Spenders : Holds'[u] = Holds[u]
  BY DEF Holds, Held, Spenders
<1>2. Holds' = Holds /\ Spenders' = Spenders
  BY <1>1 DEF Holds, Spenders
<1>3. QED
  BY <1>2, LedgerIsSum, LedgerStaysSum

\* No step takes the month over its cap: a reservation is refused where it would, and a call costs
\* at most what was reserved for it.
LEMMA CapKeeps ==
    ASSUME IInv, IInv', [Next]_vars, IsFiniteSet(Task), Ledger <= MonthCap
    PROVE  Ledger' <= MonthCap
<1>1. ASSUME NEW t \in Task, Begin(t) \/ StoreOutcome(t)
      PROVE  Ledger' <= MonthCap
  <2>1. \A u \in Task \ {t} : (u \in started' <=> u \in started) /\ outcomes'[u] = outcomes[u]
    BY <1>1 DEF Begin, StoreOutcome, IInv, Typed, TypeOK
  <2>2. CASE t \notin Spenders
    <3>1. \A u \in Spenders : u \in Task \ {t}
      BY <2>2 DEF Spenders
    <3>2. QED
      BY <2>1, <3>1, LedgerStays
  <2>3. CASE t \in Spenders
    <3>1. /\ Ledger' + Held(t) = Ledger + Held(t)'
          /\ Ledger \in Nat /\ Ledger' \in Nat /\ Held(t) \in Nat /\ Held(t)' \in Nat
      BY <2>1, <2>3, LedgerMoves
    <3>2. t \notin Idempotent /\ Worst[t] \in Nat /\ Worst[t] > 0 /\ MonthCap \in Nat
      BY <2>3, ExecutionAssumption DEF Spenders
    <3>3. Typed /\ Recording(t) /\ outcomes[t] \in Seq(Outcome)
      BY DEF IInv, StepInv, Typed, TypeOK
    <3>4. CASE Begin(t)
      <4>1. Pc(t) = "begin" /\ outcomes' = outcomes /\ (started' = started \/ (started' = started \cup {t} /\ Fits(t)))
        BY <3>2, <3>3, <3>4, DoingIs DEF Begin
      <4>2. t \notin started /\ outcomes[t] = <<>>
        BY <3>3, <4>1 DEF Recording, Before, Permitting
      <4>3. Held(t) = 0 /\ Held(t)' = IF started' = started THEN 0 ELSE Worst[t]
        BY <4>1, <4>2 DEF Held
      <4>4. QED
        BY <3>1, <3>2, <4>1, <4>3 DEF Fits
    <3>5. CASE StoreOutcome(t)
      <4>1. Pc(t) = "store" /\ started' = started /\ outcomes'[t] = Append(outcomes[t], Mine(t).made)
        BY <3>3, <3>5, DoingIs DEF StoreOutcome, IInv, Typed, TypeOK
      <4>2. t \in started /\ outcomes[t] = <<>> /\ Mine(t).made.cost <= Worst[t]
        BY <3>2, <3>3, <4>1 DEF Recording, Calling
      <4>3. outcomes'[t] = <<Mine(t).made>> /\ outcomes'[t] # <<>> /\ outcomes'[t][1] = Mine(t).made
        BY <4>1, <4>2
      <4>4. Held(t) = Worst[t] /\ Held(t)' = Mine(t).made.cost
        BY <4>1, <4>2, <4>3 DEF Held
      <4>5. QED
        BY <3>1, <3>2, <4>2, <4>4
    <3>6. QED
      BY <1>1, <3>4, <3>5
  <2>4. QED
    BY <2>2, <2>3
<1>2. CASE ~\E t \in Task : Begin(t) \/ StoreOutcome(t)
  BY <1>2, OnlyRecordsCount, LedgerStays
<1>3. QED
  BY <1>1, <1>2

-------------------------------------------------------------------------------
(* The theorems *)

\* Every variable keeps its type: at most MaxAsks questions, a Core that is down, booting or serving,
\* and calls that are where the code can be.
THEOREM StepTypesAreKept == Spec => []TypeOK
<1>1. IInv => TypeOK
  BY DEF IInv, Typed
<1>2. QED
  BY <1>1, StepInvariant, PTL

\* A step is done once and told once: a tool that cannot be repeated acts at most once over every
\* crash and restart, and the audit tells one execution, one verdict and one failure.
THEOREM StepsAreDoneOnce == Spec => []DoneOnce
BY DoneOnceFollows, StepInvariant, PTL

\* A step closes as what happened, and the user is told so after a stop: NOT_ACTED only where the
\* tool did not act, ACTED only where it did.
THEOREM StepsCloseAsTheyHappened == Spec => []ClosesAsItHappened
BY ClosesFollows, StepInvariant, PTL

\* A task that ended keeps no running step that nobody will close: the run, the stop, the answer or
\* the start-up is there for it.
THEOREM NoStepIsLeftOpen == Spec => []NoStepLeftOpen
<1>1. IInv => NoStepLeftOpen
  BY DEF IInv, Closing, NoStepLeftOpen, HasEnded
<1>2. QED
  BY <1>1, StepInvariant, PTL

\* Every act of a tool whose row asks has a yes of its own behind it, or a use of the policy.
THEOREM EveryActHasItsYes == Spec => []YesBehindEveryAct
BY YesFollows, StepInvariant, PTL

\* No tool acts on a yes that a later no took back.
THEOREM NoIsNo == Spec => NoMeansNo
<1>1. IInv /\ [Next]_vars
        => [\A t \in Asking : acted'[t] > acted[t] /\ Mine(t).id # None
              => /\ approvals[t][Mine(t).id].status = "granted"
                 /\ \A i \in Questions(t, "rejected") : i < Mine(t).id]_vars
  BY NoFollows
<1>2. QED
  BY <1>1, StepInvariant, PTL DEF Spec, NoMeansNo

\* However many tasks spend, the month never holds more than its cap.
THEOREM TheCapHolds == IsFiniteSet(Task) => (Spec => []CapHolds)
<1> SUFFICES ASSUME IsFiniteSet(Task)
             PROVE  Spec => []CapHolds
  OBVIOUS
<1>1. Init => IInv /\ CapHolds
  BY InitGood, LedgerAtFirst DEF CapHolds
<1>2. IInv /\ CapHolds /\ [Next]_vars => IInv' /\ CapHolds'
  BY NextKeeps, CapKeeps DEF CapHolds
<1>3. QED
  BY <1>1, <1>2, PTL DEF Spec
================================================================================
