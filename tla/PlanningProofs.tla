---------------------------- MODULE PlanningProofs ----------------------------
(***************************************************************************)
(* What holds of the planning of a task for every set of callers and for   *)
(* any number of gestures and crashes: the plan the user paid for is not   *)
(* lost, nothing else plans the task in its name, and a planning never     *)
(* pulls a task back from who walks it.                                    *)
(***************************************************************************)
EXTENDS Planning, TLAPS

-------------------------------------------------------------------------------
(* The inductive invariant *)

\* Whoever holds the end of the child: a call under its lock of run, or the start-up.
Mine(c) == c = Boot \/ Child \in call[c].locks

\* The child completed with the plan the user paid for.
Paid == row[Child].state = "completed" /\ answer = "plan"

\* Two calls never hold one lock, and the start-up is served alone.
Alone ==
    /\ \A c, d \in Calls : c # d => call[c].locks \cap call[d].locks = {}
    /\ core # "serving" => \A c \in Caller : call[c] = Idle
    /\ core # "starting" => call[Boot] = Idle

\* What a call carries, and what it holds while it does.
Carries(c) ==
    /\ call[c].pc \in {"hand", "attach", "save", "queue"} =>
        /\ call[c].on \in Task /\ call[c].plan \in Plan
        /\ call[c].plan = ThePlanners => call[c].on = Child /\ Mine(c)
        /\ call[c].plan = TheModels => call[c].on = Parent /\ Mine(c) /\ Paid
    /\ call[c].pc = "hand" => call[c].plan.by = "hand"
    /\ call[c].pc \in {"plan", "start", "child", "create", "begin", "walk", "act", "done", "recover"} => Mine(c)
    /\ call[c].pc \in {"settle", "look", "close"} => Mine(c) \/ row[Child].state \in {"cancelled", "denied"}
    /\ call[c].pc \in {"child", "create", "begin"} => row[Parent].state # "created"
    /\ call[c].pc = "done" => answer # "none"
    /\ call[c].pc = "look" => call[c].parent \in Row
    /\ call[c].pc = "close" => /\ call[c].child \in Row /\ call[c].child.state = row[Child].state /\ Ended(Child)

\* A plan by hand is of one gesture, and in the table once its call has brought it there.
HandsAreOne ==
    /\ \A t \in Task : stored[t] # None => stored[t].id <= gestures
    /\ \A c \in Calls : call[c].pc \in {"hand", "attach", "save", "queue"} /\ call[c].plan.by = "hand" =>
        /\ call[c].plan.id <= gestures
        /\ call[c].pc \in {"hand", "attach"} => \A t \in Task : stored[t] # call[c].plan
        /\ \A d \in Calls \ {c} : call[d].pc \in {"hand", "attach", "save", "queue"} => call[d].plan # call[c].plan

\* The plans of the rows are in the plans table, and the two writes of engine.plan go together.
Tables ==
    /\ \A t \in Task : row[t].plan # None => stored[t] = row[t].plan
    /\ stored[Parent] = TheModels => Paid
    /\ \A c \in Calls : At(c, "save") =>
        /\ stored[call[c].on] = call[c].plan /\ row[call[c].on].state = "planning" /\ row[call[c].on].plan = None
        /\ \A d \in Calls \ {c} : At(d, "save") => call[d].on # call[c].on

\* Where the parent stands, and the child that stands beside it.
ParentStands ==
    /\ row[Parent].state \in {"created", "planning", "queued", "executing", "completed", "failed", "denied",
                             "cancelled"}
    /\ row[Parent].state \in {"queued", "executing", "completed"} => row[Parent].plan # None
    /\ row[Parent].state \in {"failed", "denied"} /\ row[Parent].plan = None => Ended(Child) /\ ~Paid
    /\ row[Parent].state = "created" => row[Child].state = Absent
    /\ row[Child].state = "completed" => answer # "none"

\* Nobody planned the parent since the call that is about to read it unplanned ...
Fresh(c) ==
    \/ At(c, "look") /\ Unsettled(call[c].parent)
    \/ At(c, "close")
    \/ At(c, "attach") /\ call[c].plan = TheModels
\* ... and nobody queued it since the call that is about to queue it planned it.
Ahead ==
    /\ \A c \in Calls : Fresh(c) /\ Mine(c) => row[Parent].plan # TheModels
    /\ \A c \in Calls : At(c, "queue") /\ call[c].on = Parent =>
        row[Parent].plan = call[c].plan /\ row[Parent].state \notin {"queued", "executing"}

\* A call that settles, of a child that completed with a plan.
Settling(c) == call[c].pc \in {"recover", "settle"} \/ Fresh(c)

\* A plan that was paid and is not stored is on its way to the parent, or to be found by the start-up.
PaidIsOnItsWay ==
    Paid /\ stored[Parent] = None /\ row[Parent].state # "cancelled" => core = "down" \/ \E c \in Calls : Settling(c)

\* Every call carries what it is about to write.
AllCarry == \A c \in Calls : Carries(c)

\* The invariant: every step keeps it.
IInv ==
    /\ TypeOK /\ Alone /\ AllCarry /\ HandsAreOne /\ Tables /\ ParentStands /\ Ahead /\ PaidIsOnItsWay

-------------------------------------------------------------------------------
(* What the operations do to a call and to the rows *)

\* A call that goes on, one that begins and one that is over.
LEMMA GoIs ==
    ASSUME TypeOK, NEW c \in Calls, NEW pc \in Stages, Go(c, pc)
    PROVE  /\ call' \in [Calls -> CallState] /\ \A d \in Calls \ {c} : call'[d] = call[d]
           /\ call'[c].pc = pc /\ call'[c].on = call[c].on /\ call'[c].plan = call[c].plan
           /\ call'[c].parent = call[c].parent /\ call'[c].child = call[c].child /\ call'[c].locks = call[c].locks
           /\ core' = core
<1>1. call' = [call EXCEPT ![c] = [call[c] EXCEPT !.pc = pc]] /\ core' = core
  BY DEF Go
<1>2. call[c] \in CallState
  BY DEF TypeOK
<1> DEFINE new == [call[c] EXCEPT !.pc = pc]
<1>3. /\ new \in CallState
      /\ new.pc = pc /\ new.on = call[c].on /\ new.plan = call[c].plan
      /\ new.parent = call[c].parent /\ new.child = call[c].child /\ new.locks = call[c].locks
  BY <1>2 DEF CallState
<1> HIDE DEF new
<1>4. call' = [call EXCEPT ![c] = new]
  BY <1>1 DEF new
<1>5. QED
  BY <1>1, <1>3, <1>4 DEF TypeOK

\* A call that is not under way.
LEMMA IdleIs == /\ Idle \in CallState /\ Idle.pc = "idle" /\ Idle.on = None /\ Idle.plan = None
                /\ Idle.parent = None /\ Idle.child = None /\ Idle.locks = {}
BY DEF Idle, CallState, Stages

\* A call that is over.
LEMMA ReturnIs ==
    ASSUME TypeOK, NEW c \in Calls, Return(c)
    PROVE  /\ call' \in [Calls -> CallState] /\ \A d \in Calls \ {c} : call'[d] = call[d]
           /\ call'[c] = Idle /\ core' = IF c = Boot THEN "serving" ELSE core
BY IdleIs DEF Return, TypeOK

\* A call that begins.
LEMMA BeginIs ==
    ASSUME TypeOK, NEW c \in Calls, NEW pc \in Stages, NEW t \in Task \cup {None}, NEW locks \in SUBSET Task,
           Begin(c, pc, t, locks)
    PROVE  /\ call' \in [Calls -> CallState] /\ \A d \in Calls \ {c} : call'[d] = call[d]
           /\ call'[c] \in CallState /\ call'[c].pc = pc /\ call'[c].on = t /\ call'[c].plan = None
           /\ call'[c].parent = None /\ call'[c].child = None /\ call'[c].locks = locks
<1> DEFINE new == [Idle EXCEPT !.pc = pc, !.on = t, !.locks = locks]
<1>1. /\ new \in CallState /\ new.pc = pc /\ new.on = t /\ new.plan = None
      /\ new.parent = None /\ new.child = None /\ new.locks = locks
  BY IdleIs DEF CallState
<1>2. call' = [call EXCEPT ![c] = new]
  BY DEF Begin
<1> HIDE DEF new
<1>3. QED
  BY <1>1, <1>2 DEF TypeOK

\* The Planner goes on with its child.
LEMMA NextOfIs ==
    ASSUME NEW child \in Row
    PROVE  /\ NextOf(child) \in {"create", "begin", "attach", "queue", "walk", "settle"}
           /\ NextOf(child) = "create" => child.state = Absent
BY DEF NextOf

\* The Planner goes on with the child as it read it.
LEMMA GoOnIs ==
    ASSUME TypeOK, NEW c \in Calls, NEW child \in Row, GoOn(c, child)
    PROVE  /\ call' \in [Calls -> CallState] /\ \A d \in Calls \ {c} : call'[d] = call[d]
           /\ call'[c].pc = NextOf(child) /\ call'[c].on = Child /\ call'[c].plan = ThePlanners
           /\ call'[c].parent = call[c].parent /\ call'[c].child = call[c].child /\ call'[c].locks = call[c].locks
<1> DEFINE new == [call[c] EXCEPT !.pc = NextOf(child), !.on = Child, !.plan = ThePlanners]
<1>1. call[c] \in CallState /\ NextOf(child) \in Stages /\ Child \in Task /\ ThePlanners \in Plan
  BY NextOfIs DEF TypeOK, Stages, Task, ThePlanners, Plan
<1>2. /\ new \in CallState
      /\ new.pc = NextOf(child) /\ new.on = Child /\ new.plan = ThePlanners
      /\ new.parent = call[c].parent /\ new.child = call[c].child /\ new.locks = call[c].locks
  BY <1>1 DEF CallState
<1>3. call' = [call EXCEPT ![c] = new]
  BY <1>1 DEF GoOn, TypeOK
<1> HIDE DEF new
<1>4. QED
  BY <1>2, <1>3 DEF TypeOK

\* A row that moves keeps its plan.
LEMMA MovedIs ==
    ASSUME TypeOK, NEW t \in Task, NEW s \in TaskStates, row' = Moved(t, s)
    PROVE  /\ row' \in [Task -> Row] /\ row'[t].state = s /\ row'[t].plan = row[t].plan
           /\ \A u \in Task \ {t} : row'[u] = row[u]
<1> DEFINE new == [row[t] EXCEPT !.state = s]
<1>1. row[t] \in Row
  BY DEF TypeOK
<1>2. new \in Row /\ new.state = s /\ new.plan = row[t].plan
  BY <1>1 DEF Row
<1>3. row' = [row EXCEPT ![t] = new]
  BY DEF Moved
<1> HIDE DEF new
<1>4. QED
  BY <1>2, <1>3 DEF TypeOK

\* What an operation of the table may do to a row.
LEMMA SourcesAre ==
    /\ Sources("approve") = {"waiting_approval"} /\ Target("approve") = "queued"
    /\ Sources("deny_by_approval") = {"waiting_approval"} /\ Target("deny_by_approval") = "denied"
    /\ Sources("queue") = {"planning", "executing"} /\ Target("queue") = "queued"
    /\ Sources("start_planning") = {"created"} /\ Target("start_planning") = "planning"
    /\ Sources("complete") = {"executing"} /\ Target("complete") = "completed"
    /\ Sources("deny_by_planning") = {"planning"} /\ Target("deny_by_planning") = "denied"
    /\ Sources("cancel") = LiveStates /\ Target("cancel") = "cancelled"
    /\ Sources("fail") = {"planning", "executing"} /\ Target("fail") = "failed"
BY DEF Sources, Target

\* The same of the moves of the engine in this module: nothing, or a move the table allows.
Applies(op, t) ==
    \/ UNCHANGED row
    \/ row[t].state \in Sources(op) /\ row' = Moved(t, Target(op)) /\ EngineFree(t) /\ Queueable(op, t)

\* The three steps of the settling that change more of a call than its stage.
LEMMA ReadsIs ==
    ASSUME TypeOK, NEW c \in Calls, SettleReads(c)
    PROVE  /\ call' \in [Calls -> CallState] /\ \A d \in Calls \ {c} : call'[d] = call[d]
           /\ call[c].pc = "settle" /\ call'[c].pc = "look" /\ call'[c].parent = row[Parent]
           /\ call'[c].plan = call[c].plan /\ call'[c].locks = call[c].locks
<1> DEFINE new == [call[c] EXCEPT !.pc = "look", !.parent = row[Parent]]
<1>1. call[c] \in CallState /\ row[Parent] \in Row
  BY DEF TypeOK, Task
<1>2. /\ new \in CallState /\ new.pc = "look" /\ new.parent = row[Parent]
      /\ new.plan = call[c].plan /\ new.locks = call[c].locks
  BY <1>1 DEF CallState, Stages
<1>3. call' = [call EXCEPT ![c] = new] /\ call[c].pc = "settle"
  BY DEF SettleReads, TypeOK, At
<1> HIDE DEF new
<1>4. QED
  BY <1>2, <1>3 DEF TypeOK

\* It finds the parent it has to close.
LEMMA LooksIs ==
    ASSUME TypeOK, NEW c \in Calls, SettleLooks(c), ~Return(c)
    PROVE  /\ call' \in [Calls -> CallState] /\ \A d \in Calls \ {c} : call'[d] = call[d]
           /\ call[c].pc = "look" /\ MustClose(call[c].parent) /\ core' = core
           /\ call'[c].pc = "close" /\ call'[c].child = row[Child] /\ call'[c].plan = call[c].plan
           /\ call'[c].locks = call[c].locks
<1> DEFINE new == [call[c] EXCEPT !.pc = "close", !.child = row[Child]]
<1>1. call[c] \in CallState /\ row[Child] \in Row
  BY DEF TypeOK, Task
<1>2. /\ new \in CallState /\ new.pc = "close" /\ new.child = row[Child]
      /\ new.plan = call[c].plan /\ new.locks = call[c].locks
  BY <1>1 DEF CallState, Stages
<1>3. call' = [call EXCEPT ![c] = new] /\ call[c].pc = "look" /\ MustClose(call[c].parent) /\ core' = core
  BY DEF SettleLooks, TypeOK, At
<1> HIDE DEF new
<1>4. QED
  BY <1>2, <1>3 DEF TypeOK

\* It goes back with the plan of the model.
LEMMA CollectIs ==
    ASSUME TypeOK, NEW c \in Calls, Collect(c)
    PROVE  /\ call' \in [Calls -> CallState] /\ \A d \in Calls \ {c} : call'[d] = call[d]
           /\ call[c].pc = "close" /\ HasPlan(c)
           /\ call'[c].pc = "attach" /\ call'[c].on = Parent /\ call'[c].plan = TheModels
           /\ call'[c].locks = call[c].locks
<1> DEFINE new == [call[c] EXCEPT !.pc = "attach", !.on = Parent, !.plan = TheModels]
<1>1. call[c] \in CallState /\ Parent \in Task /\ TheModels \in Plan
  BY DEF TypeOK, Task, TheModels, Plan
<1>2. /\ new \in CallState /\ new.pc = "attach" /\ new.on = Parent /\ new.plan = TheModels
      /\ new.locks = call[c].locks
  BY <1>1 DEF CallState, Stages
<1>3. call' = [call EXCEPT ![c] = new] /\ call[c].pc = "close" /\ HasPlan(c)
  BY DEF Collect, TypeOK, At
<1> HIDE DEF new
<1>4. QED
  BY <1>2, <1>3 DEF TypeOK

-------------------------------------------------------------------------------
(* What a step does *)

\* What a step does to the call that takes it: it goes on with its locks, or it is over.
Advances(c) ==
    /\ call[c].pc # "idle"
    /\ call' \in [Calls -> CallState] /\ \A d \in Calls \ {c} : call'[d] = call[d]
    /\ \/ call'[c].locks = call[c].locks /\ call'[c].pc # "idle" /\ core' = core
       \/ call'[c] = Idle /\ core' = IF c = Boot THEN "serving" ELSE core
    /\ UNCHANGED <<gestures, crashes>>

\* Every step is one of the two.
LEMMA StepAdvances ==
    ASSUME TypeOK, NEW c \in Calls, Steps(c)
    PROVE  Advances(c)
<1>1. ASSUME NEW pc \in Stages \ {"idle"}, Go(c, pc), call[c].pc # "idle", UNCHANGED <<gestures, crashes>>
      PROVE  Advances(c)
  BY <1>1, GoIs DEF Advances
<1>2. ASSUME Return(c), call[c].pc # "idle", UNCHANGED <<gestures, crashes>>
      PROVE  Advances(c)
  BY <1>2, ReturnIs DEF Advances
<1>3. ASSUME NEW child \in Row, GoOn(c, child), call[c].pc # "idle", UNCHANGED <<gestures, crashes, core>>
      PROVE  Advances(c)
  BY <1>3, GoOnIs, NextOfIs DEF Advances
<1>4. CASE MoveApproved(c)
  BY <1>1, <1>2, <1>4 DEF MoveApproved, At, Stages, Apply
<1>5. CASE MoveDenied(c)
  BY <1>1, <1>2, <1>5 DEF MoveDenied, At, Stages, Apply
<1>6. CASE StopChild(c)
  BY <1>1, <1>2, <1>6 DEF StopChild, At, Stages
<1>7. CASE HandStart(c)
  BY <1>1, <1>2, <1>7 DEF HandStart, At, Stages
<1>8. CASE AddPlan(c)
  BY <1>1, <1>2, <1>8 DEF AddPlan, At, Stages
<1>9. CASE SavePlan(c)
  BY <1>1, <1>2, <1>9 DEF SavePlan, At, Stages
<1>10. CASE Queue(c)
  BY <1>1, <1>2, <1>10 DEF Queue, At, Stages, Apply
<1>11. CASE Plan_(c)
  BY <1>1, <1>2, <1>11 DEF Plan_, At, Stages
<1>12. CASE StartPlanning(c)
  BY <1>1, <1>2, <1>12 DEF StartPlanning, At, Stages, Apply
<1>13. CASE ReadChild(c)
  <2>1. row[Child] \in Row /\ GoOn(c, row[Child]) /\ call[c].pc # "idle" /\ UNCHANGED <<gestures, crashes, core>>
    BY <1>13 DEF ReadChild, At, TypeOK, Task
  <2>2. QED
    BY <1>3, <2>1
<1>14. CASE CreateChild(c)
  <2>1. row' \in [Task -> Row]
    BY <1>14, MovedIs DEF CreateChild, TypeOK, Task, TaskStates, LiveStates
  <2>2. row'[Child] \in Row /\ GoOn(c, row'[Child]) /\ call[c].pc # "idle" /\ UNCHANGED <<gestures, crashes, core>>
    BY <1>14, <2>1 DEF CreateChild, At, Task
  <2>3. QED
    BY <1>3, <2>2
<1>15. CASE BeginChild(c)
  <2>1. row' \in [Task -> Row] /\ call[c].pc # "idle" /\ UNCHANGED <<gestures, crashes>>
    BY <1>15, MovedIs, SourcesAre DEF BeginChild, Apply, At, TypeOK, Task, TaskStates, LiveStates
  <2>2. row'[Child] \in Row
    BY <2>1 DEF Task
  <2>3. Return(c) \/ (GoOn(c, row'[Child]) /\ UNCHANGED core)
    BY <1>15 DEF BeginChild, Apply
  <2>4. QED
    BY <1>2, <1>3, <2>1, <2>2, <2>3
<1>16. CASE Walk(c)
  BY <1>1, <1>2, <1>16 DEF Walk, At, Stages
<1>17. CASE AskUser(c)
  BY <1>1, <1>2, <1>17 DEF AskUser, At, Stages, Acting
<1>18. CASE EndBadly(c)
  BY <1>1, <1>2, <1>18 DEF EndBadly, At, Stages, Acting
<1>19. CASE CallModel(c)
  BY <1>1, <1>2, <1>19 DEF CallModel, At, Stages, Acting
<1>20. CASE Resume(c)
  BY <1>1, <1>2, <1>20 DEF Resume, At, Stages, Acting
<1>21. CASE Complete(c)
  BY <1>1, <1>2, <1>21 DEF Complete, At, Stages, Apply
<1>22. CASE Leave(c)
  BY <1>1, <1>2, <1>22 DEF Leave, At, Stages
<1>23. CASE RunParent(c)
  BY <1>1, <1>2, <1>23 DEF RunParent, At, Stages
<1>24. CASE EndParent(c)
  BY <1>1, <1>2, <1>24 DEF EndParent, At, Stages
<1>25. CASE SettleReads(c)
  BY <1>25, ReadsIs DEF SettleReads, Advances
<1>26. CASE SettleLooks(c)
  BY <1>2, <1>26, LooksIs DEF Advances, SettleLooks, At
<1>27. CASE Collect(c)
  BY <1>27, CollectIs DEF Collect, Advances
<1>28. CASE CloseParent(c)
  BY <1>1, <1>2, <1>28 DEF CloseParent, At, Stages, Apply
<1>29. CASE Recover(c)
  BY <1>1, <1>2, <1>29 DEF Recover, At, Stages
<1>30. QED
  BY <1>4, <1>5, <1>6, <1>7, <1>8, <1>9, <1>10, <1>11, <1>12, <1>13, <1>14, <1>15, <1>16, <1>17, <1>18, <1>19,
     <1>20, <1>21, <1>22, <1>23, <1>24, <1>25, <1>26, <1>27, <1>28, <1>29 DEF Steps

\* What a step does to the rows, the plans and the answer. A task that has ended stays where it is, only a
\* completion completes the child, only engine.plan writes plans; and what it moves is not being planned.
RowsKept(c) ==
    /\ row' \in [Task -> Row]
    /\ \A t \in Task : row[t].state \in TerminalStates => row'[t].state = row[t].state
    /\ row'[Parent].state = "created" => row[Parent].state = "created"
    /\ row'[Child].state = "completed" => row[Child].state = "completed" \/ Complete(c)
    /\ (\A t \in Task : row'[t].plan = row[t].plan) \/ SavePlan(c)
    /\ stored' = stored \/ AddPlan(c)
    /\ answer' = answer \/ (answer = "none" /\ row[Child].state = "executing" /\ row' = row)
    /\ \A t \in Task : \/ row'[t] = row[t] \/ EngineFree(t) \/ SavePlan(c)
                       \/ row[t].state \in {Absent, "executing", "waiting_approval"}

\* Every step keeps to that.
LEMMA StepKeepsRows ==
    ASSUME TypeOK, AllCarry, NEW c \in Calls, Steps(c)
    PROVE  RowsKept(c)
<1>1. ASSUME row' = row, stored' = stored \/ AddPlan(c),
             answer' = answer \/ (answer = "none" /\ row[Child].state = "executing")
      PROVE  RowsKept(c)
  BY <1>1 DEF RowsKept, TypeOK
<1>2. ASSUME NEW t \in Task, NEW s \in TaskStates, row' = Moved(t, s), row[t].state \notin TerminalStates,
             s # "created" \/ t = Child, s = "completed" => t = Parent \/ Complete(c),
             stored' = stored, answer' = answer,
             EngineFree(t) \/ row[t].state \in {Absent, "executing", "waiting_approval"}
      PROVE  RowsKept(c)
  <2>1. /\ row' \in [Task -> Row] /\ row'[t].state = s /\ row'[t].plan = row[t].plan
        /\ \A u \in Task \ {t} : row'[u] = row[u]
    BY <1>2, MovedIs
  <2>2. Parent # Child /\ Parent \in Task /\ Child \in Task
    BY DEF Parent, Child, Task
  <2>3. QED
    BY <1>2, <2>1, <2>2 DEF RowsKept
<1>3. ASSUME NEW t \in Task, NEW op \in {"approve", "deny_by_approval", "queue", "start_planning", "complete",
                                         "deny_by_planning", "cancel", "fail"},
             Applies(op, t), op = "complete" => Complete(c), stored' = stored, answer' = answer
      PROVE  RowsKept(c)
  <2>1. CASE UNCHANGED row
    BY <1>1, <1>3, <2>1
  <2>2. CASE row[t].state \in Sources(op) /\ row' = Moved(t, Target(op)) /\ EngineFree(t)
    <3>1. Target(op) \in TaskStates \ {"created"} /\ (Target(op) = "completed" => op = "complete")
      BY SourcesAre DEF TaskStates, LiveStates, TerminalStates
    <3>2. row[t].state \notin TerminalStates
      BY <2>2, SourcesAre DEF LiveStates, TerminalStates
    <3>3. QED
      BY <1>2, <1>3, <2>2, <3>1, <3>2
  <2>3. QED
    BY <1>3, <2>1, <2>2 DEF Applies
<1>4. /\ Parent \in Task /\ Child \in Task /\ Parent # Child
      /\ call[c].pc \in {"hand", "attach", "save", "queue"} => call[c].on \in Task /\ call[c].plan \in Plan
  BY DEF Task, Parent, Child, AllCarry, Carries
<1>5. CASE MoveApproved(c)
  <2>1. Applies("approve", Child) /\ stored' = stored /\ answer' = answer
    BY <1>5 DEF MoveApproved, Apply, Applies
  <2>2. QED
    BY <1>3, <1>4, <1>5, <2>1
<1>6. CASE MoveDenied(c)
  <2>1. Applies("deny_by_approval", Child) /\ stored' = stored /\ answer' = answer
    BY <1>6 DEF MoveDenied, Apply, Applies
  <2>2. QED
    BY <1>3, <1>4, <1>6, <2>1
<1>7. CASE StopChild(c)
  <2>1. /\ stored' = stored /\ answer' = answer /\ EngineFree(Child)
        /\ row' = IF Live(Child) THEN Moved(Child, "cancelled") ELSE row
    BY <1>7 DEF StopChild
  <2>2. CASE Live(Child)
    BY <1>2, <1>4, <2>1, <2>2 DEF Live, TaskStates, LiveStates, TerminalStates
  <2>3. CASE ~Live(Child)
    BY <1>1, <2>1, <2>3
  <2>4. QED
    BY <2>2, <2>3
<1>8. CASE HandStart(c)
  <2> DEFINE t == call[c].on
  <2>1. /\ stored' = stored /\ answer' = answer /\ EngineFree(t) /\ t \in Task
        /\ row' = IF row[t].state = "created" THEN Moved(t, "planning") ELSE row
    BY <1>4, <1>8 DEF HandStart, At
  <2>2. CASE row[t].state = "created"
    <3>1. row' = Moved(t, "planning") /\ row[t].state \notin TerminalStates /\ "planning" \in TaskStates
      BY <2>1, <2>2 DEF TaskStates, LiveStates, TerminalStates
    <3> HIDE DEF t
    <3>2. QED
      BY <1>2, <2>1, <2>2, <3>1
  <2>3. CASE row' = row
    BY <1>1, <2>1, <2>3
  <2>4. QED
    BY <1>8, <2>1, <2>2, <2>3
<1>9. CASE AddPlan(c)
  BY <1>1, <1>9 DEF AddPlan
<1>10. CASE SavePlan(c)
  <2> DEFINE t == call[c].on
             p == call[c].plan
             new == [row[t] EXCEPT !.plan = p]
  <2>1. t \in Task /\ p \in Plan /\ row[t] \in Row
    BY <1>4, <1>10 DEF TypeOK, SavePlan, At
  <2>2. new \in Row /\ new.state = row[t].state
    BY <2>1 DEF Row
  <2>3. row' = [row EXCEPT ![t] = new] /\ stored' = stored /\ answer' = answer
    BY <1>10 DEF SavePlan
  <2> HIDE DEF new, t, p
  <2>4. row' \in [Task -> Row] /\ \A u \in Task : row'[u].state = row[u].state
    BY <2>1, <2>2, <2>3 DEF TypeOK
  <2>5. QED
    BY <1>4, <1>10, <2>3, <2>4 DEF RowsKept
<1>11. CASE Queue(c)
  <2>1. call[c].on \in Task
    BY <1>4, <1>11 DEF Queue, At
  <2>2. Applies("queue", call[c].on) /\ stored' = stored /\ answer' = answer
    BY <1>11 DEF Queue, Apply, Applies
  <2>3. QED
    BY <1>3, <2>1, <2>2
<1>12. CASE Plan_(c)
  BY <1>1, <1>12 DEF Plan_
<1>13. CASE StartPlanning(c)
  <2>1. Applies("start_planning", Parent) /\ stored' = stored /\ answer' = answer
    BY <1>13 DEF StartPlanning, Apply, Applies
  <2>2. QED
    BY <1>3, <1>4, <1>13, <2>1
<1>14. CASE ReadChild(c)
  BY <1>1, <1>14 DEF ReadChild
<1>15. CASE CreateChild(c)
  <2>1. /\ stored' = stored /\ answer' = answer
        /\ row' = IF row[Child].state = Absent THEN Moved(Child, "created") ELSE row
    BY <1>15 DEF CreateChild
  <2>2. CASE row[Child].state = Absent
    BY <1>2, <1>4, <2>1, <2>2 DEF Absent, TaskStates, LiveStates, TerminalStates
  <2>3. CASE row[Child].state # Absent
    BY <1>1, <2>1, <2>3
  <2>4. QED
    BY <2>2, <2>3
<1>16. CASE BeginChild(c)
  <2>1. Applies("start_planning", Child) /\ stored' = stored /\ answer' = answer
    BY <1>16 DEF BeginChild, Apply, Applies
  <2>2. QED
    BY <1>3, <1>4, <1>16, <2>1
<1>17. CASE Walk(c)
  <2>1. stored' = stored /\ answer' = answer /\ EngineFree(Child)
    BY <1>17 DEF Walk
  <2>2. \/ row[Child].state = "queued" /\ row' = Moved(Child, "executing")
        \/ row' = row
    BY <1>17 DEF Walk
  <2>3. QED
    BY <1>1, <1>2, <1>4, <2>1, <2>2 DEF TaskStates, LiveStates, TerminalStates
<1>18. CASE AskUser(c)
  BY <1>2, <1>4, <1>18 DEF AskUser, Acting, TaskStates, LiveStates, TerminalStates
<1>19. CASE EndBadly(c)
  BY <1>2, <1>4, <1>19 DEF EndBadly, Acting, TaskStates, LiveStates, TerminalStates
<1>20. CASE CallModel(c)
  BY <1>1, <1>20 DEF CallModel, Acting
<1>21. CASE Resume(c)
  BY <1>1, <1>21 DEF Resume, Acting
<1>22. CASE Complete(c)
  <2>1. Applies("complete", Child) /\ stored' = stored /\ answer' = answer
    BY <1>22 DEF Complete, Apply, Applies
  <2>2. QED
    BY <1>3, <1>4, <1>22, <2>1
<1>23. CASE Leave(c)
  BY <1>1, <1>23 DEF Leave
<1>24. CASE RunParent(c)
  BY <1>1, <1>2, <1>4, <1>24 DEF RunParent, TaskStates, LiveStates, TerminalStates
<1>25. CASE EndParent(c)
  BY <1>1, <1>2, <1>4, <1>25 DEF EndParent, TaskStates, LiveStates, TerminalStates
<1>26. CASE SettleReads(c)
  BY <1>1, <1>26 DEF SettleReads
<1>27. CASE SettleLooks(c)
  BY <1>1, <1>27 DEF SettleLooks
<1>28. CASE Collect(c)
  BY <1>1, <1>28 DEF Collect
<1>29. CASE CloseParent(c)
  <2> DEFINE op == EndOf(call[c].child.state)
  <2>1. op \in {"deny_by_planning", "cancel", "fail"}
    BY DEF EndOf
  <2>2. Applies(op, Parent) /\ stored' = stored /\ answer' = answer
    BY <1>29 DEF CloseParent, Apply, Applies
  <2> HIDE DEF op
  <2>3. QED
    BY <1>3, <1>4, <2>1, <2>2
<1>30. CASE Recover(c)
  <2>1. PICK orphans \in SUBSET {t \in Task : row[t].state = "executing"} :
        row' = [t \in Task |->
            CASE t \in orphans -> [row[t] EXCEPT !.state = "failed"]
              [] t = Child /\ row[t].state = "waiting_approval" /\ question = "expired" ->
                    [row[t] EXCEPT !.state = "expired"]
              [] OTHER -> row[t]]
    BY <1>30 DEF Recover
  <2>2. stored' = stored /\ answer' = answer
    BY <1>30 DEF Recover
  <2>3. ASSUME NEW t \in Task
        PROVE  /\ row'[t] \in Row /\ row'[t].plan = row[t].plan
               /\ \/ row'[t] = row[t]
                  \/ row[t].state \in {"executing", "waiting_approval"} /\ row'[t].state \in {"failed", "expired"}
    <3>1. row[t] \in Row
      BY DEF TypeOK
    <3>2. CASE t \in orphans
      <4>1. row'[t] = [row[t] EXCEPT !.state = "failed"] /\ row[t].state = "executing"
        BY <2>1, <3>2
      <4>2. QED
        BY <3>1, <4>1 DEF Row, TaskStates, TerminalStates
    <3>3. CASE t \notin orphans /\ t = Child /\ row[t].state = "waiting_approval" /\ question = "expired"
      <4>1. row'[t] = [row[t] EXCEPT !.state = "expired"]
        BY <2>1, <3>3
      <4>2. QED
        BY <3>1, <3>3, <4>1 DEF Row, TaskStates, TerminalStates
    <3>4. CASE t \notin orphans /\ ~(t = Child /\ row[t].state = "waiting_approval" /\ question = "expired")
      BY <2>1, <3>1, <3>4
    <3>5. QED
      BY <3>2, <3>3, <3>4
  <2>4. row' \in [Task -> Row]
    BY <2>1, <2>3
  <2>5. QED
    BY <1>4, <2>2, <2>3, <2>4 DEF RowsKept, TerminalStates
<1>31. QED
  BY <1>5, <1>6, <1>7, <1>8, <1>9, <1>10, <1>11, <1>12, <1>13, <1>14, <1>15, <1>16, <1>17, <1>18, <1>19, <1>20,
     <1>21, <1>22, <1>23, <1>24, <1>25, <1>26, <1>27, <1>28, <1>29, <1>30 DEF Steps


-------------------------------------------------------------------------------
(* What a gesture does *)

\* What a gesture opens: a call that holds locks nobody held, over rows of which one is cancelled at most.
Opens(c) ==
    /\ core = "serving" /\ core' = core /\ c # Boot /\ call[c].pc = "idle"
    /\ gestures' = gestures + 1 /\ gestures' \in 1 .. MaxGestures /\ crashes' = crashes
    /\ call' \in [Calls -> CallState] /\ \A d \in Calls \ {c} : call'[d] = call[d]
    /\ call'[c].pc \in {"plan", "walk", "run", "hand", "stop", "settle", "approve", "deny"}
    /\ \A d \in Calls \ {c} : call'[c].locks \cap call[d].locks = {}
    /\ call'[c].pc \in {"plan", "walk"} => Child \in call'[c].locks
    /\ call'[c].pc = "hand" => call'[c].on \in Task /\ call'[c].plan = ByHand(gestures')
    /\ call'[c].pc = "settle" => row'[Child].state \in {"cancelled", "denied"}
    /\ stored' = stored /\ answer' = answer /\ question' \in Questions
    /\ row' \in [Task -> Row] /\ \A t \in Task : row'[t].plan = row[t].plan
    /\ \A t \in Task : row'[t] # row[t] => row'[t].state = "cancelled" /\ row[t].state \in LiveStates /\ EngineFree(t)

\* Every gesture does.
LEMMA GestureOpens ==
    ASSUME TypeOK, NEW c \in Caller, Gestures(c)
    PROVE  Opens(c)
<1>1. c \in Calls /\ c # Boot /\ Child \in Task /\ Parent \in Task /\ Parent # Child
  BY PlanningAssumption DEF Calls, Boot, Task, Parent, Child
<1>2. ASSUME Gesture(c)
      PROVE  /\ core = "serving" /\ core' = core /\ call[c].pc = "idle" /\ crashes' = crashes
             /\ gestures' = gestures + 1 /\ gestures' \in 1 .. MaxGestures
  BY <1>2, PlanningAssumption DEF Gesture, At, TypeOK
<1>3. CASE AskForPlan(c)
  <2> DEFINE both == {Parent, Child}
  <2>1. Gesture(c) /\ Begin(c, "plan", None, both) /\ UNCHANGED <<row, stored, question, answer>>
    BY <1>3 DEF AskForPlan
  <2>2. \A d \in Calls : both \cap call[d].locks = {}
    BY <1>3 DEF AskForPlan, Locked
  <2>3. "plan" \in Stages /\ None \in Task \cup {None} /\ both \in SUBSET Task /\ Child \in both
    BY <1>1 DEF Stages
  <2> HIDE DEF both
  <2>4. /\ call' \in [Calls -> CallState] /\ \A d \in Calls \ {c} : call'[d] = call[d]
        /\ call'[c].pc = "plan" /\ call'[c].locks = both
    BY <1>1, <2>1, <2>3, BeginIs
  <2>5. QED
    BY <1>1, <1>2, <2>1, <2>2, <2>3, <2>4 DEF Opens, TypeOK
<1>4. ASSUME NEW t \in Task, Run(c, t)
      PROVE  Opens(c)
  <2> DEFINE pc == IF t = Child THEN "walk" ELSE "run"
  <2>1. Gesture(c) /\ Begin(c, pc, t, {t}) /\ UNCHANGED <<row, stored, question, answer>>
    BY <1>4 DEF Run, RunLocks
  <2>2. \A d \in Calls : {t} \cap call[d].locks = {}
    BY <1>4 DEF Run, Locked
  <2>3. /\ pc \in Stages /\ pc \in {"walk", "run"} /\ t \in Task \cup {None} /\ {t} \in SUBSET Task
        /\ pc = "walk" => t = Child
    BY DEF Stages
  <2> HIDE DEF pc
  <2>4. QED
    BY <1>1, <1>2, <2>1, <2>2, <2>3, BeginIs DEF Opens, TypeOK
<1>5. ASSUME NEW t \in Task, AttachByHand(c, t)
      PROVE  Opens(c)
  <2> DEFINE p == ByHand(gestures')
             new == [Idle EXCEPT !.pc = "hand", !.on = t, !.plan = p]
  <2>1. Gesture(c) /\ call' = [call EXCEPT ![c] = new] /\ UNCHANGED <<row, stored, question, answer>>
    BY <1>5 DEF AttachByHand
  <2>2. p \in Plan
    BY <1>2, <2>1 DEF ByHand, Plan
  <2>3. new \in CallState /\ new.pc = "hand" /\ new.on = t /\ new.plan = p /\ new.locks = {}
    BY <2>2, IdleIs DEF CallState, Stages
  <2> HIDE DEF new
  <2>4. /\ call' \in [Calls -> CallState] /\ call'[c] = new /\ \A d \in Calls \ {c} : call'[d] = call[d]
    BY <1>1, <2>1, <2>3 DEF TypeOK
  <2>5. QED
    BY <1>1, <1>2, <2>1, <2>3, <2>4 DEF Opens, TypeOK
<1>6. ASSUME NEW t \in Task, Stop(c, t)
      PROVE  Opens(c)
  <2> DEFINE pc == IF t = Parent THEN "stop" ELSE "settle"
  <2>1. Gesture(c) /\ Begin(c, pc, t, {}) /\ UNCHANGED <<stored, question, answer>>
    BY <1>6 DEF Stop
  <2>2. EngineFree(t) /\ row[t].state \in LiveStates \cup {"cancelled"} /\ row' = Moved(t, "cancelled")
    BY <1>6 DEF Stop
  <2>3. "cancelled" \in TaskStates
    BY DEF TaskStates, TerminalStates
  <2>4. /\ row' \in [Task -> Row] /\ row'[t].state = "cancelled" /\ row'[t].plan = row[t].plan
        /\ \A u \in Task \ {t} : row'[u] = row[u]
    BY <2>2, <2>3, MovedIs
  <2>5. row[t].state = "cancelled" => row'[t] = row[t]
    BY <2>4 DEF TypeOK, Row
  <2>6. /\ pc \in Stages /\ pc \in {"stop", "settle"} /\ t \in Task \cup {None} /\ {} \in SUBSET Task
        /\ pc = "settle" => t = Child
    BY DEF Stages, Task
  <2> HIDE DEF pc
  <2>7. /\ call' \in [Calls -> CallState] /\ \A d \in Calls \ {c} : call'[d] = call[d]
        /\ call'[c].pc = pc /\ call'[c].locks = {}
    BY <1>1, <2>1, <2>6, BeginIs
  <2>8. \A u \in Task : /\ row'[u].plan = row[u].plan
                        /\ row'[u] # row[u] =>
                               row'[u].state = "cancelled" /\ row[u].state \in LiveStates /\ EngineFree(u)
    BY <2>2, <2>4, <2>5
  <2>9. pc = "settle" => row'[Child].state = "cancelled"
    BY <1>1, <2>4, <2>6 DEF Task
  <2>10. QED
    BY <1>1, <1>2, <2>1, <2>4, <2>6, <2>7, <2>8, <2>9 DEF Opens, TypeOK
<1>7. ASSUME NEW said \in {"granted", "rejected"}, NEW pc \in {"approve", "deny"}, Answer(c, said, pc)
      PROVE  Opens(c)
  <2>1. Gesture(c) /\ Begin(c, pc, Child, {}) /\ question' = said /\ UNCHANGED <<row, stored, answer>>
    BY <1>7 DEF Answer
  <2>2. pc \in Stages /\ Child \in Task \cup {None} /\ {} \in SUBSET Task /\ said \in Questions
    BY <1>1 DEF Stages, Questions
  <2>3. QED
    BY <1>1, <1>2, <2>1, <2>2, BeginIs DEF Opens, TypeOK
<1>8. CASE DenyAgain(c)
  <2>1. /\ Gesture(c) /\ Begin(c, "settle", Child, {}) /\ row[Child].state = "denied"
        /\ UNCHANGED <<row, stored, question, answer>>
    BY <1>8 DEF DenyAgain
  <2>2. "settle" \in Stages /\ Child \in Task \cup {None} /\ {} \in SUBSET Task
    BY <1>1 DEF Stages
  <2>3. QED
    BY <1>1, <1>2, <2>1, <2>2, BeginIs DEF Opens, TypeOK
<1>9. QED
  BY <1>3, <1>4, <1>5, <1>6, <1>7, <1>8 DEF Gestures, Approve, Deny


-------------------------------------------------------------------------------
(* Where a step comes to, and what its call carries *)

\* Where a step comes to: only a gesture or a restart opens a call, only engine.plan comes between its two writes,
\* and what is to be attached is what the call carried, or the plan of the model, or that of the Planner.
Comes(c) ==
    /\ call'[c].pc \notin {"hand", "recover"}
    /\ call'[c].pc = "save" => AddPlan(c)
    /\ call'[c].pc = "look" => SettleReads(c)
    /\ call'[c].pc = "close" => SettleLooks(c)
    /\ call'[c].pc = "attach" => HandStart(c) \/ Collect(c) \/ (call'[c].on = Child /\ call'[c].plan = ThePlanners)
    /\ call'[c].pc = "queue" => AddPlan(c) \/ SavePlan(c) \/ (call'[c].on = Child /\ call'[c].plan = ThePlanners)

\* Every step comes from there.
LEMMA StepComes ==
    ASSUME TypeOK, NEW c \in Calls, Steps(c)
    PROVE  Comes(c)
<1>1. ASSUME NEW pc \in Stages \ {"hand", "recover", "save", "look", "close", "attach", "queue"}, Go(c, pc)
      PROVE  Comes(c)
  BY <1>1, GoIs DEF Comes
<1>2. ASSUME Return(c)
      PROVE  Comes(c)
  BY <1>2, ReturnIs, IdleIs DEF Comes
<1>3. ASSUME NEW child \in Row, GoOn(c, child)
      PROVE  Comes(c)
  BY <1>3, GoOnIs, NextOfIs DEF Comes
<1>4. CASE MoveApproved(c)
  BY <1>2, <1>4 DEF MoveApproved, Stages, Apply
<1>5. CASE MoveDenied(c)
  BY <1>1, <1>2, <1>5 DEF MoveDenied, Stages, Apply
<1>6. CASE StopChild(c)
  BY <1>2, <1>6 DEF StopChild, Stages
<1>7. CASE HandStart(c)
  BY <1>7, GoIs DEF HandStart, Comes, Stages
<1>8. CASE AddPlan(c)
  BY <1>2, <1>8, GoIs DEF AddPlan, Comes, Stages
<1>9. CASE SavePlan(c)
  BY <1>9, GoIs DEF SavePlan, Comes, Stages
<1>10. CASE Queue(c)
  BY <1>1, <1>2, <1>10 DEF Queue, Stages, Apply
<1>11. CASE Plan_(c)
  BY <1>1, <1>2, <1>11 DEF Plan_, Stages
<1>12. CASE StartPlanning(c)
  BY <1>1, <1>2, <1>12 DEF StartPlanning, Stages, Apply
<1>13. CASE ReadChild(c)
  <2>1. row[Child] \in Row /\ GoOn(c, row[Child])
    BY <1>13 DEF ReadChild, TypeOK, Task
  <2>2. QED
    BY <1>3, <2>1
<1>14. CASE CreateChild(c)
  <2>1. row' \in [Task -> Row]
    BY <1>14, MovedIs DEF CreateChild, TypeOK, Task, TaskStates, LiveStates
  <2>2. row'[Child] \in Row /\ GoOn(c, row'[Child])
    BY <1>14, <2>1 DEF CreateChild, Task
  <2>3. QED
    BY <1>3, <2>2
<1>15. CASE BeginChild(c)
  <2>1. row' \in [Task -> Row]
    BY <1>15, MovedIs, SourcesAre DEF BeginChild, Apply, TypeOK, Task, TaskStates, LiveStates
  <2>2. row'[Child] \in Row
    BY <2>1 DEF Task
  <2>3. Return(c) \/ GoOn(c, row'[Child])
    BY <1>15 DEF BeginChild, Apply
  <2>4. QED
    BY <1>2, <1>3, <2>2, <2>3
<1>16. CASE Walk(c)
  BY <1>1, <1>2, <1>16 DEF Walk, Stages
<1>17. CASE AskUser(c)
  BY <1>1, <1>17 DEF AskUser, Stages
<1>18. CASE EndBadly(c)
  BY <1>1, <1>18 DEF EndBadly, Stages
<1>19. CASE CallModel(c)
  BY <1>1, <1>19 DEF CallModel, Stages
<1>20. CASE Resume(c)
  BY <1>1, <1>20 DEF Resume, Stages
<1>21. CASE Complete(c)
  BY <1>1, <1>21 DEF Complete, Stages, Apply
<1>22. CASE Leave(c)
  BY <1>1, <1>2, <1>22 DEF Leave, Stages
<1>23. CASE RunParent(c)
  BY <1>1, <1>2, <1>23 DEF RunParent, Stages
<1>24. CASE EndParent(c)
  BY <1>2, <1>24 DEF EndParent, Stages
<1>25. CASE SettleReads(c)
  BY <1>25, ReadsIs DEF Comes
<1>26. CASE SettleLooks(c)
  BY <1>2, <1>26, LooksIs DEF Comes
<1>27. CASE Collect(c)
  BY <1>27, CollectIs DEF Comes
<1>28. CASE CloseParent(c)
  BY <1>2, <1>28 DEF CloseParent, Stages, Apply
<1>29. CASE Recover(c)
  BY <1>1, <1>29 DEF Recover, Stages
<1>30. QED
  BY <1>4, <1>5, <1>6, <1>7, <1>8, <1>9, <1>10, <1>11, <1>12, <1>13, <1>14, <1>15, <1>16, <1>17, <1>18, <1>19,
     <1>20, <1>21, <1>22, <1>23, <1>24, <1>25, <1>26, <1>27, <1>28, <1>29 DEF Steps

\* Of the calls that hold the end of the child, and are not idle, there is one.
LEMMA MineIsOne ==
    ASSUME Alone, NEW c \in Calls, NEW d \in Calls, Mine(c), Mine(d), call[c].pc # "idle", call[d].pc # "idle"
    PROVE  c = d
<1>1. c # Boot /\ d # Boot => c = d
  BY DEF Alone, Mine
<1>2. \A e \in Calls \ {Boot} : call[Boot] # Idle => call[e] = Idle
  BY DEF Alone, Calls
<1>3. QED
  BY <1>1, <1>2, IdleIs

\* A plan that was paid stays paid.
LEMMA PaidStays ==
    ASSUME NEW c \in Calls, RowsKept(c), Paid
    PROVE  Paid'
BY DEF RowsKept, Paid, Task, TerminalStates

\* A row between the two writes of engine.plan is moved by nobody else.
LEMMA SavingRowStays ==
    ASSUME TypeOK, AllCarry, Tables, NEW c \in Calls, RowsKept(c), NEW d \in Calls \ {c}, At(d, "save")
    PROVE  row'[call[d].on] = row[call[d].on]
<1> DEFINE t == call[d].on
<1>1. t \in Task /\ row[t].state = "planning" /\ ~EngineFree(t)
  BY DEF Tables, AllCarry, Carries, At, EngineFree
<1>2. ASSUME SavePlan(c)
      PROVE  row'[t] = row[t]
  <2>1. At(c, "save") /\ row' = [row EXCEPT ![call[c].on].plan = call[c].plan]
    BY <1>2 DEF SavePlan
  <2>2. call[c].on # t
    BY <2>1 DEF Tables
  <2>3. QED
    BY <1>1, <2>1, <2>2 DEF TypeOK
<1>3. QED
  BY <1>1, <1>2 DEF RowsKept, Absent

\* The types of what a step writes beside calls and rows.
LEMMA StepTypes ==
    ASSUME TypeOK, AllCarry, NEW c \in Calls, Steps(c)
    PROVE  question' \in Questions /\ answer' \in Answers /\ stored' \in [Task -> Plan \cup {None}]
<1>1. CASE UNCHANGED <<stored, question, answer>>
  BY <1>1 DEF TypeOK
<1>2. CASE AddPlan(c)
  <2>1. call[c].plan \in Plan
    BY <1>2 DEF AddPlan, At, AllCarry, Carries
  <2>2. QED
    BY <1>2, <2>1 DEF AddPlan, TypeOK
<1>3. CASE AskUser(c) \/ CallModel(c)
  BY <1>3 DEF AskUser, CallModel, TypeOK, Questions, Answers
<1>4. QED
  BY <1>1, <1>2, <1>3 DEF Steps, MoveApproved, MoveDenied, StopChild, HandStart, SavePlan, Queue, Plan_,
     StartPlanning, ReadChild, CreateChild, BeginChild, Walk, EndBadly, Resume, Complete, Leave, RunParent,
     EndParent, SettleReads, SettleLooks, Collect, CloseParent, Recover

\* A step leaves its own call with what it is about to write.
LEMMA StepCarries ==
    ASSUME TypeOK, AllCarry, NEW c \in Calls, Steps(c)
    PROVE  Carries(c)'
<1>1. /\ RowsKept(c) /\ Carries(c) /\ c \in Calls
      /\ Parent \in Task /\ Child \in Task /\ Parent # Child /\ ThePlanners \in Plan /\ TheModels \in Plan
      /\ ThePlanners # TheModels
  BY StepKeepsRows DEF AllCarry, Task, Parent, Child, ThePlanners, TheModels, Plan
<1>2. ASSUME Return(c)
      PROVE  Carries(c)'
  BY <1>2, ReturnIs, IdleIs DEF Carries
<1>3. ASSUME NEW pc \in {"plan", "start", "walk", "act", "work"}, Go(c, pc), pc # "work" => Mine(c)
      PROVE  Carries(c)'
  <2>1. call'[c].pc = pc /\ call'[c].locks = call[c].locks
    BY <1>3, GoIs DEF Stages
  <2>2. QED
    BY <1>3, <2>1 DEF Carries, Mine
<1>4. ASSUME Go(c, "settle"), Mine(c) \/ row'[Child].state \in {"cancelled", "denied"}
      PROVE  Carries(c)'
  <2>1. call'[c].pc = "settle" /\ call'[c].locks = call[c].locks
    BY <1>4, GoIs DEF Stages
  <2>2. QED
    BY <1>4, <2>1 DEF Carries, Mine
<1>5. ASSUME NEW child \in Row, GoOn(c, child), Mine(c), row'[Parent].state # "created"
      PROVE  Carries(c)'
  <2>1. /\ /\ call'[c].pc \in {"create", "begin", "attach", "queue", "walk", "settle"}
        /\ call'[c].locks = call[c].locks
        /\ call'[c].on = Child /\ call'[c].plan = ThePlanners
    BY <1>5, GoOnIs, NextOfIs
  <2>2. QED
    BY <1>1, <1>5, <2>1 DEF Carries, Mine
<1>6. ASSUME NEW pc \in {"attach", "save", "queue"}, Go(c, pc), call[c].pc \in {"hand", "attach", "save"}
      PROVE  Carries(c)'
  <2>1. /\ call'[c].pc = pc /\ call'[c].locks = call[c].locks /\ call'[c].on = call[c].on
        /\ call'[c].plan = call[c].plan
    BY <1>6, GoIs DEF Stages
  <2>2. QED
    BY <1>1, <1>6, <2>1, PaidStays DEF Carries, Mine
<1>7. ASSUME call[c].pc \in {"plan", "start", "child", "create", "begin", "walk", "act", "done", "recover"}
      PROVE  Mine(c)
  BY <1>1, <1>7 DEF Carries
<1>8. CASE MoveApproved(c)
  BY <1>2, <1>8 DEF MoveApproved, Apply
<1>9. CASE MoveDenied(c)
  <2>1. Return(c) \/ (Go(c, "settle") /\ row'[Child].state = "denied")
    BY <1>1, <1>9, MovedIs, SourcesAre DEF MoveDenied, Apply, TaskStates, TerminalStates
  <2>2. QED
    BY <1>2, <1>4, <2>1
<1>10. CASE StopChild(c)
  BY <1>2, <1>10 DEF StopChild
<1>11. CASE HandStart(c)
  BY <1>6, <1>11 DEF HandStart, At
<1>12. CASE AddPlan(c)
  BY <1>2, <1>6, <1>12 DEF AddPlan, At
<1>13. CASE SavePlan(c)
  BY <1>6, <1>13 DEF SavePlan, At
<1>14. CASE Queue(c)
  <2>1. call[c].pc = "queue" /\ (Return(c) \/ (Go(c, "walk") /\ call[c].plan = ThePlanners))
    BY <1>14 DEF Queue, Apply, At
  <2>2. QED
    BY <1>1, <1>2, <1>3, <2>1 DEF Carries
<1>15. CASE Plan_(c)
  <2>1. Mine(c) /\ row' = row
    BY <1>7, <1>15 DEF Plan_, At
  <2>2. Return(c) \/ Go(c, "settle") \/ Go(c, "start") \/ (Go(c, "child") /\ row[Parent].state = "planning")
    BY <1>15 DEF Plan_
  <2>3. ASSUME Go(c, "child"), row[Parent].state = "planning"
        PROVE  Carries(c)'
    <3>1. call'[c].pc = "child" /\ call'[c].locks = call[c].locks
      BY <2>3, GoIs DEF Stages
    <3>2. QED
      BY <2>1, <2>3, <3>1 DEF Carries, Mine
  <2>4. QED
    BY <1>2, <1>3, <1>4, <2>1, <2>2, <2>3
<1>16. CASE StartPlanning(c)
  <2>1. call[c].pc = "start" /\ Mine(c)
    BY <1>7, <1>16 DEF StartPlanning, At
  <2>2. Return(c) \/ (Go(c, "child") /\ row'[Parent].state = "planning")
    BY <1>1, <1>16, MovedIs, SourcesAre DEF StartPlanning, Apply, TaskStates, LiveStates
  <2>3. ASSUME Go(c, "child"), row'[Parent].state = "planning"
        PROVE  Carries(c)'
    <3>1. call'[c].pc = "child" /\ call'[c].locks = call[c].locks
      BY <2>3, GoIs DEF Stages
    <3>2. QED
      BY <2>1, <2>3, <3>1 DEF Carries, Mine
  <2>4. QED
    BY <1>2, <2>2, <2>3
<1>17. CASE ReadChild(c)
  <2>1. row[Child] \in Row /\ GoOn(c, row[Child]) /\ row' = row /\ call[c].pc = "child"
    BY <1>1, <1>17 DEF ReadChild, TypeOK, At
  <2>2. Mine(c) /\ row'[Parent].state # "created"
    BY <1>1, <2>1 DEF Carries
  <2>3. QED
    BY <1>5, <2>1, <2>2
<1>18. CASE CreateChild(c)
  <2>1. row'[Child] \in Row /\ GoOn(c, row'[Child]) /\ call[c].pc = "create"
    BY <1>1, <1>18 DEF CreateChild, RowsKept, At
  <2>2. Mine(c) /\ row'[Parent].state # "created"
    BY <1>1, <2>1 DEF Carries, RowsKept
  <2>3. QED
    BY <1>5, <2>1, <2>2
<1>19. CASE BeginChild(c)
  <2>1. row'[Child] \in Row /\ (Return(c) \/ GoOn(c, row'[Child])) /\ call[c].pc = "begin"
    BY <1>1, <1>19 DEF BeginChild, RowsKept, Apply, At
  <2>2. Mine(c) /\ row'[Parent].state # "created"
    BY <1>1, <2>1 DEF Carries, RowsKept
  <2>3. QED
    BY <1>2, <1>5, <2>1, <2>2
<1>20. CASE Walk(c)
  BY <1>2, <1>3, <1>4, <1>7, <1>20 DEF Walk, At
<1>21. CASE AskUser(c)
  BY <1>4, <1>7, <1>21 DEF AskUser, Acting, At
<1>22. CASE EndBadly(c)
  BY <1>4, <1>7, <1>22 DEF EndBadly, Acting, At
<1>23. CASE CallModel(c)
  <2>1. Mine(c) /\ Go(c, "done") /\ answer' # "none"
    BY <1>7, <1>23 DEF CallModel, Acting, At
  <2>2. call'[c].pc = "done" /\ call'[c].locks = call[c].locks
    BY <2>1, GoIs DEF Stages
  <2>3. QED
    BY <2>1, <2>2 DEF Carries, Mine
<1>24. CASE Resume(c)
  <2>1. Mine(c) /\ Go(c, "done") /\ answer' # "none"
    BY <1>7, <1>24 DEF Resume, Acting, At
  <2>2. call'[c].pc = "done" /\ call'[c].locks = call[c].locks
    BY <2>1, GoIs DEF Stages
  <2>3. QED
    BY <2>1, <2>2 DEF Carries, Mine
<1>25. CASE Complete(c)
  BY <1>4, <1>7, <1>25 DEF Complete, Apply, At
<1>26. CASE Leave(c)
  BY <1>2, <1>4, <1>7, <1>26 DEF Leave, At
<1>27. CASE RunParent(c)
  BY <1>2, <1>3, <1>27 DEF RunParent
<1>28. CASE EndParent(c)
  BY <1>2, <1>28 DEF EndParent
<1>29. CASE SettleReads(c)
  <2>1. /\ call[c].pc = "settle" /\ call'[c].pc = "look" /\ call'[c].parent = row[Parent]
        /\ call'[c].locks = call[c].locks /\ row' = row
    BY <1>29, ReadsIs DEF SettleReads
  <2>2. row[Parent] \in Row
    BY <1>1 DEF TypeOK
  <2>3. QED
    BY <1>1, <2>1, <2>2 DEF Carries, Mine
<1>30. CASE SettleLooks(c)
  <2>1. CASE ~Return(c)
    <3>1. /\ call[c].pc = "look" /\ Ended(Child) /\ call'[c].pc = "close" /\ call'[c].child = row[Child]
          /\ call'[c].locks = call[c].locks
      BY <1>30, <2>1, LooksIs DEF MustClose
    <3>2. row' = row /\ row[Child] \in Row
      BY <1>1, <1>30 DEF SettleLooks, TypeOK
    <3>3. QED
      BY <1>1, <3>1, <3>2 DEF Carries, Mine, Ended
  <2>2. QED
    BY <1>2, <2>1
<1>31. CASE Collect(c)
  <2>1. /\ call[c].pc = "close" /\ HasPlan(c) /\ call'[c].pc = "attach" /\ call'[c].on = Parent
        /\ call'[c].plan = TheModels /\ call'[c].locks = call[c].locks
    BY <1>31, CollectIs
  <2>2. row' = row /\ answer' = answer
    BY <1>31 DEF Collect
  <2>3. Paid /\ Mine(c)
    BY <1>1, <2>1 DEF Carries, HasPlan, Paid
  <2>4. QED
    BY <1>1, <2>1, <2>2, <2>3 DEF Carries, Mine, Paid
<1>32. CASE CloseParent(c)
  BY <1>2, <1>32 DEF CloseParent, Apply
<1>33. CASE Recover(c)
  <2>1. Go(c, "settle") /\ call[c].pc = "recover"
    BY <1>33 DEF Recover, At
  <2>2. Mine(c)
    BY <1>1, <2>1 DEF Carries
  <2>3. QED
    BY <1>4, <2>1, <2>2
<1>34. QED
  BY <1>8, <1>9, <1>10, <1>11, <1>12, <1>13, <1>14, <1>15, <1>16, <1>17, <1>18, <1>19, <1>20, <1>21, <1>22, <1>23,
     <1>24, <1>25, <1>26, <1>27, <1>28, <1>29, <1>30, <1>31, <1>32, <1>33 DEF Steps

-------------------------------------------------------------------------------
(* The invariant is kept by what is not a step of a call *)

\* A gesture keeps the invariant.
LEMMA GestureKeeps ==
    ASSUME IInv, NEW c \in Caller, Gestures(c)
    PROVE  IInv'
<1>1. TypeOK /\ Alone /\ AllCarry /\ HandsAreOne /\ Tables /\ ParentStands /\ Ahead /\ PaidIsOnItsWay
  BY DEF IInv
<1>2. Opens(c) /\ c \in Calls
  BY <1>1, GestureOpens DEF Calls
<1>3. Parent \in Task /\ Child \in Task /\ Parent # Child /\ Boot \in Calls /\ ThePlanners # TheModels
  BY DEF Task, Parent, Child, Calls, ThePlanners, TheModels
<1>4. call'[c].pc \notin {"attach", "save", "queue", "look", "close", "recover"} /\ call[c].pc = "idle"
  BY <1>2 DEF Opens
<1>5. \A t \in Task : /\ row'[t].state = row[t].state \/ row'[t].state = "cancelled"
                      /\ row[t].state \in TerminalStates => row'[t].state = row[t].state
  BY <1>2 DEF Opens, LiveStates, TerminalStates
<1>6. ByHand(gestures') \in Plan /\ ByHand(gestures').id = gestures' /\ ByHand(gestures').by = "hand"
  BY <1>2 DEF Opens, ByHand, Plan
<1>7. TypeOK'
  BY <1>1, <1>2, <1>6 DEF Opens, TypeOK
<1>8. Alone'
  <2>1. \A d \in Calls \ {c} : call'[d].locks = call[d].locks /\ call'[c].locks \cap call[d].locks = {}
    BY <1>2 DEF Opens
  <2>2. \A d, e \in Calls : d # e => call'[d].locks \cap call'[e].locks = {}
    BY <1>1, <2>1 DEF Alone
  <2>3. QED
    BY <1>1, <1>2, <1>3, <2>2 DEF Alone, Opens
<1>9. Paid' <=> Paid
  BY <1>1, <1>2, <1>3, <1>5 DEF Paid, Opens, TerminalStates
<1>10. AllCarry'
  <2>1. Carries(c)'
    BY <1>2, <1>4, <1>6, <1>3 DEF Opens, Carries, Mine, ThePlanners, TheModels
  <2>2. ASSUME NEW d \in Calls \ {c}
        PROVE  Carries(d)'
    <3>1. Carries(d) /\ call'[d] = call[d]
      BY <1>1, <1>2 DEF Opens, AllCarry
    <3>2. QED
      BY <1>2, <1>3, <1>5, <1>9, <3>1 DEF Opens, Carries, Mine, Ended, TerminalStates
  <2>3. QED
    BY <2>1, <2>2 DEF AllCarry
<1>11. HandsAreOne'
  <2>1. \A p \in Plan : p.id \in Nat
    BY PlanningAssumption DEF Plan
  <2>2. /\ gestures' = gestures + 1 /\ gestures \in Nat /\ stored' = stored
        /\ \A d \in Calls \ {c} : call'[d] = call[d]
    BY <1>1, <1>2, PlanningAssumption DEF Opens, TypeOK
  <2>3. \A t \in Task : stored[t] # None => stored[t].id <= gestures' /\ stored[t].id # gestures'
    BY <1>1, <2>1, <2>2 DEF HandsAreOne, TypeOK
  <2>4. \A d \in Calls : call[d].pc \in {"hand", "attach", "save", "queue"} =>
            (call[d].plan.by = "hand" => call[d].plan.id <= gestures' /\ call[d].plan.id # gestures')
    BY <1>1, <2>1, <2>2 DEF HandsAreOne, AllCarry, Carries
  <2>5. call'[c].pc = "hand" =>
            /\ call'[c].plan.id = gestures' /\ gestures' <= gestures'
            /\ \A t \in Task : stored[t] # None => stored[t] # call'[c].plan
    BY <1>2, <1>6, <2>3 DEF Opens
  <2>6. \A t \in Task : call'[c].pc = "hand" => stored[t] # call'[c].plan
    BY <1>2, <1>6, <2>5, NoneIsNothing DEF Opens
  <2>7. \A d \in Calls \ {c} : call[d].pc \in {"hand", "attach", "save", "queue"} /\ call'[c].pc = "hand" =>
            call[d].plan # call'[c].plan
    BY <1>2, <1>6, <2>4 DEF Opens
  <2>8. \A d \in Calls : call'[d].pc \in {"hand", "attach", "save", "queue"} /\ call'[d].plan.by = "hand" =>
            call'[d].plan.id <= gestures'
    BY <1>4, <2>2, <2>4, <2>5
  <2>9. \A d \in Calls : call'[d].pc \in {"hand", "attach"} /\ call'[d].plan.by = "hand" =>
            \A t \in Task : stored'[t] # call'[d].plan
    BY <1>1, <1>4, <2>2, <2>6 DEF HandsAreOne
  <2>10. \A d \in Calls, e \in Calls :
            d # e /\ call'[d].pc \in {"hand", "attach", "save", "queue"} /\ call'[d].plan.by = "hand" =>
                (call'[e].pc \in {"hand", "attach", "save", "queue"} => call'[e].plan # call'[d].plan)
    BY <1>1, <1>4, <2>2, <2>7 DEF HandsAreOne
  <2>11. QED
    BY <2>2, <2>3, <2>8, <2>9, <2>10 DEF HandsAreOne
<1>12. Tables'
  <2>1. \A d \in Calls : At(d, "save")' => d # c /\ At(d, "save")
    BY <1>2, <1>4 DEF Opens, At
  <2>2. \A d \in Calls : At(d, "save")' => row'[call[d].on] = row[call[d].on]
    BY <1>1, <1>2, <2>1 DEF Opens, EngineFree, AllCarry, Carries, At
  <2>3. QED
    BY <1>1, <1>2, <1>9, <2>1, <2>2 DEF Tables, Opens
<1>13. ParentStands'
  BY <1>1, <1>2, <1>3, <1>5, <1>9 DEF ParentStands, Opens, Ended, Absent, TerminalStates, LiveStates, TypeOK, Row
<1>14. Ahead'
  BY <1>1, <1>2, <1>3, <1>4, <1>5 DEF Ahead, Opens, Fresh, Mine, At
<1>15. PaidIsOnItsWay'
  BY <1>1, <1>2, <1>3, <1>4, <1>5, <1>9 DEF PaidIsOnItsWay, Opens, Settling, Fresh, At, TerminalStates
<1>16. QED
  BY <1>7, <1>8, <1>10, <1>11, <1>12, <1>13, <1>14, <1>15 DEF IInv

\* An expired question, a crash, a restart and a stutter keep it too.
LEMMA RestKeeps ==
    ASSUME IInv, QuestionExpires \/ Crash \/ Restart \/ UNCHANGED vars
    PROVE  IInv'
<1>1. TypeOK /\ Alone /\ AllCarry /\ HandsAreOne /\ Tables /\ ParentStands /\ Ahead /\ PaidIsOnItsWay
  BY DEF IInv
<1>2. CASE QuestionExpires \/ UNCHANGED vars
  <2>1. /\ UNCHANGED <<core, row, stored, answer, call, gestures, crashes>>
        /\ question' \in Questions
    BY <1>1, <1>2 DEF QuestionExpires, vars, TypeOK, Questions
  <2>2. TypeOK' /\ Alone' /\ HandsAreOne' /\ ParentStands'
    BY <1>1, <2>1 DEF TypeOK, Alone, HandsAreOne, ParentStands, Paid, Ended
  <2>3. AllCarry' /\ Tables' /\ Ahead' /\ PaidIsOnItsWay'
    BY <1>1, <2>1 DEF AllCarry, Carries, Mine, Paid, Ended, Tables, At, Ahead, Fresh, PaidIsOnItsWay, Settling
  <2>4. QED
    BY <2>2, <2>3 DEF IInv
<1>3. CASE Crash
  <2>1. /\ core' = "down" /\ crashes' \in 0 .. MaxCrashes /\ UNCHANGED <<row, stored, question, answer, gestures>>
        /\ call' = [c \in Calls |-> Idle]
    BY <1>1, <1>3, PlanningAssumption DEF Crash, TypeOK
  <2>2. \A c \in Calls : call'[c] = Idle
    BY <2>1
  <2>3. TypeOK' /\ Alone' /\ HandsAreOne' /\ ParentStands'
    BY <1>1, <2>1, <2>2, IdleIs DEF TypeOK, Alone, HandsAreOne, ParentStands, Paid, Ended, Calls
  <2>4. AllCarry' /\ Tables' /\ Ahead' /\ PaidIsOnItsWay'
    BY <1>1, <2>1, <2>2, IdleIs DEF AllCarry, Carries, Mine, Paid, Tables, At, Ahead, Fresh, PaidIsOnItsWay
  <2>5. QED
    BY <2>3, <2>4 DEF IInv
<1>4. CASE Restart
  <2> DEFINE new == [call[Boot] EXCEPT !.pc = "recover"]
  <2>1. /\ core = "down" /\ core' = "starting" /\ UNCHANGED <<row, stored, question, answer, gestures, crashes>>
        /\ call' = [call EXCEPT ![Boot] = new]
    BY <1>4 DEF Restart
  <2>2. \A c \in Calls : call[c] = Idle
    BY <1>1, <2>1 DEF Alone, Calls
  <2>3. new \in CallState /\ new.pc = "recover" /\ new.locks = {} /\ Boot \in Calls
    BY <2>2, IdleIs DEF CallState, Stages, Calls
  <2> HIDE DEF new
  <2>4. call' \in [Calls -> CallState] /\ call'[Boot] = new /\ \A c \in Calls \ {Boot} : call'[c] = Idle
    BY <1>1, <2>1, <2>2, <2>3 DEF TypeOK
  <2>5. Boot \notin Caller
    BY PlanningAssumption DEF Boot
  <2>6. TypeOK' /\ Alone' /\ HandsAreOne' /\ ParentStands'
    BY <1>1, <2>1, <2>3, <2>4, <2>5, IdleIs DEF TypeOK, Alone, HandsAreOne, ParentStands, Paid, Ended, Calls
  <2>7. AllCarry' /\ Tables' /\ Ahead' /\ PaidIsOnItsWay'
    BY <1>1, <2>1, <2>3, <2>4, IdleIs DEF AllCarry, Carries, Mine, Paid, Tables, At, Ahead, Fresh, PaidIsOnItsWay,
       Settling
  <2>8. QED
    BY <2>6, <2>7 DEF IInv
<1>5. QED
  BY <1>2, <1>3, <1>4

-------------------------------------------------------------------------------
(* The invariant is kept by a step, part by part *)

\* What a step does to where the parent stands; and only the Planner brings the child into being.
ParentMoves(c) ==
    /\ \/ row'[Parent].state = row[Parent].state
       \/ row[Parent].state = "created" /\ row'[Parent].state = "planning"
       \/ /\ Queue(c) /\ call[c].on = Parent /\ row'[Parent].state = "queued"
          /\ row[Parent].plan # None
       \/ row[Parent].state \in {"queued", "executing"} /\ row'[Parent].state \in {"executing", "completed", "failed"}
       \/ CloseParent(c) /\ row'[Parent].state \in {"denied", "cancelled", "failed"}
    /\ row[Child].state = Absent => row'[Child].state = Absent \/ CreateChild(c)

\* Every step moves the parent like that.
LEMMA StepMovesParent ==
    ASSUME TypeOK, AllCarry, NEW c \in Calls, Steps(c)
    PROVE  ParentMoves(c)
<1>1. CASE row' = row
  BY <1>1 DEF ParentMoves
<1>2. ASSUME NEW s \in TaskStates, row' = Moved(Child, s), row[Child].state # Absent \/ CreateChild(c)
      PROVE  ParentMoves(c)
  <2>1. Parent # Child /\ Parent \in Task /\ Child \in Task
    BY DEF Parent, Child, Task
  <2>2. QED
    BY <1>2, <2>1, MovedIs DEF ParentMoves
<1>3. ASSUME NEW op \in {"approve", "deny_by_approval", "queue", "start_planning", "complete"}, Applies(op, Child)
      PROVE  ParentMoves(c)
  BY <1>1, <1>2, <1>3, SourcesAre DEF Applies, TaskStates, TerminalStates, LiveStates, Absent
<1>4. ASSUME NEW s \in TaskStates, row' = Moved(Parent, s)
      PROVE  row'[Parent].state = s /\ row'[Child] = row[Child]
  BY <1>4, MovedIs DEF Task, Parent, Child
<1>5. CASE MoveApproved(c)
  <2>1. Applies("approve", Child)
    BY <1>5 DEF MoveApproved, Apply, Applies
  <2>2. QED
    BY <1>3, <2>1
<1>6. CASE MoveDenied(c)
  <2>1. Applies("deny_by_approval", Child)
    BY <1>6 DEF MoveDenied, Apply, Applies
  <2>2. QED
    BY <1>3, <2>1
<1>7. CASE StopChild(c)
  BY <1>1, <1>2, <1>7 DEF StopChild, Live, TaskStates, TerminalStates, LiveStates, Absent
<1>8. CASE HandStart(c)
  <2>1. /\ call[c].on \in {Parent, Child}
        /\ row' = IF row[call[c].on].state = "created" THEN Moved(call[c].on, "planning") ELSE row
    BY <1>8 DEF HandStart, At, AllCarry, Carries, Task
  <2>2. CASE row[Parent].state = "created" /\ row' = Moved(Parent, "planning")
    BY <1>4, <2>2 DEF ParentMoves, TaskStates, LiveStates
  <2>3. CASE row[Child].state = "created" /\ row' = Moved(Child, "planning")
    BY <1>2, <2>3 DEF TaskStates, LiveStates, Absent
  <2>4. QED
    BY <1>1, <2>1, <2>2, <2>3
<1>9. CASE AddPlan(c)
  BY <1>1, <1>9 DEF AddPlan
<1>10. CASE SavePlan(c)
  <2> DEFINE t == call[c].on
             new == [row[t] EXCEPT !.plan = call[c].plan]
  <2>1. row' = [row EXCEPT ![t] = new] /\ t \in Task /\ new.state = row[t].state
    BY <1>10 DEF SavePlan, At, AllCarry, Carries, TypeOK, Row
  <2> HIDE DEF new, t
  <2>2. \A u \in Task : row'[u].state = row[u].state
    BY <2>1 DEF TypeOK
  <2>3. QED
    BY <2>2 DEF ParentMoves, Task
<1>11. CASE Queue(c)
  <2>1. Applies("queue", call[c].on) /\ call[c].on \in {Parent, Child}
    BY <1>11 DEF Queue, Apply, Applies, At, AllCarry, Carries, Task
  <2>2. CASE Applies("queue", Parent) /\ call[c].on = Parent
    BY <1>1, <1>4, <1>11, <2>2, SourcesAre DEF Applies, ParentMoves, Queueable, TaskStates, LiveStates
  <2>3. QED
    BY <1>3, <2>1, <2>2
<1>12. CASE Plan_(c)
  BY <1>1, <1>12 DEF Plan_
<1>13. CASE StartPlanning(c)
  <2>1. row' = row \/ (row[Parent].state = "created" /\ row' = Moved(Parent, "planning"))
    BY <1>13, SourcesAre DEF StartPlanning, Apply
  <2>2. QED
    BY <1>1, <1>4, <2>1 DEF ParentMoves, TaskStates, LiveStates
<1>14. CASE ReadChild(c)
  BY <1>1, <1>14 DEF ReadChild
<1>15. CASE CreateChild(c)
  BY <1>1, <1>2, <1>15 DEF CreateChild, TaskStates, LiveStates
<1>16. CASE BeginChild(c)
  <2>1. Applies("start_planning", Child)
    BY <1>16 DEF BeginChild, Apply, Applies
  <2>2. QED
    BY <1>3, <2>1
<1>17. CASE Walk(c)
  BY <1>1, <1>2, <1>17 DEF Walk, TaskStates, LiveStates, Absent
<1>18. CASE AskUser(c)
  BY <1>2, <1>18 DEF AskUser, Acting, TaskStates, LiveStates, Absent
<1>19. CASE EndBadly(c)
  BY <1>2, <1>19 DEF EndBadly, Acting, TaskStates, TerminalStates, Absent
<1>20. CASE CallModel(c)
  BY <1>1, <1>20 DEF CallModel
<1>21. CASE Resume(c)
  BY <1>1, <1>21 DEF Resume
<1>22. CASE Complete(c)
  <2>1. Applies("complete", Child)
    BY <1>22 DEF Complete, Apply, Applies
  <2>2. QED
    BY <1>3, <2>1
<1>23. CASE Leave(c)
  BY <1>1, <1>23 DEF Leave
<1>24. CASE RunParent(c)
  BY <1>1, <1>4, <1>24 DEF RunParent, ParentMoves, TaskStates, LiveStates
<1>25. CASE EndParent(c)
  BY <1>1, <1>4, <1>25 DEF EndParent, ParentMoves, TaskStates, TerminalStates
<1>26. CASE SettleReads(c)
  BY <1>1, <1>26 DEF SettleReads
<1>27. CASE SettleLooks(c)
  BY <1>1, <1>27 DEF SettleLooks
<1>28. CASE Collect(c)
  BY <1>1, <1>28 DEF Collect
<1>29. CASE CloseParent(c)
  <2> DEFINE op == EndOf(call[c].child.state)
  <2>1. op \in {"deny_by_planning", "cancel", "fail"}
    BY DEF EndOf
  <2>2. Applies(op, Parent)
    BY <1>29 DEF CloseParent, Apply, Applies
  <2> HIDE DEF op
  <2>3. Target(op) \in {"denied", "cancelled", "failed"} /\ (row' = row \/ row' = Moved(Parent, Target(op)))
    BY <2>1, <2>2, SourcesAre DEF Applies
  <2>4. QED
    BY <1>1, <1>4, <1>29, <2>3 DEF ParentMoves, TaskStates, TerminalStates
<1>30. CASE Recover(c)
  <2>1. PICK orphans \in SUBSET {t \in Task : row[t].state = "executing"} :
        row' = [t \in Task |->
            CASE t \in orphans -> [row[t] EXCEPT !.state = "failed"]
              [] t = Child /\ row[t].state = "waiting_approval" /\ question = "expired" ->
                    [row[t] EXCEPT !.state = "expired"]
              [] OTHER -> row[t]]
    BY <1>30 DEF Recover
  <2>2. Parent # Child /\ Parent \in Task /\ Child \in Task /\ row[Parent] \in Row
    BY DEF Parent, Child, Task, TypeOK
  <2>3. row'[Parent] = IF Parent \in orphans THEN [row[Parent] EXCEPT !.state = "failed"] ELSE row[Parent]
    BY <2>1, <2>2
  <2>4. row[Child].state = Absent => row'[Child] = row[Child]
    BY <2>1, <2>2 DEF Absent
  <2>5. Parent \in orphans => row[Parent].state = "executing" /\ row'[Parent].state = "failed"
    BY <2>1, <2>2, <2>3 DEF Row
  <2>6. QED
    BY <2>3, <2>4, <2>5 DEF ParentMoves
<1>31. QED
  BY <1>5, <1>6, <1>7, <1>8, <1>9, <1>10, <1>11, <1>12, <1>13, <1>14, <1>15, <1>16, <1>17, <1>18, <1>19, <1>20,
     <1>21, <1>22, <1>23, <1>24, <1>25, <1>26, <1>27, <1>28, <1>29, <1>30 DEF Steps

\* What engine.plan and the plan by hand do to the call that brings the plan.
LEMMA BringsIs ==
    ASSUME TypeOK, NEW c \in Calls, HandStart(c) \/ AddPlan(c) \/ SavePlan(c), call'[c].pc # "idle"
    PROVE  /\ call[c].pc \in {"hand", "attach", "save"}
           /\ call'[c].pc \in {"attach", "save", "queue"}
           /\ HandStart(c) => call'[c].pc = "attach" /\ call[c].pc = "hand"
           /\ AddPlan(c) \/ SavePlan(c) => call'[c].pc \in {"save", "queue"} /\ call[c].pc \in {"attach", "save"}
           /\ call'[c].on = call[c].on /\ call'[c].plan = call[c].plan /\ call'[c].locks = call[c].locks
<1>1. ASSUME NEW pc \in {"attach", "save", "queue"}, Go(c, pc)
      PROVE  /\ call'[c].pc = pc /\ call'[c].on = call[c].on /\ call'[c].plan = call[c].plan
             /\ call'[c].locks = call[c].locks
  BY <1>1, GoIs DEF Stages
<1>2. ~Return(c)
  BY ReturnIs, IdleIs
<1>3. CASE HandStart(c)
  BY <1>1, <1>3 DEF HandStart, AddPlan, SavePlan, At
<1>4. CASE AddPlan(c)
  BY <1>1, <1>2, <1>4 DEF HandStart, AddPlan, SavePlan, At
<1>5. CASE SavePlan(c)
  BY <1>1, <1>5 DEF HandStart, AddPlan, SavePlan, At
<1>6. QED
  BY <1>3, <1>4, <1>5

\* A call that brings a plan got it with its last step, or carried it already.
LEMMA BroughtIs ==
    ASSUME TypeOK, NEW c \in Calls, Comes(c), Advances(c), call'[c].pc \in {"hand", "attach", "save", "queue"}
    PROVE  /\ call'[c].pc # "hand" /\ call'[c].locks = call[c].locks
           /\ \/ /\ HandStart(c) \/ AddPlan(c) \/ SavePlan(c)
                 /\ call[c].pc \in {"hand", "attach", "save"}
                 /\ call'[c].on = call[c].on /\ call'[c].plan = call[c].plan
              \/ call'[c].on = Child /\ call'[c].plan = ThePlanners
              \/ Collect(c) /\ call'[c].pc = "attach" /\ call'[c].on = Parent /\ call'[c].plan = TheModels
<1>1. call'[c].pc # "idle" /\ call'[c].locks = call[c].locks
  BY IdleIs DEF Advances
<1>2. QED
  BY <1>1, BringsIs, CollectIs DEF Comes

\* A step takes no lock, and no call is under way beside the start-up.
LEMMA StepKeepsAlone ==
    ASSUME Alone, NEW c \in Calls, Advances(c)
    PROVE  Alone'
<1>1. \A d, e \in Calls : d # e => call'[d].locks \cap call'[e].locks = {}
  BY IdleIs DEF Alone, Advances
<1>2. core' # "serving" => \A d \in Caller : call'[d] = Idle
  BY IdleIs DEF Alone, Advances, Calls
<1>3. core' # "starting" => call'[Boot] = Idle
  BY IdleIs DEF Alone, Advances, Calls
<1>4. QED
  BY <1>1, <1>2, <1>3 DEF Alone

\* What another call is about to write is not undone by a step: what ended stays ended, and what was paid stays
\* paid.
LEMMA StepKeepsCarries ==
    ASSUME TypeOK, AllCarry, NEW c \in Calls, Steps(c)
    PROVE  AllCarry'
<1>1. Advances(c) /\ RowsKept(c) /\ Carries(c)' /\ Parent \in Task /\ Child \in Task
  BY StepAdvances, StepKeepsRows, StepCarries DEF Task
<1>2. ASSUME NEW d \in Calls \ {c}
      PROVE  Carries(d)'
  <2>1. Carries(d) /\ call'[d] = call[d] /\ (Paid => Paid')
    BY <1>1, PaidStays DEF AllCarry, Advances
  <2>2. /\ row[Parent].state # "created" => row'[Parent].state # "created"
        /\ Ended(Child) => Ended(Child)' /\ row'[Child].state = row[Child].state
        /\ row[Child].state \in {"cancelled", "denied"} => row'[Child].state \in {"cancelled", "denied"}
        /\ answer # "none" => answer' # "none"
    BY <1>1 DEF RowsKept, Ended, TerminalStates
  <2>3. QED
    BY <2>1, <2>2 DEF Carries, Mine
<1>3. QED
  BY <1>1, <1>2 DEF AllCarry

\* A step brings no plan by hand of its own.
LEMMA StepKeepsHands ==
    ASSUME TypeOK, AllCarry, HandsAreOne, NEW c \in Calls, Steps(c)
    PROVE  HandsAreOne'
<1>1. Advances(c) /\ RowsKept(c) /\ Comes(c)
  BY StepAdvances, StepKeepsRows, StepComes
<1>2. gestures' = gestures /\ gestures \in Nat /\ \A d \in Calls \ {c} : call'[d] = call[d]
  BY <1>1, PlanningAssumption DEF Advances, TypeOK
<1>3. ASSUME call'[c].pc \in {"hand", "attach", "save", "queue"}, call'[c].plan.by = "hand"
      PROVE  /\ call[c].pc \in {"hand", "attach", "save"} /\ call'[c].plan = call[c].plan
             /\ call'[c].pc = "attach" => HandStart(c) /\ call[c].pc = "hand"
             /\ call'[c].pc # "hand"
  <2>1. ThePlanners.by # "hand" /\ TheModels.by # "hand"
    BY DEF ThePlanners, TheModels
  <2>2. QED
    BY <1>1, <1>3, <2>1, BroughtIs, BringsIs
<1>4. ASSUME AddPlan(c)
      PROVE  /\ call[c].pc = "attach" /\ call[c].plan \in Plan /\ call[c].plan.id <= gestures
             /\ \A t \in Task : stored'[t] \in {stored[t], call[c].plan}
  <2>1. call[c].pc = "attach" /\ call[c].plan \in Plan /\ \A t \in Task : stored'[t] \in {stored[t], call[c].plan}
    BY <1>4 DEF AddPlan, At, AllCarry, Carries, TypeOK
  <2>2. call[c].plan.id <= gestures
    <3>1. CASE call[c].plan.by = "hand"
      BY <2>1, <3>1 DEF HandsAreOne
    <3>2. CASE call[c].plan.by # "hand"
      BY <1>2, <2>1, <3>2 DEF Plan
    <3>3. QED
      BY <3>1, <3>2
  <2>3. QED
    BY <2>1, <2>2
<1>5. \A t \in Task : stored'[t] # None => stored'[t].id <= gestures'
  BY <1>1, <1>2, <1>4 DEF HandsAreOne, RowsKept
<1>6. ASSUME NEW d \in Calls, call'[d].pc \in {"hand", "attach", "save", "queue"}, call'[d].plan.by = "hand"
      PROVE  /\ call'[d].plan = call[d].plan /\ call[d].pc \in {"hand", "attach", "save", "queue"}
             /\ call'[d].pc \in {"hand", "attach"} => call[d].pc \in {"hand", "attach"}
  BY <1>2, <1>3, <1>6
<1>7. ASSUME NEW d \in Calls, call'[d].pc \in {"hand", "attach"}, call'[d].plan.by = "hand", NEW t \in Task
      PROVE  stored'[t] # call'[d].plan
  <2>1. call'[d].plan = call[d].plan /\ call[d].pc \in {"hand", "attach"} /\ stored[t] # call[d].plan
    BY <1>6, <1>7 DEF HandsAreOne
  <2>2. ASSUME AddPlan(c)
        PROVE  d # c /\ call[c].plan # call[d].plan
    <3>1. d # c
      BY <1>3, <1>4, <1>7, <2>2
    <3>2. QED
      BY <1>4, <1>7, <2>1, <2>2, <3>1 DEF HandsAreOne
  <2>3. QED
    BY <1>1, <1>4, <2>1, <2>2 DEF RowsKept
<1>8. ASSUME NEW d \in Calls, call'[d].pc \in {"hand", "attach", "save", "queue"}, call'[d].plan.by = "hand",
             NEW e \in Calls \ {d}, call'[e].pc \in {"hand", "attach", "save", "queue"}
      PROVE  call'[e].plan # call'[d].plan
  BY <1>6, <1>8 DEF HandsAreOne
<1>9. ASSUME NEW d \in Calls, call'[d].pc \in {"hand", "attach", "save", "queue"}, call'[d].plan.by = "hand"
      PROVE  call'[d].plan.id <= gestures'
  BY <1>2, <1>6, <1>9 DEF HandsAreOne
<1>10. QED
  BY <1>5, <1>7, <1>8, <1>9 DEF HandsAreOne

\* The plans table grows only by the plan that engine.plan then writes in the row.
LEMMA StepKeepsTables ==
    ASSUME TypeOK, AllCarry, Tables, NEW c \in Calls, Steps(c)
    PROVE  Tables'
<1>1. Advances(c) /\ RowsKept(c) /\ Comes(c)
  BY StepAdvances, StepKeepsRows, StepComes
<1>2. Parent \in Task /\ Child \in Task /\ Parent # Child
  BY DEF Task, Parent, Child
<1>3. ASSUME NEW t \in Task, stored[t] # None
      PROVE  stored'[t] = stored[t]
  BY <1>1, <1>3 DEF RowsKept, AddPlan, TypeOK
<1>4. ASSUME NEW t \in Task, stored'[t] # stored[t]
      PROVE  /\ AddPlan(c) /\ t = call[c].on /\ stored'[t] = call[c].plan
             /\ call[c].pc = "attach" /\ call[c].plan \in Plan
             /\ row' = row /\ row[t].plan = None
  <2>1. AddPlan(c)
    BY <1>1, <1>4 DEF RowsKept
  <2>2. QED
    BY <1>4, <2>1 DEF AddPlan, TypeOK, At, AllCarry, Carries
<1>5. ASSUME SavePlan(c)
      PROVE  /\ call[c].pc = "save" /\ call[c].on \in Task /\ call[c].plan \in Plan
             /\ row'[call[c].on].plan = call[c].plan /\ stored' = stored
             /\ \A t \in Task \ {call[c].on} : row'[t] = row[t]
  <2> DEFINE t == call[c].on
             new == [row[t] EXCEPT !.plan = call[c].plan]
  <2>1. /\ call[c].pc = "save" /\ t \in Task /\ row' = [row EXCEPT ![t] = new] /\ stored' = stored
        /\ call[c].plan \in Plan
    BY <1>5 DEF SavePlan, At, AllCarry, Carries
  <2>2. new.plan = call[c].plan
    BY <2>1 DEF TypeOK, Row
  <2> HIDE DEF new
  <2>3. QED
    BY <2>1, <2>2 DEF TypeOK
<1>6. ASSUME NEW t \in Task, row'[t].plan # None
      PROVE  stored'[t] = row'[t].plan
  <2>1. CASE row'[t].plan = row[t].plan
    BY <1>3, <1>6, <2>1 DEF Tables
  <2>2. CASE row'[t].plan # row[t].plan
    <3>1. SavePlan(c) /\ t = call[c].on
      BY <1>1, <1>5, <2>2 DEF RowsKept
    <3>2. QED
      BY <1>5, <3>1 DEF Tables, At
  <2>3. QED
    BY <2>1, <2>2
<1>7. ASSUME stored'[Parent] = TheModels
      PROVE  Paid'
  <2>1. CASE stored[Parent] = TheModels
    BY <1>1, <2>1, PaidStays DEF Tables
  <2>2. CASE stored[Parent] # TheModels
    <3>1. call[c].plan = TheModels /\ call[c].pc = "attach"
      BY <1>2, <1>4, <1>7, <2>2
    <3>2. QED
      BY <1>1, <3>1, PaidStays DEF AllCarry, Carries
  <2>3. QED
    BY <2>1, <2>2
<1>8. ASSUME At(c, "save")'
      PROVE  /\ call'[c].on \in Task /\ stored'[call'[c].on] = call'[c].plan /\ row' = row
             /\ row[call'[c].on].state = "planning" /\ row[call'[c].on].plan = None
             /\ EngineFree(call'[c].on)
  <2>1. AddPlan(c) /\ call'[c].pc = "save"
    BY <1>1, <1>8 DEF Comes, At
  <2>2. call'[c].on = call[c].on /\ call'[c].plan = call[c].plan /\ call[c].pc = "attach"
    BY <2>1, BringsIs DEF AddPlan, At
  <2>3. call[c].on \in Task /\ call[c].plan \in Plan
    BY <2>2 DEF AllCarry, Carries
  <2>4. ~Go(c, "queue") /\ ~Return(c)
    BY <2>1, GoIs, ReturnIs, IdleIs DEF Stages
  <2>5. /\ row[call[c].on].plan = None /\ row[call[c].on].state = "planning"
        /\ stored[call[c].on] \in {None, call[c].plan} /\ row' = row /\ EngineFree(call[c].on)
        /\ stored' = [stored EXCEPT ![call[c].on] = IF @ = None THEN call[c].plan ELSE @]
    BY <2>1, <2>4 DEF AddPlan, PlanStored
  <2>6. stored'[call[c].on] = call[c].plan
    BY <2>3, <2>5 DEF TypeOK
  <2>7. QED
    BY <2>2, <2>3, <2>5, <2>6
<1>9. ASSUME NEW d \in Calls \ {c}, At(d, "save")'
      PROVE  /\ At(d, "save") /\ call'[d] = call[d]
             /\ stored'[call'[d].on] = call'[d].plan /\ row'[call'[d].on] = row[call[d].on]
  <2>1. At(d, "save") /\ call'[d] = call[d]
    BY <1>1, <1>9 DEF Advances, At
  <2>2. call[d].on \in Task /\ call[d].plan \in Plan
    BY <2>1 DEF AllCarry, Carries, At
  <2>3. stored'[call[d].on] = call[d].plan
    BY <1>3, <2>1, <2>2, NoneIsNothing DEF Tables
  <2>4. QED
    BY <1>1, <2>1, <2>3, SavingRowStays
<1>10. ASSUME NEW d \in Calls, At(d, "save")'
       PROVE  /\ stored'[call'[d].on] = call'[d].plan /\ row'[call'[d].on].state = "planning"
              /\ row'[call'[d].on].plan = None
  BY <1>8, <1>9, <1>10 DEF Tables
<1>11. ASSUME NEW d \in Calls, NEW e \in Calls \ {d}, At(d, "save")', At(e, "save")'
       PROVE  call'[e].on # call'[d].on
  BY <1>8, <1>9, <1>11 DEF Tables, EngineFree
<1>12. QED
  BY <1>6, <1>7, <1>10, <1>11 DEF Tables

\* A parent that is queued has a plan; one that is closed without one had its child ended without one.
LEMMA StepKeepsParent ==
    ASSUME TypeOK, AllCarry, ParentStands, NEW c \in Calls, Steps(c)
    PROVE  ParentStands'
<1>1. RowsKept(c) /\ ParentMoves(c) /\ Carries(c)
  BY StepKeepsRows, StepMovesParent DEF AllCarry
<1>2. Parent \in Task /\ Child \in Task /\ \A t \in Task : row[t].plan # None => row'[t].plan # None
  BY <1>1, NoneIsNothing DEF RowsKept, SavePlan, Task, Carries, At, TypeOK, Row
<1>3. ASSUME CloseParent(c)
      PROVE  Ended(Child) /\ ~Paid
  BY <1>1, <1>3 DEF CloseParent, Carries, HasPlan, Paid, At
<1>4. ASSUME Complete(c)
      PROVE  answer # "none"
  BY <1>1, <1>4 DEF Complete, At, Carries
<1>5. ASSUME CreateChild(c)
      PROVE  row[Parent].state # "created"
  BY <1>1, <1>5 DEF CreateChild, At, Carries
<1>6. ASSUME Ended(Child)
      PROVE  Ended(Child)' /\ (~Paid => ~Paid')
  BY <1>1, <1>2, <1>6 DEF RowsKept, Ended, Paid, TerminalStates
<1>7. row'[Parent].state \in
          {"created", "planning", "queued", "executing", "completed", "failed", "denied", "cancelled"}
  BY <1>1 DEF ParentMoves, ParentStands
<1>8. row'[Parent].state \in {"queued", "executing", "completed"} => row'[Parent].plan # None
  BY <1>1, <1>2 DEF ParentMoves, ParentStands
<1>9. row'[Parent].state \in {"failed", "denied"} /\ row'[Parent].plan = None => Ended(Child)' /\ ~Paid'
  BY <1>1, <1>2, <1>3, <1>6 DEF ParentMoves, ParentStands
<1>10. row'[Parent].state = "created" => row'[Child].state = Absent
  BY <1>1, <1>5 DEF ParentMoves, ParentStands, RowsKept
<1>11. row'[Child].state = "completed" => answer' # "none"
  BY <1>1, <1>4 DEF ParentStands, RowsKept
<1>12. QED
  BY <1>7, <1>8, <1>9, <1>10, <1>11 DEF ParentStands

\* No call plans the parent between the read and the write of the call that holds the end of the child.
LEMMA StepKeepsAhead ==
    ASSUME IInv, NEW c \in Calls, Steps(c)
    PROVE  Ahead'
<1>1. TypeOK /\ Alone /\ AllCarry /\ HandsAreOne /\ Tables /\ ParentStands /\ Ahead
  BY DEF IInv
<1>2. Advances(c) /\ RowsKept(c) /\ ParentMoves(c) /\ Comes(c) /\ Carries(c) /\ Parent \in Task /\ Parent # Child
  BY <1>1, StepAdvances, StepKeepsRows, StepMovesParent, StepComes DEF AllCarry, Task, Parent, Child
<1>3. /\ ThePlanners # TheModels /\ ThePlanners.by # "hand" /\ TheModels.by # "hand"
      /\ TheModels \in Plan
      /\ \A p \in Plan : p.by # "hand" => p \in {ThePlanners, TheModels}
  BY DEF ThePlanners, TheModels, Plan
<1>4. ASSUME call'[c].pc # "idle", Mine(c)'
      PROVE  Mine(c) /\ call[c].pc # "idle"
  BY <1>2, <1>4, IdleIs DEF Advances, Mine
<1>5. ASSUME row'[Parent].plan # row[Parent].plan
      PROVE  /\ call[c].pc = "save" /\ call[c].on = Parent /\ row'[Parent].plan = call[c].plan
             /\ row[Parent].plan = None /\ call[c].plan \in Plan
             /\ call[c].plan = TheModels => Mine(c)
  <2>1. SavePlan(c)
    BY <1>2, <1>5 DEF RowsKept
  <2>2. call[c].pc = "save" /\ call[c].on \in Task /\ call[c].plan \in Plan /\ row[call[c].on].plan = None
    BY <1>1, <2>1 DEF SavePlan, AllCarry, Carries, At, Tables
  <2> DEFINE t == call[c].on
             new == [row[t] EXCEPT !.plan = call[c].plan]
  <2>3. row' = [row EXCEPT ![t] = new] /\ t \in Task /\ new.plan = call[c].plan
    BY <1>1, <2>1, <2>2 DEF SavePlan, TypeOK, Row
  <2> HIDE DEF new, t
  <2>4. t = Parent /\ row'[Parent].plan = call[c].plan
    BY <1>1, <1>2, <1>5, <2>3 DEF TypeOK
  <2>5. QED
    BY <1>2, <2>2, <2>4 DEF Carries, t
<1>6. ASSUME Fresh(c)', Mine(c)'
      PROVE  row'[Parent].plan # TheModels
  <2>1. row'[Parent].plan = row[Parent].plan
    <3>1. SavePlan(c) => call'[c].pc = "queue"
      BY <1>1, GoIs DEF SavePlan, Stages
    <3>2. QED
      BY <1>2, <1>6, <3>1 DEF Fresh, At, RowsKept
  <2>2. Mine(c)
    BY <1>4, <1>6 DEF Fresh, At
  <2>3. CASE At(c, "look")' /\ Unsettled(call'[c].parent)
    <3>1. call'[c].parent = row[Parent]
      BY <1>1, <1>2, <2>3, ReadsIs DEF Comes, At
    <3>2. QED
      BY <1>3, <2>1, <2>3, <3>1, NoneIsNothing DEF Unsettled
  <2>4. CASE At(c, "close")'
    <3>1. SettleLooks(c) /\ call'[c].pc = "close"
      BY <1>2, <2>4 DEF Comes, At
    <3>2. ~Return(c)
      BY <1>1, <3>1, ReturnIs, IdleIs
    <3>3. Fresh(c)
      BY <1>1, <3>1, <3>2, LooksIs DEF Fresh, MustClose, At
    <3>4. QED
      BY <1>1, <2>1, <2>2, <3>3 DEF Ahead
  <2>5. CASE At(c, "attach")' /\ call'[c].plan = TheModels
    <3>1. Collect(c) \/ HandStart(c)
      BY <1>2, <1>3, <2>5 DEF Comes, At
    <3>2. CASE Collect(c)
      <4>1. Fresh(c)
        BY <3>2 DEF Collect, Fresh
      <4>2. QED
        BY <1>1, <2>1, <2>2, <4>1 DEF Ahead
    <3>3. CASE HandStart(c)
      BY <1>1, <1>2, <1>3, <2>5, <3>3, BringsIs DEF Carries, At
    <3>4. QED
      BY <3>1, <3>2, <3>3
  <2>6. QED
    BY <1>6, <2>3, <2>4, <2>5 DEF Fresh
<1>7. ASSUME NEW d \in Calls \ {c}, Fresh(d)', Mine(d)'
      PROVE  row'[Parent].plan # TheModels
  <2>1. Fresh(d) /\ Mine(d) /\ call[d].pc # "idle" /\ row[Parent].plan # TheModels
    BY <1>1, <1>2, <1>7 DEF Advances, Fresh, Mine, At, Ahead
  <2>2. ASSUME row'[Parent].plan = TheModels
        PROVE  FALSE
    <3>1. Mine(c) /\ call[c].pc # "idle"
      BY <1>5, <2>1, <2>2
    <3>2. QED
      BY <1>1, <1>7, <2>1, <3>1, MineIsOne
  <2>3. QED
    BY <2>2
<1>8. ASSUME At(c, "queue")', call'[c].on = Parent
      PROVE  row'[Parent].plan = call'[c].plan /\ row'[Parent].state \notin {"queued", "executing"}
  <2>1. AddPlan(c) \/ SavePlan(c)
    BY <1>2, <1>8 DEF Comes, At
  <2>2. call[c].on = Parent /\ call'[c].plan = call[c].plan /\ call'[c].pc = "queue"
    BY <1>1, <1>8, <2>1, BringsIs DEF At
  <2>3. CASE AddPlan(c)
    <3>1. ~Go(c, "save") /\ ~Return(c)
      BY <1>1, <2>2, GoIs, ReturnIs, IdleIs DEF Stages
    <3>2. row' = row /\ row[Parent].plan = call[c].plan /\ call[c].pc = "attach"
      BY <2>2, <2>3, <3>1 DEF AddPlan, At
    <3>3. call[c].plan \in Plan /\ stored[Parent] = call[c].plan
      BY <1>1, <1>2, <3>2, NoneIsNothing DEF Carries, Tables
    <3>4. call[c].plan.by # "hand"
      BY <1>1, <1>2, <3>2, <3>3 DEF HandsAreOne
    <3>5. call[c].plan # ThePlanners
      BY <1>2, <2>2, <3>2 DEF Carries
    <3>6. call[c].plan = TheModels
      BY <1>3, <3>3, <3>4, <3>5
    <3>7. Fresh(c) /\ Mine(c)
      BY <1>2, <3>2, <3>6 DEF Fresh, At, Carries
    <3>8. QED
      BY <1>1, <3>2, <3>6, <3>7 DEF Ahead
  <2>4. CASE SavePlan(c)
    <3>1. call[c].pc = "save" /\ row[Parent].state = "planning" /\ row[Parent].plan = None /\ call[c].plan \in Plan
      BY <1>1, <1>2, <2>2, <2>4 DEF SavePlan, At, Tables, Carries
    <3> DEFINE new == [row[Parent] EXCEPT !.plan = call[c].plan]
    <3>2. row' = [row EXCEPT ![Parent] = new] /\ new.plan = call[c].plan /\ new.state = "planning"
      BY <1>1, <1>2, <2>2, <2>4, <3>1 DEF SavePlan, TypeOK, Row
    <3> HIDE DEF new
    <3>3. QED
      BY <1>1, <1>2, <2>2, <3>2 DEF TypeOK
  <2>5. QED
    BY <2>1, <2>3, <2>4
<1>9. ASSUME NEW d \in Calls \ {c}, At(d, "queue")', call'[d].on = Parent
      PROVE  row'[Parent].plan = call'[d].plan /\ row'[Parent].state \notin {"queued", "executing"}
  <2>1. /\ call'[d] = call[d] /\ call[d].pc = "queue" /\ call[d].on = Parent
        /\ row[Parent].plan = call[d].plan /\ row[Parent].state \notin {"queued", "executing"}
        /\ call[d].plan \in Plan /\ call[d].plan # ThePlanners /\ (call[d].plan = TheModels => Mine(d))
    BY <1>1, <1>2, <1>9 DEF Advances, At, Ahead, AllCarry, Carries
  <2>2. row'[Parent].plan = row[Parent].plan
    BY <1>5, <2>1, NoneIsNothing
  <2>3. ASSUME Queue(c), call[c].on = Parent
        PROVE  FALSE
    <3>1. call[c].pc = "queue" /\ row[Parent].plan = call[c].plan
      BY <1>1, <2>3 DEF Queue, At, Ahead
    <3>2. CASE call[d].plan.by = "hand"
      BY <1>1, <2>1, <3>1, <3>2 DEF HandsAreOne
    <3>3. CASE call[d].plan = TheModels
      BY <1>1, <1>2, <2>1, <3>1, <3>3, MineIsOne DEF Carries
    <3>4. QED
      BY <1>3, <2>1, <3>2, <3>3
  <2>4. QED
    BY <1>2, <2>1, <2>2, <2>3 DEF ParentMoves
<1>10. QED
  BY <1>6, <1>7, <1>8, <1>9 DEF Ahead

\* The one step a call can take in the stages of the settling.
LEMMA StepIs ==
    ASSUME NEW c \in Calls, Steps(c)
    PROVE  /\ call[c].pc = "recover" => Recover(c)
           /\ call[c].pc = "settle" => SettleReads(c)
           /\ call[c].pc = "look" => SettleLooks(c)
           /\ call[c].pc = "close" => Collect(c) \/ (CloseParent(c) /\ ~HasPlan(c))
           /\ call[c].pc = "attach" => AddPlan(c)
BY DEF Steps, At, Acting, MoveApproved, MoveDenied, StopChild, HandStart, AddPlan, SavePlan, Queue, Plan_,
   StartPlanning,
       ReadChild, CreateChild, BeginChild, Walk, AskUser, EndBadly, CallModel, Resume, Complete, Leave,
       RunParent, EndParent, SettleReads, SettleLooks, Collect, CloseParent, Recover

\* From the completion of the child to the plans table, the paid plan is in the hands of a call.
LEMMA StepKeepsPaid ==
    ASSUME IInv, NEW c \in Calls, Steps(c)
    PROVE  PaidIsOnItsWay'
<1>1. TypeOK /\ Alone /\ AllCarry /\ Tables /\ ParentStands /\ PaidIsOnItsWay
  BY DEF IInv
<1>2. Advances(c) /\ RowsKept(c) /\ Carries(c) /\ Parent \in Task /\ Child \in Task /\ TheModels \in Plan
  BY <1>1, StepAdvances, StepKeepsRows DEF AllCarry, Task, TheModels, Plan
<1>3. SUFFICES ASSUME Paid', stored'[Parent] = None, row'[Parent].state # "cancelled"
               PROVE  \E d \in Calls : Settling(d)'
  BY DEF PaidIsOnItsWay
<1>4. CASE ~Paid
  <2>1. Complete(c)
    BY <1>2, <1>3, <1>4 DEF RowsKept, Paid
  <2>2. Go(c, "settle")
    BY <2>1 DEF Complete, Apply
  <2>3. call'[c].pc = "settle"
    BY <1>1, <2>2, GoIs DEF Stages
  <2>4. QED
    BY <2>3 DEF Settling
<1>5. CASE Paid
  <2>1. stored[Parent] = None /\ row[Parent].state # "cancelled"
    BY <1>1, <1>2, <1>3 DEF RowsKept, AddPlan, TypeOK, TerminalStates
  <2>2. row[Parent].plan = None /\ row[Parent].state = "planning"
    BY <1>1, <1>2, <1>5, <2>1 DEF Tables, ParentStands, Paid, Absent
  <2>3. core # "down"
    BY <1>1, <1>2, IdleIs DEF Alone, Advances, Calls
  <2>4. PICK d \in Calls : Settling(d)
    BY <1>1, <1>5, <2>1, <2>3 DEF PaidIsOnItsWay
  <2>5. CASE d # c
    BY <1>2, <2>4, <2>5 DEF Advances, Settling, Fresh, At
  <2>6. CASE At(c, "recover")
    <3>1. Recover(c)
      BY <2>6, StepIs DEF At
    <3>2. QED
      BY <1>1, <3>1, GoIs DEF Recover, Settling, Stages
  <2>7. CASE At(c, "settle")
    <3>1. SettleReads(c)
      BY <2>7, StepIs DEF At
    <3>2. Fresh(c)'
      BY <1>1, <2>2, <3>1, ReadsIs DEF Fresh, Unsettled, At
    <3>3. QED
      BY <3>2 DEF Settling
  <2>8. CASE At(c, "look") /\ Unsettled(call[c].parent)
    <3>1. SettleLooks(c)
      BY <2>8, StepIs DEF At
    <3>2. MustClose(call[c].parent)
      BY <1>5, <2>8 DEF MustClose, Ended, Paid, TerminalStates
    <3>3. call'[c].pc = "close"
      <4>1. CASE ~Return(c)
        BY <1>1, <3>1, <4>1, LooksIs
      <4>2. CASE Return(c)
        <5> DEFINE new == [call[c] EXCEPT !.pc = "close", !.child = row[Child]]
        <5>1. call' = [call EXCEPT ![c] = new] /\ new.pc = "close"
          BY <1>1, <3>1, <3>2 DEF SettleLooks, TypeOK, CallState
        <5> HIDE DEF new
        <5>2. QED
          BY <1>1, <5>1 DEF TypeOK
      <4>3. QED
        BY <4>1, <4>2
    <3>4. QED
      BY <3>3 DEF Settling, Fresh, At
  <2>9. CASE At(c, "close")
    <3>1. HasPlan(c)
      BY <1>2, <1>5, <2>9 DEF HasPlan, Carries, Paid, At
    <3>2. Collect(c)
      BY <2>9, <3>1, StepIs DEF At
    <3>3. QED
      BY <1>1, <3>2, CollectIs DEF Settling, Fresh, At
  <2>10. CASE At(c, "attach") /\ call[c].plan = TheModels
    <3>1. AddPlan(c)
      BY <2>10, StepIs DEF At
    <3>2. call[c].on = Parent
      BY <1>2, <2>10 DEF Carries, At
    <3>3. stored' = [stored EXCEPT ![Parent] = TheModels]
      BY <1>2, <2>1, <2>2, <2>10, <3>1, <3>2, NoneIsNothing DEF AddPlan, PlanStored
    <3>4. QED
      BY <1>1, <1>2, <1>3, <3>3, NoneIsNothing DEF TypeOK
  <2>11. QED
    BY <2>4, <2>5, <2>6, <2>7, <2>8, <2>9, <2>10 DEF Settling, Fresh, At
<1>6. QED
  BY <1>4, <1>5

-------------------------------------------------------------------------------
(* The theorems *)

\* A step keeps the invariant.
LEMMA StepKeeps ==
    ASSUME IInv, NEW c \in Calls, Steps(c)
    PROVE  IInv'
<1>1. TypeOK /\ Alone /\ AllCarry /\ HandsAreOne /\ Tables /\ ParentStands
  BY DEF IInv
<1>2. Advances(c) /\ RowsKept(c)
  BY <1>1, StepAdvances, StepKeepsRows
<1>3. TypeOK'
  <2>1. question' \in Questions /\ answer' \in Answers /\ stored' \in [Task -> Plan \cup {None}]
    BY <1>1, StepTypes
  <2>2. QED
    BY <1>1, <1>2, <2>1 DEF TypeOK, Advances, RowsKept
<1>4. Alone' /\ AllCarry' /\ HandsAreOne' /\ Tables' /\ ParentStands'
  BY <1>1, <1>2, StepKeepsAlone, StepKeepsCarries, StepKeepsHands, StepKeepsTables, StepKeepsParent
<1>5. Ahead' /\ PaidIsOnItsWay'
  BY StepKeepsAhead, StepKeepsPaid
<1>6. QED
  BY <1>3, <1>4, <1>5 DEF IInv

\* The invariant holds in every state of the planning.
THEOREM InvariantHolds == Spec => []IInv
<1>1. Init => IInv
  <2> SUFFICES ASSUME Init
               PROVE  IInv
    OBVIOUS
  <2>1. Parent \in Task /\ Child \in Task /\ Parent # Child
    BY DEF Task, Parent, Child
  <2>2. \A c \in Calls : call[c] = Idle
    BY DEF Init
  <2>3. /\ row[Parent] = [state |-> "created", plan |-> None] /\ row[Child] = [state |-> Absent, plan |-> None]
        /\ \A t \in Task : row[t].plan = None /\ stored[t] = None
    BY <2>1 DEF Init
  <2>4. TypeOK
    BY <2>2, IdleIs, PlanningAssumption DEF Init, TypeOK, Row, TaskStates, LiveStates, Questions, Answers
  <2>5. Alone /\ AllCarry /\ HandsAreOne
    BY <2>2, <2>3, IdleIs DEF Init, Alone, AllCarry, Carries, HandsAreOne, Calls
  <2>6. Tables /\ ParentStands
    BY <2>1, <2>2, <2>3, IdleIs, NoneIsNothing DEF Init, Tables, ParentStands, At, TheModels, Plan, Absent
  <2>7. Ahead /\ PaidIsOnItsWay
    BY <2>2, <2>3, IdleIs DEF Init, Ahead, Fresh, At, PaidIsOnItsWay, Paid
  <2>8. QED
    BY <2>4, <2>5, <2>6, <2>7 DEF IInv
<1>2. IInv /\ [Next]_vars => IInv'
  <2> SUFFICES ASSUME IInv, [Next]_vars
               PROVE  IInv'
    OBVIOUS
  <2>1. ASSUME NEW c \in Caller, Gestures(c)
        PROVE  IInv'
    BY <2>1, GestureKeeps
  <2>2. ASSUME NEW c \in Calls, Steps(c)
        PROVE  IInv'
    BY <2>2, StepKeeps
  <2>3. CASE QuestionExpires \/ Crash \/ Restart \/ UNCHANGED vars
    BY <2>3, RestKeeps
  <2>4. QED
    BY <2>1, <2>2, <2>3 DEF Next
<1>3. QED
  BY <1>1, <1>2, PTL DEF Spec

\* Type correctness, for any number of callers, gestures and crashes.
THEOREM TypesHold == Spec => []TypeOK
<1>1. IInv => TypeOK
  BY DEF IInv
<1>2. QED
  BY <1>1, InvariantHolds, PTL

\* The plan of a child that completed with one is not lost, and the parent is planned by the model with nothing
\* else (Planner.settle and engine.plan), whatever calls interleave and wherever the Core dies.
THEOREM PlanIsTheAnswerHolds == Spec => []PlanIsTheAnswer
<1>1. IInv => PlanIsTheAnswer
  <2> SUFFICES ASSUME IInv
               PROVE  PlanIsTheAnswer
    OBVIOUS
  <2>1. TypeOK /\ Tables /\ PaidIsOnItsWay /\ Parent \in Task
    BY DEF IInv, Task
  <2>2. ASSUME AtRest, Paid
        PROVE  \/ row[Parent].plan = TheModels \/ HalfAttached(Parent)
               \/ row[Parent].state = "cancelled" \/ stored[Parent] \notin {None, TheModels}
    <3>1. core # "down" /\ \A c \in Calls : ~Settling(c)
      BY <2>2 DEF AtRest, Settling, Fresh, At
    <3>2. stored[Parent] # None \/ row[Parent].state = "cancelled"
      BY <2>1, <2>2, <3>1 DEF PaidIsOnItsWay
    <3>3. stored[Parent] = TheModels => row[Parent].plan \in {None, TheModels}
      BY <2>1 DEF Tables
    <3>4. QED
      BY <3>2, <3>3 DEF HalfAttached
  <2>3. TheModels \in {row[Parent].plan, stored[Parent]} => Paid
    <3>1. TheModels # None
      BY NoneIsNothing DEF TheModels, Plan
    <3>2. QED
      BY <2>1, <3>1 DEF Tables
  <2>4. QED
    BY <2>2, <2>3 DEF PlanIsTheAnswer, PaidPlanIsKept, PlannedFromTheAnswer, Paid
<1>2. QED
  BY <1>1, InvariantHolds, PTL

\* No step of the planning queues a parent that somebody is walking: of the settles of one child, one plans it.
THEOREM NoWalkPulledBackHolds == Spec => NoWalkPulledBack
<1>1. IInv /\ [Next]_vars => [row[Parent].state = "executing" => row'[Parent].state # "queued"]_vars
  <2> SUFFICES ASSUME IInv, Next, row[Parent].state = "executing"
               PROVE  row'[Parent].state # "queued"
    BY DEF vars
  <2>1. TypeOK /\ AllCarry /\ Ahead /\ Parent \in Task
    BY DEF IInv, Task
  <2>2. ASSUME NEW c \in Caller, Gestures(c)
        PROVE  row'[Parent].state # "queued"
    BY <2>1, <2>2, GestureOpens DEF Opens
  <2>3. ASSUME NEW c \in Calls, Steps(c)
        PROVE  row'[Parent].state # "queued"
    <3>1. ParentMoves(c)
      BY <2>1, <2>3, StepMovesParent
    <3>2. ~(Queue(c) /\ call[c].on = Parent)
      BY <2>1 DEF Queue, Ahead, At
    <3>3. QED
      BY <3>1, <3>2 DEF ParentMoves
  <2>4. CASE QuestionExpires \/ Crash \/ Restart
    BY <2>4 DEF QuestionExpires, Crash, Restart
  <2>5. QED
    BY <2>2, <2>3, <2>4 DEF Next
<1>2. QED
  BY <1>1, InvariantHolds, PTL DEF Spec, NoWalkPulledBack
===============================================================================
