------------------------------- MODULE Planning -------------------------------
(***************************************************************************)
(* A task and the task that plans it. The Planner asks the model for a     *)
(* plan through a child of the task: the child is created, planned, queued *)
(* and run, its step asks the user before it calls the model, and its end  *)
(* settles the parent: planned and queued, or ended with its child. Beside *)
(* the Planner the user may bring a plan by hand, run, stop, say yes or no,*)
(* and the Core may die between any two writes and start again.            *)
(*                                                                         *)
(* The planning gesture and a run hold the lock of run; a plan by hand, a  *)
(* stop and an answer do not. An operation of the engine is one step, its  *)
(* guards and its write of the row being under the lock of the engine;     *)
(* engine.plan writes two stores and is two.                               *)
(***************************************************************************)
EXTENDS TaskTables, Naturals

CONSTANTS
    Caller,      \* the requests the Core may be serving at once
    None,
    MaxGestures, MaxCrashes   \* bounds of the exploration

ASSUME PlanningAssumption ==
    /\ MaxGestures \in Nat /\ MaxCrashes \in Nat
    /\ "boot" \notin Caller

VARIABLES
    core,       \* "down", "starting" or "serving"
    row,        \* the stored rows of the two tasks
    stored,     \* the plan in the plans table, of each task
    question,   \* the last question of the child: its approval
    answer,     \* what the model wrote, in the stored outcome of the child's step
    call,       \* what each request, and the start-up, has still to do
    gestures, crashes

vars == <<core, row, stored, question, answer, call, gestures, crashes>>

-------------------------------------------------------------------------------
(* Types *)

Parent == "parent"
Child == "child"
Task == {Parent, Child}

\* A plan by hand has an id of its own; the two others have derived ids.
Plan == [by: {"hand"}, id: 1 .. MaxGestures] \cup [by: {"planner", "model"}, id: {0}]
\* Mutant: every plan by hand has the id of the derived ones.
ByHandDerived(n) == [by |-> "hand", id |-> 0]

ByHand(n) == [by |-> "hand", id |-> n]
ThePlanners == [by |-> "planner", id |-> 0]
TheModels == [by |-> "model", id |-> 0]

Row == [state: TaskStates \cup {Absent}, plan: Plan \cup {None}]

Questions == {"none", "pending", "expired", "granted", "rejected", "used"}
Answers == {"none", "plan", "refused"}

Boot == "boot"
Calls == Caller \cup {Boot}

\* on, plan: the task of an operation of the engine and the plan it brings; parent, child: the rows
\* as this call last read them; locks: what it holds of the lock of run.
Stages == {"idle", "recover", "plan", "start", "child", "create", "begin", "hand", "attach", "save", "queue",
           "walk", "act", "done", "run", "work", "stop", "approve", "deny", "settle", "look", "close"}

CallState == [pc: Stages, on: Task \cup {None}, plan: Plan \cup {None},
              parent: Row \cup {None}, child: Row \cup {None}, locks: SUBSET Task]

ASSUME NoneIsNothing == None \notin Plan \cup Row \cup Task

Idle == [pc |-> "idle", on |-> None, plan |-> None, parent |-> None, child |-> None, locks |-> {}]

TypeOK ==
    /\ core \in {"down", "starting", "serving"}
    /\ row \in [Task -> Row] /\ stored \in [Task -> Plan \cup {None}]
    /\ question \in Questions /\ answer \in Answers
    /\ call \in [Calls -> CallState]
    /\ gestures \in 0 .. MaxGestures /\ crashes \in 0 .. MaxCrashes

Init ==
    /\ core = "serving"
    /\ row = [t \in Task |-> [state |-> IF t = Parent THEN "created" ELSE Absent, plan |-> None]]
    /\ stored = [t \in Task |-> None]
    /\ question = "none" /\ answer = "none"
    /\ call = [c \in Calls |-> Idle]
    /\ gestures = 0 /\ crashes = 0

-------------------------------------------------------------------------------
(* Calls, locks and operations of the engine *)

At(c, pc) == call[c].pc = pc

Go(c, pc) == call' = [call EXCEPT ![c].pc = pc] /\ UNCHANGED core

\* The call answers, or raises: either way its locks go.
Return(c) ==
    /\ call' = [call EXCEPT ![c] = Idle]
    /\ core' = IF c = Boot THEN "serving" ELSE core

Locked(t) == \E c \in Calls : t \in call[c].locks

\* Nobody is between the two writes of engine.plan on t.
EngineFree(t) == \A c \in Calls : At(c, "save") => call[c].on # t

Moved(t, s) == [row EXCEPT ![t].state = s]

Queueable(op, t) == op = "queue" => row[t].plan # None

\* An operation of the table: nothing if the task is already there, refused from elsewhere.
Apply(c, op, t, done, refused) ==
    /\ EngineFree(t)
    /\ \/ /\ row[t].state = Target(op)
          /\ UNCHANGED row /\ done
       \/ /\ row[t].state \in Sources(op) \ {Target(op)} /\ Queueable(op, t)
          /\ row' = Moved(t, Target(op)) /\ done
       \/ /\ row[t].state # Target(op)
          /\ row[t].state \notin Sources(op) \/ ~Queueable(op, t)
          /\ UNCHANGED row /\ refused

Ended(t) == row[t].state \in TerminalStates
Live(t) == row[t].state \in LiveStates

-------------------------------------------------------------------------------
(* The gestures of the user *)

Gesture(c) ==
    /\ core = "serving" /\ At(c, "idle") /\ c # Boot
    /\ gestures < MaxGestures /\ gestures' = gestures + 1
    /\ UNCHANGED <<core, crashes>>

Begin(c, pc, t, locks) == call' = [call EXCEPT ![c] = [Idle EXCEPT !.pc = pc, !.on = t, !.locks = locks]]

AskForPlan(c) ==
    /\ Gesture(c) /\ ~Locked(Parent) /\ ~Locked(Child)
    /\ Begin(c, "plan", None, {Parent, Child})
    /\ UNCHANGED <<row, stored, question, answer>>

\* Mutant: the run of a planning task does not take its lock.
RunLocksNothing(t) == {t} \ {Child}

RunLocks(t) == {t}

Run(c, t) ==
    /\ Gesture(c) /\ ~Locked(t) /\ row[t].state # Absent
    /\ Begin(c, IF t = Child THEN "walk" ELSE "run", t, RunLocks(t))
    /\ UNCHANGED <<row, stored, question, answer>>

\* The door of the plan by hand: refused while the task has a planning child.
HandDoor(t) == t = Parent => row[Child].state = Absent

AttachByHand(c, t) ==
    /\ Gesture(c) /\ row[t].state # Absent /\ HandDoor(t)
    /\ call' = [call EXCEPT ![c] = [Idle EXCEPT !.pc = "hand", !.on = t, !.plan = ByHand(gestures')]]
    /\ UNCHANGED <<row, stored, question, answer>>

Stop(c, t) ==
    /\ Gesture(c) /\ EngineFree(t) /\ row[t].state \in LiveStates \cup {"cancelled"}
    /\ row' = Moved(t, "cancelled")
    /\ Begin(c, IF t = Parent THEN "stop" ELSE "settle", t, {})
    /\ UNCHANGED <<stored, question, answer>>

\* The answer is stored first. The same answer again completes a move that was cut.
Answer(c, said, pc) ==
    /\ Gesture(c) /\ row[Child].state = "waiting_approval"
    /\ question \in {"pending", said} /\ question' = said
    /\ Begin(c, pc, Child, {})
    /\ UNCHANGED <<row, stored, answer>>

Approve(c) == Answer(c, "granted", "approve")

\* The same no again, of a child it denied, settles the parent again.
DenyAgain(c) ==
    /\ Gesture(c) /\ row[Child].state = "denied" /\ question = "rejected"
    /\ Begin(c, "settle", Child, {})
    /\ UNCHANGED <<row, stored, question, answer>>

Deny(c) == Answer(c, "rejected", "deny") \/ DenyAgain(c)

MoveApproved(c) ==
    /\ At(c, "approve") /\ Apply(c, "approve", Child, Return(c), Return(c))
    /\ UNCHANGED <<stored, question, answer, gestures, crashes>>

\* Mutant: after the no nobody settles the parent.
MoveDeniedAlone(c) ==
    /\ At(c, "deny") /\ Apply(c, "deny_by_approval", Child, Return(c), Return(c))
    /\ UNCHANGED <<stored, question, answer, gestures, crashes>>

MoveDenied(c) ==
    /\ At(c, "deny") /\ Apply(c, "deny_by_approval", Child, Go(c, "settle"), Return(c))
    /\ UNCHANGED <<stored, question, answer, gestures, crashes>>

\* stop_planning: the stop of the parent goes down to a live planning child.
StopChild(c) ==
    /\ At(c, "stop") /\ EngineFree(Child)
    /\ row' = IF Live(Child) THEN Moved(Child, "cancelled") ELSE row
    /\ Return(c)
    /\ UNCHANGED <<stored, question, answer, gestures, crashes>>

HandStart(c) ==
    /\ At(c, "hand") /\ EngineFree(call[c].on)
    /\ row' = IF row[call[c].on].state = "created" THEN Moved(call[c].on, "planning") ELSE row
    /\ Go(c, "attach")
    /\ UNCHANGED <<stored, question, answer, gestures, crashes>>

-------------------------------------------------------------------------------
(* engine.plan, and the queue that follows it *)

\* The plans table takes one plan of a task: the same again goes on, another is refused.
PlanStored(t, p) == stored[t] \in {None, p}

AddPlan(c) ==
    LET t == call[c].on  p == call[c].plan IN
    /\ At(c, "attach") /\ EngineFree(t)
    /\ \/ /\ row[t].plan = p
          /\ Go(c, "queue") /\ UNCHANGED stored
       \/ /\ row[t].plan = None /\ row[t].state = "planning" /\ PlanStored(t, p)
          /\ stored' = [stored EXCEPT ![t] = IF @ = None THEN p ELSE @]
          /\ Go(c, "save")
       \/ /\ row[t].plan # p
          /\ row[t].plan # None \/ row[t].state # "planning" \/ ~PlanStored(t, p)
          /\ Return(c) /\ UNCHANGED stored
    /\ UNCHANGED <<row, question, answer, gestures, crashes>>

SavePlan(c) ==
    /\ At(c, "save")
    /\ row' = [row EXCEPT ![call[c].on].plan = call[c].plan]
    /\ Go(c, "queue")
    /\ UNCHANGED <<stored, question, answer, gestures, crashes>>

\* After the plan of the child the Planner runs it; the two other plans are the end of the call.
Queue(c) ==
    /\ At(c, "queue")
    /\ Apply(c, "queue", call[c].on,
             IF call[c].plan = ThePlanners THEN Go(c, "walk") ELSE Return(c), Return(c))
    /\ UNCHANGED <<stored, question, answer, gestures, crashes>>

-------------------------------------------------------------------------------
(* The planning gesture: Planner.plan *)

Plan_(c) ==
    LET t == row[Parent] IN
    /\ At(c, "plan")
    /\ CASE t.plan # None -> IF t.plan = TheModels THEN Go(c, "settle") ELSE Return(c)
         [] t.plan = None /\ t.state = "created" -> Go(c, "start")
         [] t.plan = None /\ t.state = "planning" -> Go(c, "child")
         [] OTHER -> IF row[Child].state # Absent THEN Go(c, "settle") ELSE Return(c)
    /\ UNCHANGED <<row, stored, question, answer, gestures, crashes>>

StartPlanning(c) ==
    /\ At(c, "start") /\ Apply(c, "start_planning", Parent, Go(c, "child"), Return(c))
    /\ UNCHANGED <<stored, question, answer, gestures, crashes>>

\* What the Planner does next with a planning child that stands as it read it.
NextOf(child) ==
    CASE child.state = Absent -> "create"
      [] child.state = "created" -> "begin"
      [] child.state = "planning" -> IF child.plan = None THEN "attach" ELSE "queue"
      [] child.state \in {"queued", "executing"} -> "walk"
      [] OTHER -> "settle"

GoOn(c, child) ==
    call' = [call EXCEPT ![c].pc = NextOf(child), ![c].on = Child, ![c].plan = ThePlanners]

ReadChild(c) ==
    /\ At(c, "child") /\ GoOn(c, row[Child])
    /\ UNCHANGED <<core, row, stored, question, answer, gestures, crashes>>

CreateChild(c) ==
    /\ At(c, "create")
    /\ row' = IF row[Child].state = Absent THEN Moved(Child, "created") ELSE row
    /\ GoOn(c, row'[Child])
    /\ UNCHANGED <<core, stored, question, answer, gestures, crashes>>

BeginChild(c) ==
    /\ At(c, "begin")
    /\ Apply(c, "start_planning", Child, GoOn(c, row'[Child]) /\ UNCHANGED core, Return(c))
    /\ UNCHANGED <<stored, question, answer, gestures, crashes>>

-------------------------------------------------------------------------------
(* The runs *)

\* The runner takes the child: from the queue, or where a crash left it.
Walk(c) ==
    /\ At(c, "walk") /\ EngineFree(Child)
    /\ CASE row[Child].state = "queued" -> row' = Moved(Child, "executing") /\ Go(c, "act")
         [] row[Child].state = "executing" -> UNCHANGED row /\ Go(c, "act")
         [] row[Child].state \in TerminalStates \cup {"waiting_approval"} ->
                UNCHANGED row /\ Go(c, "settle")
         [] OTHER -> UNCHANGED row /\ Return(c)
    /\ UNCHANGED <<stored, question, answer, gestures, crashes>>

Acting(c) == At(c, "act") /\ row[Child].state = "executing"

AskUser(c) ==
    /\ Acting(c) /\ answer = "none"
    /\ row' = Moved(Child, "waiting_approval") /\ question' = "pending"
    /\ Go(c, "settle") /\ UNCHANGED <<stored, answer, gestures, crashes>>

\* Denied by the policy or by the cap of the month, or failed: by the tool, by its verification, or
\* because nobody knows whether an interrupted call acted.
EndBadly(c) ==
    /\ Acting(c)
    /\ \E s \in {"denied", "failed"} : row' = Moved(Child, s)
    /\ Go(c, "settle") /\ UNCHANGED <<stored, question, answer, gestures, crashes>>

\* The step of the Planner calls the model once, on a yes; a plan by hand may do without.
CallModel(c) ==
    /\ Acting(c) /\ answer = "none"
    /\ question = "granted" \/ row[Child].plan # ThePlanners
    /\ question' = IF question = "granted" THEN "used" ELSE question
    /\ \E a \in {"plan", "refused"} : answer' = a
    /\ Go(c, "done") /\ UNCHANGED <<row, stored, gestures, crashes>>

Resume(c) ==
    /\ Acting(c) /\ answer # "none"
    /\ Go(c, "done") /\ UNCHANGED <<row, stored, question, answer, gestures, crashes>>

Complete(c) ==
    /\ At(c, "done") /\ Apply(c, "complete", Child, Go(c, "settle"), Go(c, "settle"))
    /\ UNCHANGED <<stored, question, answer, gestures, crashes>>

\* The run stops with the task where it is, or finds that it has ended; or raises.
Leave(c) ==
    /\ At(c, "act")
    /\ Go(c, "settle") \/ (row[Child].state = "executing" /\ Return(c))
    /\ UNCHANGED <<row, stored, question, answer, gestures, crashes>>

\* A run of the parent, of which only its states matter here.
RunParent(c) ==
    /\ At(c, "run") /\ EngineFree(Parent)
    /\ IF row[Parent].state \in {"queued", "executing"}
         THEN row' = Moved(Parent, "executing") /\ Go(c, "work")
         ELSE UNCHANGED row /\ Return(c)
    /\ UNCHANGED <<stored, question, answer, gestures, crashes>>

EndParent(c) ==
    /\ At(c, "work") /\ Return(c)
    /\ \/ UNCHANGED row
       \/ /\ row[Parent].state = "executing"
          /\ \E s \in {"completed", "failed"} : row' = Moved(Parent, s)
    /\ UNCHANGED <<stored, question, answer, gestures, crashes>>

-------------------------------------------------------------------------------
(* settle: the end of the child, and the parent *)

SettleReads(c) ==
    /\ At(c, "settle")
    /\ call' = [call EXCEPT ![c].pc = "look", ![c].parent = row[Parent]]
    /\ UNCHANGED <<core, row, stored, question, answer, gestures, crashes>>

Unsettled(parent) == parent.state = "planning" /\ parent.plan = None

MustClose(parent) == Unsettled(parent) /\ Ended(Child)

SettleLooks(c) ==
    /\ At(c, "look")
    /\ IF MustClose(call[c].parent)
         THEN call' = [call EXCEPT ![c].pc = "close", ![c].child = row[Child]] /\ UNCHANGED core
         ELSE Return(c)
    /\ UNCHANGED <<row, stored, question, answer, gestures, crashes>>

\* The operation that ends the parent of a child that ended in s.
EndOf(s) ==
    CASE s = "denied" -> "deny_by_planning"
      [] s = "cancelled" -> "cancel"
      [] OTHER -> "fail"

\* Mutant: the answer is read of a child that did not complete.
HasPlanOfAny(c) == answer = "plan"

HasPlan(c) == call[c].child.state = "completed" /\ answer = "plan"

Collect(c) ==
    /\ At(c, "close") /\ HasPlan(c)
    /\ call' = [call EXCEPT ![c].pc = "attach", ![c].on = Parent, ![c].plan = TheModels]
    /\ UNCHANGED <<core, row, stored, question, answer, gestures, crashes>>

CloseParent(c) ==
    /\ At(c, "close") /\ ~HasPlan(c)
    /\ Apply(c, EndOf(call[c].child.state), Parent, Return(c), Return(c))
    /\ UNCHANGED <<stored, question, answer, gestures, crashes>>

-------------------------------------------------------------------------------
(* Time, the crash and the start-up *)

QuestionExpires ==
    /\ question = "pending" /\ question' = "expired"
    /\ UNCHANGED <<core, row, stored, answer, call, gestures, crashes>>

Crash ==
    /\ core # "down" /\ crashes < MaxCrashes
    /\ core' = "down" /\ crashes' = crashes + 1
    /\ call' = [c \in Calls |-> Idle]
    /\ UNCHANGED <<row, stored, question, answer, gestures>>

Restart ==
    /\ core = "down" /\ core' = "starting"
    /\ call' = [call EXCEPT ![Boot].pc = "recover"]
    /\ UNCHANGED <<row, stored, question, answer, gestures, crashes>>

\* recover() fails the executing tasks it finds silent for too long and expires the child whose
\* question has expired; then settle_all settles the parent.
Recover(c) ==
    /\ At(c, "recover")
    /\ \E orphans \in SUBSET {t \in Task : row[t].state = "executing"} :
        row' = [t \in Task |->
            CASE t \in orphans -> [row[t] EXCEPT !.state = "failed"]
              [] t = Child /\ row[t].state = "waiting_approval" /\ question = "expired" ->
                    [row[t] EXCEPT !.state = "expired"]
              [] OTHER -> row[t]]
    /\ Go(c, "settle")
    /\ UNCHANGED <<stored, question, answer, gestures, crashes>>

-------------------------------------------------------------------------------

Gestures(c) ==
    \/ AskForPlan(c) \/ Approve(c) \/ Deny(c)
    \/ \E t \in Task : Run(c, t) \/ AttachByHand(c, t) \/ Stop(c, t)

Steps(c) ==
    \/ MoveApproved(c) \/ MoveDenied(c) \/ StopChild(c) \/ HandStart(c)
    \/ AddPlan(c) \/ SavePlan(c) \/ Queue(c)
    \/ Plan_(c) \/ StartPlanning(c) \/ ReadChild(c) \/ CreateChild(c) \/ BeginChild(c)
    \/ Walk(c) \/ AskUser(c) \/ EndBadly(c) \/ CallModel(c) \/ Resume(c) \/ Complete(c) \/ Leave(c)
    \/ RunParent(c) \/ EndParent(c)
    \/ SettleReads(c) \/ SettleLooks(c) \/ Collect(c) \/ CloseParent(c)
    \/ Recover(c)

Next ==
    \/ \E c \in Caller : Gestures(c)
    \/ \E c \in Calls : Steps(c)
    \/ QuestionExpires \/ Crash \/ Restart

Spec == Init /\ [][Next]_vars

\* The event loop serves every call to its end, and the user starts the Core again.
FairSpec == Spec /\ (\A c \in Calls : WF_vars(Steps(c))) /\ WF_vars(Restart)
-------------------------------------------------------------------------------
(* Properties *)

AtRest == core = "serving" /\ \A c \in Calls : At(c, "idle")

\* The plan that is being attached was stored and its row was never written.
HalfAttached(t) == stored[t] # None /\ (row[t].plan = None \/ row[t].state = "planning")

(* What the decision record says of settle and of the start-up: with no request under way, a child
   that has ended leaves no parent waiting for it. A crash between the two operations that plan and
   queue the parent does, and no start and no gesture of the Planner brings it further. *)
NobodyIsLeftPlanning == AtRest /\ Ended(Child) => row[Parent].state # "planning"

(* Every child that ends has its parent settled, whoever ends it, crashes and expired questions
   included: by the request that ended it, or by the next start. The exception is the first of the
   two above. *)
EndIsSettled ==
    Ended(Child) ~> (~Unsettled(row[Parent]) \/ HalfAttached(Parent))

(* A plan the user paid for is not lost: with no request under way, the parent of a child that
   completed with a plan has it, unless the user stopped the parent, brought a plan by hand or
   never had the attachment finished. *)
PaidPlanIsKept ==
    AtRest /\ row[Child].state = "completed" /\ answer = "plan" =>
        \/ row[Parent].plan = TheModels \/ HalfAttached(Parent)
        \/ row[Parent].state = "cancelled" \/ stored[Parent] \notin {None, TheModels}

(* The plan the model wrote is attached only from a child that completed with one, and only by the
   Planner's own hand: a denied, stopped, failed or expired child plans nothing. *)
PlannedFromTheAnswer ==
    TheModels \in {row[Parent].plan, stored[Parent]} => row[Child].state = "completed" /\ answer = "plan"

(* The task is planned with the answer the user paid for, and with nothing else the Planner does. *)
PlanIsTheAnswer == PaidPlanIsKept /\ PlannedFromTheAnswer

(* The planning never pulls back a task that somebody is walking: two settles of one child, the
   second with what it read before the first, would queue it again under its run. *)
NoWalkPulledBack ==
    [][row[Parent].state = "executing" => row'[Parent].state # "queued"]_vars
===============================================================================
