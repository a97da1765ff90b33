--------------------------- MODULE TaskEngineProofs ---------------------------
(***************************************************************************)
(* What holds of the Task Engine for every set of tasks, every graph of    *)
(* steps, every number of coroutines, crashes and store failures.          *)
(***************************************************************************)
EXTENDS TaskEngine, SetLemmas

(***************************************************************************)
(* The tables.                                                             *)
(***************************************************************************)

\* Every operation of the engine is a legal move of the state machine, from every one of its
\* sources: no move of a task needs a path around the table.
LEMMA OperationsAreLegal ==
    ASSUME NEW op \in Operations, NEW s \in Sources(op)
    PROVE  Target(op) \in Transitions(s)
BY DEF Operations, Sources, Target, Transitions, LiveStates

\* The sources of an operation are live states and its target is a state.
LEMMA OperationsLeaveLiveStates ==
    ASSUME NEW op \in Operations
    PROVE  /\ Sources(op) \subseteq LiveStates
           /\ Target(op) \in TaskStates
           /\ op # "create" /\ op # "plan" /\ op # "heartbeat" /\ op \notin StepOperations
BY DEF Operations, Sources, Target, TaskStates, LiveStates, TerminalStates, StepOperations

\* A task that has ended is not live, and one that was never created is neither.
LEMMA TerminalIsNotLive ==
    TerminalStates \cap LiveStates = {} /\ Absent \notin TaskStates
BY DEF TerminalStates, LiveStates, TaskStates, Absent

\* No operation takes a step out of COMPLETED, FAILED or CANCELLED.
LEMMA StepOperationsAreLegal ==
    ASSUME NEW op \in StepOperations
    PROVE  /\ StepSource(op) \in {"pending", "running"}
           /\ StepTarget(op) \in StepStates
           /\ StepTarget(op) \in StepTransitions(StepSource(op))
           /\ op # "create" /\ op # "plan" /\ op # "heartbeat" /\ op \notin Operations
BY DEF StepOperations, StepSource, StepTarget, StepStates, StepTransitions, Operations

(***************************************************************************)
(* Type correctness.                                                       *)
(***************************************************************************)

\* The stores are typed when nothing has been created.
LEMMA TypeOKInit == Init => TypeOK
BY EngineAssumption
   DEF Init, TypeOK, Idle, NoRow, Rows, Calls, Phases, Events, Time, StepStates

\* A call that begins leaves every table as it is and holds what a call may hold.
LEMMA BeginTypeOK ==
    ASSUME TypeOK,
           NEW c \in Caller, NEW phase \in Phases, phase # "idle",
           NEW op \in (Operations \cup StepOperations \cup {"plan", "heartbeat"}),
           NEW t \in Task, NEW s \in Step \cup {None}, NEW k \in Key \cup Task \cup {None},
           NEW cause \in Step \cup {None}, NEW moved \in Rows,
           phase = "add_plan" => k \in Key,
           Begin(c, phase, op, t, s, k, cause, moved)
    PROVE  TypeOK'
<1>1. op # "create"
  BY OperationsLeaveLiveStates, StepOperationsAreLegal
<1>2. call' \in [Caller -> Calls]
  BY DEF Begin, TypeOK, Calls
<1>3. \A d \in Caller : /\ call'[d].phase # "idle" => call'[d].task \in Task
                        /\ call'[d].op = "create" => call'[d].phase = "audit"
                        /\ call'[d].phase = "add_plan" => call'[d].key \in Key
  BY <1>1 DEF Begin, TypeOK
<1>4. lock' \in [Task -> Caller \cup {None}]
  BY DEF Begin, TypeOK
<1>5. QED
  BY <1>2, <1>3, <1>4 DEF Begin, TypeOK, disk

\* The row of a task that moves is a row.
LEMMA MovedIsARow ==
    ASSUME TypeOK, NEW t \in Task, NEW op \in Operations
    PROVE  [row[t] EXCEPT !.state = Target(op)] \in Rows
<1>1. row[t] \in Rows /\ Target(op) \in TaskStates
  BY OperationsLeaveLiveStates DEF TypeOK
<1>2. QED
  BY <1>1 DEF Rows

\* A coroutine with nothing to write holds a call, and a row.
LEMMA IdleIsACall == Idle \in Calls /\ NoRow \in Rows
BY EngineAssumption DEF Idle, Calls, Phases, NoRow, Rows, Time

\* Returning ends a call and frees its lock.
LEMMA ReturnTypes ==
    ASSUME TypeOK, NEW c \in Caller, Return(c)
    PROVE  /\ call' \in [Caller -> Calls]
           /\ \A d \in Caller : /\ call'[d].phase # "idle" => call'[d].task \in Task
                                /\ call'[d].op = "create" => call'[d].phase = "audit"
                                /\ call'[d].phase = "add_plan" => call'[d].key \in Key
           /\ lock' \in [Task -> Caller \cup {None}]
<1>1. Idle \in Calls /\ Idle.phase = "idle" /\ Idle.op # "create"
  BY IdleIsACall DEF Idle
<1>2. QED
  BY <1>1 DEF TypeOK, Return

\* A call that begins, whatever its operation, keeps the types.
LEMMA CallingTypeOK ==
    ASSUME TypeOK, NEW c \in Caller, NEW t \in Task, Calling(c, t)
    PROVE  TypeOK'
<1>0. row[t] \in Rows /\ "add_plan" \in Phases /\ "save" \in Phases /\ "event" \in Phases
  BY DEF TypeOK, Phases
<1>1. CASE Create(c, t)
  <2>1. row' \in [Task -> Rows]
    BY <1>1 DEF Create, TypeOK, Rows, TaskStates, LiveStates
  <2>2. call' \in [Caller -> Calls]
    <3>1. [Idle EXCEPT !.phase = "audit", !.op = "create", !.task = t] \in Calls
      BY IdleIsACall DEF Calls, Phases
    <3>2. QED
      BY <1>1, <3>1 DEF Create, TypeOK
  <2>3. \A d \in Caller : /\ call'[d].phase # "idle" => call'[d].task \in Task
                          /\ call'[d].op = "create" => call'[d].phase = "audit"
                          /\ call'[d].phase = "add_plan" => call'[d].key \in Key
    BY <1>1 DEF Create, TypeOK, Idle
  <2>4. QED
    BY <1>1, <2>1, <2>2, <2>3 DEF Create, TypeOK
<1>2. CASE Heartbeat(c, t)
  BY <1>0, <1>2, BeginTypeOK DEF Heartbeat
<1>3. CASE RecoverScan(c, t)
  <2>1. PICK op \in {"recover", "expire"} :
            call' = [call EXCEPT ![c] = [Idle EXCEPT !.phase = "recheck", !.op = op,
                                                    !.task = t, !.at = clock]]
    BY <1>3 DEF RecoverScan
  <2>2. call' \in [Caller -> Calls]
    <3>1. op \in Operations /\ clock \in Time
      BY DEF TypeOK, Operations
    <3>2. [Idle EXCEPT !.phase = "recheck", !.op = op, !.task = t, !.at = clock] \in Calls
      BY <3>1, IdleIsACall DEF Calls, Phases
    <3>3. QED
      BY <2>1, <3>2 DEF TypeOK
  <2>3. \A d \in Caller : /\ call'[d].phase # "idle" => call'[d].task \in Task
                          /\ call'[d].op = "create" => call'[d].phase = "audit"
                          /\ call'[d].phase = "add_plan" => call'[d].key \in Key
    BY <2>1 DEF TypeOK, Idle
  <2>4. QED
    BY <1>3, <2>2, <2>3 DEF RecoverScan, TypeOK, disk
<1>4. ASSUME NEW k \in Key, Plan(c, t, k)
      PROVE  TypeOK'
  <2>1. [row[t] EXCEPT !.plan = k] \in Rows
    BY <1>0 DEF Rows
  <2>2. (IF planned[t] = None THEN "add_plan" ELSE "save") \in Phases \ {"idle"}
    BY DEF Phases
  <2>3. QED
    BY <1>4, <2>1, <2>2, BeginTypeOK DEF Plan
<1>5. ASSUME NEW op \in Operations \ {"recover"}, NEW k \in KeysOf(op), Apply(c, t, op, k)
      PROVE  TypeOK'
  <2>1. k \in Key \cup Task \cup {None}
    BY <1>5 DEF KeysOf
  <2>2. QED
    BY <1>0, <1>5, <2>1, MovedIsARow, BeginTypeOK DEF Apply
<1>6. ASSUME NEW s \in Step, NEW op \in StepOperations, NEW k \in KeysOf(op) \cup {None},
             ApplyStep(c, t, s, op, k)
      PROVE  TypeOK'
  <2>1. k \in Key \cup Task \cup {None}
    BY <1>6 DEF KeysOf
  <2>2. (IF op = "fail_step" THEN s ELSE None) \in Step \cup {None}
    OBVIOUS
  <2>3. QED
    BY <1>0, <1>6, <2>1, <2>2, BeginTypeOK DEF ApplyStep
<1>7. ASSUME NEW s \in Step, NEW b \in BOOLEAN, FailStep(c, t, s, b)
      PROVE  TypeOK'
  <2>1. (IF b /\ Ended(t) THEN "stop_step" ELSE "fail_step") \in StepOperations
    BY DEF StepOperations
  <2>2. QED
    BY <1>6, <1>7, <2>1 DEF FailStep
<1>8. ASSUME NEW s \in Step, ResumeCascade(c, t, s)
      PROVE  TypeOK'
  <2>1. "cancel_step" \in StepOperations
    BY DEF StepOperations
  <2>2. QED
    BY <1>0, <1>8, <2>1, BeginTypeOK DEF ResumeCascade
<1>9. QED
  BY <1>1, <1>2, <1>3, <1>4, <1>5, <1>6, <1>7, <1>8 DEF Calling

\* Each write keeps the types.
LEMMA WritingTypeOK ==
    ASSUME TypeOK, NEW c \in Caller, Writing(c)
    PROVE  TypeOK'
<1>0. call[c] \in Calls
  BY DEF TypeOK
<1>1. CASE RecoverCandidate(c)
  <2> DEFINE t == call[c].task  op == call[c].op
  <2>1. t \in Task /\ op \in Operations \cup StepOperations \cup {"plan", "heartbeat"}
    BY <1>0, <1>1 DEF RecoverCandidate, TypeOK, Calls
  <2> DEFINE found == /\ op = "recover" \/ op = "expire"
                      /\ Begin(c, "save", op, t, None, None, None,
                               [row[t] EXCEPT !.state = Target(op)])
             gone == /\ call' = [call EXCEPT ![c] = Idle]
                     /\ UNCHANGED <<disk, asked, lock, stop, clock, faults>>
  <2>2. CASE found
    <3>1. op \in Operations /\ "save" \in Phases
      BY <2>2 DEF Operations, Phases
    <3>2. QED
      BY <2>1, <2>2, <3>1, MovedIsARow, BeginTypeOK
  <2>3. CASE gone
    <3>1. Idle.phase = "idle" /\ Idle.op # "create"
      BY DEF Idle
    <3>2. call' \in [Caller -> Calls]
      BY <2>3, IdleIsACall DEF TypeOK
    <3>3. QED
      BY <2>3, <3>1, <3>2 DEF TypeOK, disk
  <2>4. found \/ gone
    BY <1>1 DEF RecoverCandidate
  <2>5. QED
    BY <2>2, <2>3, <2>4
<1>2. ASSUME NEW phase \in Phases \ {"idle", "add_plan"}, call[c].phase # "idle", call[c].op # "create",
             Go(c, phase)
      PROVE  /\ call' \in [Caller -> Calls]
             /\ \A d \in Caller : /\ call'[d].phase # "idle" => call'[d].task \in Task
                                  /\ call'[d].op = "create" => call'[d].phase = "audit"
                                  /\ call'[d].phase = "add_plan" => call'[d].key \in Key
  <2>1. [call[c] EXCEPT !.phase = phase] \in Calls
    BY <1>0 DEF Calls
  <2>2. call' = [call EXCEPT ![c] = [call[c] EXCEPT !.phase = phase]]
    BY <1>2 DEF Go, TypeOK
  <2>3. [call[c] EXCEPT !.phase = phase].task = call[c].task
        /\ [call[c] EXCEPT !.phase = phase].op = call[c].op
    BY <1>0 DEF Calls
  <2>4. QED
    BY <1>2, <2>1, <2>2, <2>3 DEF TypeOK
<1>3. call[c].phase \in {"add_plan", "save", "event"} =>
          call[c].op # "create" /\ call[c].task \in Task
  BY DEF TypeOK
<1>4. {"save", "event", "audit"} \subseteq Phases \ {"idle", "add_plan"}
  BY DEF Phases
<1>5. CASE AddPlan(c)
  <2>1. planned' \in [Task -> Key \cup {None}]
    BY <1>0, <1>5 DEF AddPlan, TypeOK, Calls
  <2>2. QED
    BY <1>2, <1>3, <1>4, <1>5, <2>1 DEF AddPlan, TypeOK
<1>6. CASE Save(c)
  <2>1. row' \in [Task -> Rows]
    BY <1>0, <1>6 DEF Save, TypeOK, Calls
  <2>2. QED
    BY <1>2, <1>3, <1>4, <1>6, <2>1 DEF Save, TypeOK
<1>7. CASE AppendEvent(c)
  <2> DEFINE w == call[c]
             e == [op |-> w.op, step |-> w.step, key |-> w.key, at |-> w.at]
  <2>1. w.task \in Task /\ w.op # "create" /\ w.phase = "event"
    BY <1>3, <1>7 DEF AppendEvent
  <2>2. e \in Events
    BY <1>0, <2>1 DEF Calls, Events
  <2>3. trail' \in [Task -> Seq(Events)]
    BY <1>7, <2>1, <2>2 DEF AppendEvent, TypeOK
  <2>4. steps' \in [Task -> [Step -> StepStates]]
    BY <1>7, <2>1, StepOperationsAreLegal DEF AppendEvent, TypeOK
  <2>5. CASE Return(c)
    BY <1>7, <2>3, <2>4, <2>5, ReturnTypes DEF AppendEvent, TypeOK
  <2>6. CASE Go(c, "audit") /\ UNCHANGED lock
    BY <1>2, <1>4, <1>7, <2>1, <2>3, <2>4, <2>6 DEF AppendEvent, TypeOK
  <2>7. QED
    BY <1>7, <2>5, <2>6 DEF AppendEvent
<1>8. CASE AppendAudit(c)
  <2> DEFINE w == call[c]
  <2>1. w.task \in Task /\ w.phase = "audit"
    BY <1>8 DEF AppendAudit, TypeOK
  <2>2. audit' \in [Task -> Seq(Nat)]
    <3>1. Len(trail[w.task]) \in Nat
      BY <2>1 DEF TypeOK
    <3>2. (IF w.op = "create" THEN 0 ELSE Len(trail[w.task])) \in Nat
      BY <3>1
    <3>3. audit' = [audit EXCEPT ![w.task] = Append(audit[w.task],
                                      IF w.op = "create" THEN 0 ELSE Len(trail[w.task]))]
      BY <1>8 DEF AppendAudit
    <3>4. audit[w.task] \in Seq(Nat)
      BY <2>1 DEF TypeOK
    <3>5. QED
      BY <2>1, <3>2, <3>3, <3>4 DEF TypeOK
  <2>3. stop' \subseteq Task
    BY <1>8, <2>1 DEF AppendAudit, TypeOK
  <2>4. CASE Return(c)
    BY <1>8, <2>2, <2>3, <2>4, ReturnTypes DEF AppendAudit, TypeOK
  <2>5. ASSUME NEW d \in Step, UNCHANGED lock,
               call' = [call EXCEPT ![c] = [w EXCEPT !.phase = "event", !.step = d,
                                                     !.op = "cancel_step", !.at = clock]]
        PROVE  TypeOK'
    <3> DEFINE n == [w EXCEPT !.phase = "event", !.step = d, !.op = "cancel_step", !.at = clock]
    <3>1. n \in Calls /\ n.task = w.task /\ n.op = "cancel_step" /\ n.phase = "event"
      BY <1>0 DEF Calls, Phases, StepOperations, TypeOK
    <3>2. /\ call' \in [Caller -> Calls]
          /\ \A x \in Caller : /\ call'[x].phase # "idle" => call'[x].task \in Task
                               /\ call'[x].op = "create" => call'[x].phase = "audit"
                               /\ call'[x].phase = "add_plan" => call'[x].key \in Key
      BY <2>1, <2>5, <3>1 DEF TypeOK
    <3>3. UNCHANGED <<row, planned, trail, steps, asked, clock, faults>>
      BY <1>8 DEF AppendAudit
    <3>4. QED
      BY <2>2, <2>3, <2>5, <3>2, <3>3 DEF TypeOK
  <2>6. QED
    BY <1>8, <2>4, <2>5 DEF AppendAudit
<1>9. QED
  BY <1>1, <1>5, <1>6, <1>7, <1>8 DEF Writing

\* So does a store that raises ...
LEMMA StoreFailsTypeOK ==
    ASSUME TypeOK, NEW c \in Caller, StoreFails(c)
    PROVE  TypeOK'
BY ReturnTypes DEF StoreFails, TypeOK, disk

\* ... and what happens around the engine.
LEMMA EnvironmentTypeOK ==
    ASSUME TypeOK, Tick \/ Crash \/ \E t \in Task : Ask(t) \/ Answer(t)
    PROVE  TypeOK'
<1>1. CASE Tick
  BY <1>1 DEF Tick, TypeOK, disk, Time
<1>2. CASE Crash
  <2>1. Idle.phase = "idle" /\ Idle.op # "create"
    BY DEF Idle
  <2>2. call' \in [Caller -> Calls]
    BY <1>2, IdleIsACall DEF Crash
  <2>3. QED
    BY <1>2, <2>1, <2>2 DEF Crash, TypeOK, disk
<1>3. ASSUME NEW t \in Task, Ask(t)
      PROVE  TypeOK'
  <2>1. \A at \in clock + 1 .. MaxTime : at \in Time
    BY EngineAssumption DEF TypeOK, Time
  <2>2. QED
    BY <1>3, <2>1 DEF Ask, TypeOK, disk
<1>4. ASSUME NEW t \in Task, Answer(t)
      PROVE  TypeOK'
  BY <1>4 DEF Answer, TypeOK, disk
<1>5. QED
  BY <1>1, <1>2, <1>3, <1>4

\* No step breaks the types.
LEMMA TypeOKStep == TypeOK /\ [Next]_vars => TypeOK'
<1>1. ASSUME TypeOK, Next
      PROVE  TypeOK'
  BY <1>1, CallingTypeOK, WritingTypeOK, StoreFailsTypeOK, EnvironmentTypeOK DEF Next
<1>2. ASSUME TypeOK, UNCHANGED vars
      PROVE  TypeOK'
  BY <1>2 DEF vars, TypeOK
<1>3. QED
  BY <1>1, <1>2

\* Every table, trail and call of the engine keeps its type: the row of a task holds a state of
\* the state machine, the fold of its trail a state for every step.
THEOREM TypesAreKept == Spec => []TypeOK
BY TypeOKInit, TypeOKStep, PTL DEF Spec

(***************************************************************************)
(* The invariant the other theorems rest on. OneWriter and DecisionsHold   *)
(* make the writes of one task a sequence nobody cuts into; with them each *)
(* write can be judged against what the call read before it.               *)
(***************************************************************************)

\* Nothing is written about a task that was never created.
AbsentIsEmpty ==
    \A t \in Task : row[t].state = Absent => trail[t] = <<>> /\ audit[t] = <<>>

\* The first invariant.
IInv ==
    /\ TypeOK /\ OneWriter /\ DecisionsHold /\ AbsentIsEmpty
    /\ AuditFollowsTrail /\ StopIsRecorded /\ StepsInOrder /\ CompletedMeansAllSteps

\* The three ways a call goes on before it writes: it takes the lock with something due ...
Claims(c, t) ==
    /\ lock[t] = None /\ call[c].phase \in {"idle", "recheck"}
    /\ \E w \in Calls : /\ w.phase \in {"add_plan", "save", "event"} /\ w.task = t /\ Due(w)
                        /\ call' = [call EXCEPT ![c] = w]
    /\ lock' = [lock EXCEPT ![t] = c]
    /\ UNCHANGED <<disk, asked, stop, clock, faults>>

\* ... or it only looks, or gives up, and holds nothing.
Looks(c) ==
    /\ call[c].phase \in {"idle", "recheck"}
    /\ \E w \in Calls : /\ w.phase \in {"idle", "recheck"}
                        /\ call' = [call EXCEPT ![c] = w]
    /\ UNCHANGED <<disk, asked, lock, stop, clock, faults>>

\* A call that begins has decided what is due.
LEMMA BeginClaims ==
    ASSUME IInv,
           NEW c \in Caller, NEW phase \in {"add_plan", "save", "event"},
           NEW op \in (Operations \cup StepOperations \cup {"plan", "heartbeat"}),
           NEW t \in Task, NEW s \in Step \cup {None}, NEW k \in Key \cup Task \cup {None},
           NEW cause \in Step \cup {None}, NEW moved \in Rows,
           lock[t] = None, call[c].phase \in {"idle", "recheck"},
           Due([phase |-> phase, op |-> op, task |-> t, step |-> s, key |-> k,
                cause |-> cause, at |-> clock, moved |-> moved]),
           Begin(c, phase, op, t, s, k, cause, moved)
    PROVE  Claims(c, t)
<1> DEFINE w == [phase |-> phase, op |-> op, task |-> t, step |-> s, key |-> k,
                 cause |-> cause, at |-> clock, moved |-> moved]
<1>1. w \in Calls
  BY DEF Calls, Phases, IInv, TypeOK
<1>2. w.phase \in {"add_plan", "save", "event"} /\ w.task = t /\ Due(w)
  OBVIOUS
<1>3. call' = [call EXCEPT ![c] = w]
  BY DEF Begin
<1>4. QED
  BY <1>1, <1>2, <1>3 DEF Begin, Claims

\* A move that the table allows from the row that was read is due.
LEMMA MoveIsDue ==
    ASSUME TypeOK, NEW t \in Task, NEW op \in Operations, NEW k,
           row[t].state \in Sources(op),
           op = "complete" => \A s \in Step : steps[t][s] = "completed"
    PROVE  Due([phase |-> "save", op |-> op, task |-> t, step |-> None, key |-> k,
                cause |-> None, at |-> clock, moved |-> [row[t] EXCEPT !.state = Target(op)]])
<1>1. row[t].state # Absent
  BY OperationsLeaveLiveStates, TerminalIsNotLive DEF TaskStates
<1>2. QED
  BY <1>1 DEF Due

\* The event of a step that is where its operation takes it from is due.
LEMMA StepIsDue ==
    ASSUME TypeOK, NEW t \in Task, NEW s \in Step, NEW op \in StepOperations, NEW k, NEW cause,
           row[t].state # Absent,
           steps[t][s] = StepSource(op),
           op = "start_step" => Ready(t, s),
           op \in {"start_step", "release_step"} => row[t].state = "executing"
    PROVE  Due([phase |-> "event", op |-> op, task |-> t, step |-> s, key |-> k,
                cause |-> cause, at |-> clock, moved |-> row[t]])
BY DEF Due

\* A step operation is allowed on a task that exists, and starts or releases in one that executes.
LEMMA StepsAreOfTasks ==
    ASSUME TypeOK, NEW t \in Task, NEW op, StepAllowed(op, t)
    PROVE  /\ row[t].state # Absent
           /\ op \in {"start_step", "release_step"} => row[t].state = "executing"
<1>1. "executing" # Absent /\ Absent \notin TerminalStates
  BY TerminalIsNotLive DEF Absent, TaskStates
<1>2. QED
  BY <1>1 DEF StepAllowed, Ended, Closings, EndedOnly

\* A call creates a task, or takes its lock with something due, or only looks.
LEMMA CallingDecides ==
    ASSUME IInv, NEW c \in Caller, NEW t \in Task, Calling(c, t)
    PROVE  Create(c, t) \/ Claims(c, t) \/ Looks(c)
<1>0. TypeOK /\ row[t] \in Rows
  BY DEF IInv, TypeOK
<1>1. CASE Create(c, t)
  BY <1>1
<1>2. CASE Heartbeat(c, t)
  <2>1. Due([phase |-> "event", op |-> "heartbeat", task |-> t, step |-> None, key |-> None,
             cause |-> None, at |-> clock, moved |-> row[t]])
    BY <1>2 DEF Heartbeat, Due, Absent
  <2>2. QED
    BY <1>0, <1>2, <2>1, BeginClaims DEF Heartbeat, Free
<1>3. CASE RecoverScan(c, t)
  <2>1. PICK op \in {"recover", "expire"} :
            call' = [call EXCEPT ![c] = [Idle EXCEPT !.phase = "recheck", !.op = op,
                                                    !.task = t, !.at = clock]]
    BY <1>3 DEF RecoverScan
  <2>2. op \in Operations /\ clock \in Time
    BY <1>0 DEF TypeOK, Operations
  <2> DEFINE w == [Idle EXCEPT !.phase = "recheck", !.op = op, !.task = t, !.at = clock]
  <2>3. w \in Calls /\ w.phase = "recheck"
    BY <2>2, IdleIsACall DEF Calls, Phases
  <2>4. QED
    BY <1>3, <2>1, <2>3 DEF RecoverScan, Looks
<1>4. ASSUME NEW k \in Key, Plan(c, t, k)
      PROVE  Claims(c, t)
  <2>1. [row[t] EXCEPT !.plan = k] \in Rows /\ [row[t] EXCEPT !.plan = k].state = row[t].state
    BY <1>0 DEF Rows
  <2> DEFINE phase == IF planned[t] = None THEN "add_plan" ELSE "save"
  <2>2. phase \in {"add_plan", "save", "event"}
    OBVIOUS
  <2>3. Due([phase |-> phase, op |-> "plan", task |-> t, step |-> None, key |-> k,
             cause |-> None, at |-> clock, moved |-> [row[t] EXCEPT !.plan = k]])
    BY <1>4, <2>1 DEF Plan, Due, Absent
  <2>4. QED
    BY <1>4, <2>1, <2>2, <2>3, BeginClaims DEF Plan, Free
<1>5. ASSUME NEW op \in Operations \ {"recover"}, NEW k \in KeysOf(op), Apply(c, t, op, k)
      PROVE  Claims(c, t)
  <2>1. k \in Key \cup Task \cup {None}
    BY <1>5 DEF KeysOf
  <2>2. op = "complete" => \A s \in Step : steps[t][s] = "completed"
    BY <1>5 DEF Apply, Guard
  <2>3. QED
    BY <1>0, <1>5, <2>1, <2>2, MovedIsARow, MoveIsDue, BeginClaims DEF Apply, Free
<1>6. ASSUME NEW s \in Step, NEW op \in StepOperations, NEW k \in KeysOf(op) \cup {None},
             ApplyStep(c, t, s, op, k)
      PROVE  Claims(c, t)
  <2>1. k \in Key \cup Task \cup {None}
    BY <1>6 DEF KeysOf
  <2> DEFINE cause == IF op = "fail_step" THEN s ELSE None
  <2>2. cause \in Step \cup {None}
    OBVIOUS
  <2>3. Due([phase |-> "event", op |-> op, task |-> t, step |-> s, key |-> k,
             cause |-> cause, at |-> clock, moved |-> row[t]])
    BY <1>0, <1>6, StepsAreOfTasks, StepIsDue DEF ApplyStep
  <2>4. QED
    BY <1>0, <1>6, <2>1, <2>2, <2>3, BeginClaims DEF ApplyStep, Free
<1>7. ASSUME NEW s \in Step, NEW b \in BOOLEAN, FailStep(c, t, s, b)
      PROVE  Claims(c, t)
  <2>1. (IF b /\ Ended(t) THEN "stop_step" ELSE "fail_step") \in StepOperations
    BY DEF StepOperations
  <2>2. QED
    BY <1>6, <1>7, <2>1 DEF FailStep
<1>8. ASSUME NEW s \in Step, ResumeCascade(c, t, s)
      PROVE  Claims(c, t)
  <2>1. PICK d \in Step : /\ First(d, ToCancel(t, s))
                          /\ Begin(c, "event", "cancel_step", t, d, None, s, row[t])
    BY <1>8 DEF ResumeCascade
  <2>2. "cancel_step" \in StepOperations /\ steps[t][d] = StepSource("cancel_step")
    BY <2>1 DEF First, ToCancel, StepSource, StepOperations
  <2>3. Due([phase |-> "event", op |-> "cancel_step", task |-> t, step |-> d, key |-> None,
             cause |-> s, at |-> clock, moved |-> row[t]])
    BY <1>0, <1>8, <2>2, StepsAreOfTasks, StepIsDue DEF ResumeCascade
  <2>4. QED
    BY <1>0, <1>8, <2>1, <2>2, <2>3, BeginClaims DEF ResumeCascade, Free
<1>9. QED
  BY <1>1, <1>2, <1>3, <1>4, <1>5, <1>6, <1>7, <1>8 DEF Calling

\* recover() takes the lock of its candidate with something due, or leaves it alone.
LEMMA RecoverDecides ==
    ASSUME IInv, NEW c \in Caller, RecoverCandidate(c)
    PROVE  call[c].task \in Task /\ (Claims(c, call[c].task) \/ Looks(c))
<1> DEFINE t == call[c].task
           op == call[c].op
           found == /\ \/ op = "recover" /\ row[t].state = "executing"
                       \/ op = "expire" /\ row[t].state = "waiting_approval"
                    /\ Begin(c, "save", op, t, None, None, None,
                             [row[t] EXCEPT !.state = Target(op)])
           gone == /\ call' = [call EXCEPT ![c] = Idle]
                   /\ UNCHANGED <<disk, asked, lock, stop, clock, faults>>
<1>1. TypeOK /\ t \in Task /\ row[t] \in Rows /\ lock[t] = None /\ call[c].phase = "recheck"
  BY DEF IInv, TypeOK, RecoverCandidate
<1>2. found \/ gone
  BY DEF RecoverCandidate
<1>3. CASE found
  <2>1. op \in Operations /\ row[t].state \in Sources(op) /\ op # "complete"
    BY <1>3 DEF Operations, Sources, LiveStates
  <2>2. QED
    BY <1>1, <1>3, <2>1, MovedIsARow, MoveIsDue, BeginClaims
<1>4. CASE gone
  <2>1. Idle.phase = "idle"
    BY DEF Idle
  <2>2. QED
    BY <1>1, <1>4, <2>1, IdleIsACall DEF Looks
<1>5. QED
  BY <1>1, <1>2, <1>3, <1>4

(***************************************************************************)
(* The parts of the invariant that a step can disturb.                     *)
(***************************************************************************)

\* A coroutine between its read and its last write.
InHand(c) == call[c].phase \notin {"idle", "recheck"}

\* Two coroutines in the middle of their writes are on two tasks.
LEMMA HandsAreApart ==
    ASSUME OneWriter, NEW c \in Caller, NEW d \in Caller, c # d, InHand(c), InHand(d)
    PROVE  call[c].task # call[d].task
BY DEF OneWriter, InHand

\* What a coroutine holds is still due when nobody has touched its task.
LEMMA StillDue ==
    ASSUME IInv, NEW d \in Caller, call'[d] = call[d],
           InHand(d) => LET t == call[d].task
                        IN  /\ row'[t] = row[t] /\ steps'[t] = steps[t]
                            /\ trail'[t] = trail[t] /\ audit'[t] = audit[t]
    PROVE  Due(call[d])'
<1> DEFINE w == call[d]
           t == call[d].task
<1>1. Due(w) /\ call'[d] = w
  BY DEF IInv, DecisionsHold
<1>2. CASE ~InHand(d)
  BY <1>1, <1>2 DEF Due, InHand
<1>3. CASE InHand(d)
  <2>1. /\ row'[t] = row[t] /\ steps'[t] = steps[t]
        /\ trail'[t] = trail[t] /\ audit'[t] = audit[t]
    BY <1>3
  <2>2. \A s : Ready(t, s)' <=> Ready(t, s)
    BY <2>1 DEF Ready
  <2>3. QED
    BY <1>1, <2>1, <2>2 DEF Due
<1>4. QED
  BY <1>2, <1>3

\* A step that writes nothing keeps everything that is said of the stores alone.
LEMMA UnwrittenKeeps ==
    ASSUME IInv, UNCHANGED <<row, trail, steps, audit>>, stop' \subseteq stop
    PROVE  (AbsentIsEmpty /\ AuditFollowsTrail /\ StopIsRecorded /\ StepsInOrder
              /\ CompletedMeansAllSteps)'
BY DEF IInv, AbsentIsEmpty, AuditFollowsTrail, StopIsRecorded, StepsInOrder,
       CompletedMeansAllSteps, Ended

\* Taking a free lock leaves one writer per task,
LEMMA ClaimsOneWriter ==
    ASSUME TypeOK, OneWriter, NEW c \in Caller, NEW t \in Task, NEW w,
           w.phase \notin {"idle", "recheck"}, w.task = t,
           lock[t] = None, call[c].phase \in {"idle", "recheck"},
           lock' = [lock EXCEPT ![t] = c], call' = [call EXCEPT ![c] = w]
    PROVE  OneWriter'
<1>1. None \notin Caller
  BY EngineAssumption
<1>2. \A x \in Task : lock[x] # c
  BY <1>1 DEF OneWriter, TypeOK
<1>3. ASSUME NEW d \in Caller, call'[d].phase \notin {"idle", "recheck"}
      PROVE  lock'[call'[d].task] = d
  BY <1>1, <1>3 DEF OneWriter, TypeOK
<1>4. ASSUME NEW x \in Task, lock'[x] # None
      PROVE  /\ call'[lock'[x]].phase \notin {"idle", "recheck"}
             /\ call'[lock'[x]].task = x
  BY <1>1, <1>2, <1>4 DEF OneWriter, TypeOK
<1>5. QED
  BY <1>3, <1>4 DEF OneWriter

\* going on with the lock of its task does too,
LEMMA StaysOneWriter ==
    ASSUME TypeOK, OneWriter, NEW c \in Caller, NEW w, lock' = lock,
           call' = [call EXCEPT ![c] = w],
           \/ InHand(c) /\ w.phase \notin {"idle", "recheck"} /\ w.task = call[c].task
           \/ ~InHand(c) /\ w.phase \in {"idle", "recheck"}
    PROVE  OneWriter'
<1>1. ASSUME NEW d \in Caller, call'[d].phase \notin {"idle", "recheck"}
      PROVE  lock'[call'[d].task] = d
  BY <1>1 DEF OneWriter, TypeOK, InHand
<1>2. ASSUME NEW x \in Task, lock'[x] # None
      PROVE  /\ call'[lock'[x]].phase \notin {"idle", "recheck"}
             /\ call'[lock'[x]].task = x
  BY <1>2 DEF OneWriter, TypeOK, InHand
<1>3. QED
  BY <1>1, <1>2 DEF OneWriter

\* and so does giving it back.
LEMMA ReturnOneWriter ==
    ASSUME TypeOK, OneWriter, NEW c \in Caller, InHand(c), Return(c)
    PROVE  OneWriter'
<1>1. None \notin Caller /\ Idle.phase = "idle"
  BY EngineAssumption DEF Idle
<1>2. lock[call[c].task] = c /\ call[c].task \in Task
  BY DEF OneWriter, TypeOK, InHand
<1>3. ASSUME NEW d \in Caller, call'[d].phase \notin {"idle", "recheck"}
      PROVE  lock'[call'[d].task] = d
  BY <1>1, <1>2, <1>3 DEF OneWriter, TypeOK, InHand, Return
<1>4. ASSUME NEW x \in Task, lock'[x] # None
      PROVE  /\ call'[lock'[x]].phase \notin {"idle", "recheck"}
             /\ call'[lock'[x]].task = x
  BY <1>1, <1>2, <1>4 DEF OneWriter, TypeOK, InHand, Return
<1>5. QED
  BY <1>3, <1>4 DEF OneWriter

\* Nothing is due from a call that is idle, or has only looked.
LEMMA IdleOwesNothing ==
    ASSUME NEW w, w.phase \in {"idle", "recheck"}
    PROVE  Due(w)
BY DEF Due

(***************************************************************************)
(* The steps that write nothing.                                           *)
(***************************************************************************)

\* A call that takes the lock keeps the invariant.
LEMMA ClaimsKeeps ==
    ASSUME IInv, TypeOK', NEW c \in Caller, NEW t \in Task, Claims(c, t)
    PROVE  IInv'
<1>1. PICK w \in Calls : /\ w.phase \in {"add_plan", "save", "event"} /\ w.task = t /\ Due(w)
                         /\ call' = [call EXCEPT ![c] = w]
  BY DEF Claims
<1>2. OneWriter'
  BY <1>1, ClaimsOneWriter DEF Claims, IInv
<1>3. DecisionsHold'
  <2>1. Due(call[c])'
    <3>1. call'[c] = w /\ UNCHANGED <<row, trail, steps, audit>>
      BY <1>1 DEF Claims, disk, IInv, TypeOK
    <3>2. Due(w)
      BY <1>1
    <3>3. QED
      BY <3>1, <3>2 DEF Due, Ready
  <2>2. ASSUME NEW d \in Caller, d # c
        PROVE  Due(call[d])'
    BY <1>1, <2>2, StillDue DEF Claims, disk, IInv, TypeOK
  <2>3. QED
    BY <2>1, <2>2 DEF DecisionsHold
<1>4. QED
  BY <1>2, <1>3, UnwrittenKeeps DEF Claims, disk, IInv

\* One that only looks keeps it,
LEMMA LooksKeeps ==
    ASSUME IInv, TypeOK', NEW c \in Caller, Looks(c)
    PROVE  IInv'
<1>1. PICK w \in Calls : w.phase \in {"idle", "recheck"} /\ call' = [call EXCEPT ![c] = w]
  BY DEF Looks
<1>2. OneWriter'
  BY <1>1, StaysOneWriter DEF Looks, IInv, InHand
<1>3. DecisionsHold'
  <2>1. Due(call[c])'
    BY <1>1 DEF Due, IInv, TypeOK
  <2>2. ASSUME NEW d \in Caller, d # c
        PROVE  Due(call[d])'
    BY <1>1, <2>2, StillDue DEF Looks, disk, IInv, TypeOK
  <2>3. QED
    BY <2>1, <2>2 DEF DecisionsHold
<1>4. QED
  BY <1>2, <1>3, UnwrittenKeeps DEF Looks, disk, IInv

\* one that is cut short by its store keeps it,
LEMMA StoreFailsKeeps ==
    ASSUME IInv, TypeOK', NEW c \in Caller, StoreFails(c)
    PROVE  IInv'
<1>1. InHand(c) /\ Return(c) /\ UNCHANGED <<row, trail, steps, audit, stop>>
  BY DEF StoreFails, InHand, disk
<1>2. OneWriter'
  BY <1>1, ReturnOneWriter DEF IInv
<1>3. DecisionsHold'
  <2>1. Due(call[c])'
    BY <1>1 DEF Due, IInv, TypeOK, Return, Idle
  <2>2. ASSUME NEW d \in Caller, d # c
        PROVE  Due(call[d])'
    BY <1>1, <2>2, StillDue DEF Return, IInv, TypeOK
  <2>3. QED
    BY <2>1, <2>2 DEF DecisionsHold
<1>4. QED
  BY <1>1, <1>2, <1>3, UnwrittenKeeps DEF IInv

\* and so does the row of a plan, which is not yet the plan of the task.
LEMMA AddPlanKeeps ==
    ASSUME IInv, TypeOK', NEW c \in Caller, AddPlan(c)
    PROVE  IInv'
<1> DEFINE w == [call[c] EXCEPT !.phase = "save"]
<1>1. call' = [call EXCEPT ![c] = w] /\ call[c] \in Calls /\ call[c].phase = "add_plan"
  BY DEF AddPlan, Go, IInv, TypeOK
<1>2. w.phase = "save" /\ w.task = call[c].task /\ w.op = call[c].op /\ w.moved = call[c].moved
  BY <1>1 DEF Calls
<1>3. OneWriter'
  <2>1. InHand(c)
    BY <1>1 DEF InHand
  <2>2. QED
    BY <1>1, <1>2, <2>1, StaysOneWriter DEF AddPlan, IInv
<1>4. DecisionsHold'
  <2>1. Due(call[c])'
    <3>1. call'[c] = w /\ Due(call[c])
      BY <1>1 DEF IInv, TypeOK, DecisionsHold
    <3>2. QED
      BY <1>1, <1>2, <3>1 DEF AddPlan, Due
  <2>2. ASSUME NEW d \in Caller, d # c
        PROVE  Due(call[d])'
    BY <1>1, <2>2, StillDue DEF AddPlan, IInv, TypeOK
  <2>3. QED
    BY <2>1, <2>2 DEF DecisionsHold
<1>5. QED
  BY <1>3, <1>4, UnwrittenKeeps DEF AddPlan, IInv

\* The clock, the approvals and a crash keep the invariant.
LEMMA EnvironmentKeeps ==
    ASSUME IInv, TypeOK', Tick \/ Crash \/ \E t \in Task : Ask(t) \/ Answer(t)
    PROVE  IInv'
<1>1. CASE Crash
  <2>1. Idle.phase = "idle" /\ None \notin Caller
    BY EngineAssumption DEF Idle
  <2>2. \A c \in Caller : call'[c] = Idle
    BY <1>1 DEF Crash
  <2>3. OneWriter'
    BY <1>1, <2>1, <2>2 DEF Crash, OneWriter
  <2>4. DecisionsHold'
    BY <2>1, <2>2 DEF DecisionsHold, Due
  <2>5. QED
    BY <1>1, <2>3, <2>4, UnwrittenKeeps DEF Crash, disk, IInv
<1>2. ASSUME UNCHANGED <<row, trail, steps, audit, lock, call, stop>>
      PROVE  IInv'
  <2>1. OneWriter'
    BY <1>2 DEF IInv, OneWriter
  <2>2. DecisionsHold'
    BY <1>2, StillDue DEF DecisionsHold
  <2>3. QED
    BY <1>2, <2>1, <2>2, UnwrittenKeeps DEF IInv
<1>3. QED
  BY <1>1, <1>2 DEF Tick, Ask, Answer, disk

(***************************************************************************)
(* The steps that write.                                                   *)
(***************************************************************************)

\* The creation of a task keeps the invariant.
LEMMA CreateKeeps ==
    ASSUME IInv, TypeOK', NEW c \in Caller, NEW t \in Task, Create(c, t)
    PROVE  IInv'
<1> DEFINE w == [Idle EXCEPT !.phase = "audit", !.op = "create", !.task = t]
           new == [state |-> "created", plan |-> None, created |-> clock]
<1>1. w.phase = "audit" /\ w.op = "create" /\ w.task = t
  BY DEF Idle
<1>2. /\ call' = [call EXCEPT ![c] = w] /\ lock[t] = None /\ call[c].phase = "idle"
      /\ lock' = [lock EXCEPT ![t] = c] /\ row' = [row EXCEPT ![t] = new]
      /\ row[t].state = Absent /\ UNCHANGED <<trail, steps, audit, stop>>
  BY DEF Create, Free
<1>3. TypeOK /\ OneWriter /\ AbsentIsEmpty
  BY DEF IInv
<1>4. row'[t].state = "created" /\ \A u \in Task \ {t} : row'[u] = row[u]
  BY <1>2, <1>3 DEF TypeOK
<1>5. "created" # Absent /\ Absent \notin TerminalStates /\ "created" \notin TerminalStates
  BY DEF Absent, TerminalStates
<1>6. trail[t] = <<>> /\ audit[t] = <<>>
  BY <1>2, <1>3 DEF AbsentIsEmpty
<1>7. OneWriter'
  BY <1>1, <1>2, <1>3, ClaimsOneWriter
<1>8. DecisionsHold'
  <2>1. Due(call[c])'
    BY <1>1, <1>2, <1>3, <1>4, <1>5, <1>6 DEF Due, TypeOK
  <2>2. ASSUME NEW d \in Caller, d # c
        PROVE  Due(call[d])'
    <3>1. InHand(d) => call[d].task # t /\ call[d].task \in Task
      BY <1>2, <1>3, EngineAssumption DEF OneWriter, InHand, TypeOK
    <3>2. QED
      BY <1>2, <1>4, <2>2, <3>1, StillDue DEF IInv, TypeOK
  <2>3. QED
    BY <2>1, <2>2 DEF DecisionsHold
<1>9. (AbsentIsEmpty /\ AuditFollowsTrail /\ StepsInOrder)'
  BY <1>2, <1>3, <1>4, <1>5 DEF IInv, AbsentIsEmpty, AuditFollowsTrail, StepsInOrder
<1>10. StopIsRecorded'
  <2>1. \A u \in stop : u # t /\ u \in Task
    BY <1>2, <1>3, <1>5 DEF IInv, StopIsRecorded, Ended, TypeOK
  <2>2. QED
    BY <1>2, <1>4, <2>1 DEF IInv, StopIsRecorded, Ended
<1>11. CompletedMeansAllSteps'
  BY <1>2, <1>4 DEF IInv, CompletedMeansAllSteps
<1>12. QED
  BY <1>7, <1>8, <1>9, <1>10, <1>11 DEF IInv

\* What Save does to the state of the task: nothing, or a legal move.
LEMMA SaveMoves ==
    ASSUME IInv, NEW c \in Caller, Save(c)
    PROVE  LET w == call[c]  t == w.task
           IN  /\ t \in Task /\ row' = [row EXCEPT ![t] = w.moved]
               /\ \/ w.op = "plan" /\ row[t].state = "planning" /\ row'[t].state = "planning"
                  \/ /\ w.op \in Operations /\ row[t].state \in Sources(w.op)
                     /\ row'[t].state = Target(w.op)
                     /\ w.op = "complete" => \A s \in Step : steps[t][s] = "completed"
<1> DEFINE w == call[c]
           t == w.task
<1>1. t \in Task /\ row \in [Task -> Rows] /\ Due(w) /\ w.phase = "save"
  BY DEF IInv, TypeOK, Save, DecisionsHold
<1>2. row' = [row EXCEPT ![t] = w.moved]
  BY DEF Save
<1>3. row'[t] = w.moved /\ row[t] \in Rows
  BY <1>1, <1>2
<1>4. [row[t] EXCEPT !.state = Target(w.op)].state = Target(w.op)
  BY <1>3 DEF Rows
<1>5. QED
  BY <1>1, <1>2, <1>3, <1>4 DEF Due

\* Of all the operations only complete() leads to COMPLETED.
LEMMA OnlyCompleteCompletes ==
    \A op \in Operations : Target(op) = "completed" => op = "complete"
BY DEF Operations, Target

\* The row of the task keeps the invariant: what moves there was due.
LEMMA SaveKeeps ==
    ASSUME IInv, TypeOK', NEW c \in Caller, Save(c)
    PROVE  IInv'
<1> DEFINE t == call[c].task
           w == [call[c] EXCEPT !.phase = "event"]
<1>1. /\ call' = [call EXCEPT ![c] = w] /\ call[c] \in Calls /\ InHand(c) /\ t \in Task
      /\ UNCHANGED <<trail, steps, audit, lock, stop>>
  BY DEF Save, Go, IInv, TypeOK, InHand
<1>2. w.phase = "event" /\ w.task = t /\ w.op = call[c].op
  BY <1>1 DEF Calls
<1>3. TypeOK /\ OneWriter
  BY DEF IInv
<1>4. \A u \in Task \ {t} : row'[u] = row[u]
  BY <1>3, SaveMoves DEF TypeOK
<1>5. /\ row[t].state \in LiveStates /\ row'[t].state \in TaskStates
      /\ row'[t].state = "completed" => \A s \in Step : steps[t][s] = "completed"
  <2>1. CASE call[c].op = "plan"
    BY <2>1, SaveMoves DEF LiveStates, TaskStates, Operations
  <2>2. CASE call[c].op \in Operations
    BY <2>2, SaveMoves, OperationsLeaveLiveStates, OnlyCompleteCompletes
  <2>3. QED
    BY <2>1, <2>2, SaveMoves
<1>6. row'[t].state # Absent /\ ~Ended(t)
  BY <1>5, TerminalIsNotLive DEF Ended
<1>7. OneWriter'
  BY <1>1, <1>2, <1>3, StaysOneWriter
<1>8. DecisionsHold'
  <2>1. Due(call[c])'
    <3>1. call'[c] = w
      BY <1>1, <1>3 DEF TypeOK
    <3>2. w.op = "plan" \/ (w.op \in Operations /\ row'[t].state = Target(w.op))
      BY <1>2, SaveMoves
    <3>3. QED
      BY <1>2, <1>6, <3>1, <3>2 DEF Due
  <2>2. ASSUME NEW d \in Caller, d # c
        PROVE  Due(call[d])'
    <3>1. InHand(d) => call[d].task # t /\ call[d].task \in Task
      BY <1>1, <1>3, <2>2, HandsAreApart DEF TypeOK, InHand
    <3>2. QED
      BY <1>1, <1>4, <2>2, <3>1, StillDue DEF IInv, TypeOK
  <2>3. QED
    BY <2>1, <2>2 DEF DecisionsHold
<1>9. (AbsentIsEmpty /\ AuditFollowsTrail /\ StepsInOrder)'
  BY <1>1, <1>4, <1>6 DEF IInv, AbsentIsEmpty, AuditFollowsTrail, StepsInOrder
<1>10. StopIsRecorded'
  <2>1. \A u \in stop : u # t /\ u \in Task
    BY <1>3, <1>6 DEF IInv, StopIsRecorded, TypeOK
  <2>2. QED
    BY <1>1, <1>4, <2>1 DEF IInv, StopIsRecorded, Ended
<1>11. CompletedMeansAllSteps'
  BY <1>1, <1>4, <1>5 DEF IInv, CompletedMeansAllSteps
<1>12. QED
  BY <1>7, <1>8, <1>9, <1>10, <1>11 DEF IInv

\* A step that moves where Due allows keeps every graph in order: what it waits for is behind
\* it when it starts, and nothing that waits for it has started when it goes back.
LEMMA MovedStepInOrder ==
    ASSUME TypeOK, StepsInOrder, NEW t \in Task, NEW s \in Step, NEW op \in StepOperations,
           steps[t][s] = StepSource(op), op = "start_step" => Ready(t, s),
           steps' = [steps EXCEPT ![t][s] = StepTarget(op)]
    PROVE  StepsInOrder'
<1>1. \A x \in Step : \A d \in Deps[x] : d \in Step /\ d # x
  BY EngineAssumption
<1>2. /\ \A u \in Task \ {t} : steps'[u] = steps[u]
      /\ \A x \in Step \ {s} : steps'[t][x] = steps[t][x]
      /\ steps'[t][s] = StepTarget(op)
  BY DEF TypeOK
<1>3. steps[t][s] \in {"pending", "running"}
  BY StepOperationsAreLegal
<1>4. \A x \in Step : steps[t][x] \in {"running", "completed", "failed"} =>
          \A d \in Deps[x] : steps[t][d] = "completed" /\ d # s
  BY <1>3 DEF StepsInOrder
<1>5. StepTarget(op) \in {"running", "completed", "failed"} =>
          \A d \in Deps[s] : steps[t][d] = "completed"
  <2>1. CASE op = "start_step"
    BY <2>1 DEF Ready
  <2>2. CASE op \in {"complete_step", "fail_step"}
    BY <1>4, <2>2 DEF StepSource
  <2>3. CASE op \notin {"start_step", "complete_step", "fail_step"}
    BY <2>3 DEF StepOperations, StepTarget
  <2>4. QED
    BY <2>1, <2>2, <2>3
<1>6. ASSUME NEW u \in Task, NEW x \in Step, steps'[u][x] \in {"running", "completed", "failed"},
             NEW d \in Deps[x]
      PROVE  steps'[u][d] = "completed"
  <2>1. CASE u # t
    BY <1>1, <1>2, <1>6, <2>1 DEF StepsInOrder
  <2>2. CASE u = t /\ x = s
    BY <1>1, <1>2, <1>5, <1>6, <2>2
  <2>3. CASE u = t /\ x # s
    BY <1>1, <1>2, <1>4, <1>6, <2>3
  <2>4. QED
    BY <2>1, <2>2, <2>3
<1>7. QED
  BY <1>6 DEF StepsInOrder

\* What AppendEvent adds to the trail, and where it moves the step of the event.
LEMMA EventEffects ==
    ASSUME IInv, NEW c \in Caller, AppendEvent(c)
    PROVE  LET w == call[c]  t == w.task
           IN  /\ t \in Task /\ Due(w) /\ InHand(c) /\ w.phase = "event"
               /\ UNCHANGED <<row, audit, stop>>
               /\ \A u \in Task \ {t} : trail'[u] = trail[u] /\ steps'[u] = steps[u]
               /\ Len(trail'[t]) = Len(trail[t]) + 1 /\ Len(trail[t]) \in Nat
               /\ \A i \in DOMAIN trail[t] : trail'[t][i] = trail[t][i]
               /\ trail'[t][Len(trail[t]) + 1].op = w.op
               /\ IF w.op \in StepOperations
                  THEN steps' = [steps EXCEPT ![t][w.step] = StepTarget(w.op)]
                  ELSE steps' = steps
<1> DEFINE w == call[c]
           t == w.task
           e == [op |-> w.op, step |-> w.step, key |-> w.key, at |-> w.at]
<1>1. TypeOK /\ t \in Task /\ Due(w) /\ w.phase = "event"
  BY DEF IInv, TypeOK, AppendEvent, DecisionsHold
<1>2. trail' = [trail EXCEPT ![t] = Append(trail[t], e)] /\ trail[t] \in Seq(Events)
  BY <1>1 DEF AppendEvent, TypeOK
<1>3. trail'[t] = Append(trail[t], e) /\ \A u \in Task \ {t} : trail'[u] = trail[u]
  BY <1>1, <1>2 DEF TypeOK
<1>4. /\ Len(trail'[t]) = Len(trail[t]) + 1 /\ Len(trail[t]) \in Nat
      /\ \A i \in DOMAIN trail[t] : trail'[t][i] = trail[t][i]
      /\ trail'[t][Len(trail[t]) + 1] = e
  BY <1>2, <1>3
<1>5. /\ UNCHANGED <<row, audit, stop>>
      /\ IF w.op \in StepOperations
         THEN steps' = [steps EXCEPT ![t][w.step] = StepTarget(w.op)]
         ELSE steps' = steps
  BY DEF AppendEvent
<1>6. \A u \in Task \ {t} : steps'[u] = steps[u]
  BY <1>1, <1>5 DEF TypeOK
<1>7. QED
  BY <1>1, <1>3, <1>4, <1>5, <1>6 DEF InHand

\* The event of the trail keeps the invariant.
LEMMA AppendEventKeeps ==
    ASSUME IInv, TypeOK', NEW c \in Caller, AppendEvent(c)
    PROVE  IInv'
<1> DEFINE w == call[c]
           t == w.task
           n == [w EXCEPT !.phase = "audit"]
<1>0. /\ t \in Task /\ Due(w) /\ InHand(c) /\ w.phase = "event"
      /\ UNCHANGED <<row, audit, stop>>
      /\ \A u \in Task \ {t} : trail'[u] = trail[u] /\ steps'[u] = steps[u]
      /\ Len(trail'[t]) = Len(trail[t]) + 1 /\ Len(trail[t]) \in Nat
      /\ \A i \in DOMAIN trail[t] : trail'[t][i] = trail[t][i]
      /\ trail'[t][Len(trail[t]) + 1].op = w.op
      /\ IF w.op \in StepOperations
         THEN steps' = [steps EXCEPT ![t][w.step] = StepTarget(w.op)]
         ELSE steps' = steps
  BY EventEffects
<1>1. TypeOK /\ OneWriter /\ t \in Task /\ Due(w) /\ InHand(c) /\ w.phase = "event"
  BY <1>0 DEF IInv
<1>2. \/ Return(c)
      \/ call' = [call EXCEPT ![c] = n] /\ lock' = lock
  BY DEF AppendEvent, Go
<1>3. n.phase = "audit" /\ n.task = t /\ n.op = w.op /\ w.op # "create"
  BY <1>1 DEF TypeOK, Calls
<1>4. row[t].state # Absent
  BY <1>1 DEF Due
<1>5. \/ w.op \in {"plan", "heartbeat"}
      \/ w.op \in Operations /\ row[t].state = Target(w.op)
      \/ /\ w.op \in StepOperations /\ w.step \in Step /\ steps[t][w.step] = StepSource(w.op)
         /\ w.op = "start_step" => Ready(t, w.step)
  BY <1>1 DEF Due
<1>6. \A i \in DOMAIN audit[t] : audit[t][i] \in Nat /\ audit[t][i] <= Len(trail[t])
  BY <1>1 DEF IInv, AuditFollowsTrail, TypeOK
<1>7. OneWriter'
  BY <1>1, <1>2, <1>3, ReturnOneWriter, StaysOneWriter
<1>8. DecisionsHold'
  <2>1. Due(call[c])'
    <3>1. CASE Return(c)
      BY <1>1, <3>1 DEF Return, Idle, Due, TypeOK
    <3>2. CASE call' = [call EXCEPT ![c] = n]
      <4>1. call'[c] = n
        BY <1>1, <3>2 DEF TypeOK
      <4>2. trail'[t] # <<>> /\ trail'[t][Len(trail'[t])].op = n.op
        BY <1>3, <1>0
      <4>3. \A i \in DOMAIN audit'[t] : audit'[t][i] < Len(trail'[t])
        BY <1>6, <1>0
      <4>4. n.op \in Operations => row'[t].state = Target(n.op)
        BY <1>3, <1>5, <1>0, StepOperationsAreLegal, OperationsLeaveLiveStates
      <4>5. row'[t].state # Absent
        BY <1>4, <1>0
      <4>6. QED
        BY <1>3, <4>1, <4>2, <4>3, <4>4, <4>5 DEF Due
    <3>3. QED
      BY <1>2, <3>1, <3>2
  <2>2. ASSUME NEW d \in Caller, d # c
        PROVE  Due(call[d])'
    <3>1. InHand(d) => call[d].task # t /\ call[d].task \in Task
      BY <1>1, <2>2, HandsAreApart DEF TypeOK, InHand
    <3>2. call'[d] = call[d]
      BY <1>1, <1>2, <2>2 DEF Return, TypeOK
    <3>3. QED
      BY <3>1, <3>2, <1>0, StillDue
  <2>3. QED
    BY <2>1, <2>2 DEF DecisionsHold
<1>9. AbsentIsEmpty'
  BY <1>4, <1>0 DEF IInv, AbsentIsEmpty
<1>10. AuditFollowsTrail'
  <2>1. ASSUME NEW u \in Task
        PROVE  Len(trail[u]) <= Len(trail'[u])
    <3>1. Len(trail[u]) \in Nat
      BY <1>1 DEF TypeOK
    <3>2. CASE u = t
      BY <1>0, <3>2
    <3>3. CASE u # t
      BY <1>0, <3>1, <3>3
    <3>4. QED
      BY <3>2, <3>3
  <2>2. \A u \in Task : Len(trail[u]) \in Nat /\ Len(trail'[u]) \in Nat
                        /\ \A i \in DOMAIN audit[u] : audit[u][i] \in Nat
    BY <1>1 DEF TypeOK
  <2>3. QED
    BY <2>1, <2>2, <1>0 DEF IInv, AuditFollowsTrail
<1>11. StopIsRecorded'
  <2>1. \A u \in Task : \A i \in DOMAIN audit[u] :
            audit[u][i] > 0 => audit[u][i] \in DOMAIN trail[u]
    <3>1. \A u \in Task : \A i \in DOMAIN audit[u] :
              audit[u][i] \in Nat /\ audit[u][i] <= Len(trail[u]) /\ trail[u] \in Seq(Events)
      BY <1>1 DEF IInv, AuditFollowsTrail, TypeOK
    <3>2. QED
      BY <3>1
  <2>2. \A u \in Task : \A i \in DOMAIN trail[u] : trail'[u][i] = trail[u][i]
    BY <1>0
  <2>3. ASSUME NEW u \in stop
        PROVE  /\ Ended(u)'
               /\ \E i \in DOMAIN audit'[u] :
                     /\ audit'[u][i] > 0
                     /\ trail'[u][audit'[u][i]].op \in Operations
                     /\ Target(trail'[u][audit'[u][i]].op) = row'[u].state
    <3>1. u \in Task /\ Ended(u)
      BY <1>1 DEF IInv, TypeOK, StopIsRecorded
    <3>2. PICK i \in DOMAIN audit[u] : /\ audit[u][i] > 0
                                       /\ trail[u][audit[u][i]].op \in Operations
                                       /\ Target(trail[u][audit[u][i]].op) = row[u].state
      BY DEF IInv, StopIsRecorded
    <3>3. trail'[u][audit[u][i]] = trail[u][audit[u][i]]
      BY <2>1, <2>2, <3>1, <3>2
    <3>4. QED
      BY <1>0, <3>1, <3>2, <3>3 DEF Ended
  <2>4. QED
    BY <1>0, <2>3 DEF StopIsRecorded
<1>12. StepsInOrder'
  <2>1. CASE w.op \in StepOperations
    <3>1. /\ w.step \in Step /\ steps[t][w.step] = StepSource(w.op)
          /\ w.op = "start_step" => Ready(t, w.step)
      BY <1>5, <2>1, StepOperationsAreLegal
    <3>2. QED
      BY <1>1, <2>1, <3>1, <1>0, MovedStepInOrder DEF IInv
  <2>2. CASE w.op \notin StepOperations
    BY <2>2, <1>0 DEF IInv, StepsInOrder
  <2>3. QED
    BY <2>1, <2>2
<1>13. CompletedMeansAllSteps'
  <2>1. CASE w.op \in StepOperations
    <3>1. w.step \in Step /\ steps[t][w.step] # "completed"
      BY <1>5, <2>1, StepOperationsAreLegal
    <3>2. row[t].state # "completed"
      BY <1>1, <3>1 DEF IInv, CompletedMeansAllSteps
    <3>3. QED
      BY <3>2, <1>0 DEF IInv, CompletedMeansAllSteps
  <2>2. CASE w.op \notin StepOperations
    BY <2>2, <1>0 DEF IInv, CompletedMeansAllSteps
  <2>3. QED
    BY <2>1, <2>2
<1>14. QED
  BY <1>7, <1>8, <1>9, <1>10, <1>11, <1>12, <1>13 DEF IInv

\* What AppendAudit adds to the audit and to the signals, and what it leaves the call to do.
LEMMA AuditEffects ==
    ASSUME IInv, NEW c \in Caller, AppendAudit(c)
    PROVE  LET w == call[c]  t == w.task
               n == IF w.op = "create" THEN 0 ELSE Len(trail[t])
           IN  /\ t \in Task /\ Due(w) /\ InHand(c) /\ w.phase = "audit"
               /\ UNCHANGED <<row, trail, steps>>
               /\ \A u \in Task \ {t} : audit'[u] = audit[u]
               /\ Len(audit'[t]) = Len(audit[t]) + 1 /\ Len(audit[t]) \in Nat
               /\ \A i \in DOMAIN audit[t] : audit'[t][i] = audit[t][i]
               /\ audit'[t][Len(audit[t]) + 1] = n
               /\ stop' = IF w.op \in Operations /\ Target(w.op) \in TerminalStates
                          THEN stop \cup {t} ELSE stop
               /\ \/ Return(c)
                  \/ /\ lock' = lock
                     /\ \E d \in Step :
                           /\ steps[t][d] = "pending"
                           /\ call' = [call EXCEPT ![c] = [w EXCEPT !.phase = "event",
                                       !.step = d, !.op = "cancel_step", !.at = clock]]
<1> DEFINE w == call[c]
           t == w.task
           n == IF w.op = "create" THEN 0 ELSE Len(trail[t])
<1>1. TypeOK /\ t \in Task /\ Due(w) /\ w.phase = "audit"
  BY DEF IInv, TypeOK, AppendAudit, DecisionsHold
<1>2. audit' = [audit EXCEPT ![t] = Append(audit[t], n)] /\ audit[t] \in Seq(Nat)
  BY <1>1 DEF AppendAudit, TypeOK
<1>3. audit'[t] = Append(audit[t], n) /\ \A u \in Task \ {t} : audit'[u] = audit[u]
  BY <1>1, <1>2 DEF TypeOK
<1>4. n \in Nat
  BY <1>1 DEF TypeOK
<1>5. /\ Len(audit'[t]) = Len(audit[t]) + 1 /\ Len(audit[t]) \in Nat
      /\ \A i \in DOMAIN audit[t] : audit'[t][i] = audit[t][i]
      /\ audit'[t][Len(audit[t]) + 1] = n
  BY <1>2, <1>3, <1>4
<1>6. /\ UNCHANGED <<row, trail, steps>>
      /\ stop' = IF w.op \in Operations /\ Target(w.op) \in TerminalStates
                 THEN stop \cup {t} ELSE stop
  BY DEF AppendAudit
<1>7. \/ Return(c)
      \/ /\ lock' = lock
         /\ \E d \in Step :
               /\ steps[t][d] = "pending"
               /\ call' = [call EXCEPT ![c] = [w EXCEPT !.phase = "event",
                           !.step = d, !.op = "cancel_step", !.at = clock]]
  BY DEF AppendAudit, First, ToCancel
<1>8. QED
  BY <1>1, <1>3, <1>5, <1>6, <1>7 DEF InHand

\* The row of the audit, and the stop that follows it, keep the invariant.
LEMMA AppendAuditKeeps ==
    ASSUME IInv, TypeOK', NEW c \in Caller, AppendAudit(c)
    PROVE  IInv'
<1> DEFINE w == call[c]
           t == w.task
           n == IF w.op = "create" THEN 0 ELSE Len(trail[t])
           next(d) == [w EXCEPT !.phase = "event", !.step = d, !.op = "cancel_step", !.at = clock]
<1>0. /\ t \in Task /\ Due(w) /\ InHand(c) /\ w.phase = "audit"
      /\ UNCHANGED <<row, trail, steps>>
      /\ \A u \in Task \ {t} : audit'[u] = audit[u]
      /\ Len(audit'[t]) = Len(audit[t]) + 1 /\ Len(audit[t]) \in Nat
      /\ \A i \in DOMAIN audit[t] : audit'[t][i] = audit[t][i]
      /\ audit'[t][Len(audit[t]) + 1] = n
      /\ stop' = IF w.op \in Operations /\ Target(w.op) \in TerminalStates
                 THEN stop \cup {t} ELSE stop
  BY AuditEffects
<1>1. TypeOK /\ OneWriter /\ row[t].state # Absent
  BY <1>0 DEF IInv, Due
<1>2. \/ Return(c)
      \/ lock' = lock /\ \E d \in Step : /\ steps[t][d] = "pending"
                                        /\ call' = [call EXCEPT ![c] = next(d)]
  BY AuditEffects
<1>3. \A d : /\ next(d).phase = "event" /\ next(d).task = t /\ next(d).op = "cancel_step"
             /\ next(d).step = d
  BY <1>1 DEF TypeOK, Calls
<1> HIDE DEF next
<1>4. IF w.op = "create" THEN trail[t] = <<>> /\ audit[t] = <<>>
      ELSE /\ trail[t] # <<>> /\ trail[t][Len(trail[t])].op = w.op
           /\ \A i \in DOMAIN audit[t] : audit[t][i] < Len(trail[t])
           /\ w.op \in Operations => row[t].state = Target(w.op)
  BY <1>0 DEF Due
<1>5. OneWriter'
  <2>1. CASE Return(c)
    BY <1>0, <1>1, <2>1, ReturnOneWriter
  <2>2. ASSUME NEW d \in Step, lock' = lock, call' = [call EXCEPT ![c] = next(d)]
        PROVE  OneWriter'
    BY <1>0, <1>1, <1>3, <2>2, StaysOneWriter
  <2>3. QED
    BY <1>2, <2>1, <2>2
<1>6. DecisionsHold'
  <2>1. Due(call[c])'
    <3>1. CASE Return(c)
      BY <1>1, <3>1 DEF Return, Idle, Due, TypeOK
    <3>2. ASSUME NEW d \in Step, steps[t][d] = "pending", call' = [call EXCEPT ![c] = next(d)]
          PROVE  Due(call[c])'
      <4>1. call'[c] = next(d)
        BY <1>1, <3>2 DEF TypeOK
      <4>2. "cancel_step" \in StepOperations /\ StepSource("cancel_step") = "pending"
        BY DEF StepOperations, StepSource
      <4>3. QED
        BY <1>0, <1>1, <1>3, <3>2, <4>1, <4>2 DEF Due
    <3>3. QED
      BY <1>2, <3>1, <3>2
  <2>2. ASSUME NEW d \in Caller, d # c
        PROVE  Due(call[d])'
    <3>1. InHand(d) => call[d].task # t /\ call[d].task \in Task
      BY <1>0, <1>1, <2>2, HandsAreApart DEF TypeOK, InHand
    <3>2. call'[d] = call[d]
      BY <1>1, <1>2, <2>2 DEF Return, TypeOK
    <3>3. QED
      BY <1>0, <3>1, <3>2, StillDue
  <2>3. QED
    BY <2>1, <2>2 DEF DecisionsHold
<1>7. AbsentIsEmpty'
  BY <1>0, <1>1 DEF IInv, AbsentIsEmpty
<1>8. AuditFollowsTrail'
  <2>1. ASSUME NEW u \in Task, u # t, NEW i \in DOMAIN audit'[u]
        PROVE  /\ audit'[u][i] <= Len(trail'[u])
               /\ \A j \in 1 .. i - 1 : audit'[u][j] < audit'[u][i]
    BY <1>0, <2>1 DEF IInv, AuditFollowsTrail
  <2>2. /\ DOMAIN audit[t] = 1 .. Len(audit[t]) /\ DOMAIN audit'[t] = 1 .. Len(audit'[t])
        /\ Len(trail[t]) \in Nat /\ \A i \in DOMAIN audit[t] : audit[t][i] \in Nat
    BY <1>0, <1>1 DEF TypeOK
  <2>3. n \in Nat /\ n <= Len(trail[t]) /\ \A j \in DOMAIN audit[t] : audit[t][j] < n
    BY <1>4, <2>2
  <2>4. ASSUME NEW i \in DOMAIN audit'[t]
        PROVE  /\ audit'[t][i] <= Len(trail'[t])
               /\ \A j \in 1 .. i - 1 : audit'[t][j] < audit'[t][i]
    <3>1. CASE i \in DOMAIN audit[t]
      <4>1. \A j \in 1 .. i - 1 : j \in DOMAIN audit[t]
        BY <2>2, <3>1
      <4>2. QED
        BY <1>0, <3>1, <4>1 DEF IInv, AuditFollowsTrail
    <3>2. CASE i = Len(audit[t]) + 1
      <4>1. audit'[t][i] = n /\ Len(trail'[t]) = Len(trail[t])
        BY <1>0, <3>2
      <4>2. \A j \in 1 .. i - 1 : j \in DOMAIN audit[t]
        BY <2>2, <3>2
      <4>3. \A j \in 1 .. i - 1 : audit'[t][j] = audit[t][j]
        BY <1>0, <4>2
      <4>4. \A j \in 1 .. i - 1 : audit[t][j] < n
        BY <2>3, <4>2
      <4>5. \A j \in 1 .. i - 1 : audit'[t][j] < audit'[t][i]
        BY <4>1, <4>3, <4>4, Zenon
      <4>6. audit'[t][i] <= Len(trail'[t])
        BY <2>3, <4>1
      <4>7. QED
        BY <4>5, <4>6
    <3>3. i \in DOMAIN audit[t] \/ i = Len(audit[t]) + 1
      <4>1. i \in 1 .. Len(audit[t]) + 1
        BY <1>0, <2>2
      <4>2. QED
        BY <1>0, <2>2, <4>1
    <3>4. QED
      BY <3>1, <3>2, <3>3, Zenon
  <2>5. QED
    BY <2>1, <2>4 DEF AuditFollowsTrail
<1>9. StopIsRecorded'
  <2>1. ASSUME NEW u \in stop'
        PROVE  /\ Ended(u)'
               /\ \E i \in DOMAIN audit'[u] :
                     /\ audit'[u][i] > 0
                     /\ trail'[u][audit'[u][i]].op \in Operations
                     /\ Target(trail'[u][audit'[u][i]].op) = row'[u].state
    <3>1. CASE u \in stop
      <4>1. u \in Task /\ Ended(u)
        BY <1>1, <3>1 DEF IInv, TypeOK, StopIsRecorded
      <4>2. PICK i \in DOMAIN audit[u] : /\ audit[u][i] > 0
                                         /\ trail[u][audit[u][i]].op \in Operations
                                         /\ Target(trail[u][audit[u][i]].op) = row[u].state
        BY <3>1 DEF IInv, StopIsRecorded
      <4>3. i \in DOMAIN audit'[u] /\ audit'[u][i] = audit[u][i]
        <5>1. audit[u] \in Seq(Nat) /\ audit'[u] \in Seq(Nat)
          BY <1>1, <4>1 DEF TypeOK
        <5>2. CASE u = t
          BY <1>0, <4>2, <5>1, <5>2
        <5>3. CASE u # t
          BY <1>0, <4>1, <4>2, <5>3
        <5>4. QED
          BY <5>2, <5>3
      <4>4. QED
        BY <1>0, <4>1, <4>2, <4>3 DEF Ended
    <3>2. CASE u = t /\ w.op \in Operations /\ Target(w.op) \in TerminalStates
      <4>1. w.op # "create"
        BY <3>2, OperationsLeaveLiveStates
      <4>2. trail[t] # <<>> /\ trail[t] \in Seq(Events) /\ audit'[t] \in Seq(Nat)
        BY <1>0, <1>1, <1>4, <4>1 DEF TypeOK
      <4>3. /\ Len(audit[t]) + 1 \in DOMAIN audit'[t]
            /\ audit'[t][Len(audit[t]) + 1] = Len(trail[t]) /\ Len(trail[t]) > 0
        BY <1>0, <4>1, <4>2
      <4>4. QED
        BY <1>0, <1>4, <3>2, <4>1, <4>3 DEF Ended
    <3>3. QED
      BY <1>0, <2>1, <3>1, <3>2
  <2>2. QED
    BY <2>1 DEF StopIsRecorded
<1>10. StepsInOrder' /\ CompletedMeansAllSteps'
  BY <1>0 DEF IInv, StepsInOrder, CompletedMeansAllSteps
<1>11. QED
  BY <1>5, <1>6, <1>7, <1>8, <1>9, <1>10 DEF IInv

(***************************************************************************)
(* The invariant, and what follows from it.                                *)
(***************************************************************************)

\* The invariant holds before anything is created.
LEMMA InitIInv == Init => IInv
<1> SUFFICES ASSUME Init PROVE IInv
  OBVIOUS
<1>1. TypeOK
  BY TypeOKInit
<1>2. (\A c \in Caller : call[c].phase = "idle") /\ (\A t \in Task : lock[t] = None)
  BY DEF Init, Idle
<1>3. OneWriter /\ DecisionsHold
  BY <1>2 DEF OneWriter, DecisionsHold, Due
<1>4. AbsentIsEmpty /\ AuditFollowsTrail /\ StopIsRecorded
  BY DEF Init, AbsentIsEmpty, AuditFollowsTrail, StopIsRecorded
<1>5. StepsInOrder /\ CompletedMeansAllSteps
  BY DEF Init, NoRow, Absent, StepsInOrder, CompletedMeansAllSteps
<1>6. QED
  BY <1>1, <1>3, <1>4, <1>5 DEF IInv

\* No step breaks the invariant.
LEMMA NextIInv == IInv /\ [Next]_vars => IInv'
<1> SUFFICES ASSUME IInv, [Next]_vars PROVE IInv'
  OBVIOUS
<1>0. TypeOK'
  BY TypeOKStep DEF IInv
<1>1. ASSUME NEW c \in Caller, Writing(c)
      PROVE  IInv'
  BY <1>0, <1>1, RecoverDecides, ClaimsKeeps, LooksKeeps, AddPlanKeeps, SaveKeeps,
     AppendEventKeeps, AppendAuditKeeps DEF Writing
<1>2. ASSUME NEW c \in Caller, NEW t \in Task, Calling(c, t)
      PROVE  IInv'
  BY <1>0, <1>2, CallingDecides, CreateKeeps, ClaimsKeeps, LooksKeeps
<1>3. ASSUME NEW c \in Caller, StoreFails(c)
      PROVE  IInv'
  BY <1>0, <1>3, StoreFailsKeeps
<1>4. CASE Tick \/ Crash \/ \E t \in Task : Ask(t) \/ Answer(t)
  BY <1>0, <1>4, EnvironmentKeeps
<1>5. CASE UNCHANGED vars
  <2>1. OneWriter' /\ UNCHANGED <<row, trail, steps, audit, call, stop>>
    BY <1>5 DEF vars, IInv, OneWriter
  <2>2. DecisionsHold'
    BY <2>1, StillDue DEF DecisionsHold
  <2>3. QED
    BY <1>0, <2>1, <2>2, UnwrittenKeeps DEF IInv
<1>6. QED
  BY <1>1, <1>2, <1>3, <1>4, <1>5 DEF Next

\* The whole invariant, through every interleaving, crash and store failure.
THEOREM InvariantIsKept == Spec => []IInv
BY InitIInv, NextIInv, PTL DEF Spec

\* One coroutine at a time between its read of a task and its last write (engine.py, _lock).
THEOREM OneWriterPerTask == Spec => []OneWriter
<1>1. IInv => OneWriter
  BY DEF IInv
<1>2. QED
  BY <1>1, InvariantIsKept, PTL

\* What an operation decided under the lock still holds at each of its three writes.
THEOREM DecisionsOutliveTheirWrites == Spec => []DecisionsHold
<1>1. IInv => DecisionsHold
  BY DEF IInv
<1>2. QED
  BY <1>1, InvariantIsKept, PTL

\* The audit reports events already in the trail, each once and in their order.
THEOREM AuditNeverRunsAhead == Spec => []AuditFollowsTrail
<1>1. IInv => AuditFollowsTrail
  BY DEF IInv
<1>2. QED
  BY <1>1, InvariantIsKept, PTL

\* A raised stop means a task that has ended, and a trail and an audit that say how.
THEOREM StopComesLast == Spec => []StopIsRecorded
<1>1. IInv => StopIsRecorded
  BY DEF IInv
<1>2. QED
  BY <1>1, InvariantIsKept, PTL

\* Whatever the graph: a step that has started has what it waits for behind it.
THEOREM GraphsStayInOrder == Spec => []StepsInOrder
<1>1. IInv => StepsInOrder
  BY DEF IInv
<1>2. QED
  BY <1>1, InvariantIsKept, PTL

\* A completed task is one whose every step is completed.
THEOREM CompletedTasksAreWhole == Spec => []CompletedMeansAllSteps
<1>1. IInv => CompletedMeansAllSteps
  BY DEF IInv
<1>2. QED
  BY <1>1, InvariantIsKept, PTL

\* Only AppendEvent writes the trail and the states of the steps.
LEMMA OnlyAppendWrites ==
    ASSUME IInv, [Next]_vars
    PROVE  (\E c \in Caller : AppendEvent(c)) \/ UNCHANGED <<trail, steps>>
<1>1. ASSUME NEW c \in Caller, NEW u \in Task, Calling(c, u)
      PROVE  UNCHANGED <<trail, steps>>
  BY <1>1, CallingDecides DEF Create, Claims, Looks, disk
<1>2. ASSUME NEW c \in Caller, Writing(c)
      PROVE  AppendEvent(c) \/ UNCHANGED <<trail, steps>>
  BY <1>2, RecoverDecides
     DEF Writing, Claims, Looks, disk, AddPlan, Save, AppendAudit
<1>3. QED
  BY <1>1, <1>2 DEF Next, StoreFails, Tick, Crash, Ask, Answer, disk, vars

\* Only Create and Save write the rows.
LEMMA OnlySaveMoves ==
    ASSUME IInv, [Next]_vars
    PROVE  \/ \E c \in Caller : Save(c) \/ \E t \in Task : Create(c, t)
           \/ row' = row
<1>1. ASSUME NEW c \in Caller, NEW t \in Task, Calling(c, t)
      PROVE  Create(c, t) \/ row' = row
  BY <1>1, CallingDecides DEF Claims, Looks, disk
<1>2. ASSUME NEW c \in Caller, Writing(c)
      PROVE  Save(c) \/ row' = row
  BY <1>2, RecoverDecides
     DEF Writing, Claims, Looks, disk, AddPlan, AppendEvent, AppendAudit
<1>3. QED
  BY <1>1, <1>2 DEF Next, StoreFails, Tick, Crash, Ask, Answer, disk, vars

\* A step writes the row of one task at most: a creation or a legal move.
LEMMA RowMoves ==
    ASSUME IInv, Next
    PROVE  \/ \A t \in Task : row'[t].state = row[t].state
           \/ \E t \in Task :
                 /\ \A u \in Task \ {t} : row'[u].state = row[u].state
                 /\ \/ row[t].state = Absent /\ row'[t].state = "created"
                    \/ row'[t].state \in Transitions(row[t].state)
<1>1. CASE \A t \in Task : row'[t].state = row[t].state
  BY <1>1
<1>2. ASSUME NEW c \in Caller, NEW t \in Task, Create(c, t)
      PROVE  /\ \A u \in Task \ {t} : row'[u].state = row[u].state
             /\ row[t].state = Absent /\ row'[t].state = "created"
  BY <1>2 DEF Create, IInv, TypeOK
<1>3. ASSUME NEW c \in Caller, Save(c)
      PROVE  \E t \in Task :
                /\ \A u \in Task \ {t} : row'[u].state = row[u].state
                /\ \/ row'[t].state = row[t].state
                   \/ row'[t].state \in Transitions(row[t].state)
  <2> DEFINE t == call[c].task
  <2>1. t \in Task /\ \A u \in Task \ {t} : row'[u] = row[u]
    BY <1>3, SaveMoves DEF IInv, TypeOK
  <2>2. CASE call[c].op = "plan" /\ row[t].state = row'[t].state
    BY <2>1, <2>2
  <2>3. CASE /\ call[c].op \in Operations /\ row[t].state \in Sources(call[c].op)
             /\ row'[t].state = Target(call[c].op)
    BY <2>1, <2>3, OperationsAreLegal
  <2>4. QED
    BY <1>3, <2>2, <2>3, SaveMoves
<1>4. \/ \E c \in Caller : Save(c) \/ \E t \in Task : Create(c, t)
      \/ row' = row
  BY OnlySaveMoves
<1>5. CASE \E c \in Caller : Save(c)
  BY <1>3, <1>5
<1>6. QED
  BY <1>2, <1>4, <1>5

\* Every step is a step of the life cycle, or none at all, to who sees the states only.
LEMMA StepImplements ==
    IInv /\ [Next]_vars => [State!LifecycleNext]_([t \in Task |-> row[t].state])
<1> SUFFICES ASSUME IInv, [Next]_vars
             PROVE  [State!LifecycleNext]_([t \in Task |-> row[t].state])
  OBVIOUS
<1> DEFINE s == [t \in Task |-> row[t].state]
<1>1. \A x : State!Transitions(x) = Transitions(x)
  BY DEF State!Transitions, Transitions
<1>2. State!Absent = Absent
  BY DEF State!Absent, Absent
<1>3. CASE \A t \in Task : row'[t].state = row[t].state
  <2>1. s' = s
    BY <1>3
  <2>2. QED
    BY <2>1
<1>4. ASSUME NEW t \in Task, \A u \in Task \ {t} : row'[u].state = row[u].state,
             \/ row[t].state = Absent /\ row'[t].state = "created"
             \/ row'[t].state \in Transitions(row[t].state)
      PROVE  State!LifecycleNext
  <2>1. s' = [s EXCEPT ![t] = row'[t].state] /\ s[t] = row[t].state
    BY <1>4
  <2>2. State!Create(t) \/ State!Move(t)
    BY <1>1, <1>2, <1>4, <2>1 DEF State!Create, State!Move
  <2>3. QED
    BY <2>2 DEF State!LifecycleNext
<1>5. CASE UNCHANGED vars
  BY <1>3, <1>5 DEF vars
<1>6. QED
  BY <1>3, <1>4, <1>5, RowMoves

\* The life cycle starts where the engine does.
LEMMA InitImplements == Init => State!LifecycleInit
BY DEF Init, NoRow, State!LifecycleInit, State!Absent, Absent

\* The engine implements the life cycle: whoever reads the state of a task sees it created once,
\* moved along the table of the state machine, and never out of a terminal state.
THEOREM EngineImplementsLifecycle == Spec => ImplementsLifecycle
BY InitImplements, StepImplements, InvariantIsKept, PTL
   DEF Spec, ImplementsLifecycle, State!Lifecycle

\* The events a step may add to a trail.
LEMMA NewEvents ==
    ASSUME IInv, [Next]_vars, NEW t \in Task, NEW i \in Len(trail[t]) + 1 .. Len(trail'[t])
    PROVE  /\ trail'[t][i].op \in {"start_step", "release_step", "heartbeat"} => ~Ended(t)
           /\ trail'[t][i].op \in Operations => row[t].state = Target(trail'[t][i].op)
<1>0. Len(trail[t]) \in Nat /\ "executing" \notin TerminalStates
  BY DEF IInv, TypeOK, TerminalStates
<1>1. ASSUME NEW c \in Caller, AppendEvent(c)
      PROVE  /\ trail'[t][i].op \in {"start_step", "release_step", "heartbeat"} => ~Ended(t)
             /\ trail'[t][i].op \in Operations => row[t].state = Target(trail'[t][i].op)
  <2> DEFINE w == call[c]
  <2>1. /\ Due(w) /\ w.phase = "event"
        /\ \A u \in Task \ {w.task} : trail'[u] = trail[u]
        /\ Len(trail'[w.task]) = Len(trail[w.task]) + 1
        /\ trail'[w.task][Len(trail[w.task]) + 1].op = w.op
    BY <1>1, EventEffects
  <2>2. t = w.task /\ i = Len(trail[t]) + 1
    BY <1>0, <2>1
  <2>3. w.op \in {"start_step", "release_step", "heartbeat"} => row[t].state = "executing"
    <3>1. w.op \in {"start_step", "release_step"} => w.op \in StepOperations
      BY DEF StepOperations
    <3>2. QED
      BY <2>1, <2>2, <3>1, OperationsLeaveLiveStates, StepOperationsAreLegal DEF Due
  <2>4. w.op \in Operations => row[t].state = Target(w.op)
    BY <2>1, <2>2, OperationsLeaveLiveStates DEF Due
  <2>5. QED
    BY <1>0, <2>1, <2>2, <2>3, <2>4 DEF Ended
<1>2. (\E c \in Caller : AppendEvent(c)) \/ trail' = trail
  BY OnlyAppendWrites
<1>3. CASE trail' = trail
  BY <1>0, <1>3
<1>4. QED
  BY <1>1, <1>2, <1>3

\* Nothing starts, goes back in play or beats in a task that is over, in any run of the engine.
THEOREM TheEndIsTheEnd == Spec => NothingAfterTheEnd
<1>1. IInv /\ [Next]_vars =>
        [\A t \in Task : \A i \in Len(trail[t]) + 1 .. Len(trail'[t]) :
            /\ trail'[t][i].op \in {"start_step", "release_step", "heartbeat"} => ~Ended(t)
            /\ trail'[t][i].op \in Operations =>
                  row[t].state = Target(trail'[t][i].op)]_vars
  BY NewEvents
<1>2. QED
  BY <1>1, InvariantIsKept, PTL DEF Spec, NothingAfterTheEnd

(***************************************************************************)
(* What the trail tells. A second invariant, on top of the first: what the *)
(* calls in hand owe the trail, so that every event that is added goes on  *)
(* from the ones before it, and what is left half done is in somebody's    *)
(* hands.                                                                  *)
(***************************************************************************)

\* The last event of a step, if it has one, is where its state comes from.
LastOf(tr, s, i) ==
    tr[i].step = s /\ \A j \in i + 1 .. Len(tr) : tr[j].step # s

\* The state of each step is what its last event leaves it in.
StepsFoldTheTrail ==
    \A t \in Task, s \in Step :
        /\ (\A i \in DOMAIN trail[t] : trail[t][i].step # s) => steps[t][s] = "pending"
        /\ \A i \in DOMAIN trail[t] :
              LastOf(trail[t], s, i) => steps[t][s] = StepTarget(trail[t][i].op)

\* A call names a step only to move it, and a failed step only to take down what waits for it;
\* the key it releases a step with is new, and the task it found silent still is.
Tells(w) ==
    /\ w.op \notin StepOperations => w.step = None
    /\ w.op \notin {"fail_step", "cancel_step"} => w.cause = None
    /\ w.op = "fail_step" => w.cause = w.step
    /\ w.op = "cancel_step" => w.cause \in Step /\ w.step \in Descendants(w.cause)
    /\ w.phase = "event" /\ w.op = "release_step" => ~Released(w.task, w.step, w.key)
    /\ ~ClockMayGoBack /\ w.phase \in {"add_plan", "save", "event"} /\ w.op = "recover" =>
          \A i \in DOMAIN trail[w.task] : trail[w.task][i].at + OrphanAfter <= w.at

\* Every call, in hand or not.
CallsTell == \A c \in Caller : Tells(call[c])

\* No instant written, or about to be, is ahead of a clock that only goes on.
Timely(w) == ~ClockMayGoBack => w.at <= clock /\ w.moved.created <= clock

\* Nor is any row or event ahead of it.
NothingAheadOfTheClock ==
    /\ \A c \in Caller : Timely(call[c])
    /\ ~ClockMayGoBack => \A t \in Task : NotBefore(t, clock)

\* The last move in the trail says where the task stands ...
LastMoveStands(t) ==
    \A i \in DOMAIN trail[t] :
        /\ trail[t][i].op \in Operations
        /\ \A j \in i + 1 .. Len(trail[t]) : trail[t][j].op \notin Operations
        => row[t].state = Target(trail[t][i].op)

\* ... or who holds its lock is about to write it.
MoveIsWritten(t) ==
    \/ LastMoveStands(t)
    \/ /\ lock[t] # None /\ call[lock[t]].phase = "event"
       /\ call[lock[t]].op \in Operations

\* A step that has failed, or was taken down by one that had.
Fallen(t, d) ==
    \/ steps[t][d] = "failed"
    \/ /\ steps[t][d] = "cancelled"
       /\ \A i \in DOMAIN trail[t] : trail[t][i].step = d => trail[t][i].op # "stop_step"

\* What waits for a fallen step has gone, or who holds the lock is taking it down.
CascadeGoesOn(t) ==
    \A s \in Step : \A d \in Deps[s] :
        Fallen(t, d) /\ steps[t][s] = "pending" =>
            /\ lock[t] # None /\ call[lock[t]].cause \in Step
            /\ s \in Descendants(call[lock[t]].cause)

\* What is left half done of a task is in somebody's hands.
SettledAt(t) == MoveIsWritten(t) /\ (~ClockMayGoBack => CascadeGoesOn(t))

\* So it is with every task, as long as nothing failed.
Settled == faults = 0 => \A t \in Task : SettledAt(t)

\* The second invariant.
Story ==
    /\ StepsFoldTheTrail /\ TrailReplays /\ ReleasedOnce /\ OrphansWereSilent
    /\ CallsTell /\ NothingAheadOfTheClock /\ Settled

\* The steps of an interval of naturals have a last one.
LEMMA LastOfInterval ==
    ASSUME NEW n \in Nat, NEW S \in SUBSET (1 .. n), S # {}
    PROVE  \E x \in S : \A y \in S : y <= x
<1>1. S \in SUBSET (0 .. n)
  OBVIOUS
<1>2. QED
  BY <1>1, MaxOfInterval

\* What waits for a step, or for one that waits for it, is among its descendants.
LEMMA DescendantsAreClosed ==
    ASSUME NEW s \in Step, NEW x \in Step
    PROVE  /\ s \in Deps[x] => x \in Descendants(s)
           /\ \A d \in Descendants(s) : d \in Deps[x] => x \in Descendants(s)
BY DEF Descendants

(***************************************************************************)
(* What a call tells when it begins.                                       *)
(***************************************************************************)

\* A call that begins tells what it must when its arguments do.
LEMMA BeginTells ==
    ASSUME TypeOK, NothingAheadOfTheClock,
           NEW c \in Caller, NEW phase \in Phases,
           NEW op \in (Operations \cup StepOperations \cup {"plan", "heartbeat"}),
           NEW t \in Task, NEW s \in Step \cup {None}, NEW k \in Key \cup Task \cup {None},
           NEW cause \in Step \cup {None}, NEW moved \in Rows, moved.created = row[t].created,
           op \notin StepOperations => s = None,
           op \notin {"fail_step", "cancel_step"} => cause = None,
           op = "fail_step" => cause = s,
           op = "cancel_step" => cause \in Step /\ s \in Descendants(cause),
           op = "release_step" => ~Released(t, s, k),
           ~ClockMayGoBack /\ op = "recover" =>
              \A i \in DOMAIN trail[t] : trail[t][i].at + OrphanAfter <= clock,
           Begin(c, phase, op, t, s, k, cause, moved)
    PROVE  Tells(call'[c]) /\ Timely(call'[c])
<1> DEFINE w == [phase |-> phase, op |-> op, task |-> t, step |-> s, key |-> k,
                 cause |-> cause, at |-> clock, moved |-> moved]
<1>1. call'[c] = w
  BY DEF Begin, TypeOK
<1>2. Tells(w)
  BY DEF Tells
<1>3. Timely(w)
  <2>1. ~ClockMayGoBack => row[t].created <= clock
    BY DEF NothingAheadOfTheClock, NotBefore
  <2>2. clock \in Nat
    BY DEF TypeOK, Time
  <2>3. QED
    BY <2>1, <2>2 DEF Timely
<1>4. QED
  BY <1>1, <1>2, <1>3

\* A call that moves no step and recovers nothing has nothing to tell.
LEMMA IdleTells ==
    ASSUME TypeOK, NEW w, w.op = "heartbeat" \/ w.op = "create" \/ w.phase = "recheck",
           w.op \notin StepOperations, w.step = None, w.cause = None, 
           w.at <= clock, w.moved = NoRow
    PROVE  Tells(w) /\ Timely(w)
<1>1. NoRow.created = 0 /\ clock \in Nat
  BY DEF NoRow, TypeOK, Time
<1>2. Timely(w)
  BY <1>1 DEF Timely
<1>3. w.op # "release_step" /\ w.op # "fail_step" /\ w.op # "cancel_step"
  BY DEF StepOperations
<1>4. QED
  BY <1>2, <1>3 DEF Tells

\* Every operation that begins tells what it must, and of no later instant than now.
LEMMA CallingTells ==
    ASSUME IInv, NothingAheadOfTheClock, NEW c \in Caller, NEW t \in Task, Calling(c, t)
    PROVE  Tells(call'[c]) /\ Timely(call'[c])
<1>0. /\ TypeOK /\ row[t] \in Rows /\ clock \in Nat
      /\ "add_plan" \in Phases /\ "save" \in Phases /\ "event" \in Phases
      /\ None \notin Step
  BY EngineAssumption DEF IInv, TypeOK, Phases, Time
<1>1. CASE Create(c, t)
  <2> DEFINE w == [Idle EXCEPT !.phase = "audit", !.op = "create", !.task = t]
  <2>1. call'[c] = w
    BY <1>0, <1>1 DEF Create, TypeOK
  <2>2. /\ w.op = "create" /\ w.step = None /\ w.cause = None /\ w.at = 0 /\ w.moved = NoRow
        /\ "create" \notin StepOperations
    BY StepOperationsAreLegal DEF Idle
  <2> HIDE DEF w
  <2>3. w.at <= clock
    BY <1>0, <2>2
  <2>4. QED
    BY <1>0, <2>1, <2>2, <2>3, IdleTells
<1>2. CASE Heartbeat(c, t)
  <2>1. "heartbeat" \notin StepOperations
    BY StepOperationsAreLegal
  <2>2. QED
    BY <1>0, <1>2, <2>1, BeginTells DEF Heartbeat
<1>3. CASE RecoverScan(c, t)
  <2>1. PICK op \in {"recover", "expire"} :
            call' = [call EXCEPT ![c] = [Idle EXCEPT !.phase = "recheck", !.op = op,
                                                    !.task = t, !.at = clock]]
    BY <1>3 DEF RecoverScan
  <2> DEFINE w == [Idle EXCEPT !.phase = "recheck", !.op = op, !.task = t, !.at = clock]
  <2>2. call'[c] = w
    BY <1>0, <2>1 DEF TypeOK
  <2>3. /\ w.op = op /\ w.step = None /\ w.cause = None /\ w.at = clock /\ w.moved = NoRow
        /\ w.phase = "recheck" /\ op \notin StepOperations
    BY DEF Idle, StepOperations
  <2> HIDE DEF w
  <2>4. w.at <= clock
    BY <1>0, <2>3
  <2>5. QED
    BY <1>0, <2>2, <2>3, <2>4, IdleTells
<1>4. ASSUME NEW k \in Key, Plan(c, t, k)
      PROVE  Tells(call'[c]) /\ Timely(call'[c])
  <2>1. [row[t] EXCEPT !.plan = k] \in Rows /\ [row[t] EXCEPT !.plan = k].created = row[t].created
    BY <1>0 DEF Rows
  <2>2. "plan" \notin StepOperations
    BY StepOperationsAreLegal
  <2> DEFINE phase == IF planned[t] = None THEN "add_plan" ELSE "save"
  <2>3. phase \in Phases
    BY <1>0
  <2>4. Begin(c, phase, "plan", t, None, k, None, [row[t] EXCEPT !.plan = k])
    BY <1>4 DEF Plan
  <2> HIDE DEF phase
  <2>5. QED
    BY <1>0, <2>1, <2>2, <2>3, <2>4, BeginTells
<1>5. ASSUME NEW op \in Operations \ {"recover"}, NEW k \in KeysOf(op), Apply(c, t, op, k)
      PROVE  Tells(call'[c]) /\ Timely(call'[c])
  <2>1. k \in Key \cup Task \cup {None}
    BY <1>5 DEF KeysOf
  <2>2. [row[t] EXCEPT !.state = Target(op)].created = row[t].created
    BY <1>0 DEF Rows
  <2>3. op \notin StepOperations
    BY OperationsLeaveLiveStates
  <2>4. op # "fail_step" /\ op # "cancel_step" /\ op # "release_step"
    BY <2>3 DEF StepOperations
  <2>5. QED
    BY <1>0, <1>5, <2>1, <2>2, <2>3, <2>4, MovedIsARow, BeginTells DEF Apply
<1>6. ASSUME NEW s \in Step, NEW op \in StepOperations \ {"cancel_step"},
             NEW k \in KeysOf(op) \cup {None}, ApplyStep(c, t, s, op, k)
      PROVE  Tells(call'[c]) /\ Timely(call'[c])
  <2>1. k \in Key \cup Task \cup {None}
    BY <1>6 DEF KeysOf
  <2> DEFINE cause == IF op = "fail_step" THEN s ELSE None
  <2>2. cause \in Step \cup {None} /\ op # "recover"
    BY DEF StepOperations
  <2>3. /\ Begin(c, "event", op, t, s, k, cause, row[t])
        /\ op = "release_step" => ~Released(t, s, k)
    BY <1>6 DEF ApplyStep
  <2>4. op = "fail_step" => cause = s
    OBVIOUS
  <2>5. op \notin {"fail_step", "cancel_step"} => cause = None
    OBVIOUS
  <2> HIDE DEF cause
  <2>6. QED
    BY <1>0, <2>1, <2>2, <2>3, <2>4, <2>5, BeginTells
<1>7. ASSUME NEW s \in Step, NEW b \in BOOLEAN, FailStep(c, t, s, b)
      PROVE  Tells(call'[c]) /\ Timely(call'[c])
  <2>1. (IF b /\ Ended(t) THEN "stop_step" ELSE "fail_step") \in StepOperations \ {"cancel_step"}
    BY DEF StepOperations
  <2>2. QED
    BY <1>6, <1>7, <2>1 DEF FailStep
<1>8. ASSUME NEW s \in Step, ResumeCascade(c, t, s)
      PROVE  Tells(call'[c]) /\ Timely(call'[c])
  <2>1. PICK d \in Step : /\ First(d, ToCancel(t, s))
                          /\ Begin(c, "event", "cancel_step", t, d, None, s, row[t])
    BY <1>8 DEF ResumeCascade
  <2>2. d \in Descendants(s) /\ "cancel_step" \in StepOperations
    BY <2>1 DEF First, ToCancel, StepOperations
  <2>3. QED
    BY <1>0, <2>1, <2>2, BeginTells
<1>9. QED
  BY <1>1, <1>2, <1>3, <1>4, <1>5, <1>6, <1>7, <1>8 DEF Calling

\* The second look of recover() finds the task as silent as the first, or leaves it alone.
LEMMA RecoverTells ==
    ASSUME IInv, NothingAheadOfTheClock, NEW c \in Caller, RecoverCandidate(c)
    PROVE  Tells(call'[c]) /\ Timely(call'[c])
<1> DEFINE t == call[c].task
           op == call[c].op
           now == call[c].at
           found == /\ \/ op = "recover" /\ Orphan(t, now)
                       \/ op = "expire"
                    /\ Begin(c, "save", op, t, None, None, None,
                             [row[t] EXCEPT !.state = Target(op)])
           gone == call' = [call EXCEPT ![c] = Idle]
<1>0. TypeOK /\ t \in Task /\ OrphanAfter \in Nat
  BY EngineAssumption DEF IInv, TypeOK, RecoverCandidate
<1>1. /\ TypeOK /\ t \in Task /\ row[t] \in Rows /\ clock \in Nat /\ now \in Nat
      /\ trail[t] \in Seq(Events) /\ OrphanAfter \in Nat
  BY <1>0 DEF TypeOK, Calls, Time
<1>2. found \/ gone
  BY DEF RecoverCandidate
<1>3. CASE found
  <2>1. op \in Operations /\ "save" \in Phases
    BY <1>3 DEF Operations, Phases
  <2>2. op \notin StepOperations
    BY <2>1, OperationsLeaveLiveStates
  <2>3. [row[t] EXCEPT !.state = Target(op)].created = row[t].created
    BY <1>1 DEF Rows
  <2>4. ASSUME ~ClockMayGoBack, op = "recover", NEW i \in DOMAIN trail[t]
        PROVE  trail[t][i].at + OrphanAfter <= clock
    <3>1. now <= clock
      BY <2>4 DEF NothingAheadOfTheClock, Timely
    <3>2. trail[t][i].at \in Nat
      <4>1. trail[t][i] \in Events
        BY <1>1, <2>4
      <4>2. QED
        BY <4>1 DEF Events, Time
    <3>3. trail[t][i].at + OrphanAfter <= now
      BY <1>3, <2>4 DEF Orphan
    <3>4. QED
      BY <1>1, <3>1, <3>2, <3>3
  <2>5. op # "fail_step" /\ op # "cancel_step" /\ op # "release_step"
    BY <2>2 DEF StepOperations
  <2>6. QED
    BY <1>1, <1>3, <2>1, <2>2, <2>3, <2>4, <2>5, MovedIsARow, BeginTells
<1>4. CASE gone
  <2>1. /\ call'[c] = Idle /\ Idle.op = "heartbeat" /\ Idle.step = None /\ Idle.cause = None
        /\ Idle.at = 0 /\ Idle.moved = NoRow /\ "heartbeat" \notin StepOperations
    BY <1>1, <1>4, StepOperationsAreLegal DEF TypeOK, Idle
  <2>2. QED
    BY <1>1, <2>1, IdleTells
<1>5. QED
  BY <1>2, <1>3, <1>4

(***************************************************************************)
(* What an event adds to the trail.                                        *)
(***************************************************************************)

\* The event a call is about to write.
Event(w) == [op |-> w.op, step |-> w.step, key |-> w.key, at |-> w.at]

\* The event is the next of its trail, and of a step when it moves one.
LEMMA EventIsNext ==
    ASSUME IInv, CallsTell, NEW c \in Caller, AppendEvent(c)
    PROVE  LET w == call[c]  t == w.task
           IN  /\ t \in Task /\ w \in Calls /\ Tells(w) /\ w.phase = "event"
               /\ \A u \in Task \ {t} : trail'[u] = trail[u] /\ steps'[u] = steps[u]
               /\ trail[t] \in Seq(Events) /\ trail'[t] = Append(trail[t], Event(w))
               /\ \/ w.op \notin StepOperations /\ w.step = None /\ steps' = steps
                  \/ /\ w.op \in StepOperations /\ w.step \in Step
                     /\ steps[t][w.step] = StepSource(w.op)
                     /\ steps' = [steps EXCEPT ![t][w.step] = StepTarget(w.op)]
<1> DEFINE w == call[c]
           t == w.task
<1>1. TypeOK /\ t \in Task /\ Due(w) /\ w.phase = "event" /\ Tells(w)
  BY DEF IInv, TypeOK, AppendEvent, DecisionsHold, CallsTell
<1>2. trail' = [trail EXCEPT ![t] = Append(trail[t], Event(w))] /\ trail[t] \in Seq(Events)
  BY <1>1 DEF AppendEvent, TypeOK, Event
<1>3. trail'[t] = Append(trail[t], Event(w)) /\ \A u \in Task \ {t} : trail'[u] = trail[u]
  BY <1>1, <1>2 DEF TypeOK
<1>4. IF w.op \in StepOperations
      THEN steps' = [steps EXCEPT ![t][w.step] = StepTarget(w.op)]
      ELSE steps' = steps
  BY DEF AppendEvent
<1>5. \A u \in Task \ {t} : steps'[u] = steps[u]
  BY <1>1, <1>4 DEF TypeOK
<1>6. w.op \notin StepOperations => w.step = None
  BY <1>1 DEF Tells
<1>7. w.op \in StepOperations => w.step \in Step /\ steps[t][w.step] = StepSource(w.op)
  BY <1>1, StepOperationsAreLegal DEF Due
<1>8. w \in Calls
  BY <1>1 DEF TypeOK
<1>9. QED
  BY <1>1, <1>2, <1>3, <1>4, <1>5, <1>6, <1>7, <1>8

\* A trail and the same trail with one more event.
LEMMA Appended ==
    ASSUME NEW tr \in Seq(Events), NEW e
    PROVE  LET n == Len(tr)  more == Append(tr, e)
           IN  /\ n \in Nat /\ DOMAIN tr = 1 .. n /\ DOMAIN more = 1 .. n + 1 /\ Len(more) = n + 1
               /\ \A i \in 1 .. n : more[i] = tr[i] /\ more[i] \in Events
               /\ more[n + 1] = e
OBVIOUS

\* An event moves its step, and no other, to where the fold of the longer trail has it.
LEMMA FoldKeeps ==
    ASSUME IInv, CallsTell, StepsFoldTheTrail, NEW c \in Caller, AppendEvent(c)
    PROVE  StepsFoldTheTrail'
<1> DEFINE w == call[c]
           t == w.task
           n == Len(trail[t])
<1>1. /\ t \in Task /\ trail[t] \in Seq(Events) /\ trail'[t] = Append(trail[t], Event(w))
      /\ \A u \in Task \ {t} : trail'[u] = trail[u] /\ steps'[u] = steps[u]
      /\ \/ w.op \notin StepOperations /\ w.step = None /\ steps' = steps
         \/ /\ w.op \in StepOperations /\ w.step \in Step
            /\ steps' = [steps EXCEPT ![t][w.step] = StepTarget(w.op)]
  BY EventIsNext
<1>2. /\ n \in Nat /\ DOMAIN trail[t] = 1 .. n /\ DOMAIN trail'[t] = 1 .. n + 1
      /\ Len(trail'[t]) = n + 1 /\ \A i \in 1 .. n : trail'[t][i] = trail[t][i]
      /\ trail'[t][n + 1] = Event(w)
  <2>1. trail[t] \in Seq(Events) /\ trail'[t] = Append(trail[t], Event(w))
    BY <1>1
  <2>2. QED
    BY <2>1, Appended
<1>3. /\ Event(w).step = w.step /\ Event(w).op = w.op /\ None \notin Step
      /\ steps \in [Task -> [Step -> StepStates]]
  BY EngineAssumption DEF Event, IInv, TypeOK
<1> HIDE DEF w, n
<1>4. ASSUME NEW u \in Task \ {t}, NEW s \in Step
      PROVE  /\ (\A i \in DOMAIN trail'[u] : trail'[u][i].step # s) => steps'[u][s] = "pending"
             /\ \A i \in DOMAIN trail'[u] :
                   LastOf(trail'[u], s, i) => steps'[u][s] = StepTarget(trail'[u][i].op)
  <2>1. trail'[u] = trail[u] /\ steps'[u] = steps[u]
    BY <1>1, <1>4
  <2>2. QED
    BY <2>1 DEF StepsFoldTheTrail
<1>5. ASSUME NEW s \in Step, s = w.step
      PROVE  /\ (\A i \in DOMAIN trail'[t] : trail'[t][i].step # s) => steps'[t][s] = "pending"
             /\ \A i \in DOMAIN trail'[t] :
                   LastOf(trail'[t], s, i) => steps'[t][s] = StepTarget(trail'[t][i].op)
  <2>1. n + 1 \in DOMAIN trail'[t] /\ trail'[t][n + 1].step = s
    BY <1>2, <1>3, <1>5
  <2>2. steps'[t][s] = StepTarget(w.op)
    BY <1>1, <1>3, <1>5
  <2>3. ASSUME NEW i \in DOMAIN trail'[t], LastOf(trail'[t], s, i)
        PROVE  i = n + 1
    BY <1>2, <2>1, <2>3 DEF LastOf
  <2>4. QED
    BY <1>2, <1>3, <2>1, <2>2, <2>3
<1>6. ASSUME NEW s \in Step, s # w.step
      PROVE  /\ (\A i \in DOMAIN trail'[t] : trail'[t][i].step # s) => steps'[t][s] = "pending"
             /\ \A i \in DOMAIN trail'[t] :
                   LastOf(trail'[t], s, i) => steps'[t][s] = StepTarget(trail'[t][i].op)
  <2>1. steps'[t][s] = steps[t][s]
    BY <1>1, <1>3, <1>6
  <2>2. (\A i \in DOMAIN trail'[t] : trail'[t][i].step # s)
           => \A i \in DOMAIN trail[t] : trail[t][i].step # s
    BY <1>2
  <2>3. ASSUME NEW i \in DOMAIN trail'[t], LastOf(trail'[t], s, i)
        PROVE  LastOf(trail[t], s, i) /\ i \in DOMAIN trail[t] /\ trail'[t][i] = trail[t][i]
    <3>1. i # n + 1
      BY <1>2, <1>3, <1>6, <2>3 DEF LastOf
    <3>2. i \in 1 .. n /\ trail'[t][i] = trail[t][i]
      BY <1>2, <3>1
    <3>3. \A j \in i + 1 .. n : j \in i + 1 .. n + 1 /\ trail'[t][j] = trail[t][j]
      BY <1>2, <3>2
    <3>4. \A j \in i + 1 .. n : trail[t][j].step # s
      BY <1>2, <2>3, <3>3 DEF LastOf
    <3>5. QED
      BY <1>2, <2>3, <3>2, <3>4 DEF LastOf, n
  <2>4. /\ (\A i \in DOMAIN trail[t] : trail[t][i].step # s) => steps[t][s] = "pending"
        /\ \A i \in DOMAIN trail[t] :
              LastOf(trail[t], s, i) => steps[t][s] = StepTarget(trail[t][i].op)
    BY <1>1 DEF StepsFoldTheTrail
  <2>5. ASSUME NEW i \in DOMAIN trail'[t], LastOf(trail'[t], s, i)
        PROVE  steps'[t][s] = StepTarget(trail'[t][i].op)
    BY <2>1, <2>3, <2>4, <2>5
  <2>6. QED
    BY <2>1, <2>2, <2>4, <2>5
<1>7. QED
  BY <1>4, <1>5, <1>6 DEF StepsFoldTheTrail

\* The last of a set of events.
Latest(E) == CHOOSE j \in E : \A k \in E : k <= j

\* The events before one, of the same step.
Earlier(tr, i) == {j \in 1 .. i - 1 : tr[j].step = tr[i].step}

\* The event finds its step where its operation takes it from.
GoesOn(tr, i) ==
    tr[i].step # None =>
        StepSource(tr[i].op) = IF Earlier(tr, i) = {} THEN "pending"
                               ELSE StepTarget(tr[Latest(Earlier(tr, i))].op)

\* Events of a trail, if there are any, have a last one.
LEMMA LatestIsLast ==
    ASSUME NEW n \in Nat, NEW E \in SUBSET (1 .. n), E # {}
    PROVE  Latest(E) \in E /\ \A k \in E : k <= Latest(E)
<1>1. \E j \in E : \A k \in E : k <= j
  BY LastOfInterval
<1>2. QED
  BY <1>1 DEF Latest

\* Whether an event goes on from those before it does not change when more are added.
LEMMA PrefixGoesOn ==
    ASSUME NEW tr \in Seq(Events), NEW e, NEW i \in DOMAIN tr, GoesOn(tr, i)
    PROVE  GoesOn(Append(tr, e), i)
<1> DEFINE more == Append(tr, e)
<1>1. /\ Len(tr) \in Nat /\ i \in 1 .. Len(tr) /\ \A j \in 1 .. Len(tr) : more[j] = tr[j]
  BY Appended
<1> HIDE DEF more
<1>2. /\ i - 1 \in Nat /\ more[i] = tr[i]
      /\ \A j \in 1 .. i - 1 : j \in 1 .. Len(tr) /\ more[j] = tr[j]
  BY <1>1
<1>3. Earlier(more, i) = Earlier(tr, i)
  BY <1>2 DEF Earlier
<1>4. Earlier(tr, i) # {} => Latest(Earlier(tr, i)) \in 1 .. i - 1
  <2>1. Earlier(tr, i) \in SUBSET (1 .. i - 1)
    BY DEF Earlier
  <2>2. QED
    BY <1>2, <2>1, LatestIsLast
<1>5. QED
  BY <1>2, <1>3, <1>4 DEF GoesOn, more

\* The event of a step goes on from the state the trail has left the step in.
LEMMA NextGoesOn ==
    ASSUME NEW t \in Task, trail[t] \in Seq(Events), NEW w, w.step \in Step, StepsFoldTheTrail,
           steps[t][w.step] = StepSource(w.op)
    PROVE  GoesOn(Append(trail[t], Event(w)), Len(trail[t]) + 1)
<1> DEFINE n == Len(trail[t])
           more == Append(trail[t], Event(w))
           E == Earlier(more, n + 1)
<1>1. /\ n \in Nat /\ DOMAIN trail[t] = 1 .. n /\ \A i \in 1 .. n : more[i] = trail[t][i]
      /\ more[n + 1] = Event(w) /\ Event(w).step = w.step /\ Event(w).op = w.op
  BY Appended DEF Event
<1> HIDE DEF more, n
<1>2. (n + 1) - 1 = n
  BY <1>1
<1>3. E = {j \in 1 .. n : trail[t][j].step = w.step}
  BY <1>1, <1>2 DEF Earlier
<1>4. CASE E = {}
  <2>1. \A i \in DOMAIN trail[t] : trail[t][i].step # w.step
    BY <1>1, <1>3, <1>4
  <2>2. steps[t][w.step] = "pending"
    BY <2>1 DEF StepsFoldTheTrail
  <2>3. QED
    BY <1>1, <1>4, <2>2 DEF GoesOn, n, more
<1>5. CASE E # {}
  <2> DEFINE i == Latest(E)
  <2>1. i \in E /\ \A k \in E : k <= i
    BY <1>1, <1>3, <1>5, LatestIsLast
  <2> HIDE DEF i
  <2>2. i \in 1 .. n /\ trail[t][i].step = w.step /\ more[i] = trail[t][i]
    BY <1>1, <1>3, <2>1
  <2>3. ASSUME NEW j \in i + 1 .. n
        PROVE  trail[t][j].step # w.step
    <3>1. j \in 1 .. n /\ ~(j <= i)
      BY <1>1, <2>2
    <3>2. j \notin E
      BY <2>1, <3>1
    <3>3. QED
      BY <1>3, <3>1, <3>2
  <2>4. LastOf(trail[t], w.step, i)
    BY <1>1, <2>2, <2>3 DEF LastOf, n
  <2>5. steps[t][w.step] = StepTarget(trail[t][i].op)
    BY <1>1, <2>2, <2>4 DEF StepsFoldTheTrail
  <2>6. StepSource(more[n + 1].op) = StepTarget(more[Latest(E)].op)
    BY <1>1, <2>2, <2>5 DEF i
  <2>7. QED
    BY <1>5, <2>6 DEF GoesOn, n, more
<1>6. QED
  BY <1>4, <1>5

\* An event leaves a trail that can still be folded.
LEMMA ReplaysKeeps ==
    ASSUME IInv, CallsTell, StepsFoldTheTrail, TrailReplays, NEW c \in Caller, AppendEvent(c)
    PROVE  TrailReplays'
<1> DEFINE w == call[c]
           t == w.task
           n == Len(trail[t])
<1>1. /\ t \in Task /\ trail[t] \in Seq(Events) /\ trail'[t] = Append(trail[t], Event(w))
      /\ \A u \in Task \ {t} : trail'[u] = trail[u]
      /\ w.step = None \/ (w.step \in Step /\ steps[t][w.step] = StepSource(w.op))
  BY EventIsNext
<1>2. /\ n \in Nat /\ DOMAIN trail[t] = 1 .. n /\ DOMAIN trail'[t] = 1 .. n + 1
      /\ trail'[t][n + 1] = Event(w) /\ Event(w).step = w.step
  <2>1. trail[t] \in Seq(Events) /\ trail'[t] = Append(trail[t], Event(w))
    BY <1>1
  <2>2. QED
    BY <2>1, Appended DEF Event
<1> HIDE DEF w, n
<1>3. \A u \in Task : \A i \in DOMAIN trail[u] : GoesOn(trail[u], i)
  BY DEF TrailReplays, GoesOn, Earlier, Latest
<1>4. ASSUME NEW i \in DOMAIN trail'[t]
      PROVE  GoesOn(trail'[t], i)
  <2>1. CASE i \in DOMAIN trail[t]
    BY <1>1, <1>3, <2>1, PrefixGoesOn
  <2>2. CASE i = n + 1 /\ w.step # None
    BY <1>1, <2>2, NextGoesOn DEF n
  <2>3. CASE i = n + 1 /\ w.step = None
    BY <1>2, <2>3 DEF GoesOn
  <2>4. QED
    BY <1>2, <2>1, <2>2, <2>3
<1>5. ASSUME NEW u \in Task, NEW i \in DOMAIN trail'[u]
      PROVE  GoesOn(trail'[u], i)
  BY <1>1, <1>3, <1>4
<1>6. QED
  BY <1>5 DEF TrailReplays, GoesOn, Earlier, Latest

\* An event that releases a step carries a key no earlier one did.
LEMMA ReleasedOnceKeeps ==
    ASSUME IInv, CallsTell, ReleasedOnce, NEW c \in Caller, AppendEvent(c)
    PROVE  ReleasedOnce'
<1> DEFINE w == call[c]
           t == w.task
           n == Len(trail[t])
           Twice(tr, i, j) == /\ tr[i].op = "release_step"
                              /\ tr[j] = [tr[i] EXCEPT !.at = tr[j].at]
<1>1. /\ t \in Task /\ w \in Calls /\ Tells(w) /\ w.phase = "event"
      /\ trail[t] \in Seq(Events) /\ trail'[t] = Append(trail[t], Event(w))
      /\ \A u \in Task \ {t} : trail'[u] = trail[u]
  BY EventIsNext
<1>2. /\ n \in Nat /\ DOMAIN trail[t] = 1 .. n /\ DOMAIN trail'[t] = 1 .. n + 1
      /\ \A i \in 1 .. n : trail'[t][i] = trail[t][i] /\ trail'[t][i] \in Events
      /\ trail'[t][n + 1] = Event(w)
  <2>1. trail[t] \in Seq(Events) /\ trail'[t] = Append(trail[t], Event(w))
    BY <1>1
  <2>2. QED
    BY <2>1, Appended
<1>3. \A u \in Task : \A i, j \in DOMAIN trail[u] : Twice(trail[u], i, j) => i = j
  BY DEF ReleasedOnce
<1>4. w.op = "release_step" =>
          \A i \in 1 .. n : ~(/\ trail[t][i].op = "release_step"
                              /\ trail[t][i].step = w.step /\ trail[t][i].key = w.key)
  BY <1>1, <1>2 DEF Tells, Released
<1>5. ASSUME NEW i \in DOMAIN trail'[t], NEW j \in DOMAIN trail'[t], Twice(trail'[t], i, j)
      PROVE  i = j
  <2>1. trail'[t][i] \in Events /\ trail'[t][j] \in Events
    <3>1. w.op # "create"
      BY <1>1 DEF IInv, TypeOK
    <3>2. Event(w) \in Events
      BY <1>1, <3>1 DEF Event, Events, Calls
    <3>3. \A m \in 1 .. n + 1 : m \in 1 .. n \/ m = n + 1
      BY <1>2
    <3>4. \A m \in 1 .. n + 1 : trail'[t][m] \in Events
      BY <1>2, <3>2, <3>3
    <3>5. QED
      BY <1>2, <3>4
  <2>2. /\ trail'[t][i].op = "release_step" /\ trail'[t][j].op = "release_step"
        /\ trail'[t][i].step = trail'[t][j].step /\ trail'[t][i].key = trail'[t][j].key
    BY <1>5, <2>1 DEF Events
  <2> HIDE DEF w, n
  <2>3. CASE i \in 1 .. n /\ j \in 1 .. n
    <3>1. trail'[t][i] = trail[t][i] /\ trail'[t][j] = trail[t][j]
      BY <1>2, <2>3
    <3>2. Twice(trail[t], i, j)
      BY <1>5, <3>1
    <3> HIDE DEF Twice
    <3>3. QED
      BY <1>1, <1>2, <1>3, <2>3, <3>2
  <2>4. /\ trail'[t][n + 1].op = w.op /\ trail'[t][n + 1].step = w.step
        /\ trail'[t][n + 1].key = w.key
    BY <1>2 DEF Event
  <2>5. CASE i = n + 1 /\ j \in 1 .. n
    <3>1. trail'[t][j] = trail[t][j]
      BY <1>2, <2>5
    <3>2. QED
      BY <1>4, <2>2, <2>4, <2>5, <3>1
  <2>6. CASE i \in 1 .. n /\ j = n + 1
    <3>1. trail'[t][i] = trail[t][i]
      BY <1>2, <2>6
    <3>2. QED
      BY <1>4, <2>2, <2>4, <2>6, <3>1
  <2>7. QED
    BY <1>2, <2>3, <2>5, <2>6
<1>6. ASSUME NEW u \in Task, NEW i \in DOMAIN trail'[u], NEW j \in DOMAIN trail'[u],
             Twice(trail'[u], i, j)
      PROVE  i = j
  BY <1>1, <1>3, <1>5, <1>6
<1>7. QED
  BY <1>6 DEF ReleasedOnce

\* An event of recover() comes long enough after all those before it.
LEMMA OrphansKeeps ==
    ASSUME IInv, CallsTell, OrphansWereSilent, NEW c \in Caller, AppendEvent(c)
    PROVE  OrphansWereSilent'
<1> DEFINE w == call[c]
           t == w.task
           n == Len(trail[t])
           Silent(tr, i) == tr[i].op = "recover" =>
                                \A j \in 1 .. i - 1 : tr[j].at + OrphanAfter <= tr[i].at
<1> SUFFICES ASSUME ~ClockMayGoBack
             PROVE  \A u \in Task : \A i \in DOMAIN trail'[u] : Silent(trail'[u], i)
  BY DEF OrphansWereSilent
<1>1. /\ t \in Task /\ Tells(w) /\ w.phase = "event"
      /\ trail[t] \in Seq(Events) /\ trail'[t] = Append(trail[t], Event(w))
      /\ \A u \in Task \ {t} : trail'[u] = trail[u]
  BY EventIsNext
<1>2. /\ n \in Nat /\ DOMAIN trail[t] = 1 .. n /\ DOMAIN trail'[t] = 1 .. n + 1
      /\ \A i \in 1 .. n : trail'[t][i] = trail[t][i]
      /\ trail'[t][n + 1] = Event(w)
  <2>1. trail[t] \in Seq(Events) /\ trail'[t] = Append(trail[t], Event(w))
    BY <1>1
  <2>2. QED
    BY <2>1, Appended
<1>3. \A u \in Task : \A i \in DOMAIN trail[u] : Silent(trail[u], i)
  BY DEF OrphansWereSilent
<1>4. w.op = "recover" => \A j \in 1 .. n : trail[t][j].at + OrphanAfter <= w.at
  BY <1>1, <1>2 DEF Tells
<1>5. /\ Event(w).op = w.op /\ Event(w).at = w.at
  BY DEF Event
<1> HIDE DEF w, n
<1>6. ASSUME NEW i \in DOMAIN trail'[t]
      PROVE  Silent(trail'[t], i)
  <2>1. CASE i \in 1 .. n
    <3>1. \A j \in 1 .. i - 1 : j \in 1 .. n
      BY <1>2, <2>1
    <3>2. Silent(trail[t], i)
      BY <1>1, <1>2, <1>3, <2>1
    <3>3. QED
      BY <1>2, <2>1, <3>1, <3>2
  <2>2. CASE i = n + 1
    BY <1>2, <1>4, <1>5, <2>2
  <2>3. QED
    BY <1>2, <2>1, <2>2
<1>7. QED
  BY <1>1, <1>3, <1>6

(***************************************************************************)
(* What the calls tell, and the clock.                                     *)
(***************************************************************************)

\* A call still tells the same when nobody has written the trail of its task.
LEMMA StillTells ==
    ASSUME CallsTell, NEW d \in Caller, call'[d] = call[d],
           InHand(d) => trail'[call[d].task] = trail[call[d].task]
    PROVE  Tells(call[d])'
<1> DEFINE w == call[d]
<1>1. Tells(w) /\ call'[d] = w
  BY DEF CallsTell
<1>2. CASE ~InHand(d)
  BY <1>1, <1>2 DEF Tells, InHand
<1>3. CASE InHand(d)
  BY <1>1, <1>3 DEF Tells, Released
<1>4. QED
  BY <1>2, <1>3

\* One call goes on, and tells what it must of trails nobody has written.
LEMMA OneCallTells ==
    ASSUME CallsTell, TypeOK, NEW c \in Caller, NEW w, call' = [call EXCEPT ![c] = w], Tells(w),
           trail' = trail
    PROVE  CallsTell'
<1>1. Tells(call[c])'
  <2>1. call'[c] = w
    BY DEF TypeOK
  <2>2. QED
    BY <2>1 DEF Tells, Released
<1>2. ASSUME NEW d \in Caller, d # c
      PROVE  Tells(call[d])'
  BY <1>2, StillTells DEF TypeOK
<1>3. QED
  BY <1>1, <1>2 DEF CallsTell

\* The idle call has nothing to tell.
LEMMA IdleIsTold == ASSUME TypeOK PROVE Tells(Idle) /\ Timely(Idle)
<1>1. /\ Idle.op = "heartbeat" /\ Idle.step = None /\ Idle.cause = None
      /\ Idle.at = 0 /\ Idle.moved = NoRow /\ "heartbeat" \notin StepOperations
  BY StepOperationsAreLegal DEF Idle
<1>2. clock \in Nat
  BY DEF TypeOK, Time
<1>3. QED
  BY <1>1, <1>2, IdleTells

\* The call of a coroutine after each of its writes.
LEMMA WritesTell ==
    ASSUME IInv, CallsTell, NothingAheadOfTheClock, NEW c \in Caller,
           AddPlan(c) \/ Save(c) \/ AppendAudit(c)
    PROVE  \E w : call' = [call EXCEPT ![c] = w] /\ Tells(w) /\ Timely(w)
<1> DEFINE v == call[c]
<1>1. TypeOK /\ Tells(v) /\ Timely(v) /\ v \in Calls
  BY DEF IInv, TypeOK, CallsTell, NothingAheadOfTheClock
<1>2. CASE AddPlan(c)
  <2> DEFINE w == [v EXCEPT !.phase = "save"]
  <2>1. /\ w.phase = "save" /\ w.op = v.op /\ w.task = v.task /\ w.step = v.step
        /\ w.cause = v.cause /\ w.at = v.at /\ w.moved = v.moved /\ w.key = v.key
    BY <1>1 DEF Calls
  <2>2. call' = [call EXCEPT ![c] = w]
    BY <1>1, <1>2 DEF AddPlan, Go, TypeOK
  <2>3. v.phase = "add_plan"
    BY <1>2 DEF AddPlan
  <2> HIDE DEF w
  <2>4. QED
    BY <1>1, <2>1, <2>2, <2>3 DEF Tells, Timely
<1>3. CASE Save(c)
  <2> DEFINE w == [v EXCEPT !.phase = "event"]
  <2>1. /\ w.phase = "event" /\ w.op = v.op /\ w.task = v.task /\ w.step = v.step
        /\ w.cause = v.cause /\ w.at = v.at /\ w.moved = v.moved /\ v.phase = "save"
    BY <1>1, <1>3 DEF Calls, Save
  <2>2. call' = [call EXCEPT ![c] = w]
    BY <1>1, <1>3 DEF Save, Go, TypeOK
  <2>3. w.op # "release_step"
    <3>1. v.op = "plan" \/ v.op \in Operations
      BY <1>3, <2>1, SaveMoves
    <3>2. QED
      BY <2>1, <3>1, OperationsLeaveLiveStates DEF StepOperations
  <2> HIDE DEF w
  <2>4. QED
    BY <1>1, <2>1, <2>2, <2>3 DEF Tells, Timely
<1>4. CASE AppendAudit(c)
  <2> DEFINE w(d) == [v EXCEPT !.phase = "event", !.step = d, !.op = "cancel_step", !.at = clock]
  <2>1. \/ Return(c)
        \/ \E d \in Step : /\ v.cause # None /\ d \in Descendants(v.cause)
                           /\ call' = [call EXCEPT ![c] = w(d)]
    BY <1>4 DEF AppendAudit, First, ToCancel
  <2>2. CASE Return(c)
    BY <1>1, <2>2, IdleIsTold DEF Return
  <2>3. ASSUME NEW d \in Step, v.cause # None, d \in Descendants(v.cause),
               call' = [call EXCEPT ![c] = w(d)]
        PROVE  Tells(w(d)) /\ Timely(w(d))
    <3>1. /\ w(d).phase = "event" /\ w(d).op = "cancel_step" /\ w(d).step = d
          /\ w(d).cause = v.cause /\ w(d).at = clock /\ w(d).moved = v.moved
      BY <1>1 DEF Calls
    <3>2. v.cause \in Step /\ clock \in Nat /\ "cancel_step" \in StepOperations
      BY <1>1, <2>3 DEF Calls, TypeOK, Time, StepOperations
    <3> HIDE DEF w
    <3>3. Tells(w(d))
      BY <2>3, <3>1, <3>2 DEF Tells
    <3>4. QED
      BY <1>1, <3>1, <3>2, <3>3 DEF Timely
  <2>4. QED
    BY <2>1, <2>2, <2>3
<1>5. QED
  BY <1>2, <1>3, <1>4

\* At most one call goes on in a step that leaves the trails alone and is no crash.
LEMMA OneCallGoesOn ==
    ASSUME IInv, CallsTell, NothingAheadOfTheClock, [Next]_vars
    PROVE  \/ \E c \in Caller : AppendEvent(c)
           \/ Crash
           \/ trail' = trail /\ call' = call
           \/ /\ trail' = trail
              /\ \E c \in Caller : \E w : /\ call' = [call EXCEPT ![c] = w]
                                          /\ Tells(w) /\ Timely(w)
<1>0. TypeOK
  BY DEF IInv
<1>1. ASSUME NEW c \in Caller, Claims(c, call'[c].task) \/ Looks(c) \/ Create(c, call'[c].task),
             Tells(call'[c]) /\ Timely(call'[c])
      PROVE  /\ trail' = trail
             /\ \E w : call' = [call EXCEPT ![c] = w] /\ Tells(w) /\ Timely(w)
  <2>1. \E w : trail' = trail /\ call' = [call EXCEPT ![c] = w]
    BY <1>1 DEF Claims, Looks, Create, disk
  <2>2. PICK w : trail' = trail /\ call' = [call EXCEPT ![c] = w]
    BY <2>1
  <2>3. call'[c] = w
    BY <1>0, <2>2 DEF TypeOK
  <2>4. QED
    BY <1>1, <2>2, <2>3
<1>2. ASSUME NEW c \in Caller, NEW t \in Task, Calling(c, t)
      PROVE  /\ trail' = trail
             /\ \E w : call' = [call EXCEPT ![c] = w] /\ Tells(w) /\ Timely(w)
  <2>1. Tells(call'[c]) /\ Timely(call'[c])
    BY <1>2, CallingTells
  <2>2. Create(c, t) \/ Claims(c, t) \/ Looks(c)
    BY <1>2, CallingDecides
  <2>3. Create(c, t) => call'[c].task = t
    BY <1>0 DEF Create, Idle, TypeOK
  <2>4. Claims(c, t) => call'[c].task = t
    BY <1>0 DEF Claims, TypeOK
  <2>5. QED
    BY <1>1, <2>1, <2>2, <2>3, <2>4
<1>3. ASSUME NEW c \in Caller, RecoverCandidate(c)
      PROVE  /\ trail' = trail
             /\ \E w : call' = [call EXCEPT ![c] = w] /\ Tells(w) /\ Timely(w)
  <2>1. Tells(call'[c]) /\ Timely(call'[c])
    BY <1>3, RecoverTells
  <2>2. Claims(c, call[c].task) \/ Looks(c)
    BY <1>3, RecoverDecides
  <2>3. Claims(c, call[c].task) => call'[c].task = call[c].task
    BY <1>0 DEF Claims, TypeOK
  <2>4. QED
    BY <1>1, <2>1, <2>2, <2>3
<1>4. ASSUME NEW c \in Caller, AddPlan(c) \/ Save(c) \/ AppendAudit(c)
      PROVE  /\ trail' = trail
             /\ \E w : call' = [call EXCEPT ![c] = w] /\ Tells(w) /\ Timely(w)
  BY <1>4, WritesTell DEF AddPlan, Save, AppendAudit
<1>5. ASSUME NEW c \in Caller, StoreFails(c)
      PROVE  /\ trail' = trail
             /\ \E w : call' = [call EXCEPT ![c] = w] /\ Tells(w) /\ Timely(w)
  BY <1>0, <1>5, IdleIsTold DEF StoreFails, Return, disk
<1>6. CASE UNCHANGED vars
  BY <1>6 DEF vars
<1>7. CASE Tick \/ \E t \in Task : Ask(t) \/ Answer(t)
  BY <1>7 DEF Tick, Ask, Answer, disk
<1>8. QED
  BY <1>2, <1>3, <1>4, <1>5, <1>6, <1>7 DEF Next, Writing

\* The call of an event: it returns, or goes on to the audit.
LEMMA EventTells ==
    ASSUME IInv, CallsTell, NothingAheadOfTheClock, NEW c \in Caller, AppendEvent(c)
    PROVE  /\ CallsTell'
           /\ \A d \in Caller : Timely(call'[d])
<1> DEFINE v == call[c]
           w == [v EXCEPT !.phase = "audit"]
<1>1. /\ TypeOK /\ OneWriter /\ v \in Calls /\ Tells(v) /\ Timely(v) /\ InHand(c)
      /\ v.task \in Task /\ \A u \in Task \ {v.task} : trail'[u] = trail[u]
  BY EventIsNext DEF IInv, CallsTell, NothingAheadOfTheClock, InHand
<1>2. Return(c) \/ call' = [call EXCEPT ![c] = w]
  BY DEF AppendEvent, Go
<1>3. /\ w.phase = "audit" /\ w.op = v.op /\ w.step = v.step /\ w.cause = v.cause
      /\ w.at = v.at /\ w.moved = v.moved
  BY <1>1 DEF Calls
<1>4. call'[c] \in {w, Idle}
  BY <1>1, <1>2 DEF TypeOK, Return
<1> HIDE DEF w
<1>5. Timely(call'[c])
  BY <1>1, <1>3, <1>4, IdleIsTold DEF Timely
<1>6. Tells(call[c])'
  <2>1. /\ Idle.op = "heartbeat" /\ Idle.phase = "idle" /\ Idle.step = None /\ Idle.cause = None
        /\ "heartbeat" \notin StepOperations
    BY StepOperationsAreLegal DEF Idle
  <2>2. CASE call'[c] = Idle
    BY <2>1, <2>2 DEF Tells
  <2>3. CASE call'[c] = w
    BY <1>1, <1>3, <2>3 DEF Tells
  <2>4. QED
    BY <1>4, <2>2, <2>3
<1>7. ASSUME NEW d \in Caller, d # c
      PROVE  Tells(call[d])' /\ Timely(call'[d])
  <2>1. call'[d] = call[d]
    BY <1>1, <1>2, <1>7 DEF TypeOK, Return
  <2>2. InHand(d) => call[d].task # v.task /\ call[d].task \in Task
    BY <1>1, <1>7, HandsAreApart DEF TypeOK, InHand
  <2>3. Tells(call[d])'
    BY <1>1, <2>1, <2>2, StillTells
  <2>4. QED
    BY <2>1, <2>3 DEF NothingAheadOfTheClock
<1>8. QED
  BY <1>5, <1>6, <1>7 DEF CallsTell

\* No step leaves a call telling what is not so.
LEMMA CallsTellStep ==
    ASSUME IInv, CallsTell, NothingAheadOfTheClock, [Next]_vars
    PROVE  CallsTell' /\ \A c \in Caller : Timely(call'[c])
<1>0. TypeOK
  BY DEF IInv
<1>1. CASE \E c \in Caller : AppendEvent(c)
  BY <1>1, EventTells
<1>2. CASE Crash
  <2>1. \A c \in Caller : call'[c] = Idle
    BY <1>2 DEF Crash
  <2>2. Tells(Idle) /\ Timely(Idle)
    BY <1>0, IdleIsTold
  <2>3. \A c \in Caller : Tells(call[c])'
    <3>1. /\ Idle.op = "heartbeat" /\ Idle.phase = "idle" /\ Idle.step = None
          /\ Idle.cause = None /\ "heartbeat" \notin StepOperations
      BY StepOperationsAreLegal DEF Idle
    <3>2. QED
      BY <2>1, <3>1 DEF Tells
  <2>4. QED
    BY <2>1, <2>2, <2>3 DEF CallsTell
<1>3. CASE trail' = trail /\ call' = call
  BY <1>3, StillTells DEF CallsTell, NothingAheadOfTheClock
<1>4. ASSUME NEW c \in Caller, NEW w, trail' = trail, call' = [call EXCEPT ![c] = w],
             Tells(w) /\ Timely(w)
      PROVE  CallsTell' /\ \A d \in Caller : Timely(call'[d])
  <2>1. CallsTell'
    BY <1>0, <1>4, OneCallTells
  <2>2. \A d \in Caller : call'[d] \in {call[d], w}
    BY <1>0, <1>4 DEF TypeOK
  <2>3. QED
    BY <1>4, <2>1, <2>2 DEF NothingAheadOfTheClock
<1>5. QED
  BY <1>1, <1>2, <1>3, <1>4, OneCallGoesOn

\* A clock that may not go back goes on or stands still.
LEMMA ClockGoesOn ==
    ASSUME IInv, [Next]_vars, ~ClockMayGoBack
    PROVE  clock \in Nat /\ clock' \in Nat /\ clock <= clock'
<1>0. TypeOK /\ TypeOK'
  BY TypeOKStep DEF IInv
<1>1. clock \in Nat /\ clock' \in Nat
  BY <1>0 DEF TypeOK, Time
<1>2. ASSUME NEW c \in Caller, NEW t \in Task, Calling(c, t)
      PROVE  clock' = clock
  BY <1>2, CallingDecides DEF Create, Claims, Looks
<1>3. ASSUME NEW c \in Caller, Writing(c)
      PROVE  clock' = clock
  BY <1>3, RecoverDecides DEF Writing, Claims, Looks, AddPlan, Save, AppendEvent, AppendAudit
<1>4. Tick => clock' = clock + 1
  BY DEF Tick
<1>5. Tick \/ clock' = clock
  BY <1>2, <1>3 DEF Next, StoreFails, Crash, Ask, Answer, vars
<1>6. QED
  BY <1>1, <1>4, <1>5

\* No step writes an instant ahead of the clock.
LEMMA NothingAheadStep ==
    ASSUME IInv, CallsTell, NothingAheadOfTheClock, [Next]_vars
    PROVE  NothingAheadOfTheClock'
<1>0. TypeOK /\ TypeOK'
  BY TypeOKStep DEF IInv
<1>1. CASE ClockMayGoBack
  BY <1>1 DEF NothingAheadOfTheClock, Timely
<1>2. CASE ~ClockMayGoBack
  <2>1. clock \in Nat /\ clock' \in Nat /\ clock <= clock'
    BY <1>2, ClockGoesOn
  <2>2. ASSUME NEW c \in Caller
        PROVE  Timely(call[c])'
    <3>1. call'[c].at <= clock /\ call'[c].moved.created <= clock
      BY <1>2, CallsTellStep DEF Timely
    <3>2. call'[c].at \in Nat /\ call'[c].moved.created \in Nat
      BY <1>0 DEF TypeOK, Calls, Rows, Time
    <3>3. QED
      BY <2>1, <3>1, <3>2 DEF Timely
  <2>3. ASSUME NEW t \in Task
        PROVE  row'[t].created <= clock'
    <3>1. ASSUME NEW c \in Caller, Save(c)
          PROVE  row'[t].created <= clock
      BY <1>0, <1>2, <3>1 DEF Save, TypeOK, NothingAheadOfTheClock, Timely, NotBefore
    <3>2. ASSUME NEW c \in Caller, NEW u \in Task, Create(c, u)
          PROVE  row'[t].created <= clock
      BY <1>0, <1>2, <2>1, <3>2 DEF Create, TypeOK, NothingAheadOfTheClock, NotBefore
    <3>3. row' = row => row'[t].created <= clock
      BY <1>2 DEF NothingAheadOfTheClock, NotBefore
    <3>4. \/ \E c \in Caller : Save(c) \/ \E u \in Task : Create(c, u)
          \/ row' = row
      BY OnlySaveMoves
    <3>5. row'[t].created \in Nat
      BY <1>0 DEF TypeOK, Rows, Time
    <3>6. QED
      BY <2>1, <3>1, <3>2, <3>3, <3>4, <3>5
  <2>4. ASSUME NEW t \in Task, NEW i \in DOMAIN trail'[t]
        PROVE  trail'[t][i].at <= clock'
    <3>1. \A j \in DOMAIN trail[t] : trail[t][j].at <= clock
      BY <1>2 DEF NothingAheadOfTheClock, NotBefore
    <3>2. trail'[t][i].at <= clock
      <4>1. CASE UNCHANGED <<trail, steps>>
        BY <2>4, <3>1, <4>1
      <4>2. ASSUME NEW c \in Caller, AppendEvent(c)
            PROVE  trail'[t][i].at <= clock
        <5> DEFINE w == call[c]
        <5>1. /\ trail[w.task] \in Seq(Events)
              /\ trail'[w.task] = Append(trail[w.task], Event(w))
              /\ \A u \in Task \ {w.task} : trail'[u] = trail[u]
          BY <4>2, EventIsNext
        <5>2. Event(w).at <= clock
          BY <1>2 DEF Event, NothingAheadOfTheClock, Timely
        <5>3. CASE t # w.task
          BY <2>4, <3>1, <5>1, <5>3
        <5>4. CASE t = w.task
          <6>1. \/ i \in DOMAIN trail[t] /\ trail'[t][i] = trail[t][i]
                \/ trail'[t][i] = Event(w)
            <7> DEFINE n == Len(trail[t])
            <7>0. trail[t] \in Seq(Events) /\ trail'[t] = Append(trail[t], Event(w))
              BY <5>1, <5>4
            <7>1. /\ n \in Nat /\ DOMAIN trail[t] = 1 .. n /\ DOMAIN trail'[t] = 1 .. n + 1
                  /\ \A m \in 1 .. n : trail'[t][m] = trail[t][m]
                  /\ trail'[t][n + 1] = Event(w)
              BY <7>0, Appended
            <7> HIDE DEF n, w
            <7>2. i \in 1 .. n \/ i = n + 1
              BY <2>4, <7>1
            <7>3. QED
              BY <7>1, <7>2
          <6>2. QED
            BY <3>1, <5>2, <6>1
        <5>5. QED
          BY <5>3, <5>4
      <4>3. QED
        BY <4>1, <4>2, OnlyAppendWrites
    <3>3. trail'[t] \in Seq(Events)
      BY <1>0 DEF TypeOK
    <3>4. trail'[t][i] \in Events
      BY <2>4, <3>3
    <3>5. trail'[t][i].at \in Nat
      BY <3>4 DEF Events, Time
    <3>6. QED
      BY <2>1, <3>2, <3>5
  <2>5. QED
    BY <2>2, <2>3, <2>4 DEF NothingAheadOfTheClock, NotBefore
<1>3. QED
  BY <1>1, <1>2

(***************************************************************************)
(* Nothing is left half done where nothing fails.                          *)
(***************************************************************************)

\* Who holds a lock is in the middle of its writes on that task.
LEMMA HoldersAreInHand ==
    ASSUME OneWriter, TypeOK, NEW u \in Task, lock[u] # None
    PROVE  lock[u] \in Caller /\ InHand(lock[u]) /\ call[lock[u]].task = u
BY DEF OneWriter, TypeOK, InHand

\* A task nobody writes, whose lock stays with a call that does not go on.
LEMMA SettledElsewhere ==
    ASSUME NEW u \in Task, SettledAt(u), row'[u].state = row[u].state, trail'[u] = trail[u],
           steps'[u] = steps[u], lock'[u] = lock[u],
           lock[u] # None => call'[lock[u]] = call[lock[u]]
    PROVE  SettledAt(u)'
<1>1. MoveIsWritten(u) => MoveIsWritten(u)'
  BY DEF MoveIsWritten, LastMoveStands
<1>2. CascadeGoesOn(u) => CascadeGoesOn(u)'
  BY DEF CascadeGoesOn, Fallen
<1>3. QED
  BY <1>1, <1>2 DEF SettledAt

\* A task whose lock is free owes nothing to anybody who takes it.
LEMMA SettledWhenFree ==
    ASSUME NEW t \in Task, SettledAt(t), lock[t] = None, trail'[t] = trail[t],
           steps'[t] = steps[t],
           row'[t].state = row[t].state \/ trail[t] = <<>>
    PROVE  SettledAt(t)'
<1>1. LastMoveStands(t)
  BY DEF SettledAt, MoveIsWritten
<1>2. LastMoveStands(t)'
  BY <1>1 DEF LastMoveStands
<1>3. CascadeGoesOn(t) => CascadeGoesOn(t)'
  BY DEF CascadeGoesOn, Fallen
<1>4. QED
  BY <1>2, <1>3 DEF SettledAt, MoveIsWritten

\* Taking a lock leaves nothing half done, and so does creating a task.
LEMMA ClaimsSettled ==
    ASSUME IInv, \A u \in Task : SettledAt(u), NEW c \in Caller, NEW t \in Task,
           Claims(c, t) \/ Create(c, t)
    PROVE  \A u \in Task : SettledAt(u)'
<1>1. TypeOK /\ OneWriter
  BY DEF IInv
<1>2. /\ lock[t] = None /\ ~InHand(c) /\ lock' = [lock EXCEPT ![t] = c]
      /\ UNCHANGED <<trail, steps>> /\ (row' = row \/ Create(c, t))
  BY DEF Claims, Create, Free, InHand, disk
<1>3. \A d \in Caller \ {c} : call'[d] = call[d]
  BY <1>1 DEF Claims, Create, TypeOK
<1>4. /\ \A u \in Task \ {t} : row'[u].state = row[u].state
      /\ row'[t].state = row[t].state \/ trail[t] = <<>>
  BY <1>1, <1>2 DEF Create, IInv, AbsentIsEmpty, TypeOK
<1>5. ASSUME NEW u \in Task, u # t
      PROVE  SettledAt(u)'
  <2>1. lock'[u] = lock[u] /\ lock[u] # c
    BY <1>1, <1>2, <1>5, HoldersAreInHand, EngineAssumption DEF TypeOK
  <2>2. lock[u] # None => call'[lock[u]] = call[lock[u]]
    BY <1>1, <1>3, <2>1 DEF TypeOK
  <2>3. QED
    BY <1>2, <1>4, <1>5, <2>1, <2>2, SettledElsewhere
<1>6. SettledAt(t)'
  BY <1>2, <1>4, SettledWhenFree
<1>7. QED
  BY <1>5, <1>6

\* Looking leaves every task as it was.
LEMMA LooksSettled ==
    ASSUME IInv, \A u \in Task : SettledAt(u), NEW c \in Caller, Looks(c)
    PROVE  \A u \in Task : SettledAt(u)'
<1> TAKE u \in Task
<1>1. TypeOK /\ OneWriter /\ ~InHand(c)
  BY DEF IInv, Looks, InHand
<1>2. UNCHANGED <<row, trail, steps, lock>> /\ \A d \in Caller \ {c} : call'[d] = call[d]
  BY <1>1 DEF Looks, disk, TypeOK
<1>3. lock[u] # None => call'[lock[u]] = call[lock[u]]
  BY <1>1, <1>2, HoldersAreInHand
<1>4. QED
  BY <1>2, <1>3, SettledElsewhere

\* A call in the middle of its writes touches no task but its own.
LEMMA SettledAround ==
    ASSUME IInv, \A u \in Task : SettledAt(u), NEW c \in Caller, InHand(c),
           \A d \in Caller \ {c} : call'[d] = call[d],
           NEW u \in Task, u # call[c].task, row'[u].state = row[u].state,
           trail'[u] = trail[u], steps'[u] = steps[u], lock'[u] = lock[u]
    PROVE  SettledAt(u)'
<1>1. TypeOK /\ OneWriter
  BY DEF IInv
<1>2. lock[u] # None => call'[lock[u]] = call[lock[u]]
  BY <1>1, HoldersAreInHand
<1>3. QED
  BY <1>2, SettledElsewhere

\* A row that moves is in the hands of the call that writes its event next.
LEMMA SaveSettled ==
    ASSUME IInv, \A u \in Task : SettledAt(u), NEW c \in Caller, AddPlan(c) \/ Save(c)
    PROVE  \A u \in Task : SettledAt(u)'
<1>1. PICK t \in Task : t = call[c].task /\ InHand(c) /\ lock[t] = c
  BY DEF IInv, TypeOK, OneWriter, AddPlan, Save, InHand
<1>2. /\ TypeOK /\ UNCHANGED <<trail, steps, lock>>
      /\ \A d \in Caller \ {c} : call'[d] = call[d]
      /\ call[c].phase # "event" /\ call'[c].cause = call[c].cause /\ call'[c].op = call[c].op
  BY DEF IInv, TypeOK, AddPlan, Save, Go, Calls
<1>3. \A u \in Task \ {t} : row'[u] = row[u]
  BY <1>1, <1>2 DEF AddPlan, Save, TypeOK
<1>4. SettledAt(t) /\ LastMoveStands(t)
  BY <1>1, <1>2 DEF SettledAt, MoveIsWritten
<1>5. MoveIsWritten(t)'
  <2>1. CASE row'[t].state = row[t].state
    BY <1>2, <1>4, <2>1 DEF MoveIsWritten, LastMoveStands
  <2>2. CASE Save(c) /\ call[c].op \in Operations
    <3>1. call'[c].phase = "event"
      BY <1>2, <2>2 DEF Save, Go, TypeOK, Calls
    <3>2. QED
      BY <1>1, <1>2, <2>2, <3>1, EngineAssumption DEF MoveIsWritten
  <2>3. QED
    BY <1>1, <2>1, <2>2, SaveMoves DEF AddPlan
<1>6. CascadeGoesOn(t) => CascadeGoesOn(t)'
  BY <1>1, <1>2 DEF CascadeGoesOn, Fallen
<1>7. SettledAt(t)'
  BY <1>4, <1>5, <1>6 DEF SettledAt
<1>8. ASSUME NEW u \in Task, u # t
      PROVE  SettledAt(u)'
  BY <1>1, <1>2, <1>3, <1>8, SettledAround
<1>9. QED
  BY <1>7, <1>8

\* The audit of a failed step hands its call the next to cancel, or there is none left.
LEMMA AuditSettled ==
    ASSUME IInv, NothingAheadOfTheClock, \A u \in Task : SettledAt(u), NEW c \in Caller,
           AppendAudit(c)
    PROVE  \A u \in Task : SettledAt(u)'
<1>1. PICK t \in Task : t = call[c].task /\ InHand(c) /\ lock[t] = c
  BY DEF IInv, TypeOK, OneWriter, AppendAudit, InHand
<1> DEFINE w == call[c]
           rest == IF w.cause = None THEN {} ELSE ToCancel(t, w.cause)
           next(d) == [w EXCEPT !.phase = "event", !.step = d, !.op = "cancel_step", !.at = clock]
<1>2. /\ TypeOK /\ UNCHANGED <<row, trail, steps>> /\ w.phase = "audit" /\ w \in Calls
      /\ None \notin Step
  BY EngineAssumption DEF IInv, TypeOK, AppendAudit
<1>3. \/ Return(c) /\ (rest = {} \/ ~NotBefore(t, clock))
      \/ lock' = lock /\ \E d \in Step : call' = [call EXCEPT ![c] = next(d)]
  BY <1>1 DEF AppendAudit
<1>4. \A d : next(d).cause = w.cause
  BY <1>2 DEF Calls
<1> HIDE DEF next
<1>5. /\ \A d \in Caller \ {c} : call'[d] = call[d]
      /\ \A u \in Task \ {t} : lock'[u] = lock[u]
  BY <1>1, <1>2, <1>3 DEF Return, TypeOK
<1>6. SettledAt(t) /\ LastMoveStands(t)
  BY <1>1, <1>2 DEF SettledAt, MoveIsWritten
<1>7. MoveIsWritten(t)'
  BY <1>2, <1>6 DEF MoveIsWritten, LastMoveStands
<1>8. ASSUME ~ClockMayGoBack
      PROVE  CascadeGoesOn(t)'
  <2>1. CascadeGoesOn(t) /\ NotBefore(t, clock)
    BY <1>6, <1>8 DEF SettledAt, NothingAheadOfTheClock
  <2>2. CASE lock' = lock /\ \E d \in Step : call' = [call EXCEPT ![c] = next(d)]
    <3>1. call'[c].cause = w.cause
      BY <1>2, <1>4, <2>2 DEF TypeOK
    <3>2. QED
      BY <1>1, <1>2, <2>1, <2>2, <3>1 DEF CascadeGoesOn, Fallen
  <2>3. CASE rest = {}
    <3>1. ASSUME NEW s \in Step, NEW d \in Deps[s], Fallen(t, d), steps[t][s] = "pending"
          PROVE  FALSE
      <4>1. w.cause \in Step /\ s \in Descendants(w.cause)
        BY <1>1, <2>1, <3>1 DEF CascadeGoesOn
      <4>2. s \in ToCancel(t, w.cause)
        BY <3>1, <4>1 DEF ToCancel
      <4>3. QED
        BY <1>2, <2>3, <4>1, <4>2
    <3>2. QED
      BY <1>2, <3>1 DEF CascadeGoesOn, Fallen
  <2>4. QED
    BY <1>3, <2>1, <2>2, <2>3
<1>9. SettledAt(t)'
  BY <1>7, <1>8 DEF SettledAt
<1>10. ASSUME NEW u \in Task, u # t
       PROVE  SettledAt(u)'
  BY <1>1, <1>2, <1>5, <1>10, SettledAround
<1>11. QED
  BY <1>9, <1>10

\* After an event the trail ends with the move the row already shows, if it is one.
LEMMA EventMoves ==
    ASSUME IInv, CallsTell, NEW c \in Caller, AppendEvent(c), NEW t \in Task, t = call[c].task,
           lock[t] = c, MoveIsWritten(t)
    PROVE  LastMoveStands(t)'
<1> DEFINE w == call[c]
           n == Len(trail[t])
<1>1. /\ trail[t] \in Seq(Events) /\ trail'[t] = Append(trail[t], Event(w))
      /\ w.phase = "event" /\ row' = row
  BY EventIsNext DEF AppendEvent
<1>2. /\ n \in Nat /\ DOMAIN trail[t] = 1 .. n /\ DOMAIN trail'[t] = 1 .. n + 1
      /\ Len(trail'[t]) = n + 1 /\ \A i \in 1 .. n : trail'[t][i] = trail[t][i]
      /\ trail'[t][n + 1].op = w.op
  <2>1. trail[t] \in Seq(Events) /\ trail'[t] = Append(trail[t], Event(w))
    BY <1>1
  <2>2. QED
    BY <2>1, Appended DEF Event
<1>3. w.op \in Operations => row[t].state = Target(w.op)
  <2>1. Due(w)
    BY DEF IInv, DecisionsHold
  <2>2. QED
    BY <1>1, <2>1, OperationsLeaveLiveStates DEF Due
<1>4. w.op \notin Operations => LastMoveStands(t)
  BY DEF MoveIsWritten
<1> HIDE DEF w, n
<1>5. ASSUME NEW i \in DOMAIN trail'[t], trail'[t][i].op \in Operations,
             \A j \in i + 1 .. Len(trail'[t]) : trail'[t][j].op \notin Operations
      PROVE  row'[t].state = Target(trail'[t][i].op)
  <2>1. CASE i = n + 1
    BY <1>1, <1>2, <1>3, <1>5, <2>1
  <2>2. CASE i \in 1 .. n
    <3>1. n + 1 \in i + 1 .. Len(trail'[t])
      BY <1>2, <2>2
    <3>2. w.op \notin Operations
      BY <1>2, <1>5, <3>1
    <3>3. \A j \in i + 1 .. n : /\ j \in 1 .. n /\ j \in i + 1 .. Len(trail'[t])
      BY <1>2, <2>2
    <3>4. \A j \in i + 1 .. Len(trail[t]) : trail[t][j].op \notin Operations
      BY <1>2, <1>5, <3>3 DEF n
    <3>5. row[t].state = Target(trail[t][i].op)
      BY <1>2, <1>4, <1>5, <2>2, <3>2, <3>4 DEF LastMoveStands
    <3>6. QED
      BY <1>1, <1>2, <2>2, <3>5
  <2>3. QED
    BY <1>2, <2>1, <2>2
<1>6. QED
  BY <1>5 DEF LastMoveStands

\* After an event, what waits for a fallen step waits for the step the call takes down.
LEMMA EventCascades ==
    ASSUME IInv, CallsTell, NEW c \in Caller, AppendEvent(c), NEW t \in Task, t = call[c].task,
           lock[t] = c, CascadeGoesOn(t),
           NEW s \in Step, NEW d \in Deps[s], Fallen(t, d)', steps'[t][s] = "pending"
    PROVE  call[c].cause \in Step /\ s \in Descendants(call[c].cause)
<1> DEFINE w == call[c]
           x == w.step
           n == Len(trail[t])
<1>1. /\ trail[t] \in Seq(Events) /\ trail'[t] = Append(trail[t], Event(w)) /\ Tells(w)
      /\ \/ w.op \notin StepOperations /\ x = None /\ steps' = steps
         \/ /\ w.op \in StepOperations /\ x \in Step /\ steps[t][x] = StepSource(w.op)
            /\ steps' = [steps EXCEPT ![t][x] = StepTarget(w.op)]
  BY EventIsNext
<1>2. /\ n \in Nat /\ DOMAIN trail[t] = 1 .. n /\ DOMAIN trail'[t] = 1 .. n + 1
      /\ \A i \in 1 .. n : trail'[t][i] = trail[t][i]
      /\ trail'[t][n + 1].op = w.op /\ trail'[t][n + 1].step = x
  <2>1. trail[t] \in Seq(Events) /\ trail'[t] = Append(trail[t], Event(w))
    BY <1>1
  <2>2. QED
    BY <2>1, Appended DEF Event
<1>3. /\ TypeOK /\ StepsInOrder /\ d \in Step /\ d # s
  BY EngineAssumption DEF IInv
<1> HIDE DEF w, x, n
<1>4. /\ \A y \in Step \ {x} : steps'[t][y] = steps[t][y]
      /\ w.op \in StepOperations => steps'[t][x] = StepTarget(w.op)
  BY <1>1, <1>3 DEF TypeOK
<1>5. Fallen(t, d)' /\ steps'[t][d] = steps[t][d] => Fallen(t, d)
  <2>1. \A i \in DOMAIN trail[t] : i \in DOMAIN trail'[t] /\ trail'[t][i] = trail[t][i]
    BY <1>2
  <2>2. QED
    BY <2>1 DEF Fallen
<1>6. CASE s = x
  <2>1. w.op = "release_step"
    <3>1. w.op \in StepOperations
      BY <1>1, <1>6, EngineAssumption
    <3>2. StepTarget(w.op) = "pending"
      BY <1>4, <1>6, <3>1
    <3>3. QED
      BY <3>1, <3>2 DEF StepOperations, StepTarget
  <2>2. steps[t][s] = "running"
    BY <1>1, <1>6, <2>1 DEF StepSource, StepOperations
  <2>3. steps'[t][d] = "completed"
    BY <1>3, <1>4, <1>6, <2>2 DEF StepsInOrder
  <2>4. QED
    BY <2>3 DEF Fallen
<1>7. CASE s # x /\ d = x
  <2>1. w.op \in StepOperations /\ steps'[t][d] = StepTarget(w.op)
    BY <1>1, <1>3, <1>4, <1>7, EngineAssumption
  <2>2. steps'[t][d] = "cancelled" => w.op # "stop_step"
    BY <1>2, <1>7 DEF Fallen
  <2>3. steps'[t][d] \in {"failed", "cancelled"}
    BY DEF Fallen
  <2>4. w.op \in {"fail_step", "cancel_step"}
    BY <2>1, <2>2, <2>3 DEF StepOperations, StepTarget
  <2>5. CASE w.op = "fail_step"
    BY <1>1, <1>3, <1>7, <2>5, DescendantsAreClosed DEF Tells, x, w
  <2>6. CASE w.op = "cancel_step"
    BY <1>1, <1>7, <2>6, DescendantsAreClosed DEF Tells, x, w
  <2>7. QED
    BY <2>4, <2>5, <2>6
<1>8. CASE s # x /\ d # x
  <2>1. Fallen(t, d) /\ steps[t][s] = "pending"
    BY <1>3, <1>4, <1>5, <1>8
  <2>2. QED
    BY <2>1 DEF CascadeGoesOn
<1>9. QED
  BY <1>6, <1>7, <1>8

\* An event leaves nothing half done but what its own call goes on with.
LEMMA EventSettled ==
    ASSUME IInv, CallsTell, \A u \in Task : SettledAt(u), NEW c \in Caller, AppendEvent(c)
    PROVE  \A u \in Task : SettledAt(u)'
<1>1. PICK t \in Task : t = call[c].task /\ InHand(c) /\ lock[t] = c
  BY DEF IInv, TypeOK, OneWriter, AppendEvent, InHand
<1> DEFINE w == call[c]
<1>2. /\ TypeOK /\ UNCHANGED row /\ Tells(w) /\ w \in Calls /\ None \notin Step
      /\ \A u \in Task \ {t} : trail'[u] = trail[u] /\ steps'[u] = steps[u]
  BY <1>1, EventIsNext, EngineAssumption DEF IInv, AppendEvent
<1>3. \/ Return(c) /\ w.op = "heartbeat"
      \/ lock' = lock /\ call' = [call EXCEPT ![c] = [w EXCEPT !.phase = "audit"]]
  BY <1>2 DEF AppendEvent, Go, TypeOK
<1>4. /\ \A d \in Caller \ {c} : call'[d] = call[d]
      /\ \A u \in Task \ {t} : lock'[u] = lock[u]
  BY <1>1, <1>2, <1>3 DEF Return, TypeOK
<1>5. LastMoveStands(t)'
  BY <1>1, EventMoves DEF SettledAt
<1>6. ASSUME ~ClockMayGoBack
      PROVE  CascadeGoesOn(t)'
  <2>1. CascadeGoesOn(t)
    BY <1>6 DEF SettledAt
  <2>2. ASSUME NEW s \in Step, NEW d \in Deps[s], Fallen(t, d)', steps'[t][s] = "pending"
        PROVE  /\ lock'[t] # None /\ call'[lock'[t]].cause \in Step
               /\ s \in Descendants(call'[lock'[t]].cause)
    <3>1. w.cause \in Step /\ s \in Descendants(w.cause)
      BY <1>1, <2>1, <2>2, EventCascades
    <3>2. w.op # "heartbeat"
      BY <1>2, <3>1 DEF Tells
    <3>3. lock'[t] = c /\ call'[c].cause = w.cause
      BY <1>1, <1>2, <1>3, <3>2 DEF TypeOK, Calls
    <3>4. QED
      BY <3>1, <3>3, EngineAssumption
  <2>3. QED
    BY <2>2 DEF CascadeGoesOn
<1>7. SettledAt(t)'
  BY <1>5, <1>6 DEF SettledAt, MoveIsWritten
<1>8. ASSUME NEW u \in Task, u # t
      PROVE  SettledAt(u)'
  BY <1>1, <1>2, <1>4, <1>8, SettledAround
<1>9. QED
  BY <1>7, <1>8

\* No step leaves anything half done, unless it fails.
LEMMA SettledStep ==
    ASSUME IInv, CallsTell, NothingAheadOfTheClock, Settled, [Next]_vars
    PROVE  Settled'
<1> SUFFICES ASSUME faults' = 0
             PROVE  \A u \in Task : SettledAt(u)'
  BY DEF Settled
<1>1. ~Crash /\ \A c \in Caller : ~StoreFails(c)
  BY DEF IInv, TypeOK, Crash, StoreFails
<1>2. ASSUME NEW c \in Caller, NEW t \in Task, Calling(c, t)
      PROVE  /\ faults' = faults
             /\ faults = 0 => \A u \in Task : SettledAt(u)'
  <2>1. Create(c, t) \/ Claims(c, t) \/ Looks(c)
    BY <1>2, CallingDecides
  <2>2. QED
    BY <2>1, ClaimsSettled, LooksSettled DEF Settled, Create, Claims, Looks
<1>3. ASSUME NEW c \in Caller, Writing(c)
      PROVE  /\ faults' = faults
             /\ faults = 0 => \A u \in Task : SettledAt(u)'
  <2>1. CASE RecoverCandidate(c)
    BY <2>1, RecoverDecides, ClaimsSettled, LooksSettled DEF Settled, Claims, Looks
  <2>2. CASE AddPlan(c) \/ Save(c)
    BY <2>2, SaveSettled DEF Settled, AddPlan, Save
  <2>3. CASE AppendEvent(c)
    BY <2>3, EventSettled DEF Settled, AppendEvent
  <2>4. CASE AppendAudit(c)
    BY <2>4, AuditSettled DEF Settled, AppendAudit
  <2>5. QED
    BY <1>3, <2>1, <2>2, <2>3, <2>4 DEF Writing
<1>4. ASSUME UNCHANGED <<row, trail, steps, lock, call, faults>>
      PROVE  \A u \in Task : SettledAt(u)'
  BY <1>4, SettledElsewhere DEF Settled
<1>5. CASE Tick \/ (\E t \in Task : Ask(t) \/ Answer(t)) \/ UNCHANGED vars
  BY <1>4, <1>5 DEF Tick, Ask, Answer, disk, vars
<1>6. QED
  BY <1>1, <1>2, <1>3, <1>5 DEF Next

(***************************************************************************)
(* The second invariant, and what follows from it.                         *)
(***************************************************************************)

\* The second invariant holds before anything is created.
LEMMA InitStory == Init => Story
<1> SUFFICES ASSUME Init PROVE Story
  OBVIOUS
<1>1. TypeOK /\ \A t \in Task : DOMAIN trail[t] = {}
  BY TypeOKInit DEF Init
<1>2. TrailReplays /\ ReleasedOnce /\ OrphansWereSilent
  BY <1>1 DEF TrailReplays, ReleasedOnce, OrphansWereSilent
<1>3. StepsFoldTheTrail
  BY <1>1 DEF Init, StepsFoldTheTrail
<1>4. CallsTell /\ \A c \in Caller : Timely(call[c])
  BY <1>1, IdleIsTold DEF Init, CallsTell
<1>5. NothingAheadOfTheClock
  BY <1>1, <1>4 DEF Init, NoRow, NothingAheadOfTheClock, NotBefore
<1>6. Settled
  <2>1. \A t \in Task : LastMoveStands(t)
    BY <1>1 DEF LastMoveStands
  <2>2. \A t \in Task : CascadeGoesOn(t)
    BY EngineAssumption DEF Init, CascadeGoesOn, Fallen
  <2>3. QED
    BY <2>1, <2>2 DEF Settled, SettledAt, MoveIsWritten
<1>7. QED
  BY <1>2, <1>3, <1>4, <1>5, <1>6 DEF Story

\* No step breaks the second invariant.
LEMMA StoryStep == IInv /\ Story /\ [Next]_vars => Story'
<1> SUFFICES ASSUME IInv, Story, [Next]_vars PROVE Story'
  OBVIOUS
<1>1. (StepsFoldTheTrail /\ TrailReplays /\ ReleasedOnce /\ OrphansWereSilent)'
  <2>1. ASSUME NEW c \in Caller, AppendEvent(c)
        PROVE  (StepsFoldTheTrail /\ TrailReplays /\ ReleasedOnce /\ OrphansWereSilent)'
    BY <2>1, FoldKeeps, ReplaysKeeps, ReleasedOnceKeeps, OrphansKeeps DEF Story
  <2>2. CASE UNCHANGED <<trail, steps>>
    <3>1. StepsFoldTheTrail'
      BY <2>2 DEF Story, StepsFoldTheTrail
    <3>2. TrailReplays'
      <4>1. \A t \in Task : \A i \in DOMAIN trail[t] : GoesOn(trail[t], i)
        BY DEF Story, TrailReplays, GoesOn, Earlier, Latest
      <4>2. \A t \in Task : \A i \in DOMAIN trail'[t] : GoesOn(trail'[t], i)
        BY <2>2, <4>1
      <4>3. QED
        BY <4>2 DEF TrailReplays, GoesOn, Earlier, Latest
    <3>3. ReleasedOnce' /\ OrphansWereSilent'
      BY <2>2 DEF Story, ReleasedOnce, OrphansWereSilent
    <3>4. QED
      BY <3>1, <3>2, <3>3
  <2>3. QED
    BY <2>1, <2>2, OnlyAppendWrites
<1>2. CallsTell' /\ NothingAheadOfTheClock' /\ Settled'
  BY CallsTellStep, NothingAheadStep, SettledStep DEF Story
<1>3. QED
  BY <1>1, <1>2 DEF Story

\* What the trail tells, and who has it in hand, through every interleaving of the coroutines.
THEOREM StoryIsKept == Spec => []Story
BY InitStory, StoryStep, InvariantIsKept, PTL DEF Spec

\* The trail of a task can be folded at every instant, each event of a step going on from the
\* last one before it, and no assignment puts its step back in play twice.
THEOREM TrailsAreOneStory == Spec => []TrailIsOneStory
<1>1. Story => TrailIsOneStory
  BY DEF Story, TrailIsOneStory
<1>2. QED
  BY <1>1, StoryIsKept, PTL

\* recover() fails no task that has given a sign of life, where the clock only goes on.
THEOREM RecoveredTasksWereSilent == Spec => []OrphansWereSilent
<1>1. Story => OrphansWereSilent
  BY DEF Story
<1>2. QED
  BY <1>1, StoryIsKept, PTL

\* Whatever the graph: a task whose lock is free has nothing left to cancel and the row its
\* trail says, as long as no store failed and the process did not die.
THEOREM FreeTasksAreSettled == Spec => []NothingHalfDone
<1>1. Story => NothingHalfDone
  <2> SUFFICES ASSUME Story, faults = 0, ~ClockMayGoBack, NEW t \in Task, lock[t] = None
               PROVE  /\ \A s \in Step : \A d \in Deps[s] :
                            Fallen(t, d) => steps[t][s] # "pending"
                      /\ LastMoveStands(t)
    BY DEF NothingHalfDone, Fallen, LastMoveStands
  <2>1. SettledAt(t)
    BY DEF Story, Settled
  <2>2. QED
    BY <2>1 DEF SettledAt, MoveIsWritten, CascadeGoesOn
<1>2. QED
  BY <1>1, StoryIsKept, PTL
===============================================================================
