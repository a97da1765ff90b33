------------------------------- MODULE Execution -------------------------------
(***************************************************************************)
(* One step of a task on the machine of the Core: the executor asks the    *)
(* Guardian, asks the user when the row asks, spends the yes, writes the   *)
(* STARTED record of a tool that cannot be repeated, calls the tool, and   *)
(* stores, audits and verifies what it did. Under it, answers, stops and   *)
(* crashes: every write is one step, and the next run resumes from the     *)
(* first write that is missing.                                            *)
(*                                                                         *)
(* A run and the close of a stop hold the lock of the task; an answer and  *)
(* the stop itself do not. Each task has one step, placed on the Core.     *)
(***************************************************************************)
EXTENDS Naturals, Sequences, FiniteSets, FiniteSetsExt

CONSTANTS
    Task,
    Page,        \* the surfaces the user answers from
    Asking,      \* the tasks whose row needs an authorization
    Policed,     \* the tasks a standing policy of the user covers
    Idempotent,  \* the tasks whose tool may be called twice
    Pointed,     \* the tasks whose tool listens to the stop at a point after the call
    Expiring,    \* the tasks whose questions and grants may expire
    Worst,       \* what a call may cost at most, 0 for a tool that does not spend
    MonthCap,
    None,
    MaxAsks, MaxCrashes   \* bounds of the exploration

ASSUME ExecutionAssumption ==
    /\ Policed \subseteq Asking /\ Asking \subseteq Task
    /\ Idempotent \subseteq Task /\ Pointed \subseteq Task /\ Expiring \subseteq Task
    /\ Worst \in [Task -> Nat] /\ MonthCap \in Nat
    /\ \A t \in Idempotent : Worst[t] = 0
    /\ MaxAsks \in Nat /\ MaxCrashes \in Nat

VARIABLES
    up,         \* "down", "booting" (the closes of the start-up) or "serving"
    crashes,
    task,       \* the state of each task
    step,       \* the state of the one step of each task
    cut,        \* the tasks whose step was running when the user stopped them
    approvals,  \* the questions of each step, in the order they were stored
    grants,     \* the grant of each question: its yes, for one use
    policy,     \* whether the standing policy is not revoked
    covered,    \* the uses of the policy each step consumed
    started,    \* the tasks whose STARTED record is stored
    outcomes,   \* the stored outcomes of each step
    audit,      \* the audit log of each task, of the events somebody reads back
    acted,      \* how many times the tool of each task acted
    stop,       \* the tasks whose stop is raised in this process
    lock,       \* the call that holds the lock of each task
    call        \* what each call has still to do

process == <<up, crashes, stop, lock, call>>
tasks == <<task, step, cut>>
consent == <<approvals, grants, policy, covered>>
results == <<started, outcomes, audit, acted>>
vars == <<process, tasks, consent, results>>

-------------------------------------------------------------------------------
(* Types *)

Ended == {"completed", "failed", "denied", "cancelled", "expired"}
TaskStates == {"queued", "executing", "waiting"} \cup Ended
StepStates == {"pending", "running", "completed", "failed", "cancelled"}

Approval == [status: {"pending", "granted", "rejected"}, late: BOOLEAN]
GrantStates == {"none", "fresh", "old", "used"}

\* Whether the tool passed its point of no return, and what the call cost.
Outcome == [status: {"succeeded", "failed", "cancelled"}, passed: BOOLEAN, cost: Nat]

Reasons == {"refused", "tool", "verification", "interrupted"}
Event ==
    [event: {"granted"}, about: 1 .. MaxAsks]
        \cup [event: {"executed"}, about: {"started", "outcome"}]
        \cup [event: {"verified"}, about: {"passed", "failed"}]
        \cup [event: {"step_failed"}, about: Reasons]

Calls == [kind: {"run", "stop"}, of: Task] \cup [kind: {"answer"}, of: Task, page: Page]
RunOf(t) == [kind |-> "run", of |-> t]
StopOf(t) == [kind |-> "stop", of |-> t]
AnswerOf(t, p) == [kind |-> "answer", of |-> t, page |-> p]

ASSUME NoneAssumption == None \notin Calls /\ None \notin Nat

\* Where a call is: one that holds no lock; the turns of a walk; and inside them the call of the
\* executor, before the tool is called, while it runs, and after its outcome is stored.
Loose == {"idle", "respond", "move", "signal", "free"}
Walking == {"walk", "start", "open", "fail", "complete", "leave", "close"}
Permitting == {"grant", "record", "decide", "ask", "spend", "begin"}
Before == Permitting \cup {"wait", "deny", "denied"}
Calling == {"call", "point", "store"}
After == {"executed", "resume", "settle", "close_step"}
Executing == {"execute", "resolve", "refused", "interrupted", "lost"} \cup Before \cup Calling \cup After
Holding == Walking \cup Executing \cup {"tell"}

\* id: the question the call is about; said: the answer it brings, or the reason a step fails with;
\* made: the outcome the tool returned.
CallState == [pc: Loose \cup Holding, id: 1 .. MaxAsks \cup {None},
              said: {"", "granted", "rejected"} \cup Reasons, made: Outcome \cup {None}]
Idle == [pc |-> "idle", id |-> None, said |-> "", made |-> None]

TypeOK ==
    /\ up \in {"down", "booting", "serving"} /\ crashes \in 0 .. MaxCrashes
    /\ task \in [Task -> TaskStates] /\ step \in [Task -> StepStates] /\ cut \subseteq Task
    /\ approvals \in [Task -> Seq(Approval)] /\ \A t \in Task : Len(approvals[t]) <= MaxAsks
    /\ outcomes \in [Task -> Seq(Outcome)] /\ audit \in [Task -> Seq(Event)]
    /\ grants \in [Task -> [1 .. MaxAsks -> GrantStates]]
    /\ policy \in BOOLEAN /\ covered \in [Task -> Nat]
    /\ started \subseteq Task /\ acted \in [Task -> Nat] /\ stop \subseteq Task
    /\ lock \in [Task -> Calls \cup {None}]
    /\ call \in [Calls -> CallState]

-------------------------------------------------------------------------------
(* Calls, locks and writes *)

Doing(t, pc) == lock[t] # None /\ call[lock[t]].pc = pc
Mine(t) == call[lock[t]]

Go(t, pc) == call' = [call EXCEPT ![lock[t]].pc = pc] /\ UNCHANGED lock
GoWith(t, pc, i) == call' = [call EXCEPT ![lock[t]].pc = pc, ![lock[t]].id = i] /\ UNCHANGED lock
Return(c) == call' = [call EXCEPT ![c] = Idle]
Release(t) == Return(lock[t]) /\ lock' = [lock EXCEPT ![t] = None]

\* The engine writes under a lock of its own: a task in the middle of one of its writes waits.
EngineFree(t) == \A c \in Calls : c.of = t => call[c].pc \notin {"signal", "tell"}

SetTask(t, s) == task' = [task EXCEPT ![t] = s]
SetStep(t, s) == step' = [step EXCEPT ![t] = s]
Tell(t, event, about) ==
    audit' = [audit EXCEPT ![t] = Append(@, [event |-> event, about |-> about])]

Recorded(t, event, about) == \E i \in DOMAIN audit[t] : audit[t][i] = [event |-> event, about |-> about]
Verdicts(t) == {v \in {"passed", "failed"} : Recorded(t, "verified", v)}

HasEnded(t) == task[t] \in Ended
Questions(t, status) == {i \in DOMAIN approvals[t] : approvals[t][i].status = status}

\* What the month spent and holds reserved: a reservation is closed by the outcome that names it.
Held(t) ==
    CASE t \notin started -> 0
      [] t \in started /\ outcomes[t] = <<>> -> Worst[t]
      [] OTHER -> outcomes[t][1].cost
Ledger == MapThenSumSet(Held, {t \in Task : Worst[t] > 0})

Fits(t) == Ledger + Worst[t] <= MonthCap

-------------------------------------------------------------------------------
(* The end of a step *)

\* fail_step: the event of the trail here, the audit in the next write. A step whose tool did not
\* act is stopped instead, in a task that has ended.
FailStep(t, reason, didAct) ==
    /\ EngineFree(t)
    /\ IF HasEnded(t) /\ ~didAct
       THEN SetStep(t, "cancelled") /\ Go(t, "walk")
       ELSE /\ SetStep(t, "failed")
            /\ call' = [call EXCEPT ![lock[t]].pc = "tell", ![lock[t]].said = reason]
            /\ UNCHANGED lock
    /\ UNCHANGED <<up, crashes, stop, task, cut, consent, results>>

TellFailure(t) ==
    /\ Doing(t, "tell")
    /\ Tell(t, "step_failed", Mine(t).said)
    /\ Go(t, "walk")
    /\ UNCHANGED <<up, crashes, stop, tasks, consent, started, outcomes, acted>>

\* stop_step, which only applies to a task that has ended.
StopStep(t, pc) ==
    /\ EngineFree(t) /\ HasEnded(t)
    /\ SetStep(t, "cancelled") /\ Go(t, pc)
    /\ UNCHANGED <<up, crashes, stop, task, cut, consent, results>>

-------------------------------------------------------------------------------
(* The walk of a run *)

\* A call the lock is free for; one of a task with nothing left to do changes nothing.
RunStarts(t) ==
    /\ up = "serving" /\ lock[t] = None /\ call[RunOf(t)] = Idle
    /\ task[t] \in {"queued", "executing"} \/ (HasEnded(t) /\ step[t] = "running")
    /\ call' = [call EXCEPT ![RunOf(t)].pc = "walk"]
    /\ lock' = [lock EXCEPT ![t] = RunOf(t)]
    /\ UNCHANGED <<up, crashes, stop, tasks, consent, results>>

\* One turn of the loop: the task is read again, and its plan is blocked, complete, or goes on.
RunWalks(t) ==
    /\ Doing(t, "walk")
    /\ Go(t, CASE HasEnded(t) -> "close"
               [] task[t] = "waiting" -> "leave"
               [] ~HasEnded(t) /\ task[t] # "waiting" /\ step[t] = "failed" -> "fail"
               [] ~HasEnded(t) /\ task[t] # "waiting" /\ step[t] = "completed" -> "complete"
               [] OTHER -> "start")
    /\ UNCHANGED <<up, crashes, stop, tasks, consent, results>>

\* A write of the walk: one the engine refuses, because the task has ended under it, leads to
\* the close of the open step.
Walks(t, pc) == Doing(t, pc) /\ EngineFree(t)
Refused(t) == HasEnded(t) /\ Go(t, "close") /\ UNCHANGED tasks

StartTask(t) ==
    /\ Walks(t, "start")
    /\ \/ Refused(t)
       \/ /\ ~HasEnded(t)
          /\ SetTask(t, "executing") /\ Go(t, "open") /\ UNCHANGED <<step, cut>>
    /\ UNCHANGED <<up, crashes, stop, consent, results>>

StartStep(t) ==
    /\ Walks(t, "open")
    /\ \/ step[t] = "pending" /\ Refused(t)
       \/ /\ step[t] = "running" \/ ~HasEnded(t)
          /\ SetStep(t, "running") /\ Go(t, "execute") /\ UNCHANGED <<task, cut>>
    /\ UNCHANGED <<up, crashes, stop, consent, results>>

\* The runner fails a blocked plan with the error of the audit; without one it raises.
FailTask(t) ==
    /\ Walks(t, "fail")
    /\ IF \E i \in DOMAIN audit[t] : audit[t][i].event = "step_failed"
       THEN \/ Refused(t)
            \/ /\ ~HasEnded(t)
               /\ SetTask(t, "failed") /\ Go(t, "walk") /\ UNCHANGED <<step, cut>>
       ELSE Release(t) /\ UNCHANGED tasks
    /\ UNCHANGED <<up, crashes, stop, consent, results>>

CompleteTask(t) ==
    /\ Walks(t, "complete")
    /\ \/ Refused(t)
       \/ /\ ~HasEnded(t)
          /\ SetTask(t, "completed") /\ Go(t, "walk") /\ UNCHANGED <<step, cut>>
    /\ UNCHANGED <<up, crashes, stop, consent, results>>

\* Mutant: the run lets the lock go without reading the task again.
RunLeavesAtOnce(t) ==
    /\ Doing(t, "leave")
    /\ Release(t)
    /\ UNCHANGED <<up, crashes, stop, tasks, consent, results>>

\* The last act under the lock: a stop that landed since is seen here.
RunLeaves(t) ==
    /\ Doing(t, "leave")
    /\ IF HasEnded(t) THEN Go(t, "close") ELSE Release(t)
    /\ UNCHANGED <<up, crashes, stop, tasks, consent, results>>

-------------------------------------------------------------------------------
(* One call of the executor: what earlier calls left, then the permission *)

ExecuteReads(t) ==
    /\ Doing(t, "execute")
    /\ Go(t, IF HasEnded(t) THEN "close" ELSE "resolve")
    /\ UNCHANGED <<up, crashes, stop, tasks, consent, results>>

\* From the first write that is missing: the stored outcome, the STARTED record, the question asked
\* and the yes that was given. A question nobody answered in time is a precondition that fails: the
\* call raises, and the lock goes with it.
ResolveFrom(t, stored, pending, granted) ==
    /\ Doing(t, "resolve")
    /\ CASE stored # <<>> -> Go(t, "resume")
         [] stored = <<>> /\ t \in started -> Go(t, "interrupted")
         [] stored = <<>> /\ t \notin started /\ pending # {} ->
              IF approvals[t][Max(pending)].late THEN Release(t) ELSE GoWith(t, "wait", Max(pending))
         [] stored = <<>> /\ t \notin started /\ pending = {} /\ granted # {} ->
              GoWith(t, "grant", Max(granted))
         [] OTHER -> GoWith(t, "decide", None)
    /\ UNCHANGED <<up, crashes, stop, tasks, consent, results>>

\* Mutant: the call does not look at what was answered.
ResolveAnswered(t) ==
    ResolveFrom(t, outcomes[t], Questions(t, "pending"),
                Questions(t, "granted") \cup Questions(t, "rejected"))

Resolve(t) == ResolveFrom(t, outcomes[t], Questions(t, "pending"), Questions(t, "granted"))

\* The grant of the last yes, stored once.
StoreGrant(t) ==
    /\ Doing(t, "grant")
    /\ grants' = [grants EXCEPT ![t][Mine(t).id] = IF @ = "none" THEN "fresh" ELSE @]
    /\ Go(t, "record")
    /\ UNCHANGED <<up, crashes, stop, tasks, approvals, policy, covered, results>>

RecordGrant(t) ==
    /\ Doing(t, "record")
    /\ IF Recorded(t, "granted", Mine(t).id)
       THEN UNCHANGED audit
       ELSE Tell(t, "granted", Mine(t).id)
    /\ Go(t, "decide")
    /\ UNCHANGED <<up, crashes, stop, tasks, consent, started, outcomes, acted>>

\* A grant that is not expired nor used; without a yes, the standing policy.
Usable(t) ==
    LET i == Mine(t).id
    IN  IF i = None THEN t \in Policed /\ policy ELSE grants[t][i] = "fresh"

\* The Guardian: it may deny any call, and it asks where no usable grant covers a row that needs one.
Decide(t) ==
    /\ Doing(t, "decide")
    /\ \/ Go(t, "deny")
       \/ Go(t, IF t \in Asking /\ ~Usable(t) THEN "ask" ELSE "spend")
    /\ UNCHANGED <<up, crashes, stop, tasks, consent, results>>

\* No question for a call the tool would refuse, nor for one the month cannot pay.
Ask(t) ==
    /\ Doing(t, "ask")
    /\ \/ Go(t, "refused") /\ UNCHANGED approvals
       \/ Worst[t] > 0 /\ ~Fits(t) /\ Go(t, "deny") /\ UNCHANGED approvals
       \/ /\ Worst[t] = 0 \/ Fits(t)
          /\ Len(approvals[t]) < MaxAsks
          /\ approvals' = [approvals EXCEPT ![t] = Append(@, [status |-> "pending", late |-> FALSE])]
          /\ GoWith(t, "wait", Len(approvals[t]) + 1)
    /\ UNCHANGED <<up, crashes, stop, tasks, grants, policy, covered, results>>

WaitForAnswer(t) ==
    /\ Walks(t, "wait")
    /\ \/ Refused(t)
       \/ /\ ~HasEnded(t)
          /\ SetTask(t, "waiting") /\ Go(t, "walk") /\ UNCHANGED <<step, cut>>
    /\ UNCHANGED <<up, crashes, stop, consent, results>>

\* The Guardian's no, or the cap's.
DenyTask(t) ==
    /\ Walks(t, "deny")
    /\ \/ Refused(t)
       \/ /\ ~HasEnded(t)
          /\ SetTask(t, "denied") /\ Go(t, "denied") /\ UNCHANGED <<step, cut>>
    /\ UNCHANGED <<up, crashes, stop, consent, results>>

StopDenied(t) == Doing(t, "denied") /\ StopStep(t, "walk")

\* Nothing ran: the tool would refuse the call, or refused the decision.
FailRefused(t) == Doing(t, "refused") /\ FailStep(t, "refused", FALSE)

-------------------------------------------------------------------------------
(* The yes, the record, the tool *)

\* A stop heard before the yes is spent.
HearStop(t) == Doing(t, "spend") /\ t \in stop /\ StopStep(t, "walk")

\* Mutant: the yes is looked at and not spent.
ConsumeNothing(t) ==
    /\ Mine(t).id # None \/ policy
    /\ Go(t, "begin") /\ UNCHANGED <<grants, covered>>

\* One conditional write: a yes counts once, a policy as long as it stands. A miss asks again.
Consume(t) ==
    LET i == Mine(t).id
    IN  \/ /\ i # None /\ grants[t][i] \in {"fresh", "old"}
           /\ grants' = [grants EXCEPT ![t][i] = "used"]
           /\ Go(t, "begin") /\ UNCHANGED covered
        \/ /\ i = None /\ policy
           /\ covered' = [covered EXCEPT ![t] = @ + 1]
           /\ Go(t, "begin") /\ UNCHANGED grants
        \/ /\ IF i = None THEN ~policy ELSE grants[t][i] = "used"
           /\ Go(t, "ask") /\ UNCHANGED <<grants, covered>>

Spend(t) ==
    /\ Doing(t, "spend") /\ t \notin stop
    /\ IF t \in Asking THEN Consume(t) ELSE Go(t, "begin") /\ UNCHANGED <<grants, covered>>
    /\ UNCHANGED <<up, crashes, stop, tasks, approvals, policy, results>>

\* Mutant: no record before the tool acts.
BeginUnrecorded(t) ==
    /\ Doing(t, "begin")
    /\ Go(t, "call")
    /\ UNCHANGED <<up, crashes, stop, tasks, consent, results>>

\* Mutant: the reservation does not read the month again.
BeginUnchecked(t) ==
    /\ Doing(t, "begin")
    /\ started' = started \cup {t} /\ Go(t, "call")
    /\ UNCHANGED <<up, crashes, stop, tasks, consent, outcomes, audit, acted>>

\* The STARTED record of a tool that cannot be repeated; for a call that spends it is the
\* reservation, written in one operation with the read of the month.
Begin(t) ==
    /\ Doing(t, "begin")
    /\ \/ t \in Idempotent /\ Go(t, "call") /\ UNCHANGED started
       \/ /\ t \notin Idempotent /\ (Worst[t] = 0 \/ Fits(t))
          /\ started' = started \cup {t} /\ Go(t, "call")
       \/ t \notin Idempotent /\ Worst[t] > 0 /\ ~Fits(t) /\ Go(t, "deny") /\ UNCHANGED started
    /\ UNCHANGED <<up, crashes, stop, tasks, consent, outcomes, audit, acted>>

\* Mutant: an outcome the store does not have.
StoppedUnknown == [status |-> "stopped", passed |-> FALSE, cost |-> 0]

Stopped == [status |-> "cancelled", passed |-> FALSE, cost |-> 0]
ToolReturns(t, made) ==
    call' = [call EXCEPT ![lock[t]].pc = "store", ![lock[t]].made = made] /\ UNCHANGED lock

\* Past its point the tool acts once, and succeeds or falls over; what it costs is within its
\* worst case.
Act(t) ==
    /\ acted' = [acted EXCEPT ![t] = @ + 1]
    /\ \E s \in {"succeeded", "failed"}, k \in 0 .. Worst[t] :
          ToolReturns(t, [status |-> s, passed |-> TRUE, cost |-> k])

\* The stop is looked at right before the call. A tool with no point after it acts here.
CallTool(t) ==
    /\ Doing(t, "call")
    /\ \/ t \in stop /\ ToolReturns(t, Stopped) /\ UNCHANGED acted
       \/ t \notin stop /\ Go(t, "refused") /\ UNCHANGED acted
       \/ t \notin stop /\ t \in Pointed /\ Go(t, "point") /\ UNCHANGED acted
       \/ t \notin stop /\ t \notin Pointed /\ Act(t)
    /\ UNCHANGED <<up, crashes, stop, tasks, consent, started, outcomes, audit>>

\* The tool listens at its point; before it, it may fail on its own.
ReachPoint(t) ==
    /\ Doing(t, "point")
    /\ \/ t \in stop /\ ToolReturns(t, Stopped) /\ UNCHANGED acted
       \/ /\ \E k \in 0 .. Worst[t] : ToolReturns(t, [status |-> "failed", passed |-> FALSE, cost |-> k])
          /\ UNCHANGED acted
       \/ t \notin stop /\ Act(t)
    /\ UNCHANGED <<up, crashes, stop, tasks, consent, started, outcomes, audit>>

\* From here the outcome outlives the process.
StoreOutcome(t) ==
    /\ Doing(t, "store")
    /\ outcomes' = [outcomes EXCEPT ![t] = Append(@, Mine(t).made)]
    /\ Go(t, "executed")
    /\ UNCHANGED <<up, crashes, stop, tasks, consent, started, audit, acted>>

-------------------------------------------------------------------------------
(* What follows the outcome: the audit of the run, the verification, the close *)

RecordExecution(t) ==
    /\ Doing(t, "executed")
    /\ Tell(t, "executed", "outcome") /\ Go(t, "settle")
    /\ UNCHANGED <<up, crashes, stop, tasks, consent, started, outcomes, acted>>

\* The outcome is an earlier call's: the audit is read before it is written.
Resume(t) ==
    /\ Doing(t, "resume")
    /\ IF Recorded(t, "executed", "outcome") THEN UNCHANGED audit ELSE Tell(t, "executed", "outcome")
    /\ Go(t, "settle")
    /\ UNCHANGED <<up, crashes, stop, tasks, consent, started, outcomes, acted>>

Succeeded(t) == outcomes[t][1].status = "succeeded"

\* Mutant: a tool that failed is taken for one that did not act.
FailUnacted(t) ==
    /\ Doing(t, "settle") /\ ~Succeeded(t)
    /\ FailStep(t, "tool", FALSE)

FailExecuted(t) ==
    /\ Doing(t, "settle") /\ ~Succeeded(t)
    /\ FailStep(t, "tool", outcomes[t][1].passed)

\* The verifier's word, read again from the audit where an earlier call recorded it.
Verify(t) ==
    /\ Doing(t, "settle") /\ Succeeded(t)
    /\ IF Verdicts(t) # {} THEN UNCHANGED audit ELSE \E v \in {"passed", "failed"} : Tell(t, "verified", v)
    /\ Go(t, "close_step")
    /\ UNCHANGED <<up, crashes, stop, tasks, consent, started, outcomes, acted>>

CompleteStep(t) ==
    /\ Doing(t, "close_step") /\ EngineFree(t) /\ "passed" \in Verdicts(t)
    /\ SetStep(t, "completed") /\ Go(t, "walk")
    /\ UNCHANGED <<up, crashes, stop, task, cut, consent, results>>

FailUnverified(t) ==
    /\ Doing(t, "close_step") /\ "failed" \in Verdicts(t)
    /\ FailStep(t, "verification", TRUE)

\* Started and never reported: not run again, and no outcome is invented.
RecordInterrupted(t) ==
    /\ Doing(t, "interrupted")
    /\ IF Recorded(t, "executed", "started") THEN UNCHANGED audit ELSE Tell(t, "executed", "started")
    /\ Go(t, "lost")
    /\ UNCHANGED <<up, crashes, stop, tasks, consent, started, outcomes, acted>>

FailInterrupted(t) == Doing(t, "lost") /\ FailStep(t, "interrupted", TRUE)

\* Mutant: the close does not look for a STARTED record.
CloseUnstarted(t) ==
    /\ Doing(t, "close") /\ EngineFree(t)
    /\ CASE step[t] # "running" -> Release(t) /\ UNCHANGED step
         [] step[t] = "running" /\ outcomes[t] # <<>> -> Go(t, "resume") /\ UNCHANGED step
         [] OTHER -> SetStep(t, "cancelled") /\ Release(t)
    /\ UNCHANGED <<up, crashes, stop, task, cut, consent, results>>

\* The step an ended task left running, closed from what the stores say.
CloseOpenStep(t) ==
    /\ Doing(t, "close") /\ EngineFree(t)
    /\ CASE step[t] # "running" -> Release(t) /\ UNCHANGED step
         [] step[t] = "running" /\ outcomes[t] # <<>> -> Go(t, "resume") /\ UNCHANGED step
         [] step[t] = "running" /\ outcomes[t] = <<>> /\ t \in started ->
              Go(t, "interrupted") /\ UNCHANGED step
         [] OTHER -> SetStep(t, "cancelled") /\ Release(t)
    /\ UNCHANGED <<up, crashes, stop, task, cut, consent, results>>

-------------------------------------------------------------------------------
(* The user: an answer, a stop, a revocation *)

At(c, pc) == call[c].pc = pc
Enter(c, pc) == up = "serving" /\ call[c] = Idle /\ call' = [call EXCEPT ![c].pc = pc]

\* An answer names a question of the task; one to a task that is not waiting writes nothing.
AnswerReads(t, p) ==
    /\ up = "serving" /\ call[AnswerOf(t, p)] = Idle
    /\ task[t] = "waiting"
    /\ \E i \in DOMAIN approvals[t], yes \in {"granted", "rejected"} :
          call' = [call EXCEPT ![AnswerOf(t, p)] = [pc |-> "respond", id |-> i, said |-> yes, made |-> None]]
    /\ UNCHANGED <<up, crashes, stop, lock, tasks, consent, results>>

\* One conditional write: a question is answered once, in time. The same answer again goes on to
\* the move a crash may have skipped.
Respond(t, p) ==
    LET c == AnswerOf(t, p)
        asked == approvals[t][call[c].id]
    IN  /\ At(c, "respond")
        /\ \/ /\ asked.status = "pending" /\ ~asked.late
              /\ approvals' = [approvals EXCEPT ![t][call[c].id].status = call[c].said]
              /\ call' = [call EXCEPT ![c].pc = "move"]
           \/ /\ asked.status = call[c].said
              /\ call' = [call EXCEPT ![c].pc = "move"] /\ UNCHANGED approvals
           \/ /\ asked.status # call[c].said /\ (asked.status = "pending" => asked.late)
              /\ Return(c) /\ UNCHANGED approvals
        /\ UNCHANGED <<up, crashes, stop, lock, tasks, grants, policy, covered, results>>

\* The engine after the store. A task that is not waiting any more refuses the move.
Move(t, p) ==
    LET c == AnswerOf(t, p)
    IN  /\ At(c, "move") /\ EngineFree(t)
        /\ IF task[t] = "waiting"
           THEN \/ call[c].said = "granted" /\ SetTask(t, "queued") /\ Return(c)
                \/ /\ call[c].said = "rejected" /\ SetTask(t, "denied")
                   /\ call' = [call EXCEPT ![c].pc = "free"]
           ELSE Return(c) /\ UNCHANGED task
        /\ UNCHANGED <<up, crashes, stop, lock, step, cut, consent, results>>

\* Mutant: the stop leaves the close to others.
CloseNever(c) ==
    /\ At(c, "free")
    /\ Return(c)
    /\ UNCHANGED <<up, crashes, stop, lock, tasks, consent, results>>

\* A lock that is taken means its holder reads the task again as its last act.
CloseIfFree(c) ==
    /\ At(c, "free")
    /\ IF lock[c.of] = None
       THEN lock' = [lock EXCEPT ![c.of] = c] /\ call' = [call EXCEPT ![c].pc = "close"]
       ELSE Return(c) /\ UNCHANGED lock
    /\ UNCHANGED <<up, crashes, stop, tasks, consent, results>>

\* The stop is a fact before it is a signal, and neither takes the lock of the run.
StopTask(t) ==
    /\ Enter(StopOf(t), "signal") /\ EngineFree(t)
    /\ ~HasEnded(t)
    /\ SetTask(t, "cancelled")
    /\ cut' = IF step[t] = "running" THEN cut \cup {t} ELSE cut
    /\ UNCHANGED <<up, crashes, stop, lock, step, consent, results>>

SignalStop(t) ==
    /\ At(StopOf(t), "signal")
    /\ stop' = stop \cup {t}
    /\ call' = [call EXCEPT ![StopOf(t)].pc = "free"]
    /\ UNCHANGED <<up, crashes, lock, tasks, consent, results>>

RevokePolicy ==
    /\ up = "serving" /\ policy /\ policy' = FALSE
    /\ UNCHANGED <<process, tasks, approvals, grants, covered, results>>

-------------------------------------------------------------------------------
(* Time, crashes and the start of the Core *)

QuestionExpires(t) ==
    /\ t \in Expiring
    /\ \E i \in Questions(t, "pending") :
          ~approvals[t][i].late /\ approvals' = [approvals EXCEPT ![t][i].late = TRUE]
    /\ UNCHANGED <<process, tasks, grants, policy, covered, results>>

GrantExpires(t) ==
    /\ t \in Expiring
    /\ \E i \in 1 .. MaxAsks :
          grants[t][i] = "fresh" /\ grants' = [grants EXCEPT ![t][i] = "old"]
    /\ UNCHANGED <<process, tasks, approvals, policy, covered, results>>

Crash ==
    /\ up # "down" /\ crashes < MaxCrashes
    /\ up' = "down" /\ crashes' = crashes + 1
    /\ stop' = {}
    /\ lock' = [t \in Task |-> None]
    /\ call' = [c \in Calls |-> Idle]
    /\ UNCHANGED <<tasks, consent, results>>

\* recover(): tasks silent for long enough have failed, and those whose question ran out expire.
Recovered(t, orphans) ==
    LET pending == Questions(t, "pending")
    IN  CASE t \in orphans -> "failed"
          [] task[t] = "waiting" /\ pending # {} /\ approvals[t][Max(pending)].late -> "expired"
          [] OTHER -> task[t]

\* close_every_open_step(), before the first request is served.
StartUp ==
    /\ up = "down" /\ up' = "booting"
    /\ \E orphans \in SUBSET {t \in Task : task[t] = "executing"} :
          LET found == [t \in Task |-> Recovered(t, orphans)]
              open == {t \in Task : found[t] \in Ended /\ step[t] = "running"}
          IN  /\ task' = found
              /\ call' = [c \in Calls |->
                             IF c.kind = "stop" /\ c.of \in open THEN [Idle EXCEPT !.pc = "close"] ELSE Idle]
              /\ lock' = [t \in Task |-> IF t \in open THEN StopOf(t) ELSE None]
    /\ UNCHANGED <<crashes, stop, step, cut, consent, results>>

Serve ==
    /\ up = "booting" /\ \A c \in Calls : call[c] = Idle
    /\ up' = "serving"
    /\ UNCHANGED <<crashes, stop, lock, call, tasks, consent, results>>

-------------------------------------------------------------------------------
\* Each task is in the queue, or was stopped there.
Init ==
    /\ up = "serving" /\ crashes = 0
    /\ task \in [Task -> {"queued", "cancelled"}] /\ step = [t \in Task |-> "pending"] /\ cut = {}
    /\ approvals = [t \in Task |-> <<>>]
    /\ grants = [t \in Task |-> [i \in 1 .. MaxAsks |-> "none"]]
    /\ policy = TRUE /\ covered = [t \in Task |-> 0]
    /\ started = {} /\ outcomes = [t \in Task |-> <<>>]
    /\ audit = [t \in Task |-> <<>>] /\ acted = [t \in Task |-> 0]
    /\ stop = {} /\ lock = [t \in Task |-> None] /\ call = [c \in Calls |-> Idle]

Holder(t) ==
    \/ RunWalks(t) \/ StartTask(t) \/ StartStep(t) \/ FailTask(t) \/ CompleteTask(t) \/ RunLeaves(t)
    \/ ExecuteReads(t) \/ Resolve(t) \/ StoreGrant(t) \/ RecordGrant(t) \/ Decide(t) \/ Ask(t)
    \/ WaitForAnswer(t) \/ DenyTask(t) \/ StopDenied(t) \/ FailRefused(t)
    \/ HearStop(t) \/ Spend(t) \/ Begin(t) \/ CallTool(t) \/ ReachPoint(t) \/ StoreOutcome(t)
    \/ RecordExecution(t) \/ Resume(t) \/ FailExecuted(t) \/ Verify(t) \/ CompleteStep(t)
    \/ FailUnverified(t) \/ RecordInterrupted(t) \/ FailInterrupted(t) \/ TellFailure(t)
    \/ CloseOpenStep(t)

Stopping(t) == SignalStop(t) \/ CloseIfFree(StopOf(t))
Answering(t, p) == Respond(t, p) \/ Move(t, p) \/ CloseIfFree(AnswerOf(t, p))

Next ==
    \/ \E t \in Task :
        \/ RunStarts(t) \/ Holder(t) \/ StopTask(t) \/ Stopping(t)
        \/ QuestionExpires(t) \/ GrantExpires(t)
        \/ \E p \in Page : AnswerReads(t, p) \/ Answering(t, p)
    \/ RevokePolicy \/ Crash \/ StartUp \/ Serve

Spec == Init /\ [][Next]_vars

\* The event loop serves every call to its end, a tool returns, and the Core is started again.
Fairness ==
    /\ \A t \in Task : WF_vars(Holder(t)) /\ WF_vars(Stopping(t))
    /\ \A t \in Task, p \in Page : WF_vars(Answering(t, p))
    /\ WF_vars(StartUp) /\ WF_vars(Serve)

FairSpec == Spec /\ Fairness

-------------------------------------------------------------------------------
(* Properties *)

\* A tool that cannot be repeated acts at most once, whatever dies between its effect and the
\* record of it (the STARTED record of Executor._start_record).
ActsOnce == \A t \in Task \ Idempotent : acted[t] <= 1

\* Behind every act of a tool whose row asks there is a yes of its own, or a use of the policy
\* counted for it: a yes is never spent twice, over retries, expiries and crashes.
YesBehindEveryAct ==
    \A t \in Asking : acted[t] <= Cardinality(Questions(t, "granted")) + covered[t]

\* A tool acts on the yes its question was given, and never on an older one once the user said no
\* to a later question of the same step.
NoMeansNo ==
    [][\A t \in Asking : acted'[t] > acted[t] /\ Mine(t).id # None
          => /\ approvals[t][Mine(t).id].status = "granted"
             /\ \A i \in Questions(t, "rejected") : i < Mine(t).id]_vars

\* What halt_of tells the user of the step a stop found running.
Halt(t) ==
    CASE t \notin cut -> "none"
      [] t \in cut /\ step[t] = "cancelled" -> "not_acted"
      [] t \in cut /\ step[t] = "completed" -> "acted_verified"
      [] t \in cut /\ step[t] = "running" -> "finishing"
      [] OTHER -> IF \E a \in {"refused", "tool", "verification"} : Recorded(t, "step_failed", a)
                  THEN "acted" ELSE "unknown"

\* What the user is told after a stop is what happened: NOT_ACTED when the tool did not pass its
\* point of no return, and one of the two ACTED when it did (docs/adr/0054, the table of halt). Of a
\* tool that may be repeated no record says that it was called, and NOT_ACTED is not claimed.
HaltIsTrue ==
    \A t \in Task :
        /\ Halt(t) = "not_acted" => acted[t] = 0 \/ t \in Idempotent
        /\ Halt(t) \in {"acted", "acted_verified"} => acted[t] > 0

\* The audit tells each fact once, over resumes and crashes: one execution, one verdict, one
\* failure of the step, one birth of each grant; and never a verdict before the execution.
AuditOnce ==
    \A t \in Task : \A i, j \in DOMAIN audit[t] :
        LET first == audit[t][i]
            later == audit[t][j]
        IN  i < j =>
              /\ first.event = later.event => first.event = "granted" /\ first.about # later.about
              /\ ~(first.event = "verified" /\ later.event = "executed")

\* A step is done once and told once.
DoneOnce == ActsOnce /\ AuditOnce

\* How a step closed is what the stores say: one outcome at most, COMPLETED only on a verification
\* of it that passed, CANCELLED only with none that passed, FAILED in the audit as what was stored.
ClosedAsStored ==
    \A t \in Task :
        /\ Len(outcomes[t]) <= 1
        /\ step[t] = "completed" => Succeeded(t) /\ Recorded(t, "executed", "outcome")
                                      /\ Verdicts(t) = {"passed"}
        /\ step[t] = "cancelled" => outcomes[t] = <<>> \/ ~outcomes[t][1].passed
        /\ Recorded(t, "step_failed", "interrupted") => t \in started /\ outcomes[t] = <<>>

\* What a step closed as, and what the user is told of it after a stop, is what happened.
ClosesAsItHappened == HaltIsTrue /\ ClosedAsStored

\* What the month spent and holds reserved never crosses its cap, with calls of several tasks
\* between the question and the reservation.
CapHolds == Ledger <= MonthCap

\* A task that ended keeps no running step once nobody works on it: the close of a stop, the run
\* that held the lock, the answer, or the start-up closes it (docs/adr/0054, 5 and 12). It holds
\* where no question expires: a call that raises on an expired one leaves without a last look.
NoStepLeftOpen ==
    \A t \in Task \ Expiring :
        up = "serving" /\ HasEnded(t) /\ step[t] = "running"
          => lock[t] # None \/ \E c \in Calls : c.of = t /\ call[c].pc \in {"signal", "free"}

\* A step left running by the end of its task is closed.
EndedStepCloses ==
    \A t \in Task : HasEnded(t) /\ step[t] = "running" ~> step[t] # "running"
================================================================================
