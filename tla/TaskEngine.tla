------------------------------ MODULE TaskEngine ------------------------------
(***************************************************************************)
(* The Task Engine: the one writer of the life of a task. Every operation  *)
(* runs under the lock of its task, reloads the task and its trail, checks *)
(* the table and then makes its writes one after the other, each of them   *)
(* an await: the row of the task, the event of the trail, the row of the   *)
(* audit. A crash, or a store that raises, may fall between any two.       *)
(*                                                                         *)
(* A call that is refused, or that finds its work already done, writes     *)
(* nothing: it is not a step here. The trail of a task is the sequence of  *)
(* its events; a row of the audit is the position in the trail of the      *)
(* event it reports (0 for the creation, which has no event).              *)
(***************************************************************************)
EXTENDS TaskTables, Naturals, Sequences, FiniteSets

CONSTANTS
    Task,            \* the tasks that may be created
    Parent,          \* the task a planning child was made for, None for a root task
    Deadline,        \* the instant each task expires (beyond MaxTime: it has none)
    Step,            \* the steps of every plan: 1..n, in topological order
    Deps,            \* the steps each step waits for
    Key,             \* ids of approvals, decisions, results, plans, assignments
    Caller,          \* coroutines that call the engine
    None,
    OrphanAfter,     \* the silence after which recover() fails an executing task
    ClockMayGoBack,  \* whether the clock of the machine may be set back
    MaxTime, MaxTrail, MaxFaults   \* bounds of the exploration

ASSUME EngineAssumption ==
    /\ Step \subseteq Nat
    /\ Deps \in [Step -> SUBSET Step]
    /\ \A s \in Step : \A d \in Deps[s] : d < s
    /\ Parent \in [Task -> Task \cup {None}]
    /\ Deadline \in [Task -> Nat]
    /\ OrphanAfter \in Nat \ {0}
    /\ ClockMayGoBack \in BOOLEAN
    /\ MaxTime \in Nat /\ MaxTrail \in [Task -> Nat] /\ MaxFaults \in Nat
    /\ None \notin Task \cup Step \cup Key \cup Caller

VARIABLES
    row,      \* the tasks table: state, plan_id, created_at of each task
    planned,  \* the plans table: the id of the plan stored for each task
    trail,    \* the TaskEvents of each task
    steps,    \* the states of the steps, the fold TaskGraph.states makes of the trail
    audit,    \* the audit rows of each task
    asked,    \* the approval store: when the last PENDING request of each task expires
    lock,     \* the asyncio lock of each task
    call,     \* what each coroutine still has to write
    stop,     \* the tasks whose stop signal is raised in this process
    clock,
    faults    \* crashes and store failures so far

vars == <<row, planned, trail, steps, audit, asked, lock, call, stop, clock, faults>>
disk == <<row, planned, trail, steps, audit>>

-------------------------------------------------------------------------------
(* Types *)

Time == 0 .. MaxTime

Rows == [state : TaskStates \cup {Absent}, plan : Key \cup {None}, created : Time]

Events == [op   : Operations \cup StepOperations \cup {"plan", "heartbeat"},
           step : Step \cup {None},
           key  : Key \cup Task \cup {None},
           at   : Time]

Phases == {"idle", "recheck", "add_plan", "save", "event", "audit"}

Calls == [phase : Phases,
          op    : Operations \cup StepOperations \cup {"create", "plan", "heartbeat"},
          task  : Task \cup {None},
          step  : Step \cup {None},
          key   : Key \cup Task \cup {None},
          cause : Step \cup {None},   \* the failed step a cascade comes from
          at    : Time,
          moved : Rows]               \* the row to save, made from the one read

NoRow == [state |-> Absent, plan |-> None, created |-> 0]

TypeOK ==
    /\ row \in [Task -> Rows]
    /\ planned \in [Task -> Key \cup {None}]
    /\ trail \in [Task -> Seq(Events)]
    /\ steps \in [Task -> [Step -> StepStates]]
    /\ audit \in [Task -> Seq(Nat)]
    /\ asked \in [Task -> Time \cup {None}]
    /\ lock \in [Task -> Caller \cup {None}]
    /\ call \in [Caller -> Calls]
    /\ \A c \in Caller : /\ call[c].phase # "idle" => call[c].task \in Task
                         /\ call[c].op = "create" => call[c].phase = "audit"
                         /\ call[c].phase = "add_plan" => call[c].key \in Key
    /\ stop \subseteq Task
    /\ clock \in Time
    /\ faults \in Nat

-------------------------------------------------------------------------------
(* What an operation reads *)

Ended(t) == row[t].state \in TerminalStates

\* Mutant: the lock of the task is not waited for.
FreeWithoutLock(c, t) == call[c].phase = "idle"

Free(c, t) == call[c].phase = "idle" /\ lock[t] = None

Room(t) == Len(trail[t]) < MaxTrail[t]

\* Nothing of t is recorded after n: the clock is not behind the task.
NotBefore(t, n) ==
    /\ row[t].created <= n
    /\ \A i \in DOMAIN trail[t] : trail[t][i].at <= n

Orphan(t, n) ==
    /\ row[t].created + OrphanAfter <= n
    /\ \A i \in DOMAIN trail[t] : trail[t][i].at + OrphanAfter <= n

RequestExpired(t, n) == asked[t] # None /\ asked[t] <= n

\* Mutant: a dependency that has started is taken for one that has ended.
ReadyWhenStarted(t, s) == \A d \in Deps[s] : steps[t][d] # "pending"

Ready(t, s) == \A d \in Deps[s] : steps[t][d] = "completed"

\* Mutant: only the direct dependents.
DirectDependents(s) == {d \in Step : s \in Deps[d]}

\* The steps that transitively wait for s: in every set closed under "waits for".
Descendants(s) ==
    {d \in Step : \A S \in SUBSET Step :
        (\A x \in Step : (Deps[x] \cap (S \cup {s})) # {} => x \in S) => d \in S}

ToCancel(t, s) == {d \in Descendants(s) : steps[t][d] = "pending"}

First(s, S) == s \in S /\ \A x \in S : s <= x

\* Mutant: the key is looked for in the last event only.
ReleasedLast(t, s, k) ==
    trail[t] # <<>> /\ LET e == trail[t][Len(trail[t])]
                       IN e.op = "release_step" /\ e.step = s /\ e.key = k

Released(t, s, k) ==
    \E i \in DOMAIN trail[t] : /\ trail[t][i].op = "release_step"
                               /\ trail[t][i].step = s
                               /\ trail[t][i].key = k

KeysOf(op) ==
    CASE op = "deny_by_planning"         -> Task
      [] op \in (Keyed \cup KeyedSteps) \ {"deny_by_planning"} -> Key
      [] OTHER                           -> {None}

\* The checks an operation adds to its row of the table.
Guard(op, t, k) ==
    /\ op \in {"queue", "request_approval"} => row[t].plan # None
    /\ op = "complete" => row[t].plan # None /\ \A s \in Step : steps[t][s] = "completed"
    /\ op = "expire" => Deadline[t] <= clock
    /\ op = "deny_by_planning" => Parent[k] = t /\ row[k].state = "denied"

-------------------------------------------------------------------------------
(* The calls: reload under the lock, check, and decide what to write *)

Idle == [phase |-> "idle", op |-> "heartbeat", task |-> None, step |-> None,
         key |-> None, cause |-> None, at |-> 0, moved |-> NoRow]

Begin(c, phase, op, t, s, k, cause, moved) ==
    /\ lock' = [lock EXCEPT ![t] = c]
    /\ call' = [call EXCEPT ![c] = [phase |-> phase, op |-> op, task |-> t, step |-> s,
                                    key |-> k, cause |-> cause, at |-> clock,
                                    moved |-> moved]]
    /\ UNCHANGED <<disk, asked, stop, clock, faults>>

\* The insert refuses an id that is there, so the first write and the check are one.
Create(c, t) ==
    /\ Free(c, t) /\ row[t].state = Absent
    /\ Parent[t] # None => row[Parent[t]].state # Absent
    /\ row' = [row EXCEPT ![t] = [state |-> "created", plan |-> None, created |-> clock]]
    /\ lock' = [lock EXCEPT ![t] = c]
    /\ call' = [call EXCEPT ![c] = [Idle EXCEPT !.phase = "audit", !.op = "create", !.task = t]]
    /\ UNCHANGED <<planned, trail, steps, audit, asked, stop, clock, faults>>

Plan(c, t, k) ==
    /\ Free(c, t) /\ Room(t) /\ NotBefore(t, clock)
    /\ row[t].state = "planning" /\ row[t].plan = None
    /\ planned[t] \in {None, k}
    /\ Begin(c, IF planned[t] = None THEN "add_plan" ELSE "save", "plan", t, None, k, None,
             [row[t] EXCEPT !.plan = k])

Heartbeat(c, t) ==
    /\ Free(c, t) /\ Room(t) /\ NotBefore(t, clock)
    /\ row[t].state = "executing"
    /\ Begin(c, "event", "heartbeat", t, None, None, None, row[t])

Apply(c, t, op, k) ==
    /\ Free(c, t) /\ Room(t) /\ NotBefore(t, clock)
    /\ row[t].state \in Sources(op)
    /\ Guard(op, t, k)
    /\ Begin(c, "save", op, t, None, k, None, [row[t] EXCEPT !.state = Target(op)])

\* recover() reads its candidates, and the clock, under no lock ...
RecoverScan(c, t) ==
    /\ call[c].phase = "idle" /\ Room(t)
    /\ \E op \in {"recover", "expire"} :
        /\ \/ op = "recover" /\ row[t].state = "executing" /\ Orphan(t, clock)
           \/ op = "expire" /\ row[t].state = "waiting_approval" /\ RequestExpired(t, clock)
        /\ call' = [call EXCEPT ![c] = [Idle EXCEPT !.phase = "recheck", !.op = op,
                                                    !.task = t, !.at = clock]]
    /\ UNCHANGED <<disk, asked, lock, stop, clock, faults>>

\* Mutant: the candidate is failed as it was found, without the second look.
RecoverBlind(c) ==
    LET t == call[c].task  op == call[c].op
    IN  /\ call[c].phase = "recheck" /\ lock[t] = None
        /\ Begin(c, "save", op, t, None, None, None, [row[t] EXCEPT !.state = Target(op)])

\* ... and looks at each again under its lock: one that changed is left alone.
RecoverCandidate(c) ==
    LET t == call[c].task  now == call[c].at  op == call[c].op
        still == \/ op = "recover" /\ row[t].state = "executing" /\ Orphan(t, now)
                 \/ op = "expire" /\ row[t].state = "waiting_approval" /\ RequestExpired(t, now)
    IN  /\ call[c].phase = "recheck" /\ lock[t] = None
        /\ IF still /\ NotBefore(t, clock)
           THEN Begin(c, "save", op, t, None, None, None, [row[t] EXCEPT !.state = Target(op)])
           ELSE /\ call' = [call EXCEPT ![c] = Idle]
                /\ UNCHANGED <<disk, asked, lock, stop, clock, faults>>

\* The state of the task a step operation needs.
StepAllowed(op, t) ==
    /\ planned[t] # None
    /\ \/ row[t].state = "executing" /\ op \notin EndedOnly
       \/ Ended(t) /\ op \in Closings

ApplyStep(c, t, s, op, k) ==
    /\ Free(c, t) /\ Room(t) /\ NotBefore(t, clock)
    /\ StepAllowed(op, t)
    /\ steps[t][s] = StepSource(op)
    /\ op = "start_step" => Ready(t, s)
    /\ op = "release_step" => ~Released(t, s, k)
    /\ Begin(c, "event", op, t, s, k, IF op = "fail_step" THEN s ELSE None, row[t])

\* fail_step of a step that did not act: in a task that has ended it is a stop_step.
FailStep(c, t, s, stoppedIfEnded) ==
    LET op == IF stoppedIfEnded /\ Ended(t) THEN "stop_step" ELSE "fail_step"
    IN  ApplyStep(c, t, s, op, None)

\* fail_step of a step already FAILED writes no second failure: it completes the cascade.
ResumeCascade(c, t, s) ==
    /\ Free(c, t) /\ NotBefore(t, clock)
    /\ StepAllowed("fail_step", t)
    /\ steps[t][s] = "failed"
    /\ \E d \in Step : /\ First(d, ToCancel(t, s))
                       /\ Begin(c, "event", "cancel_step", t, d, None, s, row[t])

-------------------------------------------------------------------------------
(* The writes, one await each *)

Go(c, phase) == call' = [call EXCEPT ![c].phase = phase]

Return(c) ==
    /\ call' = [call EXCEPT ![c] = Idle]
    /\ lock' = [lock EXCEPT ![call[c].task] = None]

AddPlan(c) ==
    /\ call[c].phase = "add_plan"
    /\ planned' = [planned EXCEPT ![call[c].task] = call[c].key]
    /\ Go(c, "save")
    /\ UNCHANGED <<row, trail, steps, audit, asked, lock, stop, clock, faults>>

\* Mutant: the stop is raised as soon as the row says the task has ended.
SaveAndStop(c) ==
    /\ call[c].phase = "save"
    /\ row' = [row EXCEPT ![call[c].task] = call[c].moved]
    /\ stop' = IF call[c].moved.state \in TerminalStates THEN stop \cup {call[c].task} ELSE stop
    /\ Go(c, "event")
    /\ UNCHANGED <<planned, trail, steps, audit, asked, lock, clock, faults>>

Save(c) ==
    /\ call[c].phase = "save"
    /\ row' = [row EXCEPT ![call[c].task] = call[c].moved]
    /\ Go(c, "event")
    /\ UNCHANGED <<planned, trail, steps, audit, asked, lock, stop, clock, faults>>

AppendEvent(c) ==
    LET w == call[c]  t == w.task
    IN  /\ w.phase = "event"
        /\ trail' = [trail EXCEPT ![t] = Append(@, [op |-> w.op, step |-> w.step,
                                                    key |-> w.key, at |-> w.at])]
        /\ steps' = IF w.op \in StepOperations
                    THEN [steps EXCEPT ![t][w.step] = StepTarget(w.op)]
                    ELSE steps
        /\ IF w.op = "heartbeat"
           THEN Return(c)
           ELSE Go(c, "audit") /\ UNCHANGED lock
        /\ UNCHANGED <<row, planned, audit, asked, stop, clock, faults>>

\* The third write, and with no await after it the stop signal of a task that has ended;
\* a failed step goes on to cancel what waits for it, unless the clock is now behind.
AppendAudit(c) ==
    LET w == call[c]  t == w.task
        rest == IF w.cause = None THEN {} ELSE ToCancel(t, w.cause)
    IN  /\ w.phase = "audit"
        /\ audit' = [audit EXCEPT ![t] = Append(@, IF w.op = "create" THEN 0 ELSE Len(trail[t]))]
        /\ stop' = IF w.op \in Operations /\ Target(w.op) \in TerminalStates
                   THEN stop \cup {t} ELSE stop
        /\ IF rest # {} /\ NotBefore(t, clock)
           THEN /\ UNCHANGED lock
                /\ \E d \in Step :
                     /\ First(d, rest)
                     /\ call' = [call EXCEPT ![c] = [w EXCEPT !.phase = "event", !.step = d,
                                                     !.op = "cancel_step", !.at = clock]]
           ELSE Return(c)
        /\ UNCHANGED <<row, planned, trail, steps, asked, clock, faults>>

-------------------------------------------------------------------------------
(* What happens around the engine *)

\* The approval store: a request is added with its expiry, and answered while it lasts.
Ask(t) ==
    /\ asked[t] = None /\ row[t].state \in {"planning", "executing"}
    /\ \E at \in clock + 1 .. MaxTime : asked' = [asked EXCEPT ![t] = at]
    /\ UNCHANGED <<disk, lock, call, stop, clock, faults>>

Answer(t) ==
    /\ asked[t] # None /\ clock < asked[t]
    /\ asked' = [asked EXCEPT ![t] = None]
    /\ UNCHANGED <<disk, lock, call, stop, clock, faults>>

Tick ==
    /\ clock' \in IF ClockMayGoBack THEN Time \ {clock} ELSE {clock + 1} \cap Time
    /\ UNCHANGED <<disk, asked, lock, call, stop, faults>>

\* A write raises: the coroutine ends, its lock is released, the process goes on.
StoreFails(c) ==
    /\ faults < MaxFaults /\ call[c].phase \notin {"idle", "recheck"}
    /\ Return(c)
    /\ faults' = faults + 1
    /\ UNCHANGED <<disk, asked, stop, clock>>

\* The process dies and is started again: what was only in memory is gone.
Crash ==
    /\ faults < MaxFaults
    /\ lock' = [t \in Task |-> None]
    /\ call' = [c \in Caller |-> Idle]
    /\ stop' = {}
    /\ faults' = faults + 1
    /\ UNCHANGED <<disk, asked, clock>>

-------------------------------------------------------------------------------

Init ==
    /\ row = [t \in Task |-> NoRow]
    /\ planned = [t \in Task |-> None]
    /\ trail = [t \in Task |-> <<>>]
    /\ steps = [t \in Task |-> [s \in Step |-> "pending"]]
    /\ audit = [t \in Task |-> <<>>]
    /\ asked = [t \in Task |-> None]
    /\ lock = [t \in Task |-> None]
    /\ call = [c \in Caller |-> Idle]
    /\ stop = {}
    /\ clock = 0
    /\ faults = 0

Calling(c, t) ==
    \/ Create(c, t) \/ Heartbeat(c, t) \/ RecoverScan(c, t)
    \/ \E k \in Key : Plan(c, t, k)
    \/ \E op \in Operations \ {"recover"} : \E k \in KeysOf(op) : Apply(c, t, op, k)
    \/ \E s \in Step :
        \/ \E op \in StepOperations \ {"cancel_step", "fail_step"} :
              \E k \in KeysOf(op) : ApplyStep(c, t, s, op, k)
        \/ \E b \in BOOLEAN : FailStep(c, t, s, b)
        \/ ResumeCascade(c, t, s)

Writing(c) ==
    \/ RecoverCandidate(c) \/ AddPlan(c) \/ Save(c) \/ AppendEvent(c) \/ AppendAudit(c)

Next ==
    \/ \E c \in Caller : Writing(c) \/ StoreFails(c) \/ \E t \in Task : Calling(c, t)
    \/ \E t \in Task : Ask(t) \/ Answer(t)
    \/ Tick \/ Crash

Spec == Init /\ [][Next]_vars

-------------------------------------------------------------------------------
(* Properties *)

\* One writer per task: a coroutine between its read and its last write holds the lock of its
\* task, and a lock is held by such a coroutine only, through crashes and failing stores.
OneWriter ==
    /\ \A c \in Caller : call[c].phase \notin {"idle", "recheck"} => lock[call[c].task] = c
    /\ \A t \in Task : lock[t] # None => /\ call[lock[t]].phase \notin {"idle", "recheck"}
                                        /\ call[lock[t]].task = t

\* What a coroutine decided when it read its task still holds at each of its writes, whatever
\* the others do in between: the move is still legal, the step still where it was, the graph
\* still complete, and its event the last of the trail when it reports it.
Due(w) ==
    LET t == w.task  now == row[t].state
    IN  /\ w.phase \notin {"idle", "recheck"} => now # Absent
        /\ w.phase \in {"add_plan", "save"} =>
              \/ w.op = "plan" /\ now = "planning" /\ w.moved.state = now
              \/ /\ w.op \in Operations /\ now \in Sources(w.op)
                 /\ w.moved = [row[t] EXCEPT !.state = Target(w.op)]
                 /\ w.op = "complete" => \A s \in Step : steps[t][s] = "completed"
        /\ w.phase = "event" =>
              \/ w.op = "plan"
              \/ w.op = "heartbeat" /\ now = "executing"
              \/ w.op \in Operations /\ now = Target(w.op)
              \/ /\ w.op \in StepOperations /\ w.step \in Step
                 /\ steps[t][w.step] = StepSource(w.op)
                 /\ w.op = "start_step" => Ready(t, w.step)
                 /\ w.op \in {"start_step", "release_step"} => now = "executing"
        /\ w.phase = "audit" =>
              IF w.op = "create" THEN trail[t] = <<>> /\ audit[t] = <<>>
              ELSE /\ trail[t] # <<>> /\ trail[t][Len(trail[t])].op = w.op
                   /\ \A i \in DOMAIN audit[t] : audit[t][i] < Len(trail[t])
                   /\ w.op \in Operations => now = Target(w.op)

DecisionsHold == \A c \in Caller : Due(call[c])

\* The audit never says what the trail does not: its rows report distinct events, each one
\* already written, in the order of the trail. A crash between the two writes leaves a gap,
\* and no retry writes a row twice (engine.py, "save, then event, then audit").
AuditFollowsTrail ==
    \A t \in Task : \A i \in DOMAIN audit[t] :
        /\ audit[t][i] <= Len(trail[t])
        /\ \A j \in 1 .. i - 1 : audit[t][j] < audit[t][i]

\* The stop of a task is a fact before it is a signal: when a tool can see it, the task has
\* ended and both the trail and the audit already say how.
StopIsRecorded ==
    \A t \in stop :
        /\ Ended(t)
        /\ \E i \in DOMAIN audit[t] : /\ audit[t][i] > 0
                                      /\ trail[t][audit[t][i]].op \in Operations
                                      /\ Target(trail[t][audit[t][i]].op) = row[t].state

\* A step that has started has every step it waits for behind it, and they stay completed:
\* whatever is released, stopped or closed late around it.
StepsInOrder ==
    \A t \in Task, s \in Step :
        steps[t][s] \in {"running", "completed", "failed"} =>
            \A d \in Deps[s] : steps[t][d] = "completed"

\* A task is COMPLETED only on a plan whose every step is, and a late closing cannot undo it.
CompletedMeansAllSteps ==
    \A t \in Task : row[t].state = "completed" => \A s \in Step : steps[t][s] = "completed"

\* The trail can always be folded: every event of a step finds the step where its operation
\* takes it from. One that did not would make every later read of the task raise.
TrailReplays ==
    \A t \in Task : \A i \in DOMAIN trail[t] :
        LET e == trail[t][i]
            earlier == {j \in 1 .. i - 1 : trail[t][j].step = e.step}
            last == CHOOSE j \in earlier : \A k \in earlier : k <= j
        IN  e.step # None =>
                StepSource(e.op) = IF earlier = {} THEN "pending"
                                   ELSE StepTarget(trail[t][last].op)

\* recover() fails only a task that was silent all along: no sign of life written between its
\* first look and its second is lost (the re-read under the lock), where the clock only goes on.
OrphansWereSilent ==
    ~ClockMayGoBack =>
        \A t \in Task : \A i \in DOMAIN trail[t] :
            trail[t][i].op = "recover" =>
                \A j \in 1 .. i - 1 : trail[t][j].at + OrphanAfter <= trail[t][i].at

\* One assignment puts its step back in play at most once, even when the step has been started
\* again since: the key is looked for in the whole trail, not in the state.
ReleasedOnce ==
    \A t \in Task : \A i, j \in DOMAIN trail[t] :
        /\ trail[t][i].op = "release_step"
        /\ trail[t][j] = [trail[t][i] EXCEPT !.at = trail[t][j].at]
        => i = j

\* What the trail says of a step is one story, however many released it, stopped it or closed it.
TrailIsOneStory == TrailReplays /\ ReleasedOnce

\* Where nothing failed on the way, the fall of a step has taken down everything that waits for
\* it, however far, by the time the lock of the task is free; and the last move in the trail
\* says where the task stands.
NothingHalfDone ==
    faults = 0 /\ ~ClockMayGoBack =>
        \A t \in Task : lock[t] = None =>
            /\ \A s \in Step : \A d \in Deps[s] :
                  \/ steps[t][d] = "failed"
                  \/ /\ steps[t][d] = "cancelled"
                     /\ \A i \in DOMAIN trail[t] :
                           trail[t][i].step = d => trail[t][i].op # "stop_step"
                  => steps[t][s] # "pending"
            /\ \A i \in DOMAIN trail[t] :
                  /\ trail[t][i].op \in Operations
                  /\ \A j \in i + 1 .. Len(trail[t]) : trail[t][j].op \notin Operations
                  => row[t].state = Target(trail[t][i].op)

\* Nothing starts, and nothing goes back in play, in a task that is over; and once a task has
\* ended no event says it moved again.
NothingAfterTheEnd ==
    [][\A t \in Task : \A i \in Len(trail[t]) + 1 .. Len(trail'[t]) :
          /\ trail'[t][i].op \in {"start_step", "release_step", "heartbeat"} => ~Ended(t)
          /\ trail'[t][i].op \in Operations =>
                row[t].state = Target(trail'[t][i].op)]_vars

\* A reader of the state of the tasks sees the life cycle and nothing else.
State == INSTANCE TaskLifecycle WITH state <- [t \in Task |-> row[t].state]
ImplementsLifecycle == State!Lifecycle
===============================================================================
