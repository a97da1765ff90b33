# Formal models of ELA

ELA is a personal assistant: a Core process that plans the requests of its user into tasks, drives their
steps through tools on this machine or on other devices of the user, asks for approval where the policy says
so, keeps the money it spends under caps, and writes everything it did in an audit chain. This directory
holds TLA+ models of its parts, the TLC configurations that check them on small instances and the theorems
TLAPS proves of them for every instance.


## The system and its parts

One process, the Core, runs one asyncio event loop: every handler, every run of a task and every watch is a
coroutine of it, so two of them interleave only at an `await`. What survives is in SQLite, behind stores that
write one row, or one conditional `UPDATE`, at a time: there is no transaction that spans two stores, and a
crash may fall between any two of their writes. Other machines of the user are nodes: they poll the Core for
work and bring back envelopes over HTTP, and any answer may be lost.

| part | state it keeps | operations | what makes it correct |
| --- | --- | --- | --- |
| Task Engine (`tasks/engine.py`, `state_machine.py`) | the row of a task, its plan, its trail of `TaskEvent`s, the audit; in memory a lock per task and the stop signals | create, plan, the fourteen operations of the table, the six of the steps, heartbeat, recover | the life cycle of the table, agreement of row, trail, audit and signal under crashes, steps in the order of the graph, no false orphan |
| Task graph, ending, halt (`tasks/graph.py`, `ending.py`, `halt.py`) | nothing: folds of the trail | state of the steps, ready, to cancel, how a task ended, how a step was halted | the fold never raises on what the engine wrote; what is told of a halted step is true |
| Executor (`executive/executor.py`) with the Guardian (`permissions/`), the approvals and the grants | decisions, grants, STARTED records, outcomes, the verification in the audit | execute one step on the Core; begin and deliver it for a node; close an open step; close all at start-up | a tool acts at most once unless it may be repeated, only under a yes or a policy, never after a no; the records never contradict each other |
| Runner (`executive/runner.py`) and the routes of tasks (`api/tasks.py`, `api/approvals.py`) | the lock of run | run, stop, approve, deny, plan by hand, planning gesture, close if free | no step is left open with nobody to close it |
| Planner (`executive/planner.py`) | nothing of its own: the child that plans a task | plan, settle, stop_planning, settle at start-up | the parent ends up planned from what the model wrote, or ended with its child |
| Assignments (`executive/assignments.py`, `api/nodes.py`, `assignment_store.py`) and the node (`node/`) | the row of the work handed out; in the node, one envelope | offer, claim, renew, deliver, lapse, withdraw, cut short | one outcome per call, no double act, nothing of a revoked node, no orphan that works |
| Spending (`executive/spending.py`) | the month's ledger, which is the STARTED records; the budget of a session | foresee, reserve, settle | the month's cap and the session's reservation are never exceeded |
| Guided sessions (`executive/sessions.py`, `api/sessions.py`) | the room of live sessions, in memory | open, start, gesture, halt, relay, close, stop the gestures, close orphans | no call after the end, every call counted, no gesture outlives its session |
| Pages (`executive/pages.py`) | the page kept for each task, and its watch | leave, take, release, stopped | a page is closed once, and never under a step that took it |
| The user's windows (`infrastructure/machine/account.py`) | the window on the profile, the group to kill | window, shut, settle | one browser on the folder; a close answers what became of it; nothing is left after the stop |
| Devices (`devices/`) | the row of each node, enrolment codes | issue, enroll, announce, heartbeat, revoke, place | a code gives birth to one node, availability is the beat's, a revoked node gets nothing |
| Audit chain (`audit/`, `audit_log.py`) | the hash of each row on the one before | append, verify | append-only |
| API, companion, console, CLI, composition, providers, tools, machine, routing, context, perception | settings, clients, adapters | one request, one answer | outside these models except where a handler moves one of the parts above |

How they interact. A request of the user enters by a route, which either moves a task with the engine or
takes the lock of run and runs the task. The runner asks the orchestrator for a place for each step and calls
the executor, which asks the Guardian, waits for an approval as a state of the task (the request returns), or
acts: here, through a tool, or elsewhere, through an assignment a node will claim. Every act of the executor on
a task is an operation of the engine; the end of a task raises a signal that tools, pages and sessions listen
to. The Planner uses all of this for a child task, whose end it brings to the parent. At start-up the Core
calls `recover()`, closes the steps left open, closes the gestures left alive and settles the planning tasks,
in this order, before it serves.

What is hard. (1) A stop, an answer or a revocation does not take the lock of run: it lands between any two
writes of a run. (2) A crash falls between any two stores, and what is retried must complete the writes and
repeat no act. (3) What is read before an await is used after it: a grant, an offer, an instant of the clock,
the row of the parent. (4) Nodes are late: an outcome arrives after its work lapsed and went to another.
(5) Silence is not death: `recover()` fails tasks by the age of their last event. (6) Two calls fit the cap
when they ask, one when they act. `PROJECT.json` lists these at their lines.

## Plan

Modules in the order they are written. Each is parameterised by its tasks, callers and bounds, has one action
per write of the code, no `RECURSIVE` operator, and its properties as conjunctions of named parts, so that the
same formulas are checked by TLC and proved by TLAPS.

1. Done: `TaskTables`, `TaskLifecycle`, `TaskEngine` (everything else acts through the engine), with
   `TaskEngineProofs`.
2. Done: `Execution`, the local pipeline of a step; it takes the operations of the engine as they were shown
   to be, one atomic step for the row, and keeps as steps of their own the writes of the trail and of the
   audit that something else reads.
3. Done: `Assignments`, the same step on another machine.
4. Done: `Planning`, a task and the child that plans it, with `PlanningProofs`.
5. Done: `Sessions`, the room of a guided session, its gateway and its budget, over one reservation of the
   month, with its gestures, its process and the start-up, and `SessionsProofs`.
6. Done: `Devices`, codes, nodes, announcements at a revision and revocation, with the audit of each.
7. Done: `Pages`, the page kept between two steps, its watch against take and release, with `Windows`, the
   user's hand on the same profile, and `PagesProofs`.
8. Left: `TaskGraphs`, validation of a graph, ready and to-cancel as algorithms, against definitions by paths.

Abstract specifications: `TaskLifecycle` (refined by `TaskEngine`, checked and proved). Worth stating next:
one call of a tool as "asked, permitted, acted at most once, one outcome", refined by `Execution` and by
`Assignments`; a ledger that never exceeds its cap, refined by the month and by a session.

Theorems: done for `TaskEngine`, `Execution`, `Assignments`, `Devices`, `Planning`, `Sessions` and `Pages`:
every invariant and action property of their passing runs. Worth proving next: what `TaskGraphs` computes, for
every graph, once it is written.
## The Task Engine

`src/src/ela/tasks/engine.py` is the only writer of the life of a task. Every operation takes the lock of
its task (one `asyncio.Lock` per task id), reloads the task and its trail, checks the table of
`tasks/state_machine.py` and then makes its writes one after the other, each of them an await: the row of the
task, the `TaskEvent` of the trail, the row of the audit. The states of the steps are not stored: they are the
fold `tasks/graph.py` makes of the trail.

| module | what it holds |
| --- | --- |
| `TaskTables` | the states of a task and of a step, the legal transitions, and for each operation its sources, its target and whether it carries a key |
| `TaskLifecycle` | the abstract life cycle: created once, moved along the table, never out of a terminal state |
| `TaskEngine` | the engine: the calls of several coroutines, their writes, the crash and the failing store between any two, `recover()`, the cascade of a failed step, the stop signal, the clock |
| `MCTaskEngine` | the small instances TLC explores |
| `TaskEngineProofs` | the theorems |

State. `row` is the tasks table, `planned` the plans table, `trail` the events of each task, `audit` the audit
rows (each is the position in the trail of the event it reports), `asked` the expiry of the pending approval
of a task; `lock`, `call` and `stop` are what only the process knows: who holds the lock of a task, what each
coroutine has still to write, which stop signals are raised. `steps` is the fold of the trail, kept beside it
so that the guards need not compute it at every state; `TrailIsOneStory` checks that the two agree (`TrailReplays`) and that a
step is released once (`ReleasedOnce`).

Actions. A call (`Create`, `Plan`, `Heartbeat`, `Apply` for the fourteen operations of the table, `ApplyStep`
and `FailStep` for the six of the steps, `ResumeCascade`) takes the lock, makes all its checks and fills
`call`; then `AddPlan`, `Save`, `AppendEvent` and `AppendAudit` write one store each, and `AppendAudit` raises
the stop signal of a task that has ended and goes on with the cascade of a failed step. `RecoverScan` reads a
candidate under no lock and `RecoverCandidate` looks at it again under its lock. `StoreFails` ends a coroutine
at any write and lets the process go on; `Crash` loses every lock, call and signal. A call that is refused,
or that finds its work done, changes nothing and is not a step.

Bounds. `MaxTrail` events per task, `MaxTime` instants, `MaxFaults` crashes and failures; two coroutines are
enough for every race of the engine, since the lock admits one and the other is the one that waits. The trail
bound of each run was chosen so that the shortest counterexample of its mutants fits with room to spare: eight
events for a task that starts executing, with four steps; seven for a task from its creation, which is what
planning, queueing, starting, the two events of a step and the completion take, and one for its planning
child. One instant after the first is enough for a deadline to pass and for `recover()` to find a task silent.

| run | question |
| --- | --- |
| `engine_steps` | do the steps of one executing task, moved by two coroutines with two faults, stay in order, and do the trail, the audit and the stop signal agree? |
| `engine_life` | do two tasks, one the planning child of the other, follow the abstract life cycle, up to their end, and does `recover()` ever fail a task that has just given a sign of life? |

Proofs. `IInv` is the conjunction of the type invariant, `OneWriter`, `DecisionsHold`, `AbsentIsEmpty`,
`AuditFollowsTrail`, `StopIsRecorded`, `StepsInOrder` and `CompletedMeansAllSteps`. The last four are what a
reader of the stores wants, and none is inductive alone: a write is judged against what the call read
several steps before, so the invariant has to say that what it read still holds (`DecisionsHold`), which is
true because nobody else is in the middle of a write on the same task (`OneWriter`). The proof shows that
every call either takes the lock with something `Due` (`Claims`), or creates, or only looks (`Looks`), and
then that each of the four writes keeps each conjunct. It assumes `EngineAssumption` only: any set of tasks,
any acyclic graph of steps, any number of coroutines, any number of crashes and failures, any clock. The
refinement of `TaskLifecycle` and `NothingAfterTheEnd` follow from the same invariant. `OneWriter` and `DecisionsHold` are proved and
not run: no store shows them.

What the trail tells is a second invariant, `Story`, proved on top of the first. `TrailReplays` is not
inductive: an event is judged against the last one of its step, so the invariant says that the state of each
step is what that event leaves it in (`StepsFoldTheTrail`), and `Due` then gives the event its source.
`ReleasedOnce` and `OrphansWereSilent` need what the calls in hand read of the trail to be still so
(`CallsTell`), and the second also that nothing written, or about to be, is ahead of the clock
(`NothingAheadOfTheClock`), which a clock that may go back does not give. `NothingHalfDone` speaks of free
locks only; what goes on under a lock is `Settled`: the move that is in the row and not yet in the trail is
the event its holder writes next, and a pending step that waits for a fallen one is a descendant of the
failure its holder is taking down. Every set closed under "waits for" decides a descendant, so the proof needs
no induction on the graph; `NothingAheadOfTheClock` is why the cascade is never stopped by the clock, and
`StepsInOrder` why a step that goes back in play has nothing fallen behind it.

Known exception. A keyed operation that was cut after its save and is made again finds the task moved and no
event with its key, and is refused, where a row of the table of `docs/adr/0008-task-engine.md` says that the
retry is a no-op; another section of it and the tests side with the code, so it is a hazard here and not a
finding.


## Work on another machine: `Assignments`

One step of a task, of a capability that no tool of the Core offers. `rows` is the assignments table in the
order of its inserts, with its partial unique index (`Open`); `started` and `outcomes` are the execution
results, by the assignment that wrote them; `released` is the STEP_RELEASED events of the trail; `seen` is the
instant of the last event, which is what `recover()` reads. `node` is what each machine has in its memory: the
order it is working on and the envelope it owes. `call` is what each request the Core is serving has still to
do, and `at` in it the instant that request read, which later conditional updates use.

| actions | code |
| --- | --- |
| `RunStarts` … `RunLeaves` | a run of the task: place the step, offer it, wait; on work that lapsed, expire the row, then release the step or close it; on a delivery, finish it; the last look at the task when the lock goes |
| `AskForWork` … `SendOrder` | a node asks: the offer is read, the task signed, the row claimed by a conditional UPDATE, the STARTED record written, the order sent or lost |
| `DeliverWork` … `CloseDelivered` | an envelope comes back: the gate, the outcome, the mark on the row, the close of the step, each a write of its own |
| `AskForTime` … `RenewRow` | the node renews, never beyond `Cap` from its claim, and nobody holds the lock |
| `StopTask`, `CloseIfFree`, `RevokeNode`, `CutShort` | the two gestures that take no lock |
| `NodeActs`, `NodeCrashes`, `Tick`, `Crash`, `StartUp` | the tool on the node, its death with the envelope, time, the death of the Core and its next start with `recover()` |

Abstractions. One remote step per task; the verdict of the verification and whether a place can be found are
choices; a denial by the cap of the month at the claim and the conflict of two envelopes with one id and
different content are left out; `Executor.finish` and `close_open_step` are one step per write that the
properties tell apart. A node may be asked for what it did before at any later time, so messages are late,
lost and repeated.

Known exceptions. `assignments_revoke` is a violation run: a claim or a renewal writes a new expiry over the
one a revocation wrote meanwhile. At the very instant an expiry falls, a renewal that read the clock before it
revives work that had lapsed and whose node took other work: the code lets it happen, and no property here
denies it. A claim that raises because its task was stopped while it was being served, and a late delivery
refused at its gate, leave without a last look, against what `close_if_free` says of whoever holds the lock
(`api/tasks.py:400`): the step stays running behind its offer until the next request, which is what
`OpenStepIsFound` states. For a tool that may be repeated even that fails after a crash. If the Core died
between the placing of the step and its offer, the only rows are those of earlier nodes, released; one of them
that delivers late holds the lock when the stop looks for it, is refused, and leaves a running step with no
row to find it by, until a run or a start-up. `OpenStepIsFound` leaves that case out (its second conjunct), and
nothing else: of a tool that cannot be repeated it holds over any number of crashes.

| run | question | instance |
| --- | --- | --- |
| `assignments` | may a tool act twice, or one act have two outcomes (`DoneOnce`); is a delivered outcome ever lost; is a step ever left with nobody to close it; does the start-up take working nodes for orphans? | two instances in one run (1.6 million states): a tool that cannot be repeated, one node, a crash, from instant 0; a tool that can, two interchangeable nodes, no crash, from instant 1 |
| `assignments_revoke` | what the route of the revocation says | one node, one row |

Both instances have two rows and `MaxTime` 3; `OrphanAfter` is one more than `TTL`, the tightest the assumption
allows, and `Cap` one more than `TTL`, so that one renewal is cut by it. Two rows are the least in which work
lapses and is placed again; two nodes the least in which the late delivery is of somebody else. `MCAssignments`
keeps the two instances apart: the task of one has ended in the other and nothing more is asked of it
(`LeftAlone`, `CrashesWithT1`). `DoneOnce` is `ActsOnce` (a tool that cannot be repeated acts once) and `OneOutcome` (an
assignment stores one outcome).

Proofs. `AssignmentsProofs` proves the five properties of the run from one inductive invariant, in four parts.
`Typed` says which stages a call of each kind goes through, that it has read an instant which was and names a
row of the table, and that it holds the lock of a task exactly while it is `About` it. `Table` and `Records`
are what the stores say of a task to anybody, at any moment: only its last row can be anything but expired, a
released row is expired, an outcome or a STARTED record is of the last row and never of a released one. That is
what makes `DoneOnce` hold through lapses and late deliveries: an order leaves after its STARTED record, and a
row that has one is never placed again. It is inductive only with `Holders`, what each call under the lock has
made sure of and still relies on several writes later (that the row is still claimed before the mark, that the
step still runs before the outcome is stored). `Ends` is for the two properties about what is left behind.
`Signed` ties the expiry of a live row to the last sign of life of its task; with `TTL < OrphanAfter` it gives
`NoOrphanHasWork`, and it is the reason why the renewal must sign the task before it writes the row. `Tracked`
and `Caught` say who is there to close a step that runs with no row to find it by: with no crash, the run that
has just placed it or the delivery about to close it; after one, for a tool that cannot be repeated, whoever is delivering or looking. The second
is false of a tool that may be repeated, which is how the exception above was met.

The proof assumes `AssignmentsAssumption` and `NoneIsNothing` only: any tasks, any nodes, any bounds. TLC
checked `IInv` before it was proved: on a tool that cannot be repeated with a crash (2.2 million states), on
one that may be with a crash (3.2 million) and, in part, with two nodes.

## One step on the Core: `Execution`

`Executor.execute` from the question to the close of the step, under answers, stops, revocations and crashes.
`task` and `step` are the states the engine stores; `approvals` and `grants` the rows of the questions and of
the yes each one got; `policy` and `covered` the standing policy and the uses counted on it; `started` and
`outcomes` the execution results; `audit` only the events that somebody reads back; `acted` counts what the
tool really did, which no store knows; `stop` and `lock` are in memory. `Begin` writes the STARTED record and
the reservation of the month in one write, as `SqlExecutionResultStore.reserve` does; `Resume` … `CompleteStep`
are the writes after the act, each of them skipped when it is found done.

Abstractions. Time is three flags: a question is `late`, a grant is `old`, the policy is revoked, each by an
action that may happen whenever it can. The engine's own lock is `EngineFree`. `Recovered` fails any subset of
the executing tasks and expires what waits on a late question. One local step per task. The placement, the
cover of a guided session, the bell, the sensor events and PERMISSION_DECIDED are left out: none is read back
by this pipeline. The Guardian answers allowed, asks or denied by the flags of the task (`Asking`, `Policed`)
and may deny at any later attempt. A call costs at most the worst case it reserved, and there is one month. The
second "no" of the user to a task already denied changes nothing and is not a step.

Bounds. `MaxAsks` questions per step: three, because a yes, a no and a stale yes sent again need three.
`MaxCrashes`: two, one to cut the act and one to cut its recovery. Two surfaces answer one question. Two
spending tasks and a month that pays for one.

Fairness. The event loop serves every call it began (`Holder`, `Stopping`, `Answering`), which includes that a
tool returns, and the user starts the Core again after a crash. Nothing is assumed of the user: a task may
wait for an answer for ever, so the only liveness claimed is of a step whose task has ended.

Known exceptions, each a hazard without a property in `PROJECT.json`: a call that finds its question expired
raises an error the runner does not catch, and leaves without the last look at the task, so `NoStepLeftOpen`
is stated of the tasks whose questions do not expire; a tool that may be repeated has no STARTED
record, so when it acted and the process died before its outcome was stored, a stop closes its step as not
acted, and `HaltIsTrue` does not claim NOT_ACTED of a tool that may be repeated.

| run | question |
| --- | --- |
| `exec_once` | a tool that asks, cannot be repeated and hears the stop at a point: acts once and is audited once (`DoneOnce`), told truly, closed as stored, never left open |
| `exec_again` | either a tool that may be repeated under a policy that is revoked (each act under a yes, no act after a no), or two tasks that spend against one month that pays for one (`CapHolds`) |

Proofs. `ExecutionProofs` proves every safety property of the two runs, and `NoMeansNo`, from one inductive
invariant. It follows the holder of the lock of each task: where it is (`Pc`) says which of its writes are
done. `StepFollows` and `Recording` say so of the step and of the two records of a call, `Acting` of what the
tool did, `Telling`, `Failing` and `ToldOnce` of the audit: what is told is in the stores, and what is in the
stores and not told yet is still to come. None of the properties is inductive alone, because a crash can cut
after any write and the next call decides from the stores: `Acting` needs that a tool which cannot be repeated
acts after its STARTED record and that nobody calls it where there is one; `ToldOnce` needs to know which event
the holder is about to write. Consent is the second half. `Asked` says that a question is asked only where the
yes to each earlier one is spent or too old, `Permitted` that between the permission and the act the yes at
hand is the last one given (which is `NoMeansNo`), and `Spent` counts the acts against the yes that were spent
and the uses of the policy, with the call that has spent one and has not acted yet on the side of the acts
(which is `YesBehindEveryAct`). `Closing` is `NoStepLeftOpen`.

The proofs assume `NoneAssumption` and `ExecutionAssumption`: any tasks, any number of questions, crashes and
answers. `TheCapHolds` also assumes `IsFiniteSet(Task)`, since the ledger of the month is a sum over the tasks;
`SetLemmas` proves by an induction stated of a set, which the provers can instantiate, that such a sum changes
by as much as its one number that changed. `EndedStepCloses` is liveness and stays with TLC.


## A task and the child that plans it: `Planning`

The planning gesture creates a child of the task, plans it with the one step that calls the model, queues it
and runs it; the step asks the user first, because it spends. When the child ends — by its own run, an answer,
a stop, an expiry or a crash — `Planner.settle` brings the end to the parent: planned and queued with what the
model wrote, or denied, stopped or failed with it. Meanwhile the user may bring a plan by hand, run, stop,
and answer.

`row` and `stored` are the tasks and the plans tables of the two tasks (`engine.plan` writes both, so it is
two steps, `AddPlan` and `SavePlan`); `question` and `answer` are the last approval of the child and what its
stored outcome holds; `call` is what each request, and the start-up, has still to do, with the rows as it last
read them: `settle` reads the parent, then the child, then the outcome, and acts on what it read. A planning
gesture holds the lock of run of both tasks and a run that of its task; a plan by hand, a stop and an answer
hold none. Any other operation of the engine is one step: guards and row are under the lock of the engine
(`TaskEngine` shows what that takes). Ids matter: a plan by hand mints a new one at each request, those of the
Planner are derived from the task, so `PlanStored` accepts them again after a crash.

Abstractions. The run of the child is reduced to what ends it (`AskUser`, `EndBadly`, `CallModel`, `Resume`,
`Complete`, `Leave`), which `Execution` has in full; the run of the parent to its states. What the model
writes is a plan or a refusal (`planner.py` reads it with a total function). `Recover` fails any of the
executing tasks. A store that raises without the process dying is not modelled here: it cuts a request where
the crash does.

Fairness, for `EndIsSettled` only: every request is served to its end, and the Core is started again.

Known exceptions. A crash between `engine.plan` and `engine.queue` of the parent leaves it PLANNING with its
plan and no way on: `planning_stuck` shows it, and `EndIsSettled` and `PaidPlanIsKept` name it (`HalfAttached`). The
same cut in a plan by hand leaves a plan in the table that the next request, with its new id, is refused
against. A crash between the stop of the parent and that of its child leaves the child waiting for a yes
that pays for a plan nobody can attach any more, where `planner.py` (line 940) says that the question would be
stopped with its task; the start-up settles only children that have ended. The same question is left when the
child is created while the parent is being stopped or planned by hand. No property claims otherwise.

| run | question | instance |
| --- | --- | --- |
| `planning` | does every end of the child settle the parent (`EndIsSettled`), from what the model wrote and never over a plan it paid for (`PlanIsTheAnswer`), and never under a run (`NoWalkPulledBack`)? | two requests at once, five gestures, one crash |
| `planning_stuck` | is a parent ever left planning after its child has ended? Yes | one request, one crash |

Five gestures are a plan, an answer, a stop or a plan by hand, a run, and one of them again. A second request
is the least that races, and the start-up is a third caller.

Proofs. `PlanningProofs` proves the three safety properties of the run, for any requests, gestures and
crashes. Two of them follow from who may write what the parent gets from its child. A call that walks or
settles a child which has not been stopped or denied holds the lock of run of the child, or is the start-up
(`Mine`, in `Carries`), and of these there is one at a time (`MineIsOne`, from `Alone`): this is what makes
the three reads of `settle` good when it acts. `Ahead` says it of the plan: between the read that found the
parent unplanned and the writes of the plan and of the queue, nobody attached the plan of the model, so no run
began that the queue would pull back. `PaidIsOnItsWay` is the half of `PlanIsTheAnswer` about a plan the
user paid for: while it is not stored, and the parent not stopped, there is a call that settles, or the Core
is down and its start-up has still to look. `Tables` ties the two tables that `engine.plan` writes one after
the other, and `HandsAreOne` says that the plans by hand on their way are different ones, newer than those
stored: without it a request could find its plan in the table and take it for its own retry. `ParentStands`
lists what the state of the parent says of its plan and of the child. The steps are many and each changes
little, so the proof first says what any of them may do (a call goes on or ends, `Opens`, `Advances`; a row
moves, `RowsKept`, `Comes`, `ParentMoves`), and each conjunct is proved from that. Assumptions: those on the
bounds, and that `None` is none of the plans, rows and tasks. The liveness property, `EndIsSettled`, stays with TLC.

## A guided session: `Sessions`

A step whose tool lets a coding agent work: the tool opens a room on the reservation of its STARTED record,
launches a process and watches it. The process calls a model through ELA's gateway, which weighs every call
on what is left of the reservation (`spending.py`), and asks for gestures, each of which is a task of its own,
the child of the session's (`sessions.py`).

`tool` is where `BrowserGuidedTool` is, `usage` what it returned and `outcome` what was stored of it; `room` is
the in-memory `_Live` record; `calls` the calls of the gateway, `gestures` the child tasks with their number,
`following` the coroutines of a login between its two halves; `sweeper` is what each of the two loops over the
children (the close, and the route of the stop) has still to look at; `process` is on the machine and
outlives the Core.

| actions | code |
| --- | --- |
| `Refused` … `Store`, `EndParent` | the tool: before the room, opening, launching (spawn, then the pid file), watching, interrupting, the close in three parts (drop the record, stop the children, close the budget), the outcome |
| `Relay`, `Wake`, `Settle` | a call of the gateway: before the start's check it waits, then it is admitted against the budget or halts the session; settled at what it cost |
| `Ask`, `Create`, `Unplannable`, `Walk`, `Answer`, `Work`, `LoginGoesOn`, `LoginEnds` | a gesture from its number to its end; a login reads its page first, then takes a second number |
| `Stop`, `StopGestures`, `Look`, `Cancel` | the user's stop, and the children looked at one by one |
| `ListTools`, `AskPermission`, `ProcessEnds`, `Crash`, `StartUp` | the process, the death of the Core, and its start-up: `recover()`, `close_orphans`, `sweep`, in this order |

Bounds. Two calls of the gateway of at most 2 over a reservation of 2, so that two in flight do not both fit;
two looks, so that a login takes both; two crashes, the second of which may fall in a start-up.

Fairness, for `LaunchedSessionCloses`: the loop serves the tool and the calls it woke. The timer of the session
is one of the things the tool waits for, so nothing is assumed of the user, the model or the process.

Abstractions. The pipeline of a child is `Execution`'s: here a child asks, works and ends. Which tools a call
may name, its model and its cache are one choice of `Weigh`. The second session of another task, refused by
the room, is `Refused`.

Known exceptions, seen in the code and kept by the model, with no run of their own:

- `_stop_children` (`sessions.py:410`) reads a child alive and then cancels it; a child that ended in between
  makes the engine refuse, so `close` raises, the cost of the session is told as unknown (the reservation stays
  whole, which is safe) and the children it had not looked at live on, against the docstring of the port
  (`ports.py:3605`). `QuietAfterTheClose` excepts it.
- A gesture that has its number and no row yet when the close looks for the children survives its session;
  it asks the user before it works.
- The second half of a login may be made after the room was halted (`sessions.py:470`), where `guided.py`
  says that no gesture is made from there.
- A login that asks for no text counts a look of the yes and makes no child.
- A refusal before the room returns no usage, so the reservation of the month stays for a session that never
  began.
- The children of a parent that ends after the start-up looked at it live until the next one.
- A crash between the spawn of the process and its pid file leaves a process the sweep does not find:
  `StartUpLeavesNothing` speaks of a process whose pid was written.

| run | question |
| --- | --- |
| `sessions` | is every call charged in the ledger and within the yes, do the looks bound the children, does nothing work on the word of a closed session, does a start-up leave nothing of an ended one, does a launched session close? |

Proofs. `SessionsProofs` proves the four safety properties, for any cost, number of looks, calls and
crashes, under `SessionsAssumption`. The sum of the calls (`Tally`) is `SumFunctionOnSet` over the calls of a
session; `TallyMoves`, from the lemmas of `SetLemmas`, says how a step that changes one call changes it, and
`Money` bounds it by the cost the user said yes to while the gateway admits a call, then by the usage the tool
tells, which is what is stored. `YesCoversGestures` is not inductive: a login takes two numbers and makes its
second child later, after the room may have closed; `Numbers` counts, beside the numbers given, those the room
still owes to a login that goes on (`following`). For `QuietAfterTheClose`, `Looking` says that whoever works
on the word of the session while it closes is among those the close has still to look at, and `Closed` that
nobody is left after; a close that was refused is told by its usage (`Unknown`), as in the property. `Swept`
gives the order of the start-up, whose sweep of the processes comes after that of the children. `Unborn` and
`RoomOfTheTool` say where the tool is when a room is open. `LaunchedSessionCloses` is liveness and stays with TLC.

## The nodes of the user: `Devices`

A code the user mints gives birth to one node, on the machine that presents it. The node keeps its identity
in a file, comes up by reading its row (`GET /nodes/me`) and announcing itself at the revision it read
(`PUT /nodes/me`), reads again after one 412 and stops as a twin after a second; then it reports and works.

`codes` and `rows` are the tables of enrolments and of devices (`halves` is the sequence of what each revision
declared), `audit` what was appended about them, `files` the `node.json` of each folder, `procs` the processes
of the nodes, `serving` the requests the Core is serving, one transaction at a time: a request outlives the
client that sent it. `cut` keeps, for the properties, which writes never got their event.

| actions | code |
| --- | --- |
| `Issue`, `Lapse`, `Paste`, `ReadClock`, `Spend`, `NotSpent`, `Insert`, `TellBirth` | a code and the birth it pays for (`enrollment.py`, `enrollment_store.py`): the code is spent by a conditional UPDATE, then the row is inserted, then the audit is written |
| `Admit`, `Whoami`, `Heartbeat`, `ReadRow`, `Write`, `NotWritten`, `TellConflict`, `TellChange` | the requests of a node: the middleware, and the announcement with its read, its conditional UPDATE at a revision and its event |
| `AskRevoke`, `Mark`, `TellRevoked` | the revocation; what it does to the node's work is in `Assignments` |
| `StartKnown` … `Die` | a process: `join_or_read`, `coming_up`, the two 412s, silence, the window closed |
| `Breaks`, `Crash` | a transaction raises, the Core dies |

Bounds. `Budgets` says how often codes are minted or presented, processes start and announce, the user revokes
and something goes wrong, in one behaviour. The run starts either from nothing (two codes and a page, two
processes, one fault) or from one node enrolled, and then takes one of three budgets: two processes with four
announcements and a fault, three starts with no fault, or one process and two revocations. Two requests at once
are the least that race, four announcements what two processes need to meet twice.

`TwinMeansTwo` says that a process which stops as a twin had another beside it, or had a reading answered
without a revision (`blind`), the one exception.

Known exceptions, kept by the model and with no run of their own: a `GET` answered 5xx leaves the revision
unread (`runner.py:322`), so a process alone may announce twice at a stale revision and stop as a twin, where
`errors.py:31` says that a second process is announcing; an announcement answered 5xx leaves the node up without
having announced (`runner.py:340`); DEVICE_IDENTITY_CONFLICT is also written when a process's own announcement
outlived its timeout; a crash between a row and its event (a revocation, an announcement, a birth) leaves the
event unwritten for good, since the second try finds nothing to write; two announcements may be audited in the
other order than their revisions, so `audit` is a set; a lost answer to an enrolment, or a second process of
the same folder, leaves a row nobody speaks as and a code spent.

| run | question |
| --- | --- |
| `devices` | does a code give birth to one node and a folder keep the node it was given; does the audit tell what each revision of a row changed, unless its event was cut; does a process that calls itself a twin have one? |

Proofs. `DevicesProofs` proves the four properties of the run, for any number of machines, folders, processes,
codes and requests, under `NoneIsNothing` and `BudgetsAreNatural`. `OneNodeOfACode` needs to know who carries
an identity at every moment between the code and the file: the request that gives birth to the node, then the
process that writes it down, then the folder (`Carried`), one of them at a time (`CarriedOnce`), and that
whoever speaks as a node speaks from that folder (`SpokenFor`). `AuditTellsTheRow` is about the event a request
has still to write, so `Knows` says what the request knows of the row: that the row it read is the one of the
revision it expects, unless its write is bound to miss. `TwinMeansTwo` is the delicate one, since it speaks of
what other processes did while this one read and announced: `Reads` says that of a process nobody announces
beside, every unwritten announcement of somebody else expects a revision behind the one it read, at each point
between a reading and the answer to the announcement, so that no 412 can come twice. The invariant also has
`TypeOK`, `Staged` and `Waited` (who waits for which request) and `Unread`. TLC checked it on the 827,762
states of the run before it was proved.


## The page a task keeps, and the windows of the user: `Pages`, `Windows`

A step of a task may leave the page it worked on for the step right after it in the plan, which continues
there, often after a yes of the user. Two browsers: one empty for each page, one on the user's profile, whose
folder a single process may hold.

`walk` is where the run of each task is and the page in its hands; `kept` and `watch` are the room
(`pages.py`): the page it keeps for a task, for which step, and where its watch is; `pages` joins the tables of
the two adapters: an opening is counted before it is in the table (`starting`), a closing after it left it
(`shutting`). `question` and `grant` are what the watch reads of the consent; `stage` the stop of ELA.

On the folder of the profile the user also works by hand (`Windows`, which `Pages` extends and composes with the
pages): ELA starts a window for them to sign in, reads nothing of it, tells it to quit when the user asks for a
close or ELA stops, and kills its group once a grace is over. A browser has a main process and others it started,
its *kin*, which may outlive it and still name the folder. `win` is each window and its group; `group` and
`watched` the two fields the close of ELA reads; `other` a browser ELA did not start; `asker` the requests to
close, each with a grace of its own; `settling` the close of ELA.

| actions | code |
| --- | --- |
| `Begin`, `Ask`, `Grant`, `HearStop`, `Complete` | the run up to the tool's call, and after the verification (`Execution` has it in full) |
| `Take`, `Release`, `Open`, `Started`, `Loaded`, `Work`, `Fail`, `Closed`, `Offer` | the tool (`tools/browser.py`, `tools/account.py`) on the adapter: continue, or let the old page go and open one; every way out closes the page in hand |
| `Look`, `Looked`, `Expire`, `Gone` | the verifier's look, the deadline of a page nobody keeps, a closing that ends |
| `WatchLooks`, `WatchJudges`, `WatchWakes` | the room's watch: the question, then the grant, in two reads, then a minute of sleep |
| `Answer`, `Cancel`, `Lapse`, `Stop`, `Forget`, `CloseOnStop`, `Down` | the user, time, and the stop of ELA |
| `AskWindow`, `TakeFolder`, `Launch`, `Spawn`, `TellAtStop`, `Waited`, `ToldEnd` | the window (`account.py:1171`): the look at the folder, the launch that survives its caller, the wait for its end |
| `AskShut`, `LookShut`, `EndShut`, `DoubtShut`, `KillShut`, `Drop` | the close of a window: after the launch in flight, told once, its kin waited for; the last look, awaited, and then the kill past the grace |
| `NameShut`, `SignalShut`, `EndAnother`, `KillAnother`, `LeaveAnother` | the close of a browser ELA did not start: named, then killed by its pid alone, and not after the stop |
| `SettleTheWindow` (`SettlePages`, `SettleLaunch`, `SettleWindow`, `SettleDoubt`, `SettleKill`) | the close of ELA: the pages, the launch in flight, the last window and its group |
| `Exit`, `KinEnds`, `OtherStarts`, `OtherEnds` | the processes and the user |

Bounds. One task with any of four plans (a gesture on the page of a read; a continuation on the other browser;
two continuations; a continuation run before a step that opens, by its dependencies) beside one that reads on
the profile, so that both want the folder; three pages, taken in the order of their numbers. The windows are
checked in scenes of the same run, told apart by the initial state: two windows and a close, a window and two
closes, a browser of the user's beside a window or beside two closes, and one task that reads on the profile
beside a window and a close, or beside a browser and a close.

Fairness, for `EverythingEnds` (no page outlives its task, and a stop of ELA comes to its end): every wait of a
run is under the deadline of its tool or of its look, a watch sleeps a minute at most, a closing runs to its end
whoever waits for it, the stop closes what it finds, and a launch, the wait for a window and the close of ELA go
on when they can. A process that was told need not end: that the stop ends all the same rests on the kill past
the grace.

What the close of ELA does not wait for. `settle` (`account.py:1426`) takes the last window started and its
group. What an earlier window had started may still run then, if the window was told by a close whose request
went away or still waits, and ended, and another was opened: its lock is free, so the launch is let through. The property names
the exception (`g # settling.of`), as it names a window its user quit, of which the code waits for nothing.

What a close is answered. The look at the processes is a program of the system's that is awaited
(`account.py:932`), so its answer may be old, or missing, when the group is killed on it (`:1304` to `:1308`, and
`:1436` to `:1442` in the close of ELA): the look (`DoubtShut`, `SettleDoubt`) and the kill (`KillShut`,
`SettleKill`) are two steps, and so are the last naming of a browser ELA did not start and its kill. After its
kill a close may be answered `told` (`:1312`), when no look within its turns finds the folder free; the group is
then not let go. `ShutIsTrue` says what holds all the same. Of a browser answered `quit` or `killed` nothing
names the folder any more; `killed` is answered only if ELA sent its kill; and a window answered `quit` was cut
short by no kill, of another close or of the stop: how it ended is read, after the look, from what was done to it.
Four things it does not say, because the code does not keep them, and no run shows:

- a window may be answered `killed` though it had quit: a look that was old or not answered is followed by a kill
  that finds nothing (`killed` without `cut` in the model). `ports.py:2823` says that it did not quit in time;
- so two closes of one window may be answered `quit` and `killed`, one by a look that found nothing left, the
  other by such a kill. `account.py:1296` says "whoever asked a second time is answered the same", and
  `test_account_window.py:617` that it is "said the same to both", of a window that is alive when it is killed;
- a browser ELA did not start may be answered `quit` where another close killed it: who finds its pid gone
  (`:1353`) does not know why, there being no record like the `_killed` of the windows, while who killed it is
  answered `killed` (`:1380`). `ports.py:2821` says that it was told to quit, and did; a test accepts either
  (`test_account_window.py:819`);
- a window that was killed may be answered `told` (`account.py:1313`), of which `ports.py:2827` says that it was
  not killed.

A kill of the window by somebody else, which `returncode` shows as well (`:1305`), is not modelled: `killed` is
ELA's own. Nor is a pid that the system gives again.

`pages_yes` expects a violation. `PageRoom._until` (`pages.py:206`) answers that the time is over when the
question of the next step is granted and no grant of it is stored. The yes and the run that stores the grant
are two requests of the user, so the look of every minute may fall between them: the page is closed under a
yes that is good, and the step ends without a page, where the module's docstring says that the page is kept
until the grant is over. A second divergence has no run: `take` is given no step, so in a plan whose third
step continues from the first and runs before the second, it takes the page kept for the second, against
`ports.py:3453`. `OneCloser` asks that a page serve its task, not its step.

Proofs. `PagesProofs` proves the three safety properties and the types, for any tasks, plans of any length and
order, pages, windows and requests to close, under `PlansAssumption`, `NoneIsNothing` and `NoneIsNoWindow`.
`OneCloser` says that one of three closes a page; it is not inductive, since it does not say which, nor what a
hand-over finds. `Hands(t, p)` does, page by page while ELA is up: the room keeps the page exactly when the
browser holds it, a page held is not timed, one in use or offered is neither, one the verifier looks at may be
held but not timed, and a page that starts is in the hands of an opening. `Holding` says, over the stop too,
that a task has and keeps only pages it opened, and so that a step touches no page of another task; that is why
the proof of a step is about one task (`Runs`, `EachStays`). `BrowsersAreCounted` rests on `Alone`, the pages of
the profile and the windows on its folder together at most one, which a look at the folder and the step after
it keep because nothing waits between them; and on `LastOne` and `Settled`, what the close of ELA has seen the
end of at each of its steps: nothing starts behind it, and the window it waits for is the last one started.
For `ShutIsTrue` each close must not be overtaken by the window it ends: `Goes` says what any step at all may
do to a window (what is over stays over, its kin do not come back, and only a window of which something is left
can be cut short), `CutIsKilled` that whatever cut it short left its record, and `Asking` what a close has seen at
each of its steps. TLC checks the property on the 277,954 states of the run. `EverythingEnds` is liveness and stays with TLC.

Not modelled here: the gate and the boundary of a page, the gestures on it, the kill of the
drivers of pages past the grace of a stop (a page in flight just ends), and an expired question that raises (the
task just waits).

| run | question |
| --- | --- |
| `pages` | has every usable page exactly one who closes it, and its own task; is the profile held once; does anything run after the stop, and does the stop end; does any page outlive its task; is a close told that a browser ended only when nothing of it is left, and that it quit only when no kill cut it short? |
| `pages_yes` | does the room keep a page as long as the module says? No |

## What is checked, proved and neither

Checked by TLC, on the instances of the `.cfg` files: every property of every passing run, the refinement of
`TaskLifecycle`, and the liveness properties (`EndedStepCloses`, `EndIsSettled`,
`LaunchedSessionCloses`, `EverythingEnds`), which stay with TLC: the
proof system has neither fairness nor `ENABLED`. Three runs expect a violation
(`assignments_revoke`, `planning_stuck`, `pages_yes`): each checks a sentence of the
repository that the code does not keep, and `PROJECT.json` quotes it under "findings".

Proved by TLAPS, for every value of the constants: the theorems listed in `PROJECT.json`, all of them under
the named assumptions of the module they are about.

| module | proved | only model-checked |
| --- | --- | --- |
| `TaskEngine` | types, writers, audit, stop, order of the steps, completion, nothing after the end, one story per trail, nothing half done, silent orphans, refinement of `TaskLifecycle` | |
| `Execution` | every safety property, `NoMeansNo` | `EndedStepCloses` |
| `Assignments` | every property of the passing run | |
| `Devices` | every property | |
| `Planning` | every safety property of `planning` | `EndIsSettled` |
| `Sessions` | every safety property | `LaunchedSessionCloses` |
| `Pages`, `Windows` | every safety property of `pages` | `EverythingEnds` |

Facts that need an induction over data (what a recursive
function computes for every sequence) are out of reach of the installed provers; none is claimed.

Each property of a passing run has a mutant in the module it is about: an operator `...Xyz` beside the
definition it would replace, preceded by a comment that says which slip of the code it stands for. With the
mutant in place of the definition TLC finds the property violated under the same configuration.

Not modelled: the parts listed as `not_modelled` in `PROJECT.json`, each with its reason. Two kinds of
reason: there is no protocol (clients of outside services, adapters of the machine, wiring, read-only views,
pure tables), or the plan above has it next (`TaskGraphs`). Most lines of the repository are of the first
kind — records and their validation, interfaces and their documentation, the words of the interface, schemas
of the HTTP answers, drivers of the screen, the browser and the system — so the map covers the protocols and a
small share of the lines. Of the parts modelled in part, what is left out is: in the permission of a step, how
a row matches its arguments (the Guardian's answer is a choice); in the placement of a step, the ranking of
nodes and the probing of their tools; the row of this machine in the registry; in a session, its verifier and
its words; in a page, its gate, its boundary and the gestures on it. In four places a model allows what the code does not, or joins what it does in two steps, and no property rests
on it: a start-up whose `settle_all` raises serves in `Planning.Return`, where in the code it does not start
(`api/app.py:261`); the close of a session in `Sessions.Cancel` fails also on a gesture the other sweeper has
just cancelled, which the engine lets pass (`engine.py:1159`); `Devices.WriteFile` creates `node.json` and fills
it at once, where a death between the two leaves it empty (`node/state.py:119`); and `Devices.Heartbeat` leaves
out when a companion was last in contact (`devices/registry.py:326`). Nothing in these models is about the words ELA says, the arguments of a
capability, the paths it covers or the hashes of the audit.

To run a configuration: `tlc -workers 2 -config MCPlanning_gestures.cfg MCPlanning.tla`. To check the proofs:
`tlapm TaskEngineProofs.tla`, and the same for `SetLemmas`, `PlanningProofs`, `SessionsProofs`, `PagesProofs`,
`ExecutionProofs`, `DevicesProofs` and `AssignmentsProofs`. From nothing each of the last three takes between
four and eight minutes, `TaskEngineProofs` five, `PagesProofs` three, the others about one; a second call tries only what changed.
