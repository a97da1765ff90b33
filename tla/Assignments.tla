------------------------------ MODULE Assignments ------------------------------
(***************************************************************************)
(* The work the Core hands to the nodes of the user. A run places a step   *)
(* on a node and leaves an offer; the node asks for work and claims it,    *)
(* acts, renews while it acts, and brings an envelope back; time, the stop *)
(* of the task and the revocation of the node may take the work away, and  *)
(* the next run releases the step or closes it from what the stores hold.  *)
(*                                                                         *)
(* A call is a request the Core is serving: it awaits between any two of   *)
(* its writes, and other calls run in between. A run, a claim, a delivery  *)
(* and the close of a stop hold the lock of the task; a renewal, a         *)
(* revocation and the stop itself do not. Each task has one step, of a     *)
(* capability no tool of the Core's machine offers.                        *)
(***************************************************************************)
EXTENDS Naturals, Sequences, FiniteSets, FiniteSetsExt

CONSTANTS
    Task,
    Node,
    Relocatable,   \* the tasks whose tool may be repeated on another machine
    TTL,           \* how long an offer or a sign of life is good for
    Cap,           \* the longest life of a claim, however often it is renewed
    DecisionTTL,   \* how long the permission decision behind an offer lives
    OrphanAfter,   \* the silence after which recover() fails an executing task
    None,
    MaxRows, MaxTime, MaxCrashes   \* bounds of the exploration

ASSUME AssignmentsAssumption ==
    /\ Relocatable \subseteq Task
    /\ TTL \in Nat \ {0} /\ Cap \in Nat /\ TTL <= Cap
    /\ DecisionTTL \in Nat \ {0}
    /\ OrphanAfter \in Nat /\ TTL < OrphanAfter
    /\ MaxRows \in Nat /\ MaxTime \in Nat /\ MaxCrashes \in Nat

VARIABLES
    now,
    up,         \* whether the process of the Core is serving
    task,       \* "queued", "executing" or "ended"
    seen,       \* the last event of the trail of each task
    step,       \* the state of the one step of each task
    placed,     \* the node the last STEP_STARTED of the step names
    rows,       \* the assignments table, in the order of the inserts
    released,   \* the assignments whose STEP_RELEASED is in the trail
    started,    \* the STARTED records of each step, by the assignment that wrote them
    outcomes,   \* the stored outcomes of each step, by assignment
    revoked,    \* the nodes the user revoked
    node,       \* the order each node holds, and the envelope it owes
    ran,        \* the assignments under which a tool of a node acted
    lock,       \* the call that holds the lock of each task
    call,       \* what each call has still to do
    crashes     \* crashes of the Core so far

world == <<now, up, crashes>>
records == <<released, started, outcomes>>
stores == <<task, seen, step, placed, rows, records>>
nodes == <<node, ran, revoked>>
vars == <<world, stores, nodes, lock, call>>

-------------------------------------------------------------------------------
(* Types *)

Id == 1 .. MaxRows

TaskStates == {"queued", "executing", "ended"}
StepStates == {"pending", "running", "completed", "failed", "cancelled"}
RowStates == {"offered", "claimed", "delivered", "expired", "withdrawn"}

Row == [task: Task, device: Node, state: RowStates, expires: Nat, claimed: Nat]

Envelopes == {"result", "refused"}
Hand == [order: Id \cup {None}, envelope: Envelopes \cup {None}]
Empty == [order |-> None, envelope |-> None]

Calls ==
    [kind: {"run", "stop"}, of: Task] \cup [kind: {"ask", "deliver", "renew", "revoke"}, of: Node]
RunOf(t) == [kind |-> "run", of |-> t]
StopOf(t) == [kind |-> "stop", of |-> t]
AskOf(d) == [kind |-> "ask", of |-> d]
DeliverOf(d) == [kind |-> "deliver", of |-> d]
RenewOf(d) == [kind |-> "renew", of |-> d]
RevokeOf(d) == [kind |-> "revoke", of |-> d]

ASSUME NoneIsNothing == None \notin Calls /\ None \notin Nat

\* What a call is about to do next.
Stages ==
    {"idle", "walk", "place", "execute", "offer", "lapse", "lapsed", "finish", "leave", "stopped",
     "close", "expire", "begin", "sign", "claim", "record", "gate", "store", "refuse", "mark",
     "renew", "cut"}

\* id: the assignment it is about; at: the instant it read; envelope: what it carries.
CallState == [pc: Stages, id: Id \cup {None}, at: Nat, envelope: Envelopes \cup {None}]
Idle == [pc |-> "idle", id |-> None, at |-> 0, envelope |-> None]

TypeOK ==
    /\ now \in 0 .. MaxTime
    /\ up \in BOOLEAN
    /\ task \in [Task -> TaskStates]
    /\ seen \in [Task -> 0 .. MaxTime]
    /\ step \in [Task -> StepStates]
    /\ placed \in [Task -> Node \cup {None}]
    /\ rows \in Seq(Row) /\ Len(rows) <= MaxRows
    /\ released \subseteq Id
    /\ started \in [Task -> SUBSET Id]
    /\ outcomes \in [Task -> SUBSET Id]
    /\ revoked \subseteq Node
    /\ node \in [Node -> Hand]
    /\ ran \subseteq Id
    /\ lock \in [Task -> Calls \cup {None}]
    /\ call \in [Calls -> CallState]
    /\ crashes \in 0 .. MaxCrashes

-------------------------------------------------------------------------------
(* What an assignment is now: derived on read *)

LeastOf(m, n) == IF m <= n THEN m ELSE n

Alive(r, n) == r.state \in {"offered", "claimed"} /\ r.expires > n

OfTask(t) == {i \in DOMAIN rows : rows[i].task = t}
Latest(t) == Max(OfTask(t))

Standing(t) ==
    LET r == rows[Latest(t)]
    IN  IF OfTask(t) = {} \/ r.state = "withdrawn" \/ Latest(t) \in released THEN "none"
        ELSE IF r.state = "delivered" THEN "delivered"
        ELSE IF Alive(r, now) THEN "live" ELSE "lapsed"

\* The partial unique index: one row of a step that has not EXPIRED.
Open(t) == {i \in OfTask(t) : rows[i].state # "expired"}

OfferedTo(d) ==
    {i \in DOMAIN rows : rows[i].device = d /\ rows[i].state = "offered" /\ rows[i].expires > now}

\* The node holds other work that was alive at instant n.
Busy(d, n) ==
    \E i \in DOMAIN rows :
        rows[i].device = d /\ rows[i].state = "claimed" /\ rows[i].expires > n

-------------------------------------------------------------------------------
(* Calls and locks *)

Free(t) == lock[t] = None

\* The request comes in: a call of its own, when it is not being served already.
Enter(c, pc, i, e) ==
    /\ up /\ call[c] = Idle
    /\ call' = [call EXCEPT ![c] = [pc |-> pc, id |-> i, at |-> now, envelope |-> e]]

At(c, pc) == up /\ call[c].pc = pc
Goto(c, pc) == call' = [call EXCEPT ![c].pc = pc]
Return(c) == call' = [call EXCEPT ![c] = Idle]
Take(c, t) == Free(t) /\ lock' = [lock EXCEPT ![t] = c]
Leave(c, t) == Return(c) /\ lock' = [lock EXCEPT ![t] = None]

SetRow(i, r) == rows' = [rows EXCEPT ![i] = r]
SetState(i, s) == SetRow(i, [rows[i] EXCEPT !.state = s])

\* Every write of the engine is an event of the trail, hence a sign of life.
Sign(t) == seen' = [seen EXCEPT ![t] = now]
SetStep(t, s) == step' = [step EXCEPT ![t] = s] /\ Sign(t)
SetTask(t, s) == task' = [task EXCEPT ![t] = s] /\ Sign(t)

-------------------------------------------------------------------------------
(* Closing the step a task that has ended left running *)

\* Mutant: a step is closed in a state the table of the steps does not have.
VerdictsStopped(t) ==
    CASE outcomes[t] # {} -> {"completed", "failed"}
      [] outcomes[t] = {} /\ started[t] # {} -> {"failed"}
      [] OTHER -> {"stopped"}

\* What the stores say of a step nobody is executing any more; the outcome of a tool may be a
\* success or a failure.
Verdicts(t) ==
    CASE outcomes[t] # {} -> {"completed", "failed"}
      [] outcomes[t] = {} /\ started[t] # {} -> {"failed"}
      [] OTHER -> {"cancelled"}

\* A node still holds it: its delivery, or its expiry, closes the step.
Held(t) == Standing(t) = "live" /\ rows[Latest(t)].state = "claimed"

\* close_open_step, under the lock c holds; the offer nobody took is withdrawn on the way.
CloseOpenStep(c, t) ==
    /\ At(c, "close")
    /\ IF step[t] # "running" \/ Held(t)
       THEN Leave(c, t) /\ UNCHANGED <<seen, step, rows>>
       ELSE /\ IF Standing(t) = "live" THEN SetState(Latest(t), "withdrawn") ELSE UNCHANGED rows
            /\ IF Standing(t) = "lapsed" /\ outcomes[t] = {}
               THEN Goto(c, "expire") /\ UNCHANGED <<seen, step, lock>>
               ELSE /\ \E v \in Verdicts(t) : SetStep(t, v)
                    /\ Leave(c, t)
    /\ UNCHANGED <<world, task, placed, records, nodes>>

\* close_lapsed: a renewal in between leaves the work alive, and the call raises.
CloseLapsed(c, t) ==
    /\ At(c, "expire")
    /\ IF Alive(rows[Latest(t)], now)
       THEN UNCHANGED <<seen, step, rows>>
       ELSE /\ SetState(Latest(t), "expired")
            /\ \E v \in Verdicts(t) : SetStep(t, v)
    /\ Leave(c, t)
    /\ UNCHANGED <<world, task, placed, records, nodes>>

-------------------------------------------------------------------------------
(* A run of the task: the walk of the runner, under the lock of the task *)

RunStarts(t) ==
    /\ step[t] = "running" \/ task[t] # "ended"
    /\ Enter(RunOf(t), "walk", None, None)
    /\ Take(RunOf(t), t)
    /\ UNCHANGED <<world, stores, nodes>>

\* One turn of the loop: where the step is, and where the work of a running one stands.
RunWalks(t) ==
    LET c == RunOf(t)
        stand == IF step[t] = "running" THEN Standing(t) ELSE "none"
    IN  /\ At(c, "walk")
        /\ \/ /\ task[t] = "ended"
              /\ Goto(c, "close") /\ UNCHANGED <<task, seen>>
           \/ /\ task[t] # "ended" /\ step[t] \in {"completed", "failed"}
              /\ SetTask(t, "ended") /\ Goto(c, "leave")
           \/ /\ task[t] # "ended" /\ step[t] \in {"pending", "running"}
              /\ Goto(c, CASE stand = "live" -> "leave"
                           [] stand = "lapsed" -> "lapse"
                           [] stand = "delivered" -> "finish"
                           [] stand = "none" -> "place")
              /\ UNCHANGED <<task, seen>>
        /\ UNCHANGED <<world, step, placed, rows, records, nodes, lock>>

\* The orchestrator chooses a node for a pending step and confirms the one of a running step.
\* The writes of an ended task are refused: the walk reads it again and closes.
RunPlaces(t) ==
    LET c == RunOf(t)
    IN  /\ At(c, "place")
        /\ \/ /\ task[t] = "ended"
              /\ Goto(c, "close") /\ UNCHANGED <<task, seen, step, placed>>
           \/ \E d \in Node \ revoked :
                 /\ task[t] # "ended" /\ (step[t] = "running" => d = placed[t])
                 /\ IF task[t] = "executing" /\ step[t] = "running"
                    THEN UNCHANGED <<task, seen>>
                    ELSE SetTask(t, "executing")
                 /\ step' = [step EXCEPT ![t] = "running"]
                 /\ placed' = [placed EXCEPT ![t] = d]
                 /\ Goto(c, "execute")
           \/ /\ task[t] # "ended"    \* no node is eligible: the task waits
              /\ IF task[t] = "executing" THEN SetTask(t, "queued") ELSE UNCHANGED <<task, seen>>
              /\ Goto(c, "leave") /\ UNCHANGED <<step, placed>>
        /\ UNCHANGED <<world, rows, records, nodes, lock>>

\* What a tool, here or there, has left in the store of results.
LeftBehind(t) == started[t] \cup outcomes[t] # {}

\* Executor.execute up to the assignment: what an earlier call left is resumed; the instant of
\* the offer is read, and the heartbeat of the task is written before the row.
RunExecutes(t) ==
    LET c == RunOf(t)
    IN  /\ At(c, "execute")
        /\ IF task[t] = "ended" \/ LeftBehind(t)
           THEN /\ Goto(c, IF task[t] = "ended" THEN "close" ELSE "finish")
                /\ UNCHANGED seen
           ELSE /\ call' = [call EXCEPT ![c].pc = "offer", ![c].at = now]
                /\ Sign(t)
        /\ UNCHANGED <<world, task, step, placed, rows, records, nodes, lock>>

OfferOf(t, n) ==
    [task |-> t, device |-> placed[t], state |-> "offered",
     expires |-> n + LeastOf(TTL, DecisionTTL), claimed |-> 0]

\* The insert of the offer, refused by the index when the step has an open row.
RunOffers(t) ==
    LET c == RunOf(t)
    IN  /\ At(c, "offer") /\ Len(rows) < MaxRows
        /\ rows' = IF Open(t) = {} THEN Append(rows, OfferOf(t, call[c].at)) ELSE rows
        /\ Goto(c, "leave")
        /\ UNCHANGED <<world, task, seen, step, placed, records, nodes, lock>>

\* lapse, first half: the expiry is written where time has decided; work a renewal brought back
\* in between is still alive, and the run raises.
RunLapses(t) ==
    LET c == RunOf(t)
        i == Latest(t)
    IN  /\ At(c, "lapse")
        /\ IF Alive(rows[i], now)
           THEN Leave(c, t) /\ UNCHANGED rows
           ELSE SetState(i, "expired") /\ Goto(c, "lapsed") /\ UNCHANGED lock
        /\ UNCHANGED <<world, task, seen, step, placed, records, nodes>>

\* lapse, second half: nothing in the store, and the step is released; else it is finished.
RunReleases(t) ==
    LET c == RunOf(t)
    IN  /\ At(c, "lapsed")
        /\ IF LeftBehind(t) \/ task[t] = "ended"
           THEN /\ Goto(c, IF LeftBehind(t) THEN "finish" ELSE "close")
                /\ UNCHANGED <<seen, step, released>>
           ELSE /\ SetStep(t, "pending")
                /\ released' = released \cup {Latest(t)}
                /\ Goto(c, "walk")
        /\ UNCHANGED <<world, task, placed, rows, started, outcomes, nodes, lock>>

\* Executor.finish: the second half alone, for what a node or a crash left in the store.
RunFinishes(t) ==
    LET c == RunOf(t)
    IN  /\ At(c, "finish")
        /\ \/ /\ task[t] = "ended"
              /\ Goto(c, "close") /\ UNCHANGED <<seen, step, lock>>
           \/ /\ task[t] # "ended" /\ LeftBehind(t) /\ step[t] = "running"
              /\ \E v \in Verdicts(t) : SetStep(t, v)
              /\ Goto(c, "walk") /\ UNCHANGED lock
           \/ /\ task[t] # "ended" /\ ~(LeftBehind(t) /\ step[t] = "running")
              /\ Leave(c, t) /\ UNCHANGED <<seen, step>>
        /\ UNCHANGED <<world, task, placed, rows, records, nodes>>

\* Mutant: the lock is released without reading the task again.
RunLeavesAtOnce(t) ==
    /\ At(RunOf(t), "leave")
    /\ Leave(RunOf(t), t)
    /\ UNCHANGED <<world, stores, nodes>>

\* The last act under the lock: the task is read again, and an ended one has its step closed.
RunLeaves(t) ==
    LET c == RunOf(t)
    IN  /\ At(c, "leave")
        /\ IF task[t] = "ended" THEN Goto(c, "close") /\ UNCHANGED lock ELSE Leave(c, t)
        /\ UNCHANGED <<world, stores, nodes>>

-------------------------------------------------------------------------------
(* The stop of the user: it does not wait for the lock, and closes if the lock is free *)

StopTask(t) ==
    /\ task[t] # "ended"
    /\ Enter(StopOf(t), "stopped", None, None)
    /\ SetTask(t, "ended")
    /\ UNCHANGED <<world, step, placed, rows, records, nodes, lock>>

CloseIfFree(t) ==
    LET c == StopOf(t)
    IN  /\ At(c, "stopped")
        /\ IF Free(t) THEN Take(c, t) /\ Goto(c, "close") ELSE Return(c) /\ UNCHANGED lock
        /\ UNCHANGED <<world, stores, nodes>>

-------------------------------------------------------------------------------
(* A node asks for work: the claim of the oldest offer, under the lock of its task *)

AskForWork(d) ==
    /\ d \notin revoked /\ node[d] = Empty /\ OfferedTo(d) # {}
    /\ LET i == Min(OfferedTo(d))
       IN  /\ Enter(AskOf(d), "begin", i, None)
           /\ Take(AskOf(d), rows[i].task)
    /\ UNCHANGED <<world, stores, nodes>>

\* Executor.begin: the offer of an ended task is withdrawn and its step closed; else the claim
\* reads the instant it will compare with, and refuses what it can see is not takeable.
BeginClaim(d) ==
    LET c == AskOf(d)
        i == call[c].id
        t == rows[i].task
        takeable == step[t] = "running" /\ rows[i].state = "offered" /\ rows[i].expires > now
    IN  /\ At(c, "begin")
        /\ IF task[t] = "ended" \/ takeable
           THEN /\ call' = IF task[t] = "ended" THEN [call EXCEPT ![c].pc = "close"]
                           ELSE [call EXCEPT ![c].pc = "sign", ![c].at = now]
                /\ UNCHANGED lock
           ELSE Leave(c, t)
        /\ UNCHANGED <<world, stores, nodes>>

\* The heartbeat of the claim: refused for a task that is not executing, and the request fails.
SignClaim(d) ==
    LET c == AskOf(d)
        t == rows[call[c].id].task
    IN  /\ At(c, "sign")
        /\ IF task[t] = "executing"
           THEN Sign(t) /\ Goto(c, "claim") /\ UNCHANGED lock
           ELSE Leave(c, t) /\ UNCHANGED seen
        /\ UNCHANGED <<world, task, step, placed, rows, records, nodes>>

\* The conditional UPDATE of the claim, at the instant the call read.
ClaimRow(d) ==
    LET c == AskOf(d)
        i == call[c].id
        n == call[c].at
    IN  /\ At(c, "claim")
        /\ IF rows[i].state = "offered" /\ rows[i].expires > n /\ ~Busy(d, n)
           THEN /\ SetRow(i, [rows[i] EXCEPT
                       !.state = "claimed", !.claimed = n, !.expires = n + TTL])
                /\ Goto(c, "record") /\ UNCHANGED lock
           ELSE Leave(c, rows[i].task) /\ UNCHANGED rows
        /\ UNCHANGED <<world, task, seen, step, placed, records, nodes>>

\* Whether the claim leaves a STARTED record: the tool cannot be repeated on another machine.
NeedsRecord(t) == t \notin Relocatable

\* The STARTED record of a tool that is not relocatable, unique for the step; then the order
\* goes out in the answer, which the network may lose.
SendOrder(d) ==
    LET c == AskOf(d)
        i == call[c].id
        t == rows[i].task
    IN  /\ At(c, "record")
        /\ \/ /\ NeedsRecord(t) => started[t] = {}
              /\ started' = IF NeedsRecord(t) THEN [started EXCEPT ![t] = {i}] ELSE started
              /\ \/ UNCHANGED node
                 \/ node[d] = Empty /\ node' = [node EXCEPT ![d].order = i]
           \/ NeedsRecord(t) /\ started[t] # {} /\ UNCHANGED <<started, node>>
        /\ Leave(c, t)
        /\ UNCHANGED <<world, task, seen, step, placed, rows, released, outcomes, ran, revoked>>

-------------------------------------------------------------------------------
(* The node: it acts on the order it holds, however late, and keeps the envelope in memory *)

\* A tool may refuse the decision before it acts.
NodeActs(d) ==
    /\ node[d].order # None /\ node[d].envelope = None
    /\ \E e \in Envelopes :
        /\ node' = [node EXCEPT ![d].envelope = e]
        /\ ran' = IF e = "result" THEN ran \cup {node[d].order} ELSE ran
    /\ UNCHANGED <<world, stores, revoked, lock, call>>

NodeCrashes(d) ==
    /\ node[d] # Empty
    /\ node' = [node EXCEPT ![d] = Empty]
    /\ UNCHANGED <<world, stores, ran, revoked, lock, call>>

\* The answer of a delivery: the node lets the envelope go when it hears it, and keeps it to be
\* delivered again when the answer is lost.
Answer(c) ==
    \/ UNCHANGED node
    \/ node[c.of].order = call[c].id /\ node' = [node EXCEPT ![c.of] = Empty]

-------------------------------------------------------------------------------
(* A node brings the work back: Executor.deliver, under the lock of the task *)

DeliverWork(d) ==
    LET i == node[d].order
    IN  /\ d \notin revoked /\ node[d].envelope # None
        /\ Enter(DeliverOf(d), "gate", i, node[d].envelope)
        /\ Take(DeliverOf(d), rows[i].task)
        /\ UNCHANGED <<world, stores, nodes>>

\* Mutant: any delivery for a step that is still running is taken.
InTimeWhileRunning(i) == step[rows[i].task] = "running"

\* Whether the delivery of row i may go on at this instant, or is late, or about work that is
\* closed or not this node's any more.
InTime(i) ==
    rows[i].state = "claimed" /\ rows[i].expires > now /\ step[rows[i].task] = "running"

\* The same envelope a second time, while there is something left to complete.
Again(i) == rows[i].state = "delivered" /\ step[rows[i].task] = "running"

\* Mutant: a refusal is marked as delivered before it fails the step.
AfterGateMarked(e) == IF e = "refused" THEN "mark" ELSE "store"

\* What is written before the mark: the outcome, or the end of the step that was refused.
AfterGate(e) == IF e = "refused" THEN "refuse" ELSE "store"

\* The gate: one instant serves it and the writes after it.
PassGate(d) ==
    LET c == DeliverOf(d)
        i == call[c].id
    IN  /\ At(c, "gate")
        /\ IF InTime(i) \/ Again(i)
           THEN /\ call' = [call EXCEPT ![c].at = now, ![c].pc =
                      IF Again(i) THEN "close" ELSE AfterGate(call[c].envelope)]
                /\ UNCHANGED <<node, lock>>
           ELSE Answer(c) /\ Leave(c, rows[i].task)
        /\ UNCHANGED <<world, stores, ran, revoked>>

\* The outcome, under an id derived from the assignment, before the row says delivered.
StoreOutcome(d) ==
    LET c == DeliverOf(d)
        t == rows[call[c].id].task
    IN  /\ At(c, "store")
        /\ outcomes' = [outcomes EXCEPT ![t] = @ \cup {call[c].id}]
        /\ Goto(c, "mark")
        /\ UNCHANGED <<world, task, seen, step, placed, rows, released, started, nodes, lock>>

\* A refusal on the node fails the step, or cancels it when the task has ended; then the mark.
RefuseThere(d) ==
    LET c == DeliverOf(d)
        t == rows[call[c].id].task
    IN  /\ At(c, "refuse")
        /\ SetStep(t, IF task[t] = "ended" THEN "cancelled" ELSE "failed")
        /\ Goto(c, "mark")
        /\ UNCHANGED <<world, task, placed, rows, records, nodes, lock>>

\* The conditional UPDATE of the delivery, at the instant of the gate; where it does not apply
\* the node is told the work expired.
MarkDelivered(d) ==
    LET c == DeliverOf(d)
        i == call[c].id
    IN  /\ At(c, "mark")
        /\ IF rows[i].state = "claimed" /\ rows[i].expires > call[c].at
           THEN SetState(i, "delivered") /\ Goto(c, "close") /\ UNCHANGED <<node, lock>>
           ELSE Answer(c) /\ Leave(c, rows[i].task) /\ UNCHANGED rows
        /\ UNCHANGED <<world, task, seen, step, placed, records, ran, revoked>>

\* The second half: the step closes as one of this machine would, and the node is answered.
CloseDelivered(d) ==
    LET c == DeliverOf(d)
        t == rows[call[c].id].task
    IN  /\ At(c, "close")
        /\ IF step[t] = "running" THEN \E v \in Verdicts(t) : SetStep(t, v)
                                  ELSE UNCHANGED <<seen, step>>
        /\ Answer(c) /\ Leave(c, t)
        /\ UNCHANGED <<world, task, placed, rows, records, ran, revoked>>

-------------------------------------------------------------------------------
(* A node asks for more time: no lock *)

\* The expiry a renewal at instant n writes: a TTL more, up to the cap of the claim.
Renewed(r, n) == LeastOf(n + TTL, r.claimed + Cap)

\* The work is read with the instant; work that expired, or at its cap, is refused here.
AskForTime(d) ==
    LET i == node[d].order
    IN  /\ d \notin revoked /\ i # None /\ node[d].envelope = None
        /\ rows[i].state = "claimed" /\ rows[i].expires > now
        /\ Renewed(rows[i], now) > rows[i].expires
        /\ Enter(RenewOf(d), "sign", i, None)
        /\ UNCHANGED <<world, stores, nodes, lock>>

\* The heartbeat of the task, skipped for one that has ended.
SignUnlessEnded(t) == IF task[t] = "executing" THEN Sign(t) ELSE UNCHANGED seen

SignRenewal(d) ==
    LET c == RenewOf(d)
        t == rows[call[c].id].task
    IN  /\ At(c, "sign")
        /\ IF task[t] = "queued" THEN Return(c) ELSE Goto(c, "renew")
        /\ SignUnlessEnded(t)
        /\ UNCHANGED <<world, task, step, placed, rows, records, nodes, lock>>

\* The conditional UPDATE of the renewal, at the instant the call read.
RenewRow(d) ==
    LET c == RenewOf(d)
        i == call[c].id
        n == call[c].at
    IN  /\ At(c, "renew")
        /\ IF rows[i].state = "claimed" /\ rows[i].expires > n
           THEN SetRow(i, [rows[i] EXCEPT !.expires = Renewed(rows[i], n)])
           ELSE UNCHANGED rows
        /\ Return(c)
        /\ UNCHANGED <<world, task, seen, step, placed, records, nodes, lock>>

-------------------------------------------------------------------------------
(* The revocation of a node: no lock, two writes *)

RevokeNode(d) ==
    /\ Enter(RevokeOf(d), "cut", None, None)
    /\ revoked' = revoked \cup {d}
    /\ UNCHANGED <<world, stores, node, ran, lock>>

\* cut_short: every live assignment of the node expires now.
CutShort(d) ==
    LET c == RevokeOf(d)
    IN  /\ At(c, "cut")
        /\ rows' = [i \in DOMAIN rows |->
              IF rows[i].device = d /\ Alive(rows[i], now) THEN [rows[i] EXCEPT !.expires = now]
              ELSE rows[i]]
        /\ Return(c)
        /\ UNCHANGED <<world, task, seen, step, placed, records, nodes, lock>>

-------------------------------------------------------------------------------
(* Time, a crash of the Core and its next start *)

Tick ==
    /\ now < MaxTime
    /\ now' = now + 1
    /\ UNCHANGED <<up, crashes, stores, nodes, lock, call>>

Crash ==
    /\ up /\ crashes < MaxCrashes
    /\ up' = FALSE /\ crashes' = crashes + 1
    /\ lock' = [t \in Task |-> None]
    /\ call' = [c \in Calls |-> Idle]
    /\ UNCHANGED <<now, stores, nodes>>

\* Mutant: every executing task is an orphan at start-up.
OrphanBlind(t) == task[t] = "executing"

\* Whether recover() takes the task for an orphan: executing, and silent for too long.
Orphan(t) == task[t] = "executing" /\ seen[t] + OrphanAfter <= now

\* Start-up: recover() fails the orphans, then the open step of every ended task is closed.
StartUp ==
    LET ended == {t \in Task : task[t] = "ended" \/ Orphan(t)}
        closing == {t \in ended : step[t] = "running" /\ ~Held(t)}
        Closed(r, t) ==
            CASE Standing(t) = "live" -> [r EXCEPT !.state = "withdrawn"]
              [] Standing(t) = "lapsed" /\ outcomes[t] = {} -> [r EXCEPT !.state = "expired"]
              [] OTHER -> r
    IN  /\ ~up /\ up' = TRUE
        /\ task' = [t \in Task |-> IF t \in ended THEN "ended" ELSE task[t]]
        /\ seen' = [t \in Task |-> IF Orphan(t) \/ t \in closing THEN now ELSE seen[t]]
        /\ rows' = [i \in DOMAIN rows |->
              IF rows[i].task \in closing /\ i = Latest(rows[i].task)
              THEN Closed(rows[i], rows[i].task) ELSE rows[i]]
        /\ \E f \in [closing -> StepStates] :
              /\ \A t \in closing : f[t] \in Verdicts(t)
              /\ step' = [t \in Task |-> IF t \in closing THEN f[t] ELSE step[t]]
        /\ UNCHANGED <<now, crashes, placed, records, nodes, lock, call>>

-------------------------------------------------------------------------------
(* The specification *)

\* The Core has just begun to serve: the tasks as they are, the nodes that are gone.
Serving(at, tasks, gone) ==
    /\ now = at /\ up = TRUE
    /\ task = tasks
    /\ seen = [t \in Task |-> at]
    /\ step = [t \in Task |-> "pending"]
    /\ placed = [t \in Task |-> None]
    /\ rows = <<>>
    /\ released = {}
    /\ started = [t \in Task |-> {}]
    /\ outcomes = [t \in Task |-> {}]
    /\ revoked = gone
    /\ node = [d \in Node |-> Empty]
    /\ ran = {}
    /\ lock = [t \in Task |-> None]
    /\ call = [c \in Calls |-> Idle]
    /\ crashes = 0

Init == Serving(0, [t \in Task |-> "queued"], {})

Run(t) ==
    \/ RunStarts(t) \/ RunWalks(t) \/ RunPlaces(t) \/ RunExecutes(t) \/ RunOffers(t)
    \/ RunLapses(t) \/ RunReleases(t) \/ RunFinishes(t) \/ RunLeaves(t)

Claim(d) == AskForWork(d) \/ BeginClaim(d) \/ SignClaim(d) \/ ClaimRow(d) \/ SendOrder(d)

Deliver(d) ==
    \/ DeliverWork(d) \/ PassGate(d) \/ StoreOutcome(d) \/ RefuseThere(d) \/ MarkDelivered(d)
    \/ CloseDelivered(d)

Renew(d) == AskForTime(d) \/ SignRenewal(d) \/ RenewRow(d)

Revoke(d) == RevokeNode(d) \/ CutShort(d)

Close(t) ==
    \E c \in {RunOf(t), StopOf(t)} \cup {AskOf(d) : d \in Node} :
        /\ call[c].pc \in {"close", "expire"}
        /\ c.kind = "ask" => rows[call[c].id].task = t
        /\ CloseOpenStep(c, t) \/ CloseLapsed(c, t)

Next ==
    \/ \E t \in Task : Run(t) \/ StopTask(t) \/ CloseIfFree(t) \/ Close(t)
    \/ \E d \in Node :
          \/ Claim(d) \/ Deliver(d) \/ Renew(d) \/ Revoke(d)
          \/ NodeActs(d) \/ NodeCrashes(d)
    \/ Tick \/ Crash \/ StartUp

Spec == Init /\ [][Next]_vars

-------------------------------------------------------------------------------
(* Properties *)

\* recover() never fails as an orphan a task whose work is still out on a node.
NoOrphanHasWork ==
    [][\A t \in Task :
          ~up /\ task[t] = "executing" /\ task'[t] = "ended"
              => \A i \in OfTask(t) : ~Alive(rows[i], now)]_vars

\* A row says delivered only when the outcome is stored or the step is closed: the order of the
\* writes of a delivery, through any crash and any revocation in between.
DeliveredIsKept ==
    \A i \in DOMAIN rows :
        LET t == rows[i].task
        IN  rows[i].state = "delivered" =>
                i \in outcomes[t] \/ step[t] \notin {"pending", "running"}

\* A tool that cannot be repeated on another machine acts at most once for its step, however
\* many times the work lapses and is placed again.
ActsOnce ==
    \A t \in Task \ Relocatable : Cardinality(ran \cap OfTask(t)) <= 1

\* A step runs once as far as the Core is concerned: one stored outcome, never of work that was
\* released, and never of a step that is to be placed again.
OneOutcome ==
    \A t \in Task :
        /\ Cardinality(outcomes[t]) <= 1
        /\ outcomes[t] \cap released = {}
        /\ outcomes[t] # {} => step[t] # "pending"

\* A step is one piece of work, for the machines and for the Core.
DoneOnce == ActsOnce /\ OneOutcome

\* A step left running in a task that has ended, when nobody is serving a call that could close
\* it, has an assignment that is alive or lapsed: the next claim, delivery, run or start-up of
\* the Core finds it. The one exception is a tool that may be repeated, after a crash: a crash
\* between the placing of its step and the offer leaves nothing to find, and an earlier node that
\* delivers late holds the lock when the stop looks for it.
OpenStepIsFound ==
    \A t \in Task :
        /\ up /\ task[t] = "ended" /\ step[t] = "running" /\ Free(t) /\ call[StopOf(t)] = Idle
        /\ t \in Relocatable => crashes = 0
        => Standing(t) \in {"live", "lapsed"}

\* A revocation that was answered has brought the expiry of the work the node took to its own
\* instant: none of it is alive.
RevokedWorkIsOver ==
    \A d \in revoked :
        call[RevokeOf(d)] = Idle =>
            \A i \in DOMAIN rows :
                rows[i].device = d /\ rows[i].state = "claimed" => ~Alive(rows[i], now)
================================================================================
