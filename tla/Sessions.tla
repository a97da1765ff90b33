------------------------------- MODULE Sessions -------------------------------
(***************************************************************************)
(* One guided session: the tool of its step opens a room on the reserva-   *)
(* tion of the STARTED record, launches a process, and waits for its end,  *)
(* for the stop of its task, for a limit or for its seconds. The process   *)
(* calls a model through the gateway, which weighs each call on the        *)
(* reservation, and asks for gestures: child tasks the room creates, walks *)
(* and waits for. Around them the user answers and stops, and ELA dies and *)
(* starts again.                                                           *)
(*                                                                         *)
(* The pipeline of a child is Execution's; here it is whether the child    *)
(* asks, works and ends. What is in memory goes with a crash.              *)
(***************************************************************************)
EXTENDS Naturals, FiniteSets, FiniteSetsExt

CONSTANTS
    Amount,     \* the reservation: the cost the user said yes to
    MaxWorst,   \* what one call may cost at most
    Looks,      \* the gestures the user said yes to
    None, Unknown,
    MaxCalls, MaxCrashes   \* bounds of the exploration

ASSUME SessionsAssumption ==
    /\ Amount \in Nat /\ MaxWorst \in Nat \ {0} /\ Looks \in Nat
    /\ None \notin Nat /\ Unknown \notin Nat /\ None # Unknown
    /\ MaxCalls \in Nat /\ MaxCrashes \in Nat

VARIABLES
    up,         \* "down", the steps of the start-up, or "serving"
    crashes,
    parent,     \* the task of the session: "executing" or "ended"
    outcome,    \* what the stored outcome of the step says it cost
    tool,       \* where the tool of the session is; "gone" with the process that ran it
    usage,      \* what the tool returned: a cost, or that it is unknown
    room,       \* the room's record of the session, in memory
    asked,      \* the gestures the host of the session counted, in memory
    following,  \* the reads whose login goes on after them, in memory
    sweeper,    \* what each stop of the children has still to do, in memory
    calls,      \* the calls of the gateway: a crash leaves one in flight for good
    gestures,   \* the child task of each gesture
    process     \* the process of the session on the machine

core == <<up, crashes>>
step == <<parent, outcome>>
host == <<tool, usage, asked>>
children == <<gestures, following>>
vars == <<core, step, host, room, sweeper, calls, children, process>>

-------------------------------------------------------------------------------
(* Types *)

Call == 1 .. MaxCalls
Gesture == 1 .. Looks + 1

Booting == {"orphans", "sweeping"}
ToolSteps == {"called", "opened", "launching", "watching", "interrupting", "ended",
              "closing", "returned", "stored", "gone"}

Rooms == [live : BOOLEAN, halted : BOOLEAN, checked : BOOLEAN, passed : BOOLEAN, looks : 0 .. Looks + 1]
Shut == [live |-> FALSE, halted |-> FALSE, checked |-> FALSE, passed |-> FALSE, looks |-> 0]

\* waiting for the check of the start, in flight at its worst case, or over at what it counts:
\* nothing when it was refused.
CallStates == [pc : {"unused", "waiting"}] \cup [pc : {"flying"}, worst : 1 .. MaxWorst]
                \cup [pc : {"over"}, counted : 0 .. MaxWorst]
SettledWithNothing(counted) == [pc |-> "over", counted |-> None]
Settled(counted) == [pc |-> "over", counted |-> counted]

\* making: the number is taken and the child is not written; born: it is, up to its decision;
\* covered and approved: its tool works, on the word of the session or on a yes; found: the read of
\* a login found its form; over: it completed, failed, was denied or stopped, or never was a child.
Running == {"covered", "approved"}
Living == {"born", "waiting"} \cup Running
GestureStates == [kind : {"read", "act"}, state : {"none", "making", "found", "over"} \cup Living]
NoGesture == [kind |-> "read", state |-> "none"]
Over == [kind |-> "read", state |-> "over"]

\* due: the route of a stop has still to come here; todo: the children to be looked at; at: the one
\* that was found alive.
Sweepers == {"close", "stop"}
Resting == [due |-> FALSE, todo |-> {}, at |-> None]

TypeOK ==
    /\ up \in {"down", "serving"} \cup Booting /\ crashes \in 0 .. MaxCrashes
    /\ parent \in {"executing", "ended"} /\ outcome \in Nat \cup {Unknown, None}
    /\ tool \in ToolSteps /\ usage \in Nat \cup {Unknown, None} /\ asked \in 0 .. Looks + 2
    /\ room \in Rooms
    /\ sweeper \in [Sweepers -> [due : BOOLEAN, todo : SUBSET Gesture, at : Gesture \cup {None}]]
    /\ calls \in [Call -> CallStates]
    /\ gestures \in [Gesture -> GestureStates] /\ following \subseteq Gesture
    /\ process \in {"none", "spawned", "written", "dead"}

Init ==
    /\ up = "serving" /\ crashes = 0
    /\ parent = "executing" /\ outcome = None
    /\ tool = "called" /\ usage = None /\ asked = 0
    /\ room = Shut
    /\ sweeper = [w \in Sweepers |-> Resting]
    /\ calls = [c \in Call |-> [pc |-> "unused"]]
    /\ gestures = [n \in Gesture |-> NoGesture] /\ following = {}
    /\ process = "none"

Serving == up = "serving"
Alive(n) == gestures[n].state \in Living
Halted == [room EXCEPT !.halted = @ \/ room.live]

-------------------------------------------------------------------------------
(* The budget *)

Counted(c) ==
    CASE calls[c].pc = "over" -> calls[c].counted
      [] calls[c].pc = "flying" -> calls[c].worst
      [] OTHER -> 0
Tally == MapThenSumSet(Counted, Call)

FitsTheSpent(w) ==
    MapThenSumSet(Counted, {c \in Call : calls[c].pc = "over"}) + w <= Amount
Fits(w) == Tally + w <= Amount

\* admit: a call that is refused halts the session. What is wrong with it beside its cost (its
\* tools, its model, its max_tokens, the cache) is one choice.
Weigh(c) ==
    \/ \E w \in 1 .. MaxWorst :
        /\ room.passed /\ Fits(w)
        /\ calls' = [calls EXCEPT ![c] = [pc |-> "flying", worst |-> w]]
        /\ UNCHANGED room
    \/ calls' = [calls EXCEPT ![c] = Settled(0)] /\ room' = Halted

\* relay: the token is the room's, so nobody is heard before the session opens or after it closed;
\* a call before the check of the start waits for it, and for its thirty seconds at most.
Relay(c) ==
    /\ Serving /\ process = "written" /\ room.live
    /\ calls[c].pc = "unused" /\ \A d \in 1 .. c - 1 : calls[d].pc # "unused"
    /\ IF room.checked THEN Weigh(c)
       ELSE calls' = [calls EXCEPT ![c] = [pc |-> "waiting"]] /\ UNCHANGED room
    /\ UNCHANGED <<core, step, host, sweeper, children, process>>

Wake(c) ==
    /\ Serving /\ calls[c].pc = "waiting" /\ Weigh(c)
    /\ UNCHANGED <<core, step, host, sweeper, children, process>>

\* settle: the cost the provider said, at most the worst case; the worst case when nobody knows;
\* nothing when it was never sent. Once the budget is closed no call is in flight any more.
Settle(c) ==
    /\ Serving /\ calls[c].pc = "flying" /\ tool # "gone"
    /\ \E cost \in 0 .. calls[c].worst :
        calls' = [calls EXCEPT ![c] = Settled(cost)]
    /\ UNCHANGED <<core, step, host, room, sweeper, children, process>>

-------------------------------------------------------------------------------
(* The tool *)

At(pc) == Serving /\ tool = pc
Return(u) == tool' = "returned" /\ usage' = u

\* Refused before the room: the outcome has no usage. Refused by the room, whose place another
\* task's session holds: it says that nothing was sent.
Refused ==
    /\ At("called") /\ \E u \in {Unknown, 0} : Return(u)
    /\ UNCHANGED <<core, step, asked, room, sweeper, calls, children, process>>

Open ==
    /\ At("called") /\ tool' = "opened" /\ room' = [Shut EXCEPT !.live = TRUE]
    /\ UNCHANGED <<core, step, usage, asked, sweeper, calls, children, process>>

\* The point of no return: a stop that was raised before it is heard here.
Launch ==
    /\ At("opened") /\ parent = "executing" /\ tool' = "launching"
    /\ UNCHANGED <<core, step, usage, asked, room, sweeper, calls, children, process>>

Spawn ==
    /\ At("launching") /\ process = "none" /\ process' = "spawned"
    /\ UNCHANGED <<core, step, host, room, sweeper, calls, children>>

WritePid ==
    /\ At("launching") /\ process = "spawned" /\ process' = "written" /\ tool' = "watching"
    /\ UNCHANGED <<core, step, usage, asked, room, sweeper, calls, children>>

LaunchFails ==
    /\ At("launching") /\ process' = "dead" /\ tool' = "ended"
    /\ UNCHANGED <<core, step, usage, asked, room, sweeper, calls, children>>

TimeIsNeverUp == FALSE
TimeIsUp == TRUE   \* the seconds of the session may be over at any moment
EndHeard == process = "dead" \/ parent = "ended" \/ room.halted \/ TimeIsUp

\* ELA's word first: whatever else ended in the same instant, the room hears it, and the process
\* is interrupted unless it is over.
Watch ==
    /\ At("watching") /\ EndHeard
    /\ room' = IF process = "dead" /\ parent = "executing" THEN room ELSE Halted
    /\ tool' = IF process = "dead" THEN "ended" ELSE "interrupting"
    /\ UNCHANGED <<core, step, usage, asked, sweeper, calls, children, process>>

\* The interrupt, the end of the input and, past the grace, SIGKILL.
Interrupt ==
    /\ At("interrupting") /\ process' = "dead" /\ tool' = "ended"
    /\ UNCHANGED <<core, step, usage, asked, room, sweeper, calls, children>>

\* After the end of the process; or before the launch, when the task was stopped or the router would
\* choose another model now. A call woken by the check of the start is weighed in the next turn of the loop, long before the
\* end of the process that made it. The room drops its record: nobody hears or halts it any more.
BeginClose ==
    /\ At("ended") \/ At("opened")
    /\ ~(room.passed /\ \E c \in Call : calls[c].pc = "waiting")
    /\ tool' = "closing"
    /\ room' = [Shut EXCEPT !.checked = TRUE, !.looks = room.looks]
    /\ sweeper' = [sweeper EXCEPT !["close"].todo = 1 .. room.looks]
    /\ asked' = 0   \* its host is never called again
    /\ UNCHANGED <<core, step, usage, calls, children, process>>

FinishClose ==
    /\ At("closing") /\ sweeper["close"] = Resting
    /\ Return(Tally)
    /\ calls' = [c \in Call |-> IF calls[c].pc = "flying" THEN Settled(calls[c].worst) ELSE calls[c]]
    /\ UNCHANGED <<core, step, asked, room, sweeper, children, process>>

Store ==
    /\ At("returned") /\ tool' = "stored" /\ outcome' = usage
    /\ UNCHANGED <<core, parent, usage, asked, room, sweeper, calls, children, process>>

\* The step closes and its task ends; of a session that a crash cut, the next run closes the step.
EndParent ==
    /\ Serving /\ tool \in {"stored", "gone"} /\ parent = "executing" /\ parent' = "ended"
    /\ UNCHANGED <<core, outcome, host, room, sweeper, calls, children, process>>

-------------------------------------------------------------------------------
(* The gestures *)

Taken(n, kind) == gestures' = [gestures EXCEPT ![n] = [kind |-> kind, state |-> "making"]]
Moves(n, state) == gestures' = [gestures EXCEPT ![n].state = state]
Ends(n) == gestures' = [gestures EXCEPT ![n] = Over]

\* What the session costs its yes: a login is the reading of its page, and the login.
CostOfAnyOne(kind) == 1
Cost(kind) == IF kind = "login" THEN 2 ELSE 1

\* The model asks for a gesture, in an answer of the provider. The host counts it, and the one
\* past the looks halts the session; the room numbers it unless ELA is ending the session.
Ask(kind) ==
    /\ Serving /\ process = "written" /\ tool \in {"watching", "interrupting"}
    /\ \E c \in Call : calls[c].pc \in {"flying", "over"}
    /\ asked <= Looks /\ asked' = asked + Cost(kind)
    /\ LET number == room.looks + 1
       IN  CASE asked' > Looks -> room' = Halted /\ UNCHANGED children
             [] asked' <= Looks /\ room.halted -> UNCHANGED <<room, children>>
             [] OTHER ->
                  /\ number \in Gesture /\ room' = [room EXCEPT !.looks = number]
                  /\ \/ kind # "login" /\ Taken(number, kind) /\ UNCHANGED following
                     \/ kind = "login" /\ Taken(number, "read") /\ following' = following \cup {number}
                     \/ kind = "login" /\ Ends(number) /\ UNCHANGED following
    /\ UNCHANGED <<core, step, tool, usage, sweeper, calls, process>>

\* The room writes the child, then its plan: nothing is looked at again in between.
Create(n) ==
    /\ Serving /\ gestures[n].state = "making" /\ Moves(n, "born")
    /\ UNCHANGED <<core, step, host, room, sweeper, calls, following, process>>

Unplannable(n) ==
    /\ Serving /\ gestures[n].state = "born" /\ tool # "gone" /\ Ends(n)
    /\ UNCHANGED <<core, step, host, room, sweeper, calls, following, process>>

\* attest: a read is covered by its session, at the moment it is decided.
CoveredUntilHalted(n) == gestures[n].kind = "read" /\ ~room.halted
Covered(n) == gestures[n].kind = "read" /\ room.live /\ ~room.halted

Walk(n) ==
    /\ Serving /\ gestures[n].state = "born"
    /\ Moves(n, IF Covered(n) THEN "covered" ELSE "waiting")
    /\ UNCHANGED <<core, step, host, room, sweeper, calls, following, process>>

\* The user answers, in their own time; a no and a question that expired end the child.
Answer(n) ==
    /\ Serving /\ gestures[n].state = "waiting"
    /\ Moves(n, "approved") \/ Ends(n)
    /\ UNCHANGED <<core, step, host, room, sweeper, calls, following, process>>

Work(n) ==
    /\ Serving /\ gestures[n].state \in Running
    /\ Ends(n) \/ (n \in following /\ Moves(n, "found"))
    /\ UNCHANGED <<core, step, host, room, sweeper, calls, following, process>>

\* After the read of its page a login takes its second number; or ends, with no form, with a read
\* that ended otherwise, or with one that still asks in a session that is over.
LoginGoesOn(n) ==
    /\ Serving /\ gestures[n].state = "found" /\ following' = following \ {n}
    /\ LET number == room.looks + 1
       IN  /\ number \in Gesture /\ room' = [room EXCEPT !.looks = number]
           /\ gestures' = [gestures EXCEPT ![n] = Over, ![number] = [kind |-> "act", state |-> "making"]]
    /\ UNCHANGED <<core, step, host, sweeper, calls, process>>

LoginEnds(n) ==
    /\ Serving /\ n \in following /\ following' = following \ {n}
    /\ gestures[n].state = "over" \/ (~room.live /\ gestures[n].state = "waiting")
    /\ UNCHANGED <<core, step, host, room, sweeper, calls, gestures, process>>

-------------------------------------------------------------------------------
(* The stop of the user, and the stop of the children *)

Stop ==
    /\ Serving /\ parent = "executing" /\ parent' = "ended"
    /\ sweeper' = [sweeper EXCEPT !["stop"].due = TRUE]
    /\ UNCHANGED <<core, outcome, host, room, calls, children, process>>

\* The route of the stop comes to the room after the end is written; a session that is over has no children here.
StopGestures ==
    /\ Serving /\ sweeper["stop"].due
    /\ room' = Halted
    /\ sweeper' = [sweeper EXCEPT !["stop"].due = FALSE,
                                 !["stop"].todo = IF room.live THEN 1 .. room.looks ELSE {}]
    /\ UNCHANGED <<core, step, host, calls, children, process>>

\* The children are looked at one by one, in their order; one that is not written is passed over.
Look(w) ==
    /\ Serving /\ sweeper[w].todo # {} /\ sweeper[w].at = None
    /\ LET n == Min(sweeper[w].todo)
       IN  sweeper' = [sweeper EXCEPT ![w].todo = @ \ {n}, ![w].at = IF Alive(n) THEN n ELSE None]
    /\ UNCHANGED <<core, step, host, room, calls, children, process>>

\* One that ended since it was looked at makes the engine refuse, and whoever was stopping them
\* leaves the rest: the close of the tool, with nothing to say of what the session cost.
Cancel(w) ==
    /\ Serving /\ sweeper[w].at # None
    /\ IF Alive(sweeper[w].at)
       THEN /\ Ends(sweeper[w].at)
            /\ sweeper' = [sweeper EXCEPT ![w].at = None]
            /\ UNCHANGED <<tool, usage>>
       ELSE /\ sweeper' = [sweeper EXCEPT ![w] = Resting]
            /\ IF w = "close" THEN Return(Unknown) ELSE UNCHANGED <<tool, usage>>
            /\ UNCHANGED gestures
    /\ UNCHANGED <<core, step, asked, room, calls, following, process>>

-------------------------------------------------------------------------------
(* The process, the crash and the start-up *)

\* The tools the process lists when it starts, exactly the session's or not.
ListTools ==
    /\ Serving /\ process = "written" /\ room.live /\ ~room.checked
    /\ room' \in {[room EXCEPT !.checked = TRUE, !.passed = TRUE],
                  [Halted EXCEPT !.checked = TRUE]}
    /\ UNCHANGED <<core, step, host, sweeper, calls, children, process>>

\* It asked for a permission, which nobody gives it.
AskPermission ==
    /\ Serving /\ process = "written" /\ room.live /\ room' = Halted
    /\ UNCHANGED <<core, step, host, sweeper, calls, children, process>>

ProcessEnds ==
    /\ process \in {"spawned", "written"} /\ tool # "launching" /\ process' = "dead"
    /\ UNCHANGED <<core, step, host, room, sweeper, calls, children>>

Crash ==
    /\ up # "down" /\ crashes < MaxCrashes /\ up' = "down" /\ crashes' = crashes + 1
    /\ tool' = IF tool = "stored" THEN tool ELSE "gone"
    /\ usage' = IF tool = "stored" THEN usage ELSE None
    /\ asked' = 0 /\ room' = Shut
    /\ sweeper' = [w \in Sweepers |-> Resting] /\ following' = {}
    /\ calls' = [c \in Call |-> IF calls[c].pc = "waiting" THEN Settled(0) ELSE calls[c]]
    /\ gestures' = [n \in Gesture |-> CASE gestures[n].state = "making" -> NoGesture
                                        [] gestures[n].state = "found" -> Over
                                        [] OTHER -> gestures[n]]
    /\ UNCHANGED <<step, process>>

\* The order of the start-up.
After(stage) ==
    CASE stage = "down" -> "orphans"
      [] stage = "orphans" -> "sweeping"
      [] OTHER -> "serving"

\* recover() fails the executing tasks that were silent for too long and expires the questions.
Recover ==
    /\ parent' \in {parent, "ended"}
    /\ \E lost \in SUBSET {n \in Gesture : gestures[n].state \in {"waiting"} \cup Running} :
        gestures' = [n \in Gesture |-> IF n \in lost THEN Over ELSE gestures[n]]
    /\ UNCHANGED process

\* close_orphans: the living children of a task that has ended.
CloseOrphans ==
    /\ gestures' = [n \in Gesture |-> IF Alive(n) /\ parent = "ended" THEN Over ELSE gestures[n]]
    /\ UNCHANGED <<parent, process>>

\* sweep: the process whose pid is in its folder; one that died before it was written is not found.
Sweep ==
    /\ process' = IF process = "written" THEN "dead" ELSE process
    /\ UNCHANGED <<parent, gestures>>

OrphansFirst(stage) ==
    CASE stage = "down" -> CloseOrphans
      [] stage = "orphans" -> Recover
      [] stage = "sweeping" -> Sweep
Does(stage) ==
    CASE stage = "down" -> Recover
      [] stage = "orphans" -> CloseOrphans
      [] stage = "sweeping" -> Sweep

StartUp ==
    /\ up # "serving" /\ up' = After(up) /\ Does(up)
    /\ UNCHANGED <<crashes, outcome, host, room, sweeper, calls, following>>

-------------------------------------------------------------------------------

CloseSteps == BeginClose \/ Look("close") \/ Cancel("close") \/ FinishClose
ToolStep == Refused \/ Open \/ Launch \/ Spawn \/ WritePid \/ LaunchFails \/ Watch \/ Interrupt
                \/ CloseSteps \/ Store
Gateway(c) == Relay(c) \/ Wake(c) \/ Settle(c)
GestureStep(n) == Create(n) \/ Unplannable(n) \/ Walk(n) \/ Answer(n) \/ Work(n)
                      \/ LoginGoesOn(n) \/ LoginEnds(n)

Next ==
    \/ ToolStep \/ EndParent
    \/ \E c \in Call : Gateway(c)
    \/ \E kind \in {"read", "act", "login"} : Ask(kind)
    \/ \E n \in Gesture : GestureStep(n)
    \/ Stop \/ StopGestures \/ Look("stop") \/ Cancel("stop")
    \/ ListTools \/ AskPermission \/ ProcessEnds
    \/ Crash \/ StartUp

Spec == Init /\ [][Next]_vars

\* The loop serves the tool and the calls it woke; the timer of the session is one of the things
\* the tool waits for. Nothing is assumed of the user, of the model or of its process.
FairSpec == Spec /\ WF_vars(ToolStep) /\ \A c \in Call : WF_vars(Wake(c))
-------------------------------------------------------------------------------
(* Properties *)

\* What the provider may have charged is in the ledger of the month, and within the cost the user
\* said yes to: whatever is in flight at the close, at the crash, or answered after them.
ChargesAreCounted ==
    LET ledger == IF outcome \in Nat THEN outcome ELSE Amount
    IN  Tally <= ledger /\ ledger <= Amount

\* The looks of the yes bound the children of the session: the host counts what the model asks
\* for, the room what it makes, and a login takes a number in each of its halves.
YesCoversGestures ==
    Cardinality({n \in Gesture : gestures[n].state # "none"}) <= Looks

\* Once the session has been closed nothing of it works without a yes of its own: a gesture that was
\* being made meanwhile is born after the close looked for it, and asks. A close that the engine
\* refused leaves what it had not looked at yet.
QuietAfterTheClose ==
    tool \in {"returned", "stored"} /\ usage # Unknown =>
        \A n \in Gesture : gestures[n].state # "covered"

\* A start-up leaves nothing of a session whose task has ended: no child that could still be
\* answered, and no process whose pid was written.
StartUpLeavesNothing ==
    [][~Serving /\ up' = "serving" =>
          /\ parent = "ended" => \A n \in Gesture : ~Alive(n)
          /\ process' # "written"]_vars

\* A launched session ends, whatever its model, its process and the user do: a question nobody
\* answers holds the session, and the session's seconds hold both.
LaunchedSessionCloses == tool = "watching" ~> tool \in {"returned", "stored", "gone"}
===============================================================================
