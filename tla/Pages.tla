--------------------------------- MODULE Pages ---------------------------------
(***************************************************************************)
(* The page a task keeps between two of its steps. A step opens a page or  *)
(* continues on the one its task keeps; a page that worked goes to the     *)
(* room when the step right after it in the plan continues, and else to    *)
(* the verifier; the room watches what the task waits for and closes the   *)
(* page when it is over. Two browsers: an empty one for every page, and    *)
(* one on a profile that a single process may hold.                        *)
(*   executive/pages.py, tools/browser.py, tools/account.py                *)
(*   infrastructure/machine/browser.py, infrastructure/machine/account.py  *)
(***************************************************************************)
EXTENDS Windows, Sequences

CONSTANTS
    Task,
    Page,        \* the pages opened in one life of the process: a bound
    Plans        \* the plans the tasks may have

\* No page, and no task, is neither.
ASSUME NoneIsNothing == None \notin Page \cup Task

Browsers == {"empty", "profile"}

\* A step: the browser of its tool, whether it continues, whether its row asks the user; order: the
\* steps as the graph runs them, which is not always the order of the plan.
ASSUME PlansAssumption ==
    \A f \in Plans : DOMAIN f = Task /\ \A t \in Task :
        /\ f[t].steps \in Seq([on : Browsers, continues : BOOLEAN, asks : BOOLEAN])
        /\ f[t].order \in Seq(DOMAIN f[t].steps) /\ Len(f[t].order) = Len(f[t].steps) /\ f[t].steps # <<>>

VARIABLES
    plan,       \* the plan of each task
    task,       \* "live", "waiting" for an answer, or "ended": its stop is raised
    done,       \* how many steps of each task are completed
    question,   \* the last question of each step; "granted" is a yes whose grant is stored
    grant,      \* the grant of each step
    walk,       \* where the run of each task is, and the page in its hands
    kept,       \* the page the room keeps for each task, and the step it is kept for
    watch,      \* the room's watch over it
    pages       \* the tables of the two browsers

consent == <<question, grant>>
paging == <<plan, task, done, consent, walk, kept, watch, pages>>
vars == <<paging, stage, window>>

-------------------------------------------------------------------------------
(* The records *)

NoPage == [page |-> None, step |-> 0]

\* "starting" is counted in _opening, "loading" in the table too, "shutting" in _closing.
Unopened == [state |-> "new", by |-> None, on |-> "empty", held |-> FALSE, timed |-> FALSE, looked |-> FALSE]
InTable(p) == pages[p].state \in {"loading", "open"}
Alive(p) == pages[p].state \notin {"new", "gone"}

Steps(t) == DOMAIN plan[t].steps
Current(t) == plan[t].order[done[t] + 1]
Step(t) == plan[t].steps[Current(t)]
Hand(t) == walk[t].page

At(t, pc) == walk[t].pc = pc
Go(t, pc) == walk' = [walk EXCEPT ![t].pc = pc]
GoWith(t, pc, p) == walk' = [walk EXCEPT ![t] = [pc |-> pc, page |-> p]]
Rest(t) == GoWith(t, "idle", None)

Ends(t) == task' = [task EXCEPT ![t] = "ended"]

\* close: out of the table at once, its processes a moment later.
Shut(P) == [p \in Page |-> IF p \in P /\ InTable(p)
                           THEN [pages[p] EXCEPT !.state = "shutting", !.timed = FALSE] ELSE pages[p]]
Unkept(t) == kept' = [kept EXCEPT ![t] = NoPage] /\ watch' = [watch EXCEPT ![t] = "off"]

Init ==
    /\ plan \in Plans
    /\ task \in [Task -> {"live", "ended"}]
    /\ done = [t \in Task |-> 0]
    /\ question = [t \in Task |-> [k \in Steps(t) |-> "none"]]
    /\ grant = [t \in Task |-> [k \in Steps(t) |-> "none"]]
    /\ walk = [t \in Task |-> [pc |-> "idle", page |-> None]]
    /\ kept = [t \in Task |-> NoPage]
    /\ watch = [t \in Task |-> "off"]
    /\ pages = [p \in Page |-> Unopened]
    /\ stage = "up"
    /\ InitWindows

-------------------------------------------------------------------------------
(* A run of the task, up to the call of the tool: executor.py *)

Begin(t) ==
    /\ At(t, "idle") /\ task[t] = "live" /\ stage = "up" /\ done[t] < Len(plan[t].order)
    /\ Go(t, IF ~Step(t).asks THEN "calling" ELSE IF question[t][Current(t)] = "yes" THEN "granting" ELSE "asking")
    /\ UNCHANGED <<plan, task, done, consent, kept, watch, pages, stage, window>>

\* Mutant: a closing is not counted.
Looser(p) == pages[p].state \in {"starting", "loading", "open"}
\* Who holds the folder of the profile, as far as this process knows: AccountChrome._mine.
Holds(p) == Alive(p)
Mine == {p \in Page : pages[p].on = "profile" /\ Holds(p)}
\* Its lock, which the browser of a page takes when it starts.
Locked == \E p \in Mine : pages[p].state # "starting"

\* prospect: the page to continue on is there, or the browser can start; a page of the same task on
\* the profile is no refusal, since it is closed before this step opens its own.
Askable(t) ==
    LET k == kept[t].page IN
    /\ stage = "up"
    /\ IF Step(t).continues
       THEN k # None /\ InTable(k) /\ pages[k].on = Step(t).on
       ELSE Step(t).on = "profile" => ~Taken /\ \A p \in Mine : pages[p].held /\ p = k

Ask(t) ==
    /\ At(t, "asking")
    /\ Rest(t)
    /\ CASE task[t] = "ended" -> UNCHANGED <<task, question>>
         [] task[t] # "ended" /\ ~Askable(t) -> Ends(t) /\ UNCHANGED question
         [] OTHER -> /\ task' = [task EXCEPT ![t] = "waiting"]
                     /\ question' = [question EXCEPT ![t][Current(t)] = "pending"]
    /\ UNCHANGED <<plan, done, grant, kept, watch, pages, stage, window>>

\* _grant: the yes becomes a grant, whose time starts now.
Grant(t) ==
    /\ At(t, "granting")
    /\ question' = [question EXCEPT ![t][Current(t)] = "granted"]
    /\ grant' = [grant EXCEPT ![t][Current(t)] = "fresh"]
    /\ Go(t, "calling")
    /\ UNCHANGED <<plan, task, done, kept, watch, pages, stage, window>>

-------------------------------------------------------------------------------
(* The tool: _BrowserTool._ran, with every way out *)

\* The step is over without success: its page, if it has one, is closed before anything else.
Leaves(t, P) == pages' = Shut(P) /\ GoWith(t, "closing", Hand(t))

\* A task stopped before its tool is called.
HearStop(t) ==
    /\ At(t, "calling") /\ task[t] = "ended"
    /\ Rest(t)
    /\ UNCHANGED <<plan, task, done, consent, kept, watch, pages, stage, window>>

\* Mutant: the room keeps what it hands over.
HandsOverAndKeeps(t) == UNCHANGED <<kept, watch>>
HandsOver(t) == Unkept(t)

\* take and resume: the page of the task, on the browser of this step.
Take(t) ==
    LET k == kept[t].page IN
    /\ At(t, "calling") /\ task[t] # "ended" /\ Step(t).continues
    /\ HandsOver(t)
    /\ IF k # None /\ pages[k].on = Step(t).on
       THEN /\ GoWith(t, IF InTable(k) THEN "using" ELSE "closing", k)
            /\ pages' = IF InTable(k) THEN [pages EXCEPT ![k].held = FALSE] ELSE pages
       ELSE pages' = Shut({k}) /\ GoWith(t, "closing", k)
    /\ UNCHANGED <<plan, task, done, consent, stage, window>>

\* The same task opens another page: release, and the wait of its close.
Release(t) ==
    /\ At(t, "calling") /\ task[t] # "ended" /\ ~Step(t).continues
    /\ pages' = Shut({kept[t].page})
    /\ Unkept(t)
    /\ GoWith(t, "releasing", kept[t].page)
    /\ UNCHANGED <<plan, task, done, consent, stage, window>>

\* open: refused while ELA is stopping and on a profile somebody holds; else counted at once.
Open(t) ==
    LET b == Step(t).on IN
    /\ At(t, "releasing") /\ (Hand(t) # None => ~Alive(Hand(t)))
    /\ IF stage # "up" \/ (b = "profile" /\ (Mine # {} \/ Taken))
       THEN GoWith(t, "closing", None) /\ UNCHANGED pages
       ELSE LET p == CHOOSE p \in Page : pages[p].state = "new" IN
            /\ \E q \in Page : pages[q].state = "new"
            /\ pages' = [pages EXCEPT ![p] = [Unopened EXCEPT !.state = "starting", !.by = t, !.on = b]]
            /\ GoWith(t, "opening", p)
    /\ UNCHANGED <<plan, task, done, consent, kept, watch, stage, window>>

\* The page enters the table, and the two stops are looked at again before the navigation; or the
\* driver, the browser or its gate failed, and what was started is closed.
Started(t) ==
    LET p == Hand(t) IN
    /\ At(t, "opening") /\ pages[p].state = "starting"
    /\ \/ /\ task[t] # "ended" /\ stage = "up" /\ (pages[p].on = "profile" => other.pc # "running")
          /\ pages' = [pages EXCEPT ![p].state = "loading"] /\ UNCHANGED walk
       \/ pages' = [pages EXCEPT ![p].state = "shutting"] /\ Go(t, "closing")
    /\ UNCHANGED <<plan, task, done, consent, kept, watch, stage, window>>

Loaded(t) ==
    /\ At(t, "opening") /\ pages[Hand(t)].state # "starting"
    /\ IF pages[Hand(t)].state = "loading"
       THEN pages' = [pages EXCEPT ![Hand(t)].state = "open"] /\ Go(t, "using")
       ELSE Go(t, "closing") /\ UNCHANGED pages
    /\ UNCHANGED <<plan, task, done, consent, kept, watch, stage, window>>

\* The work on the page succeeds.
Work(t) ==
    /\ At(t, "using") /\ InTable(Hand(t)) /\ stage = "up"
    /\ Go(t, "offering")
    /\ UNCHANGED <<plan, task, done, consent, kept, watch, pages, stage, window>>

\* It fails: a refusal of the page, the time of the step, the stop of the task, a page that is gone.
Fail(t) ==
    /\ At(t, "releasing") \/ (walk[t].pc \in {"opening", "using"} /\ pages[Hand(t)].state # "starting")
    /\ Leaves(t, {Hand(t)})
    /\ UNCHANGED <<plan, task, done, consent, kept, watch, stage, window>>

\* The step is stored as it went, and its task fails unless it has ended.
Closed(t) ==
    /\ At(t, "closing") /\ (Hand(t) # None => ~Alive(Hand(t)))
    /\ Rest(t) /\ Ends(t)
    /\ UNCHANGED <<plan, done, consent, kept, watch, pages, stage, window>>

-------------------------------------------------------------------------------
(* The room: PageRoom.leave *)

Following(t) == Current(t) + 1
\* Mutant: the page of the last step is kept too.
OneMore(t) == Following(t) \in Steps(t) => plan[t].steps[Following(t)].continues
Continues(t) == Following(t) \in Steps(t) /\ plan[t].steps[Following(t)].continues

\* hold, the entry of the room and its watch, with no wait in between; the task keeps one page.
Keep(t, p) ==
    /\ pages' = [Shut({kept[t].page}) EXCEPT ![p].held = InTable(p), ![p].timed = FALSE]
    /\ kept' = [kept EXCEPT ![t] = [page |-> p, step |-> Following(t)]]
    /\ watch' = [watch EXCEPT ![t] = "looks"]
    /\ Go(t, "verifying")

\* A page nobody continues on goes to the verifier, with a deadline.
Offer(t) ==
    LET p == Hand(t) IN
    /\ At(t, "offering")
    /\ IF Continues(t)
       THEN Keep(t, p)
       ELSE /\ pages' = [pages EXCEPT ![p].timed = InTable(p)]
            /\ Go(t, "verifying")
            /\ UNCHANGED <<kept, watch>>
    /\ UNCHANGED <<plan, task, done, consent, stage, window>>

-------------------------------------------------------------------------------
(* The look of the verifier: PlaywrightBrowser.glance *)

Look(t) ==
    LET p == Hand(t) IN
    /\ At(t, "verifying")
    /\ IF InTable(p) /\ stage = "up"
       THEN pages' = [pages EXCEPT ![p].looked = TRUE, ![p].timed = FALSE] /\ Go(t, "looking")
       ELSE GoWith(t, "closing", None) /\ UNCHANGED pages
    /\ UNCHANGED <<plan, task, done, consent, kept, watch, stage, window>>

\* The look releases a page that nobody holds.
Releases(p) == ~pages[p].held

Looked(t) ==
    LET p == Hand(t)
        seen == [pages EXCEPT ![p].looked = FALSE]
    IN
    /\ At(t, "looking")
    /\ pages' = IF Releases(p) /\ InTable(p) THEN [seen EXCEPT ![p].state = "shutting"] ELSE seen
    /\ \/ GoWith(t, "closing", IF pages[p].held THEN None ELSE p)
       \/ InTable(p) /\ GoWith(t, "verified", IF pages[p].held THEN None ELSE p)
    /\ UNCHANGED <<plan, task, done, consent, kept, watch, stage, window>>

\* complete_step, and complete after the last one.
Complete(t) ==
    /\ At(t, "verified") /\ (Hand(t) # None => ~Alive(Hand(t)))
    /\ Rest(t)
    /\ done' = [done EXCEPT ![t] = @ + 1]
    /\ IF done'[t] = Len(plan[t].order) THEN Ends(t) ELSE UNCHANGED task
    /\ UNCHANGED <<plan, consent, kept, watch, pages, stage, window>>

-------------------------------------------------------------------------------
(* The watch of the room: PageRoom._watch, _until *)

CloseKept(t) == Unkept(t) /\ pages' = Shut({kept[t].page})

\* Mutant: the page of an ended task is left where it is.
NeverHeard(t) == FALSE
Ended(t) == task[t] = "ended"

WatchLooks(t) ==
    LET said == question[t][kept[t].step] IN
    /\ watch[t] = "looks"
    /\ IF Ended(t) \/ said \in {"expired", "no"}
       THEN CloseKept(t)
       ELSE /\ watch' = [watch EXCEPT ![t] = IF said \in {"yes", "granted"} THEN "judges" ELSE "sleeps"]
            /\ UNCHANGED <<kept, pages>>
    /\ UNCHANGED <<plan, task, done, consent, walk, stage, window>>

WatchJudges(t) ==
    /\ watch[t] = "judges"
    /\ IF grant[t][kept[t].step] = "fresh"
       THEN watch' = [watch EXCEPT ![t] = "sleeps"] /\ UNCHANGED <<kept, pages>>
       ELSE CloseKept(t)
    /\ UNCHANGED <<plan, task, done, consent, walk, stage, window>>

\* A minute, the end of what is awaited, the end of the task, or the stop of ELA.
WatchWakes(t) ==
    /\ watch[t] = "sleeps"
    /\ watch' = [watch EXCEPT ![t] = IF stage = "up" THEN "looks" ELSE "off"]
    /\ UNCHANGED <<plan, task, done, consent, walk, kept, pages, stage, window>>

-------------------------------------------------------------------------------
(* The browsers, by themselves *)

\* _shut ends.
Gone(p) ==
    /\ pages[p].state = "shutting"
    /\ pages' = [pages EXCEPT ![p].state = "gone"]
    /\ UNCHANGED <<plan, task, done, consent, walk, kept, watch, stage, window>>

\* _expire: the deadline of a page nobody looks at.
Expire(p) ==
    /\ pages[p].timed /\ ~pages[p].looked
    /\ pages' = Shut({p})
    /\ UNCHANGED <<plan, task, done, consent, walk, kept, watch, stage, window>>

-------------------------------------------------------------------------------
(* The user, the clock, and the stop of ELA *)

Answer(t) ==
    /\ task[t] = "waiting" /\ question[t][Current(t)] = "pending"
    /\ \/ question' = [question EXCEPT ![t][Current(t)] = "yes"] /\ task' = [task EXCEPT ![t] = "live"]
       \/ question' = [question EXCEPT ![t][Current(t)] = "no"] /\ Ends(t)
    /\ UNCHANGED <<plan, done, grant, walk, kept, watch, pages, stage, window>>

Cancel(t) ==
    /\ task[t] # "ended"
    /\ Ends(t)
    /\ UNCHANGED <<plan, done, consent, walk, kept, watch, pages, stage, window>>

Lapse(t) ==
    /\ \E k \in Steps(t) :
        \/ /\ question[t][k] = "pending"
           /\ question' = [question EXCEPT ![t][k] = "expired"]
           /\ UNCHANGED grant
        \/ /\ grant[t][k] = "fresh"
           /\ grant' = [grant EXCEPT ![t][k] = "late"]
           /\ UNCHANGED question
    /\ UNCHANGED <<plan, task, done, walk, kept, watch, pages, stage, window>>

Stop ==
    /\ stage = "up"
    /\ stage' = "stopping"
    /\ UNCHANGED <<paging, window>>

\* PageRoom.stopped
Forget ==
    /\ stage = "stopping"
    /\ kept' = [t \in Task |-> NoPage] /\ watch' = [t \in Task |-> "off"]
    /\ stage' = "forgotten"
    /\ UNCHANGED <<plan, task, done, consent, walk, pages, window>>

\* _close_all_on_stop: the pages of the tables are closed one by one.
CloseOnStop(p) ==
    /\ stage \in {"stopping", "forgotten"} /\ InTable(p)
    /\ pages' = Shut({p})
    /\ UNCHANGED <<plan, task, done, consent, walk, kept, watch, stage, window>>

\* It ends when the tables, the closings and the openings are empty; then the window is settled.
InFlight(p) == Alive(p)

SettleTheWindow ==
    /\ \/ SettlePages /\ \A p \in Page : ~InFlight(p)
       \/ SettleLaunch \/ SettleWindow \/ SettleDoubt \/ SettleKill
    /\ UNCHANGED <<paging, stage>>

Down ==
    /\ stage = "forgotten" /\ settling.pc = "settled"
    /\ stage' = "down"
    /\ UNCHANGED <<paging, window>>

-------------------------------------------------------------------------------
(* The windows, on the folder the pages hold *)

Signing(g) ==
    /\ stage # "down"
    /\ \/ TakeFolder(g, Mine # {}) \/ Launch(g) \/ Spawn(g)
       \/ TellAtStop(g) \/ Waited(g) \/ ToldEnd(g)
    /\ UNCHANGED <<paging, stage>>

Shutting(a) ==
    /\ stage # "down"
    /\ \/ AskShut(a) \/ LookShut(a, Mine # {}) \/ EndShut(a) \/ DoubtShut(a) \/ KillShut(a)
       \/ NameShut(a) \/ SignalShut(a) \/ EndAnother(a) \/ KillAnother(a) \/ LeaveAnother(a) \/ Drop(a)
    /\ UNCHANGED <<paging, stage>>

ByThemselves ==
    /\ \/ \E g \in Window : AskWindow(g) \/ Exit(g) \/ KinEnds(g)
       \/ OtherStarts(Locked) \/ OtherEnds
    /\ UNCHANGED <<paging, stage>>

-------------------------------------------------------------------------------

Run(t) ==
    \/ Begin(t) \/ Ask(t) \/ Grant(t) \/ HearStop(t)
    \/ Take(t) \/ Release(t) \/ Open(t) \/ Started(t) \/ Loaded(t) \/ Work(t) \/ Fail(t) \/ Closed(t)
    \/ Offer(t) \/ Look(t) \/ Looked(t) \/ Complete(t)
Watch(t) == WatchLooks(t) \/ WatchJudges(t) \/ WatchWakes(t)
User == \E t \in Task : Answer(t) \/ Cancel(t) \/ Lapse(t)

Next ==
    \/ \E t \in Task : Run(t) \/ Watch(t)
    \/ \E p \in Page : Gone(p) \/ Expire(p) \/ CloseOnStop(p)
    \/ \E g \in Window : Signing(g)
    \/ \E a \in Asker : Shutting(a)
    \/ ByThemselves \/ User \/ Stop \/ Forget \/ SettleTheWindow \/ Down

Spec == Init /\ [][Next]_vars

\* A coroutine that can go on does: every wait of a run is under the deadline of its tool or of its
\* look, a watch sleeps a minute at most, and a closing runs to its end whoever waits for it.
Fairness ==
    /\ \A t \in Task : WF_vars(Run(t)) /\ WF_vars(Watch(t))
    /\ \A p \in Page : WF_vars(Gone(p)) /\ WF_vars(CloseOnStop(p))
    /\ \A g \in Window : WF_vars(Signing(g))
    /\ WF_vars(Forget) /\ WF_vars(SettleTheWindow) /\ WF_vars(Down)

FairSpec == Spec /\ Fairness

-------------------------------------------------------------------------------
(* Properties *)

TypeOK ==
    /\ plan \in Plans
    /\ task \in [Task -> {"live", "waiting", "ended"}]
    /\ \A t \in Task :
        /\ done[t] \in 0 .. Len(plan[t].order)
        /\ question[t] \in [Steps(t) -> {"none", "pending", "expired", "no", "yes", "granted"}]
        /\ grant[t] \in [Steps(t) -> {"none", "fresh", "late"}]
        /\ kept[t] = NoPage \/ (kept[t].page \in Page /\ kept[t].step \in Steps(t))
        /\ done[t] = Len(plan[t].order) => walk[t].pc = "idle"
    /\ walk \in [Task -> [pc : {"idle", "asking", "granting", "calling", "releasing", "opening", "using",
                                "offering", "verifying", "looking", "verified", "closing"},
                          page : Page \cup {None}]]
    /\ watch \in [Task -> {"off", "looks", "judges", "sleeps"}]
    /\ pages \in [Page -> [state : {"new", "starting", "loading", "open", "shutting", "gone"},
                           by : Task \cup {None}, on : Browsers,
                           held : BOOLEAN, timed : BOOLEAN, looked : BOOLEAN]]
    /\ stage \in {"up", "stopping", "forgotten", "down"}
    /\ WindowTypes

\* Who closes a page: the step it is in the hands of, the room, or the deadline of the browser.
InHand(t, p) ==
    /\ Hand(t) = p
    /\ walk[t].pc \in {"opening", "using", "offering"} \/ (At(t, "looking") /\ ~pages[p].held)
Closers(p) ==
    {<<"step", t>> : t \in {t \in Task : InHand(t, p)}}
        \cup {<<"room", t>> : t \in {t \in Task : kept[t].page = p}}
        \cup (IF pages[p].timed THEN {<<"deadline", pages[p].by>>} ELSE {})

\* A page that can be used has one who closes it and no second one, over the hand-overs from the
\* step to the room or to the verifier and back; it serves the task that opened it and no other, and
\* a page the room keeps is watched.  ports.py:3448, "whoever holds a page closes it"
OneCloser ==
    stage = "up" =>
        /\ \A p \in Page : InTable(p) => \E t \in Task, by \in {"step", "room", "deadline"} :
                                             Closers(p) = {<<by, t>>} /\ pages[p].by = t
        /\ \A t \in Task : kept[t] # NoPage <=> watch[t] # "off"

\* One browser of ELA's at a time on the folder of the profile, through openings, pages kept and
\* closings, and the launch, the life and the end of a window.
\* infrastructure/machine/account.py:31, :869
OneOnTheProfile == Cardinality({p \in Page : pages[p].on = "profile" /\ Alive(p)} \cup OnTheFolder) <= 1

\* Once the stop of ELA is over nothing of the two browsers runs, an opening that was in flight when
\* it was raised included; nor a window, nor what it had started, unless its user quit it or a later
\* window took its place.  infrastructure/machine/browser.py:268, infrastructure/machine/account.py:1399
NothingAfterTheStop ==
    stage = "down" =>
        /\ \A p \in Page : ~Alive(p)
        /\ \A g \in Window : /\ win[g].pc \notin {"starting", "running"}
                           /\ win[g].kin => win[g].told = 0 \/ g # settling.of

\* What runs for the pages is never more than the stop and the profile allow.
BrowsersAreCounted == OneOnTheProfile /\ NothingAfterTheStop

\* No page outlives its task: whoever ends it and wherever the page is, it is closed.
\* executive/pages.py:14, "it closes it when the task ends"
EndedLeavesNoPage ==
    \A p \in Page : (Alive(p) /\ task[pages[p].by] = "ended") ~> ~Alive(p)

\* The stop of ELA ends, whatever the pages, the windows and the requests were doing.
\* infrastructure/machine/browser.py:274, "No opening begins after the stop, so this ends"
StopEnds == stage = "stopping" ~> stage = "down"

\* A page ends after its task, and ELA after its stop.
EverythingEnds == EndedLeavesNoPage /\ StopEnds

\* A close is answered "quit" or "killed" only of a browser of which no process names the folder any
\* more; "killed" only if ELA sent its kill; and "quit" of a window only if no kill of ELA's, of
\* another close or of the stop, cut it short.  Looks are stale when they are acted on, so a window
\* that had quit may be answered "killed" too; and a browser ELA did not start may be answered "quit"
\* where another close killed it: of this one nothing is asked.  Each is told once, however many ask.
\* ports.py:3250, infrastructure/machine/account.py:972, :1296
ShutIsTrue ==
    /\ \A a \in Asker :
        LET g == asker[a].of
            said == asker[a].answer
        IN
        /\ said \in {"quit", "killed"} => IF g = None THEN other.pc = "gone" /\ ~other.kin
                                                     ELSE WinAt(g, "over") /\ ~win[g].kin
        /\ said = "killed" => IF g = None THEN other.killed ELSE win[g].killed
        /\ said = "quit" /\ g # None => ~win[g].cut
    /\ \A g \in Window : win[g].told <= 1
    /\ other.told <= 1

\* What a task waits for on its page is over: it ended, the user said no, the question expired
\* unanswered, or the grant of the yes did.
Over(t) ==
    LET k == kept[t].step IN
    task[t] = "ended" \/ question[t][k] \in {"no", "expired"} \/ grant[t][k] = "late"

\* The room closes a page by itself only when what its task waits for is over.
\* executive/pages.py:15, "the question of the next step until it is answered, then the grant of the
\* yes until the step runs"
YesKeepsThePage ==
    [][\A t \in Task : watch[t] # "off" /\ kept[t] # NoPage /\ kept'[t] = NoPage /\ walk'[t] = walk[t]
           => Over(t) \/ stage # "up"]_vars
===============================================================================
