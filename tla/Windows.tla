-------------------------------- MODULE Windows --------------------------------
(***************************************************************************)
(* The user's hand on the profile: the window in which they sign in, which *)
(* ELA starts, tells to quit and reads nothing of, a browser of theirs on  *)
(* the same folder, the close they ask for, and what ELA's stop waits for. *)
(* A browser has a main process and others it started, its kin, which may  *)
(* outlive it and still name the folder.                                   *)
(*   infrastructure/machine/account.py, api/browser.py                     *)
(***************************************************************************)
EXTENDS Naturals, FiniteSets

CONSTANTS
    Window,      \* the windows asked for in one life of the process, each with its group: a bound
    Asker,       \* the requests to close the browser: a bound
    None

\* An answer not given, and no window, is none of the others.
ASSUME NoneIsNoWindow == None \notin Window \cup {"quit", "killed"}

VARIABLES
    stage,       \* of ELA: "up", "stopping", "forgotten" by the room, or "down"
    win,         \* the windows
    group,       \* the group ELA has left to wait for
    watched,     \* the window whose end ELA waits for: the last one started
    other,       \* a browser on the folder that ELA did not start
    asker,       \* where each close is, the browser it ends, and its answer
    settling     \* where the close of ELA is, the window it waits for and the group it kills

window == <<win, group, watched, other, asker, settling>>

-------------------------------------------------------------------------------
(* The processes *)

\* told: the signals to quit it got, a second one kills it; killed: ELA sent its kill, which cut it
\* short if something of it was there.
NoWindow == [pc |-> "new", kin |-> FALSE, told |-> 0, killed |-> FALSE, cut |-> FALSE]
NoBrowser == [pc |-> "none", kin |-> FALSE, told |-> 0, killed |-> FALSE]

WinAt(g, pc) == win[g].pc = pc
WinGoes(g, pc) == win' = [win EXCEPT ![g].pc = pc]

Launching(g) == win[g].pc \in {"preparing", "starting"}
IsOpen(g) == win[g].pc \in {"running", "exited"}
OnTheFolder == {g \in Window : Launching(g) \/ IsOpen(g)}

\* What a look at the folder finds beside the pages: a window, or the process its lock names.
Taken == OnTheFolder # {} \/ other.pc = "running"

\* _tell: once, however many ask.
Tells(n) == IF n = 0 THEN 1 ELSE n

\* killpg: the main process and the kin of a window, if they are there.
Kills(g) ==
    win' = [win EXCEPT ![g].killed = TRUE, ![g].kin = FALSE,
                       ![g].cut = @ \/ win[g].kin \/ WinAt(g, "running"),
                       ![g].pc = IF @ = "running" THEN "exited" ELSE @]

NoShut == [pc |-> "idle", of |-> None, answer |-> None]

\* Each may be one that nobody asks for, or starts, in this life of the process.
InitWindows ==
    /\ win \in [Window -> {NoWindow, [NoWindow EXCEPT !.pc = "refused"]}]
    /\ group = None /\ watched = None
    /\ other \in {NoBrowser, [NoBrowser EXCEPT !.pc = "gone"]}
    /\ asker \in [Asker -> {NoShut, [NoShut EXCEPT !.pc = "done"]}]
    /\ settling = [pc |-> "pages", of |-> None, group |-> None]

-------------------------------------------------------------------------------
(* The window: AccountChrome.window, _launched, _waited *)

\* The route passes the look at the stop, and looks at the folder.
AskWindow(g) ==
    /\ WinAt(g, "new") /\ stage = "up"
    /\ WinGoes(g, "looking")
    /\ UNCHANGED <<group, watched, other, asker, settling>>

\* _free ends with a look, and no wait follows it; mine: a page holds the folder.
TakeFolder(g, mine) ==
    /\ WinAt(g, "looking")
    /\ WinGoes(g, IF mine \/ Taken THEN "refused" ELSE "preparing")
    /\ UNCHANGED <<group, watched, other, asker, settling>>

\* The folder is prepared, or cannot be; then the stop is looked at again.
Launch(g) ==
    /\ WinAt(g, "preparing")
    /\ \/ stage = "up" /\ WinGoes(g, "starting")
       \/ WinGoes(g, "refused")
    /\ UNCHANGED <<group, watched, other, asker, settling>>

Spawn(g) ==
    /\ WinAt(g, "starting")
    /\ \/ /\ win' = [win EXCEPT ![g].pc = "running", ![g].kin = TRUE]
          /\ group' = g /\ watched' = g
       \/ WinGoes(g, "refused") /\ UNCHANGED <<group, watched>>
    /\ UNCHANGED <<other, asker, settling>>

\* The main process ends: its user quit it, or it was told.
Exit(g) ==
    /\ WinAt(g, "running")
    /\ WinGoes(g, "exited")
    /\ UNCHANGED <<group, watched, other, asker, settling>>

TellAtStop(g) ==
    /\ WinAt(g, "running") /\ stage # "up"
    /\ win' = [win EXCEPT ![g].told = Tells(@)]
    /\ UNCHANGED <<group, watched, other, asker, settling>>

\* The wait ends; nothing is left to wait for of a window that nobody told.
Waited(g) ==
    /\ WinAt(g, "exited")
    /\ WinGoes(g, "telling")
    /\ group' = IF win[g].told = 0 THEN None ELSE group
    /\ UNCHANGED <<watched, other, asker, settling>>

\* The end of the window is written, or cannot be.
ToldEnd(g) ==
    /\ WinAt(g, "telling")
    /\ WinGoes(g, "over")
    /\ UNCHANGED <<group, watched, other, asker, settling>>

-------------------------------------------------------------------------------
(* The processes by themselves; a browser starts only on a folder whose lock is free *)

KinEnds(g) ==
    /\ win[g].kin /\ win[g].pc # "running"
    /\ win' = [win EXCEPT ![g].kin = FALSE]
    /\ UNCHANGED <<group, watched, other, asker, settling>>

OtherStarts(locked) ==
    /\ other.pc = "none" /\ ~locked /\ (\A g \in Window : ~WinAt(g, "running")) /\ stage = "up"
    /\ other' = [other EXCEPT !.pc = "running", !.kin = TRUE]
    /\ UNCHANGED <<win, group, watched, asker, settling>>

OtherEnds ==
    /\ \/ other.pc = "running" /\ other' = [other EXCEPT !.pc = "gone"]
       \/ other.pc = "gone" /\ other.kin /\ other' = [other EXCEPT !.kin = FALSE]
    /\ UNCHANGED <<win, group, watched, asker, settling>>

-------------------------------------------------------------------------------
(* The close the user asks for: AccountChrome.shut *)

AskerAt(a, pc) == asker[a].pc = pc
AskerGoes(a, pc, of) == asker' = [asker EXCEPT ![a].pc = pc, ![a].of = of]
Answers(a, said) == asker' = [asker EXCEPT ![a].pc = "done", ![a].answer = said]

BeingLaunched == IF \E g \in Window : Launching(g) THEN CHOOSE g \in Window : Launching(g) ELSE None
IsLaunched(g) == g # None => ~Launching(g)

AskShut(a) ==
    /\ AskerAt(a, "idle") /\ stage = "up"
    /\ AskerGoes(a, "launching", BeingLaunched)
    /\ UNCHANGED <<win, group, watched, other, settling>>

\* A page is not ended from here; the window is told in the same step as it is found.
LookShut(a, mine) ==
    /\ AskerAt(a, "launching") /\ IsLaunched(asker[a].of)
    /\ \/ mine /\ Answers(a, "busy") /\ UNCHANGED win
       \/ /\ ~mine /\ stage = "up"
          /\ \E g \in Window : /\ IsOpen(g)
                             /\ AskerGoes(a, "ending", g)
                             /\ win' = [win EXCEPT ![g].told = Tells(@)]
       \/ /\ ~mine /\ ~\E g \in Window : IsOpen(g)
          /\ IF other.pc = "running" THEN AskerGoes(a, "naming", None)
             ELSE Answers(a, IF stage = "up" THEN "nothing" ELSE "stopped")
          /\ UNCHANGED win
       \/ ~mine /\ stage # "up" /\ (\E g \in Window : IsOpen(g)) /\ Answers(a, "stopped") /\ UNCHANGED win
    /\ UNCHANGED <<group, watched, other, settling>>

\* How it ended is read from what was done to it.
HowItEnded(g) == IF win[g].killed THEN "killed" ELSE "quit"

\* Mutant: what it had started is not waited for.
MainIsOver(g) == WinAt(g, "over")
QuitIsOver(g) == WinAt(g, "over") /\ ~win[g].kin
Unleft(g) == group' = IF group = g THEN None ELSE group

\* _end_window: the window has ended and a look at the processes finds none of its; after a kill no
\* look may find that, or be answered, and ELA does not call it gone.
EndShut(a) ==
    LET g == asker[a].of IN
    /\ \/ AskerAt(a, "ending") /\ QuitIsOver(g) /\ Answers(a, HowItEnded(g)) /\ Unleft(g)
       \/ AskerAt(a, "killing") /\ QuitIsOver(g) /\ Answers(a, "killed") /\ Unleft(g)
       \/ AskerAt(a, "killing") /\ WinAt(g, "over") /\ Answers(a, "told") /\ UNCHANGED group
    /\ UNCHANGED <<win, watched, other, settling>>

\* The last look within the grace: it found a process of the window, or the system did not answer.
DoubtShut(a) ==
    /\ AskerAt(a, "ending") /\ WinAt(asker[a].of, "over")
    /\ AskerGoes(a, "doubting", asker[a].of)
    /\ UNCHANGED <<win, group, watched, other, settling>>

\* The grace is over: the group is ELA's own, and is killed on what the look had found, whatever
\* has become of it since.
KillShut(a) ==
    LET g == asker[a].of IN
    /\ AskerAt(a, "doubting") \/ (AskerAt(a, "ending") /\ ~WinAt(g, "over"))
    /\ Kills(g)
    /\ AskerGoes(a, "killing", g)
    /\ UNCHANGED <<group, watched, other, settling>>

\* The system is asked what the process is that the lock names: none, ELA's binary or another.
NameShut(a) ==
    /\ AskerAt(a, "naming")
    /\ \/ stage # "up" /\ Answers(a, "stopped")
       \/ stage = "up" /\ other.pc # "running" /\ Answers(a, "nothing")
       \/ stage = "up" /\ other.pc = "running" /\ Answers(a, "busy")
       \/ other.pc = "running" /\ AskerGoes(a, "signalling", None)
    /\ UNCHANGED <<win, group, watched, other, settling>>

\* Its group was read meanwhile, and ELA may have begun to stop; or it is another user's.
SignalShut(a) ==
    /\ AskerAt(a, "signalling")
    /\ \/ stage = "up" /\ AskerGoes(a, "waiting", None) /\ other' = [other EXCEPT !.told = Tells(@)]
       \/ stage = "up" /\ other.told = 0 /\ Answers(a, "busy") /\ UNCHANGED other
       \/ stage # "up" /\ Answers(a, "stopped") /\ UNCHANGED other
    /\ UNCHANGED <<win, group, watched, settling>>

\* _end_another: it ends, or ELA stops, or the grace does and ELA cannot name it any more; or it can.
EndAnother(a) ==
    /\ AskerAt(a, "waiting")
    /\ \/ other.pc = "gone" /\ AskerGoes(a, "left", None)
       \/ other.pc = "running" /\ (Answers(a, "told") \/ AskerGoes(a, "judging", None))
    /\ UNCHANGED <<win, group, watched, other, settling>>

\* It was named as ELA's binary, and is killed by its pid alone, unless ELA stops or may not.
KillAnother(a) ==
    /\ AskerAt(a, "judging")
    /\ \/ stage = "up" /\ AskerGoes(a, "swept", None) /\ other' = [other EXCEPT !.pc = "gone", !.killed = TRUE]
       \/ Answers(a, "told") /\ UNCHANGED other
    /\ UNCHANGED <<win, group, watched, settling>>

\* _left and _swept: what it had started is waited for, and is not ELA's to kill.
LeaveAnother(a) ==
    /\ asker[a].pc \in {"left", "swept"}
    /\ \/ ~other.kin /\ Answers(a, IF AskerAt(a, "left") THEN "quit" ELSE "killed")
       \/ Answers(a, "told")
    /\ UNCHANGED <<win, group, watched, other, settling>>

\* Whoever asked goes away: nothing more is waited for, and nothing killed.
Drop(a) ==
    /\ asker[a].pc \in {"ending", "doubting", "killing"}
    /\ Answers(a, None)
    /\ UNCHANGED <<win, group, watched, other, settling>>

-------------------------------------------------------------------------------
(* The stop of ELA: AccountChrome.settle *)

SettlesTo(pc) == settling' = [settling EXCEPT !.pc = pc]

\* The pages are settled.
SettlePages ==
    /\ settling.pc = "pages" /\ stage = "forgotten"
    /\ settling' = [pc |-> "launching", of |-> BeingLaunched, group |-> None]
    /\ UNCHANGED <<win, group, watched, other, asker>>

SettleLaunch ==
    /\ settling.pc = "launching" /\ IsLaunched(settling.of)
    /\ settling' = [pc |-> IF watched = None THEN "settled" ELSE "window", of |-> watched, group |-> group]
    /\ UNCHANGED <<win, group, watched, other, asker>>

\* The window has ended, and its group names the folder no more.
NothingLeft == WinAt(settling.of, "over") /\ (settling.group # None => ~win[settling.group].kin)

SettleWindow ==
    /\ \/ settling.pc = "window" /\ NothingLeft
       \/ settling.pc = "killing" /\ WinAt(settling.of, "over")
    /\ SettlesTo("settled")
    /\ watched' = None /\ group' = None
    /\ UNCHANGED <<win, other, asker>>

\* A look that found a process of the window, or was not answered.
SettleDoubt ==
    /\ settling.pc = "window" /\ WinAt(settling.of, "over") /\ settling.group # None
    /\ SettlesTo("doubting")
    /\ UNCHANGED <<win, group, watched, other, asker>>

\* The grace is over.
SettleKill ==
    /\ settling.pc = "doubting" \/ (settling.pc = "window" /\ ~WinAt(settling.of, "over"))
    /\ IF settling.group = None THEN UNCHANGED win ELSE Kills(settling.group)
    /\ SettlesTo("killing")
    /\ UNCHANGED <<group, watched, other, asker>>

-------------------------------------------------------------------------------

WindowTypes ==
    /\ win \in [Window -> [pc : {"new", "looking", "preparing", "starting", "running", "exited", "telling",
                                 "over", "refused"},
                           kin : BOOLEAN, told : 0 .. 2, killed : BOOLEAN, cut : BOOLEAN]]
    /\ group \in Window \cup {None} /\ watched \in Window \cup {None}
    /\ other \in [pc : {"none", "running", "gone"}, kin : BOOLEAN, told : 0 .. 2, killed : BOOLEAN]
    /\ asker \in [Asker -> [pc : {"idle", "launching", "ending", "doubting", "killing", "naming",
                                  "signalling", "waiting", "judging", "left", "swept", "done"},
                            of : Window \cup {None},
                            answer : {None, "busy", "stopped", "nothing", "quit", "killed", "told"}]]
    /\ settling \in [pc : {"pages", "launching", "window", "doubting", "killing", "settled"},
                     of : Window \cup {None}, group : Window \cup {None}]
================================================================================
