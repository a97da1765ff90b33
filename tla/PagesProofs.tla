------------------------------ MODULE PagesProofs ------------------------------
(***************************************************************************)
(* What holds of the pages kept between steps and of the windows of the    *)
(* user, for any tasks, plans, pages, windows and requests: a page that    *)
(* can be used has one who closes it, one browser of ELA's holds the       *)
(* profile, nothing runs after the stop, and no close is told that a       *)
(* browser ended which did not.                                            *)
(***************************************************************************)
EXTENDS Pages, TLAPS, FiniteSetTheorems

-------------------------------------------------------------------------------
(* The inductive invariant *)

\* The tables that TypeOK describes task by task are tables.
Shaped ==
    /\ done \in [Task -> Nat]
    /\ kept \in [Task -> [page : Page \cup {None}, step : Nat]]
    /\ question = [t \in Task |-> question[t]] /\ grant = [t \in Task |-> grant[t]]

\* A task that completed its steps has ended, and waits for no answer.
Finished == \A t \in Task : done[t] = Len(plan[t].order) => task[t] = "ended"

\* Every page that was opened was opened by a task.
Owners == \A p \in Page : IF pages[p].state = "new" THEN pages[p] = Unopened ELSE pages[p].by \in Task

\* A task has in its hands, and the room keeps for it, a page it opened itself.
Holding(t) ==
    /\ Hand(t) # None => pages[Hand(t)].by = t
    /\ kept[t].page # None => pages[kept[t].page].by = t
    /\ walk[t].pc \in {"opening", "using", "offering", "verifying", "looking"} => Hand(t) # None

\* A page being opened or in the table is in the hands of its task, kept for it, or timed, and no two of these.
Hands(t, p) ==
    /\ InHand(t, p) \/ kept[t].page = p \/ pages[p].timed
    /\ pages[p].state = "starting" => Hand(t) = p /\ At(t, "opening")
    /\ Hand(t) = p /\ At(t, "opening") => pages[p].state # "open"
    /\ kept[t].page = p <=> pages[p].held
    /\ pages[p].held => ~pages[p].timed
    /\ Hand(t) = p /\ walk[t].pc \in {"opening", "using", "offering"} => ~pages[p].held /\ ~pages[p].timed
    /\ Hand(t) = p /\ At(t, "looking") => ~pages[p].timed

\* A page is kept while the room watches it.
Handing(t) ==
    /\ \A p \in Page : pages[p].state \in {"starting", "loading", "open"} /\ pages[p].by = t => Hands(t, p)
    /\ kept[t].page # None <=> watch[t] # "off"

\* Each task has its pages where the room and the browser have them.
Local(t) == Holding(t) /\ (stage = "up" => Handing(t))

\* Every page is where its task has it.
Each == \A t \in Task : Local(t)

\* One browser on the profile, whoever looks for a second one.
Alone ==
    /\ \A p, q \in Mine : p = q
    /\ \A g, h \in OnTheFolder : g = h
    /\ Mine = {} \/ OnTheFolder = {}

\* How far a window is once it started.
Past == {"running", "exited", "telling", "over"}

\* The window that ran last is the one ELA waits for, and what is left of it, unless nobody told it, is its group.
LastOne ==
    /\ watched # None => win[watched].pc \in Past
    /\ group \in {None, watched}
    /\ \A g \in Window : IsOpen(g) => watched = g
    /\ watched # None /\ group = None =>
           ~win[watched].kin \/ (win[watched].told = 0 /\ win[watched].pc \in {"telling", "over"})

\* Where the close of ELA is, and what it has seen the end of.
Settled ==
    /\ settling.pc = "pages" => stage # "down"
    /\ settling.pc # "pages" => stage \in {"forgotten", "down"} /\ \A p \in Page : ~Alive(p)
    /\ settling.pc = "launching" => /\ \A g \in Window : WinAt(g, "starting") => settling.of = g
                                    /\ settling.group = None
    /\ settling.pc \in {"window", "doubting", "killing", "settled"} => \A g \in Window : ~WinAt(g, "starting")
    /\ settling.pc \in {"window", "doubting", "killing"} => /\ settling.of = watched /\ watched # None
                                                            /\ settling.group \in {None, settling.of}
    /\ settling.pc \in {"window", "doubting", "killing"} /\ settling.group = None => group = None
    /\ settling.pc = "killing" => ~win[settling.of].kin \/ settling.group = None
    /\ settling.pc = "settled" => \A g \in Window : ~WinAt(g, "running") /\ (g = settling.of => WinAt(g, "over"))
    /\ settling.pc = "settled" /\ settling.of # None => ~win[settling.of].kin \/ win[settling.of].told = 0
    /\ stage = "down" => settling.pc = "settled"

\* What each close has seen of the browser it ends.
Asking(a) ==
    LET g == asker[a].of IN
    /\ AskerAt(a, "ending") => g # None /\ win[g].pc \in Past
    /\ AskerAt(a, "doubting") => g # None /\ WinAt(g, "over")
    /\ AskerAt(a, "killing") => g # None /\ win[g].pc \in Past /\ win[g].killed /\ ~win[g].kin
    /\ asker[a].pc \in {"left", "swept"} => g = None /\ other.pc = "gone"
    /\ AskerAt(a, "swept") => other.killed
    /\ ~AskerAt(a, "done") => asker[a].answer = None

\* All of them.
Asked == \A a \in Asker : Asking(a)

\* A window that was cut short was killed.
CutIsKilled == \A g \in Window : win[g].cut => win[g].killed

\* The inductive invariant.
IInv == TypeOK /\ Shaped /\ Finished /\ Owners /\ Each /\ Alone /\ LastOne /\ Settled /\ Asked /\ CutIsKilled
        /\ ShutIsTrue

-------------------------------------------------------------------------------
(* What the operations do to the windows and to those who close them *)

\* Where a window may be, and what it is.
WindowPlaces == {"new", "looking", "preparing", "starting", "running", "exited", "telling", "over", "refused"}
AskerPlaces == {"idle", "launching", "ending", "doubting", "killing", "naming", "signalling", "waiting", "judging",
                "left", "swept", "done"}
Said == {None, "busy", "stopped", "nothing", "quit", "killed", "told"}
AWindow == [pc : WindowPlaces, kin : BOOLEAN, told : 0 .. 2, killed : BOOLEAN, cut : BOOLEAN]
ABrowser == [pc : {"none", "running", "gone"}, kin : BOOLEAN, told : 0 .. 2, killed : BOOLEAN]
AnAsker == [pc : AskerPlaces, of : Window \cup {None}, answer : Said]

\* The types of the windows, in these words.
LEMMA WindowsAre ==
    ASSUME WindowTypes
    PROVE  win \in [Window -> AWindow] /\ asker \in [Asker -> AnAsker] /\ other \in ABrowser
BY DEF WindowTypes, AWindow, ABrowser, AnAsker, WindowPlaces, AskerPlaces, Said

\* A window that goes on.
LEMMA WinGoesIs ==
    ASSUME WindowTypes, NEW g \in Window, NEW pc \in WindowPlaces, WinGoes(g, pc)
    PROVE  /\ win' \in [Window -> AWindow] /\ \A h \in Window \ {g} : win'[h] = win[h]
           /\ win'[g].pc = pc /\ (win'[g].kin <=> win[g].kin)
           /\ win'[g].told = win[g].told /\ (win'[g].killed <=> win[g].killed)
           /\ (win'[g].cut <=> win[g].cut)
<1>1. win \in [Window -> AWindow]
  BY WindowsAre
<1>2. QED
  BY <1>1 DEF AWindow, WindowPlaces, WinGoes

\* A window that is told to quit is told once.
LEMMA TellsIs ==
    ASSUME WindowTypes, NEW g \in Window, win[g].told <= 1, win' = [win EXCEPT ![g].told = Tells(@)]
    PROVE  /\ win' \in [Window -> AWindow] /\ \A h \in Window \ {g} : win'[h] = win[h]
           /\ win'[g].pc = win[g].pc /\ (win'[g].kin <=> win[g].kin)
           /\ win'[g].told = 1 /\ (win'[g].killed <=> win[g].killed)
           /\ (win'[g].cut <=> win[g].cut)
<1>1. win \in [Window -> AWindow]
  BY WindowsAre
<1>2. QED
  BY <1>1 DEF AWindow, WindowPlaces, Tells

\* A window whose group is killed.
LEMMA KillsIs ==
    ASSUME WindowTypes, NEW g \in Window, Kills(g)
    PROVE  /\ win' \in [Window -> AWindow] /\ \A h \in Window \ {g} : win'[h] = win[h]
           /\ win'[g].pc = (IF win[g].pc = "running" THEN "exited" ELSE win[g].pc) /\ (win'[g].kin <=> FALSE)
           /\ win'[g].told = win[g].told /\ (win'[g].killed <=> TRUE)
           /\ (win'[g].cut <=> (win[g].cut \/ win[g].kin \/ win[g].pc = "running"))
<1>1. win \in [Window -> AWindow]
  BY WindowsAre
<1>2. win[g] \in AWindow /\ (WinAt(g, "running") <=> win[g].pc = "running")
  BY <1>1 DEF WinAt
<1> DEFINE short == win[g].cut \/ win[g].kin \/ WinAt(g, "running")
<1>3. win' = [win EXCEPT ![g].killed = TRUE, ![g].kin = FALSE, ![g].cut = short,
                         ![g].pc = IF @ = "running" THEN "exited" ELSE @]
  BY <1>1, <1>2 DEF Kills
<1>4. short \in BOOLEAN /\ (short <=> (win[g].cut \/ win[g].kin \/ win[g].pc = "running"))
  BY <1>2
<1> HIDE DEF short
<1>5. win'[g] = [win[g] EXCEPT !.killed = TRUE, !.kin = FALSE, !.cut = short,
                               !.pc = IF @ = "running" THEN "exited" ELSE @]
  BY <1>1, <1>3
<1>6. \A h \in Window \ {g} : win'[h] = win[h]
  BY <1>1, <1>3
<1>7. /\ win'[g] \in AWindow
      /\ win'[g].pc = (IF win[g].pc = "running" THEN "exited" ELSE win[g].pc) /\ (win'[g].kin <=> FALSE)
      /\ win'[g].told = win[g].told /\ (win'[g].killed <=> TRUE) /\ win'[g].cut = short
  BY <1>2, <1>4, <1>5 DEF AWindow, WindowPlaces
<1>8. win' \in [Window -> AWindow]
  <2>1. \A h \in Window : win'[h] \in AWindow
    BY <1>1, <1>6, <1>7
  <2>2. win' = [h \in Window |-> win'[h]]
    BY <1>1, <1>3
  <2>3. QED
    BY <2>1, <2>2
<1>9. QED
  BY <1>4, <1>6, <1>7, <1>8

\* A window whose process and kin start.
LEMMA SpawnsIs ==
    ASSUME WindowTypes, NEW g \in Window, win' = [win EXCEPT ![g].pc = "running", ![g].kin = TRUE]
    PROVE  /\ win' \in [Window -> AWindow] /\ \A h \in Window \ {g} : win'[h] = win[h]
           /\ win'[g].pc = "running" /\ (win'[g].kin <=> TRUE)
           /\ win'[g].told = win[g].told /\ (win'[g].killed <=> win[g].killed)
           /\ (win'[g].cut <=> win[g].cut)
<1>1. win \in [Window -> AWindow]
  BY WindowsAre
<1>2. QED
  BY <1>1 DEF AWindow, WindowPlaces

\* A window whose kin end.
LEMMA KinEndsIs ==
    ASSUME WindowTypes, NEW g \in Window, win' = [win EXCEPT ![g].kin = FALSE]
    PROVE  /\ win' \in [Window -> AWindow] /\ \A h \in Window \ {g} : win'[h] = win[h]
           /\ win'[g].pc = win[g].pc /\ (win'[g].kin <=> FALSE)
           /\ win'[g].told = win[g].told /\ (win'[g].killed <=> win[g].killed)
           /\ (win'[g].cut <=> win[g].cut)
<1>1. win \in [Window -> AWindow]
  BY WindowsAre
<1>2. QED
  BY <1>1 DEF AWindow, WindowPlaces

\* A close that goes on.
LEMMA AskerGoesIs ==
    ASSUME WindowTypes, NEW a \in Asker, NEW pc \in AskerPlaces, NEW of \in Window \cup {None}, AskerGoes(a, pc, of)
    PROVE  /\ asker' \in [Asker -> AnAsker] /\ \A b \in Asker \ {a} : asker'[b] = asker[b]
           /\ asker'[a].pc = pc /\ asker'[a].of = of /\ asker'[a].answer = asker[a].answer
<1>1. asker \in [Asker -> AnAsker]
  BY WindowsAre
<1>2. QED
  BY <1>1 DEF AnAsker, AskerPlaces, AskerGoes

\* A close that answers.
LEMMA AnswersIs ==
    ASSUME WindowTypes, NEW a \in Asker, NEW said \in Said, Answers(a, said)
    PROVE  /\ asker' \in [Asker -> AnAsker] /\ \A b \in Asker \ {a} : asker'[b] = asker[b]
           /\ asker'[a].pc = "done" /\ asker'[a].of = asker[a].of /\ asker'[a].answer = said
<1>1. asker \in [Asker -> AnAsker]
  BY WindowsAre
<1>2. QED
  BY <1>1 DEF AnAsker, AskerPlaces, Answers

\* The window that is being launched, if one is.
LEMMA BeingLaunchedIs ==
    /\ BeingLaunched \in Window \cup {None}
    /\ \A g \in Window : Launching(g) => BeingLaunched \in Window /\ Launching(BeingLaunched)
<1>1. CASE \E g \in Window : Launching(g)
  <2> DEFINE the == CHOOSE g \in Window : Launching(g)
  <2>1. the \in Window /\ Launching(the)
    BY <1>1, Zenon
  <2>2. BeingLaunched = the
    BY <1>1, Zenon DEF BeingLaunched
  <2> HIDE DEF the
  <2>3. QED
    BY <2>1, <2>2
<1>2. CASE ~\E g \in Window : Launching(g)
  <2>1. BeingLaunched = None
    BY <1>2, Zenon DEF BeingLaunched
  <2>2. QED
    BY <1>2, <2>1
<1>3. QED
  BY <1>1, <1>2

-------------------------------------------------------------------------------
(* What a step may do to a window *)

\* A window goes on; it is told once, and killed while something of it is left.
Goes(h) ==
    /\ win[h].pc \in Past => win'[h].pc \in Past /\ (win'[h].kin => win[h].kin)
    /\ win[h].pc \in {"telling", "over"} => win'[h].pc \in {"telling", "over"} /\ win'[h].told = win[h].told
    /\ win[h].pc = "over" => win'[h].pc = "over"
    /\ win'[h].pc = "preparing" => win[h].pc = "preparing" \/ (win[h].pc = "looking" /\ ~Taken /\ Mine = {})
    /\ win'[h].pc = "starting" => win[h].pc = "starting" \/ (win[h].pc = "preparing" /\ stage = "up")
    /\ win'[h].pc = "running" => win[h].pc = "running" \/ (win[h].pc = "starting" /\ watched' = h /\ group' = h)
    /\ win'[h].pc = "exited" => win[h].pc \in {"running", "exited"}
    /\ win[h].killed => win'[h].killed
    /\ win'[h].cut => win'[h].killed
    /\ win'[h].cut /\ ~win[h].cut => win[h].pc \in Past /\ ~(win[h].pc = "over" /\ ~win[h].kin)
    /\ win'[h].told <= 1

\* One at a time.
Moved ==
    /\ \A h \in Window : Goes(h)
    /\ \A g, h \in Window : g = h \/ win'[g] = win[g] \/ win'[h] = win[h]

\* What the lemmas below need to know of the windows.
Known == TypeOK /\ LastOne /\ Settled /\ Asked /\ CutIsKilled /\ ShutIsTrue

\* Those that do not move.
LEMMA StillSteps ==
    ASSUME Known, NEW H \in SUBSET Window, \A h \in H : win'[h] = win[h]
    PROVE  \A h \in H : Goes(h)
BY DEF Known, CutIsKilled, ShutIsTrue, Goes

\* A place a window may go to.
Turn(from, to) ==
    \/ from = "new" /\ to = "looking"
    \/ from \in {"looking", "preparing", "starting"} /\ to = "refused"
    \/ from = "looking" /\ to = "preparing" /\ ~Taken /\ Mine = {}
    \/ from = "preparing" /\ to = "starting" /\ stage = "up"
    \/ from = "running" /\ to = "exited"
    \/ from = "exited" /\ to = "telling"
    \/ from = "telling" /\ to = "over"

\* One that goes on.
LEMMA GoesSteps ==
    ASSUME Known, NEW g \in Window, NEW pc \in WindowPlaces, WinGoes(g, pc), Turn(win[g].pc, pc)
    PROVE  Moved /\ win' \in [Window -> AWindow]
<1>1. WindowTypes /\ win \in [Window -> AWindow]
  BY WindowsAre DEF Known, TypeOK
<1>2. /\ win' \in [Window -> AWindow] /\ \A h \in Window \ {g} : win'[h] = win[h]
      /\ win'[g].pc = pc /\ (win'[g].kin <=> win[g].kin)
      /\ win'[g].told = win[g].told /\ (win'[g].killed <=> win[g].killed)
      /\ (win'[g].cut <=> win[g].cut)
  BY <1>1, WinGoesIs
<1>3. \A h \in Window \ {g} : Goes(h)
  BY <1>2, StillSteps
<1>4. win[g].told <= 1 /\ (win[g].cut => win[g].killed)
  BY DEF Known, CutIsKilled, ShutIsTrue
<1>5. Goes(g)
  BY <1>2, <1>4 DEF Turn, Goes, Past
<1>6. QED
  BY <1>2, <1>3, <1>5 DEF Moved

\* One that is told.
LEMMA TellsSteps ==
    ASSUME Known, NEW g \in Window, IsOpen(g), win' = [win EXCEPT ![g].told = Tells(@)]
    PROVE  Moved /\ win' \in [Window -> AWindow]
<1>1. WindowTypes /\ win \in [Window -> AWindow]
  BY WindowsAre DEF Known, TypeOK
<1>2. win[g].told <= 1 /\ (win[g].cut => win[g].killed)
  BY DEF Known, CutIsKilled, ShutIsTrue
<1>3. /\ win' \in [Window -> AWindow] /\ \A h \in Window \ {g} : win'[h] = win[h]
      /\ win'[g].pc = win[g].pc /\ (win'[g].kin <=> win[g].kin)
      /\ win'[g].told = 1 /\ (win'[g].killed <=> win[g].killed)
      /\ (win'[g].cut <=> win[g].cut)
  BY <1>1, <1>2, TellsIs
<1>4. \A h \in Window \ {g} : Goes(h)
  BY <1>3, StillSteps
<1>5. Goes(g)
  BY <1>2, <1>3 DEF IsOpen, Goes, Past
<1>6. QED
  BY <1>3, <1>4, <1>5 DEF Moved

\* One whose group is killed, while something of it is left or not.
LEMMA KillsSteps ==
    ASSUME Known, NEW g \in Window, Kills(g), win[g].pc \in Past
    PROVE  Moved /\ win' \in [Window -> AWindow]
<1>1. WindowTypes /\ win \in [Window -> AWindow]
  BY WindowsAre DEF Known, TypeOK
<1>2. win[g].told <= 1 /\ (win[g].cut => win[g].killed)
  BY DEF Known, CutIsKilled, ShutIsTrue
<1>3. /\ win' \in [Window -> AWindow] /\ \A h \in Window \ {g} : win'[h] = win[h]
      /\ win'[g].pc = (IF win[g].pc = "running" THEN "exited" ELSE win[g].pc) /\ (win'[g].kin <=> FALSE)
      /\ win'[g].told = win[g].told /\ (win'[g].killed <=> TRUE)
      /\ (win'[g].cut <=> (win[g].cut \/ win[g].kin \/ win[g].pc = "running"))
  BY <1>1, KillsIs
<1>4. \A h \in Window \ {g} : Goes(h)
  BY <1>3, StillSteps
<1>5. Goes(g)
  BY <1>2, <1>3 DEF Goes, Past
<1>6. QED
  BY <1>3, <1>4, <1>5 DEF Moved

\* Nobody moves.
LEMMA NobodyMoves ==
    ASSUME Known, UNCHANGED win
    PROVE  Moved /\ win' \in [Window -> AWindow]
<1>1. win \in [Window -> AWindow]
  BY WindowsAre DEF Known, TypeOK
<1>2. \A h \in Window : Goes(h)
  BY StillSteps
<1>3. QED
  BY <1>1, <1>2 DEF Moved

\* The user asks for a window.
LEMMA AskWindowSteps ==
    ASSUME Known, NEW g \in Window, AskWindow(g)
    PROVE  Moved /\ WindowTypes'
<1>1. WinGoes(g, "looking") /\ Turn(win[g].pc, "looking") /\ "looking" \in WindowPlaces
  BY DEF AskWindow, Turn, WinAt, WindowPlaces
<1>2. Moved /\ win' \in [Window -> AWindow]
  BY <1>1, GoesSteps
<1>3. WindowTypes'
  BY <1>2 DEF AskWindow, Known, TypeOK, WindowTypes, AWindow, WindowPlaces
<1>4. QED
  BY <1>2, <1>3

\* Its main process ends.
LEMMA ExitSteps ==
    ASSUME Known, NEW g \in Window, Exit(g)
    PROVE  Moved /\ WindowTypes'
<1>1. WinGoes(g, "exited") /\ Turn(win[g].pc, "exited") /\ "exited" \in WindowPlaces
  BY DEF Exit, Turn, WinAt, WindowPlaces
<1>2. Moved /\ win' \in [Window -> AWindow]
  BY <1>1, GoesSteps
<1>3. WindowTypes'
  BY <1>2 DEF Exit, Known, TypeOK, WindowTypes, AWindow, WindowPlaces
<1>4. QED
  BY <1>2, <1>3

\* The wait for it ends.
LEMMA WaitedSteps ==
    ASSUME Known, NEW g \in Window, Waited(g)
    PROVE  Moved /\ WindowTypes'
<1>1. WinGoes(g, "telling") /\ Turn(win[g].pc, "telling") /\ "telling" \in WindowPlaces
  BY DEF Waited, Turn, WinAt, WindowPlaces
<1>2. Moved /\ win' \in [Window -> AWindow]
  BY <1>1, GoesSteps
<1>3. WindowTypes'
  BY <1>2 DEF Waited, Known, TypeOK, WindowTypes, AWindow, WindowPlaces
<1>4. QED
  BY <1>2, <1>3

\* Its end is written.
LEMMA ToldEndSteps ==
    ASSUME Known, NEW g \in Window, ToldEnd(g)
    PROVE  Moved /\ WindowTypes'
<1>1. WinGoes(g, "over") /\ Turn(win[g].pc, "over") /\ "over" \in WindowPlaces
  BY DEF ToldEnd, Turn, WinAt, WindowPlaces
<1>2. Moved /\ win' \in [Window -> AWindow]
  BY <1>1, GoesSteps
<1>3. WindowTypes'
  BY <1>2 DEF ToldEnd, Known, TypeOK, WindowTypes, AWindow, WindowPlaces
<1>4. QED
  BY <1>2, <1>3

\* The look at the folder.
LEMMA TakeFolderSteps ==
    ASSUME Known, NEW g \in Window, TakeFolder(g, Mine # {})
    PROVE  Moved /\ WindowTypes'
<1>1. PICK pc \in {"refused", "preparing"} : WinGoes(g, pc) /\ (pc = "preparing" => ~Taken /\ Mine = {})
  BY DEF TakeFolder
<1>2. Turn(win[g].pc, pc) /\ pc \in WindowPlaces
  BY <1>1 DEF TakeFolder, Turn, WinAt, WindowPlaces
<1>3. Moved /\ win' \in [Window -> AWindow]
  BY <1>1, <1>2, GoesSteps
<1>4. WindowTypes'
  BY <1>3 DEF TakeFolder, Known, TypeOK, WindowTypes, AWindow, WindowPlaces
<1>5. QED
  BY <1>3, <1>4

\* The launch, or its refusal.
LEMMA LaunchSteps ==
    ASSUME Known, NEW g \in Window, Launch(g)
    PROVE  Moved /\ WindowTypes'
<1>1. PICK pc \in {"refused", "starting"} : WinGoes(g, pc) /\ (pc = "starting" => stage = "up")
  BY DEF Launch
<1>2. Turn(win[g].pc, pc) /\ pc \in WindowPlaces
  BY <1>1 DEF Launch, Turn, WinAt, WindowPlaces
<1>3. Moved /\ win' \in [Window -> AWindow]
  BY <1>1, <1>2, GoesSteps
<1>4. WindowTypes'
  BY <1>3 DEF Launch, Known, TypeOK, WindowTypes, AWindow, WindowPlaces
<1>5. QED
  BY <1>3, <1>4

\* The process starts, or cannot.
LEMMA SpawnSteps ==
    ASSUME Known, NEW g \in Window, Spawn(g)
    PROVE  Moved /\ WindowTypes'
<1>t. WindowTypes /\ win \in [Window -> AWindow] /\ win[g].told <= 1 /\ (win[g].cut => win[g].killed)
  BY WindowsAre DEF Known, TypeOK, CutIsKilled, ShutIsTrue
<1>1. CASE /\ win' = [win EXCEPT ![g].pc = "running", ![g].kin = TRUE]
           /\ group' = g /\ watched' = g
  <2>1. /\ win' \in [Window -> AWindow] /\ \A h \in Window \ {g} : win'[h] = win[h]
        /\ win'[g].pc = "running" /\ win'[g].told = win[g].told /\ (win'[g].killed <=> win[g].killed)
        /\ (win'[g].cut <=> win[g].cut)
    BY <1>1, <1>t, SpawnsIs
  <2>2. \A h \in Window \ {g} : Goes(h)
    BY <2>1, StillSteps
  <2>3. Goes(g)
    BY <1>1, <1>t, <2>1 DEF Spawn, WinAt, Goes, Past
  <2>4. WindowTypes'
    BY <1>1, <2>1 DEF Spawn, Known, TypeOK, WindowTypes, AWindow, WindowPlaces
  <2>5. QED
    BY <2>1, <2>2, <2>3, <2>4 DEF Moved
<1>2. CASE WinGoes(g, "refused") /\ UNCHANGED <<group, watched>>
  <2>1. Turn(win[g].pc, "refused") /\ "refused" \in WindowPlaces
    BY DEF Spawn, Turn, WinAt, WindowPlaces
  <2>2. Moved /\ win' \in [Window -> AWindow]
    BY <1>2, <2>1, GoesSteps
  <2>3. WindowTypes'
    BY <1>2, <2>2 DEF Spawn, Known, TypeOK, WindowTypes, AWindow, WindowPlaces
  <2>4. QED
    BY <2>2, <2>3
<1>3. QED
  BY <1>1, <1>2 DEF Spawn

\* A window is told by the stop.
LEMMA TellAtStopSteps ==
    ASSUME Known, NEW g \in Window, TellAtStop(g)
    PROVE  Moved /\ WindowTypes'
<1>1. IsOpen(g) /\ win' = [win EXCEPT ![g].told = Tells(@)]
  BY DEF TellAtStop, WinAt, IsOpen
<1>2. Moved /\ win' \in [Window -> AWindow]
  BY <1>1, TellsSteps
<1>3. WindowTypes'
  BY <1>2 DEF TellAtStop, Known, TypeOK, WindowTypes, AWindow, WindowPlaces
<1>4. QED
  BY <1>2, <1>3

\* What it had started ends.
LEMMA KinEndsSteps ==
    ASSUME Known, NEW g \in Window, KinEnds(g)
    PROVE  Moved /\ WindowTypes'
<1>t. WindowTypes /\ win \in [Window -> AWindow] /\ win[g].told <= 1 /\ (win[g].cut => win[g].killed)
  BY WindowsAre DEF Known, TypeOK, CutIsKilled, ShutIsTrue
<1>1. /\ win' \in [Window -> AWindow] /\ \A h \in Window \ {g} : win'[h] = win[h]
      /\ win'[g].pc = win[g].pc /\ (win'[g].kin <=> FALSE)
      /\ win'[g].told = win[g].told /\ (win'[g].killed <=> win[g].killed)
      /\ (win'[g].cut <=> win[g].cut)
  BY <1>t, KinEndsIs DEF KinEnds
<1>2. \A h \in Window \ {g} : Goes(h)
  BY <1>1, StillSteps
<1>3. win[g].pc # "running"
  BY DEF KinEnds
<1>4. Goes(g)
  BY <1>t, <1>1, <1>3 DEF Goes, Past
<1>5. WindowTypes'
  BY <1>1 DEF KinEnds, Known, TypeOK, WindowTypes, AWindow, WindowPlaces
<1>6. QED
  BY <1>1, <1>2, <1>4, <1>5 DEF Moved

\* The browser ELA did not start.
LEMMA OtherSteps ==
    ASSUME Known, NEW mine \in BOOLEAN, OtherStarts(mine) \/ OtherEnds
    PROVE  Moved /\ WindowTypes'
<1>1. Moved
  BY NobodyMoves DEF OtherStarts, OtherEnds
<1>2. other' \in ABrowser
  <2>1. other \in ABrowser
    BY WindowsAre DEF Known, TypeOK
  <2>2. CASE other' = [other EXCEPT !.pc = "running", !.kin = TRUE]
    BY <2>1, <2>2 DEF ABrowser
  <2>3. CASE other' = [other EXCEPT !.pc = "gone"]
    BY <2>1, <2>3 DEF ABrowser
  <2>4. CASE other' = [other EXCEPT !.kin = FALSE]
    BY <2>1, <2>4 DEF ABrowser
  <2>5. QED
    BY <2>2, <2>3, <2>4 DEF OtherStarts, OtherEnds
<1>3. WindowTypes'
  BY <1>2 DEF OtherStarts, OtherEnds, Known, TypeOK, WindowTypes, ABrowser
<1>4. QED
  BY <1>1, <1>3

-------------------------------------------------------------------------------
(* The closes: what each does to its window, and what it has seen of it *)

\* What a close answered is true.
Truth(a) ==
    LET g == asker[a].of
        said == asker[a].answer
    IN
    /\ said \in {"quit", "killed"} => IF g = None THEN other.pc = "gone" /\ ~other.kin
                                                 ELSE WinAt(g, "over") /\ ~win[g].kin
    /\ said = "killed" => IF g = None THEN other.killed ELSE win[g].killed
    /\ said = "quit" /\ g # None => ~win[g].cut

\* A browser ELA did not start ends once, is told once, and has been killed once it was.
OtherGoes ==
    /\ other.pc = "gone" => other'.pc = "gone" /\ (other'.kin => other.kin)
    /\ other.killed => other'.killed
    /\ other'.told <= 1

\* What the others have seen stays so.
LEMMA SeenStays ==
    ASSUME Known, Moved, OtherGoes, NEW b \in Asker, asker'[b] = asker[b]
    PROVE  Asking(b)' /\ Truth(b)'
<1>1. Asking(b) /\ Truth(b) /\ asker[b] \in AnAsker
  BY WindowsAre DEF Known, Asked, ShutIsTrue, Truth, TypeOK
<1>2. asker[b].of \in Window \cup {None} /\ None \notin Window
  BY <1>1, NoneIsNoWindow DEF AnAsker
<1>3. asker[b].of \in Window => Goes(asker[b].of)
  BY DEF Moved
<1>4. Asking(b)'
  BY <1>1, <1>2, <1>3 DEF Asking, AskerAt, WinAt, Goes, Past, OtherGoes
<1>5. Truth(b)'
  <2>1. CASE asker[b].of = None
    BY <1>1, <2>1 DEF Truth, OtherGoes
  <2>2. CASE asker[b].of \in Window
    BY <1>1, <1>2, <1>3, <2>2 DEF Truth, Goes, WinAt, Past
  <2>3. QED
    BY <1>2, <2>1, <2>2
<1>6. QED
  BY <1>4, <1>5

\* Nothing of the other browser changes.
LEMMA OtherStays ==
    ASSUME Known, UNCHANGED other
    PROVE  OtherGoes
BY DEF Known, ShutIsTrue, OtherGoes

\* What a close of the user does.
Closing(a) ==
    /\ Moved /\ WindowTypes' /\ OtherGoes
    /\ \A b \in Asker \ {a} : asker'[b] = asker[b]
    /\ Asking(a)' /\ Truth(a)'

\* It asks.
LEMMA AskShutCloses ==
    ASSUME Known, NEW a \in Asker, AskShut(a)
    PROVE  Closing(a)
<1>1. /\ WindowTypes /\ "launching" \in AskerPlaces /\ BeingLaunched \in Window \cup {None}
      /\ AskerGoes(a, "launching", BeingLaunched)
  BY BeingLaunchedIs DEF Known, TypeOK, AskShut, AskerPlaces
<1>2. /\ asker' \in [Asker -> AnAsker] /\ \A b \in Asker \ {a} : asker'[b] = asker[b]
      /\ asker'[a].pc = "launching" /\ asker'[a].answer = asker[a].answer
  BY <1>1, AskerGoesIs
<1>3. asker[a].answer = None
  BY DEF AskShut, AskerAt, Known, Asked, Asking
<1>4. Asking(a)' /\ Truth(a)'
  BY <1>2, <1>3, NoneIsNoWindow DEF Asking, AskerAt, Truth
<1>5. Moved /\ OtherGoes
  BY NobodyMoves, OtherStays DEF AskShut
<1>6. WindowTypes'
  BY <1>1, <1>2 DEF AskShut, WindowTypes, AnAsker, AskerPlaces, Said
<1>7. QED
  BY <1>2, <1>4, <1>5, <1>6 DEF Closing

\* An answer that says nothing of the end of a browser.
LEMMA AnswersClose ==
    ASSUME Known, NEW a \in Asker, NEW said \in Said \ {"quit", "killed"}, Answers(a, said),
           UNCHANGED <<win, watched, other, settling>>, group' \in Window \cup {None}
    PROVE  Closing(a)
<1>1. WindowTypes
  BY DEF Known, TypeOK
<1>2. /\ asker' \in [Asker -> AnAsker] /\ \A b \in Asker \ {a} : asker'[b] = asker[b]
      /\ asker'[a].pc = "done" /\ asker'[a].answer = said
  BY <1>1, AnswersIs
<1>3. Asking(a)' /\ Truth(a)'
  BY <1>2 DEF Asking, AskerAt, Truth
<1>4. Moved /\ OtherGoes
  BY NobodyMoves, OtherStays
<1>5. WindowTypes'
  BY <1>1, <1>2 DEF WindowTypes, AnAsker, AskerPlaces, Said
<1>6. QED
  BY <1>2, <1>3, <1>4, <1>5 DEF Closing

\* It looks at what is on the folder.
LEMMA LookShutCloses ==
    ASSUME Known, NEW a \in Asker, NEW mine \in BOOLEAN, LookShut(a, mine)
    PROVE  Closing(a)
<1>1. WindowTypes /\ group' \in Window \cup {None} /\ asker[a].answer = None
  BY DEF LookShut, AskerAt, Known, Asked, Asking, TypeOK, WindowTypes
<1>2. \A said \in {"busy", "stopped", "nothing"} : said \in Said \ {"quit", "killed"}
  BY DEF Said
<1>3. CASE \E said \in {"busy", "stopped", "nothing"} : Answers(a, said) /\ UNCHANGED win
  BY <1>1, <1>2, <1>3, AnswersClose DEF LookShut
<1>4. CASE \E g \in Window : IsOpen(g) /\ AskerGoes(a, "ending", g) /\ win' = [win EXCEPT ![g].told = Tells(@)]
  <2>1. PICK g \in Window : IsOpen(g) /\ AskerGoes(a, "ending", g) /\ win' = [win EXCEPT ![g].told = Tells(@)]
    BY <1>4
  <2>2. Moved /\ win' \in [Window -> AWindow]
    BY <2>1, TellsSteps
  <2>3. /\ asker' \in [Asker -> AnAsker] /\ \A b \in Asker \ {a} : asker'[b] = asker[b]
        /\ asker'[a].pc = "ending" /\ asker'[a].of = g /\ asker'[a].answer = None
    BY <1>1, <2>1, AskerGoesIs DEF AskerPlaces
  <2>4. win'[g].pc \in Past
    BY <2>1, <2>2 DEF Moved, Goes, Past, IsOpen
  <2>5. Asking(a)' /\ Truth(a)'
    BY <2>3, <2>4, NoneIsNoWindow DEF Asking, AskerAt, Truth
  <2>6. WindowTypes'
    BY <1>1, <2>2, <2>3 DEF LookShut, WindowTypes, AWindow, WindowPlaces, AnAsker, AskerPlaces, Said
  <2>7. QED
    BY <2>2, <2>3, <2>5, <2>6, OtherStays DEF Closing, LookShut
<1>5. CASE AskerGoes(a, "naming", None) /\ UNCHANGED win
  <2>1. /\ asker' \in [Asker -> AnAsker] /\ \A b \in Asker \ {a} : asker'[b] = asker[b]
        /\ asker'[a].pc = "naming" /\ asker'[a].answer = None
    BY <1>1, <1>5, AskerGoesIs DEF AskerPlaces
  <2>2. Asking(a)' /\ Truth(a)'
    BY <2>1, NoneIsNoWindow DEF Asking, AskerAt, Truth
  <2>3. WindowTypes'
    BY <1>1, <1>5, <2>1 DEF LookShut, WindowTypes, AnAsker, AskerPlaces, Said
  <2>4. QED
    BY <1>5, <2>1, <2>2, <2>3, NobodyMoves, OtherStays DEF Closing, LookShut
<1>6. QED
  BY <1>3, <1>4, <1>5 DEF LookShut

\* It ends with its window, or is not told that it did.
LEMMA EndShutCloses ==
    ASSUME Known, NEW a \in Asker, EndShut(a)
    PROVE  Closing(a)
<1> DEFINE g == asker[a].of
<1>1. /\ WindowTypes /\ Asking(a) /\ g \in Window \cup {None} /\ None \notin Window
      /\ group' \in Window \cup {None} /\ UNCHANGED <<win, watched, other, settling>>
  BY WindowsAre, NoneIsNoWindow DEF Known, Asked, TypeOK, AnAsker, EndShut, Unleft, WindowTypes
<1>2. g \in Window
  BY <1>1 DEF EndShut, Asking
<1>3. CASE Answers(a, "told")
  BY <1>1, <1>3, AnswersClose DEF Said
<1>4. CASE \E said \in {"quit", "killed"} :
               Answers(a, said) /\ WinAt(g, "over") /\ ~win[g].kin /\ (said = "killed" <=> win[g].killed)
  <2>1. PICK said \in {"quit", "killed"} :
               Answers(a, said) /\ WinAt(g, "over") /\ ~win[g].kin /\ (said = "killed" <=> win[g].killed)
    BY <1>4
  <2>2. said \in Said /\ (win[g].cut => win[g].killed)
    BY <1>2 DEF Said, Known, CutIsKilled
  <2>3. /\ asker' \in [Asker -> AnAsker] /\ \A b \in Asker \ {a} : asker'[b] = asker[b]
        /\ asker'[a].pc = "done" /\ asker'[a].answer = said /\ asker'[a].of = g
    BY <1>1, <2>1, <2>2, AnswersIs
  <2> HIDE DEF g
  <2>4. Asking(a)'
    BY <2>3 DEF Asking, AskerAt
  <2>5. Truth(a)'
    BY <1>1, <1>2, <2>1, <2>2, <2>3 DEF Truth, WinAt
  <2>6. WindowTypes'
    BY <1>1, <2>3 DEF WindowTypes, AnAsker, AskerPlaces, Said
  <2>7. QED
    BY <1>1, <2>3, <2>4, <2>5, <2>6, NobodyMoves, OtherStays DEF Closing
<1>5. QED
  <2>1. CASE AskerAt(a, "ending") /\ QuitIsOver(g) /\ Answers(a, HowItEnded(g))
    BY <1>4, <2>1 DEF QuitIsOver, HowItEnded
  <2>2. CASE AskerAt(a, "killing") /\ QuitIsOver(g) /\ Answers(a, "killed")
    BY <1>1, <1>4, <2>2 DEF QuitIsOver, Asking
  <2>3. QED
    BY <1>3, <2>1, <2>2 DEF EndShut

\* A look of it is in doubt.
LEMMA DoubtShutCloses ==
    ASSUME Known, NEW a \in Asker, DoubtShut(a)
    PROVE  Closing(a)
<1> DEFINE g == asker[a].of
<1>1. WindowTypes /\ Asking(a) /\ g \in Window \cup {None} /\ None \notin Window
  BY WindowsAre, NoneIsNoWindow DEF Known, Asked, TypeOK, AnAsker
<1>2. /\ g \in Window /\ asker[a].answer = None /\ WinAt(g, "over") /\ AskerGoes(a, "doubting", g)
      /\ UNCHANGED <<win, group, watched, other, settling>>
  BY <1>1 DEF DoubtShut, Asking, AskerAt
<1> HIDE DEF g
<1>3. /\ asker' \in [Asker -> AnAsker] /\ \A b \in Asker \ {a} : asker'[b] = asker[b]
      /\ asker'[a].pc = "doubting" /\ asker'[a].of = g /\ asker'[a].answer = None
  BY <1>1, <1>2, AskerGoesIs DEF AskerPlaces
<1>4. Asking(a)' /\ Truth(a)'
  BY <1>1, <1>2, <1>3, NoneIsNoWindow DEF Asking, AskerAt, Truth, WinAt
<1>5. WindowTypes'
  BY <1>1, <1>2, <1>3 DEF WindowTypes, AnAsker, AskerPlaces, Said
<1>6. QED
  BY <1>2, <1>3, <1>4, <1>5, NobodyMoves, OtherStays DEF Closing

\* It kills the group past the grace.
LEMMA KillShutCloses ==
    ASSUME Known, NEW a \in Asker, KillShut(a)
    PROVE  Closing(a)
<1> DEFINE g == asker[a].of
<1>1. WindowTypes /\ Asking(a) /\ g \in Window \cup {None} /\ None \notin Window
      /\ asker[a].pc \in {"ending", "doubting"}
  BY WindowsAre, NoneIsNoWindow DEF Known, Asked, TypeOK, AnAsker, KillShut, AskerAt
<1>2. g \in Window /\ win[g].pc \in Past /\ asker[a].answer = None
  BY <1>1 DEF Asking, AskerAt, WinAt, Past
<1>3. Kills(g) /\ AskerGoes(a, "killing", g)
      /\ UNCHANGED <<group, watched, other, settling>>
  BY DEF KillShut
<1> HIDE DEF g
<1>4. Moved /\ win' \in [Window -> AWindow]
  BY <1>2, <1>3, KillsSteps
<1>5. /\ asker' \in [Asker -> AnAsker] /\ \A b \in Asker \ {a} : asker'[b] = asker[b]
      /\ asker'[a].pc = "killing" /\ asker'[a].of = g /\ asker'[a].answer = None
  BY <1>1, <1>2, <1>3, AskerGoesIs DEF AskerPlaces
<1>6. win'[g].killed /\ ~win'[g].kin /\ win'[g].pc \in Past
  <2>1. (win'[g].kin <=> FALSE) /\ (win'[g].killed <=> TRUE)
    BY <1>1, <1>2, <1>3, KillsIs
  <2>2. QED
    BY <1>2, <1>4, <2>1 DEF Moved, Goes
<1>7. Asking(a)' /\ Truth(a)'
  BY <1>1, <1>2, <1>5, <1>6, NoneIsNoWindow DEF Asking, AskerAt, Truth
<1>8. WindowTypes'
  BY <1>1, <1>3, <1>4, <1>5 DEF WindowTypes, AWindow, WindowPlaces, AnAsker, AskerPlaces, Said
<1>9. QED
  BY <1>3, <1>4, <1>5, <1>7, <1>8, OtherStays DEF Closing

\* It names the browser of the lock, or answers.
LEMMA NameShutCloses ==
    ASSUME Known, NEW a \in Asker, NameShut(a)
    PROVE  Closing(a)
<1>1. WindowTypes /\ group' \in Window \cup {None} /\ asker[a].answer = None
  BY DEF NameShut, AskerAt, Known, Asked, Asking, TypeOK, WindowTypes
<1>2. \A said \in {"busy", "stopped", "nothing"} : said \in Said \ {"quit", "killed"}
  BY DEF Said
<1>3. CASE \E said \in {"busy", "stopped", "nothing"} : Answers(a, said)
  BY <1>1, <1>2, <1>3, AnswersClose DEF NameShut
<1>4. CASE AskerGoes(a, "signalling", None)
  <2>1. /\ asker' \in [Asker -> AnAsker] /\ \A b \in Asker \ {a} : asker'[b] = asker[b]
        /\ asker'[a].pc = "signalling" /\ asker'[a].answer = None
    BY <1>1, <1>4, AskerGoesIs DEF AskerPlaces
  <2>2. Asking(a)' /\ Truth(a)'
    BY <2>1, NoneIsNoWindow DEF Asking, AskerAt, Truth
  <2>3. WindowTypes'
    BY <1>1, <2>1 DEF NameShut, WindowTypes, AnAsker, AskerPlaces, Said
  <2>4. QED
    BY <2>1, <2>2, <2>3, NobodyMoves, OtherStays DEF Closing, NameShut
<1>5. QED
  BY <1>3, <1>4 DEF NameShut

\* It tells that browser to quit.
LEMMA SignalShutCloses ==
    ASSUME Known, NEW a \in Asker, SignalShut(a)
    PROVE  Closing(a)
<1>1. WindowTypes /\ group' \in Window \cup {None} /\ asker[a].answer = None /\ other.told <= 1
  BY DEF SignalShut, AskerAt, Known, Asked, Asking, TypeOK, WindowTypes, ShutIsTrue
<1>2. CASE (Answers(a, "stopped") \/ Answers(a, "busy")) /\ UNCHANGED other
  BY <1>1, <1>2, AnswersClose DEF SignalShut, Said
<1>3. CASE AskerGoes(a, "waiting", None) /\ other' = [other EXCEPT !.told = Tells(@)]
  <2>1. /\ asker' \in [Asker -> AnAsker] /\ \A b \in Asker \ {a} : asker'[b] = asker[b]
        /\ asker'[a].pc = "waiting" /\ asker'[a].answer = None
    BY <1>1, <1>3, AskerGoesIs DEF AskerPlaces
  <2>2. Asking(a)' /\ Truth(a)'
    BY <2>1, NoneIsNoWindow DEF Asking, AskerAt, Truth
  <2>3. /\ other' \in ABrowser
        /\ other'.pc = other.pc /\ (other'.kin <=> other.kin) /\ other'.told = 1
        /\ (other'.killed <=> other.killed)
    BY <1>1, <1>3, WindowsAre DEF ABrowser, Tells
  <2>4. WindowTypes'
    BY <1>1, <2>1, <2>3 DEF SignalShut, WindowTypes, ABrowser, AnAsker, AskerPlaces, Said
  <2>5. OtherGoes
    BY <2>3 DEF OtherGoes
  <2>6. QED
    BY <2>1, <2>2, <2>4, <2>5, NobodyMoves DEF Closing, SignalShut
<1>4. QED
  BY <1>2, <1>3 DEF SignalShut

\* It ends, or is told and left, or named.
LEMMA EndAnotherCloses ==
    ASSUME Known, NEW a \in Asker, EndAnother(a)
    PROVE  Closing(a)
<1>1. WindowTypes /\ group' \in Window \cup {None} /\ asker[a].answer = None
  BY DEF EndAnother, AskerAt, Known, Asked, Asking, TypeOK, WindowTypes
<1>2. CASE Answers(a, "told")
  BY <1>1, <1>2, AnswersClose DEF EndAnother, Said
<1>3. CASE \E pc \in {"left", "judging"} : AskerGoes(a, pc, None) /\ (pc = "left" => other.pc = "gone")
  <2>1. PICK pc \in {"left", "judging"} : AskerGoes(a, pc, None) /\ (pc = "left" => other.pc = "gone")
    BY <1>3
  <2>2. /\ asker' \in [Asker -> AnAsker] /\ \A b \in Asker \ {a} : asker'[b] = asker[b]
        /\ asker'[a].pc = pc /\ asker'[a].of = None /\ asker'[a].answer = None
    BY <1>1, <2>1, AskerGoesIs DEF AskerPlaces
  <2>3. Asking(a)' /\ Truth(a)'
    BY <2>1, <2>2, NoneIsNoWindow DEF Asking, AskerAt, Truth, EndAnother
  <2>4. WindowTypes'
    BY <1>1, <2>2 DEF EndAnother, WindowTypes, AnAsker, AskerPlaces, Said
  <2>5. QED
    BY <2>2, <2>3, <2>4, NobodyMoves, OtherStays DEF Closing, EndAnother
<1>4. QED
  BY <1>2, <1>3 DEF EndAnother

\* It is killed, or ELA stops.
LEMMA KillAnotherCloses ==
    ASSUME Known, NEW a \in Asker, KillAnother(a)
    PROVE  Closing(a)
<1>1. WindowTypes /\ group' \in Window \cup {None} /\ asker[a].answer = None /\ other.told <= 1
  BY DEF KillAnother, AskerAt, Known, Asked, Asking, TypeOK, WindowTypes, ShutIsTrue
<1>2. CASE Answers(a, "told") /\ UNCHANGED other
  BY <1>1, <1>2, AnswersClose DEF KillAnother, Said
<1>3. CASE AskerGoes(a, "swept", None) /\ other' = [other EXCEPT !.pc = "gone", !.killed = TRUE]
  <2>1. /\ other' \in ABrowser /\ other'.pc = "gone" /\ (other'.kin <=> other.kin) /\ other'.told = other.told
        /\ (other'.killed <=> TRUE)
    BY <1>1, <1>3, WindowsAre DEF ABrowser
  <2>2. /\ asker' \in [Asker -> AnAsker] /\ \A b \in Asker \ {a} : asker'[b] = asker[b]
        /\ asker'[a].pc = "swept" /\ asker'[a].of = None /\ asker'[a].answer = None
    BY <1>1, <1>3, AskerGoesIs DEF AskerPlaces
  <2>3. Asking(a)' /\ Truth(a)'
    BY <2>1, <2>2, NoneIsNoWindow DEF Asking, AskerAt, Truth
  <2>4. WindowTypes'
    BY <1>1, <2>1, <2>2 DEF KillAnother, WindowTypes, ABrowser, AnAsker, AskerPlaces, Said
  <2>5. OtherGoes
    BY <1>1, <2>1 DEF OtherGoes
  <2>6. QED
    BY <2>2, <2>3, <2>4, <2>5, NobodyMoves DEF Closing, KillAnother
<1>4. QED
  BY <1>2, <1>3 DEF KillAnother

\* What it had started ended, or is left.
LEMMA LeaveAnotherCloses ==
    ASSUME Known, NEW a \in Asker, LeaveAnother(a)
    PROVE  Closing(a)
<1>1. WindowTypes /\ group' \in Window \cup {None} /\ asker[a].of = None /\ other.pc = "gone"
      /\ (AskerAt(a, "swept") => other.killed) /\ (AskerAt(a, "left") => ~AskerAt(a, "swept"))
  BY DEF LeaveAnother, AskerAt, Known, Asked, Asking, TypeOK, WindowTypes
<1>2. CASE Answers(a, "told")
  BY <1>1, <1>2, AnswersClose DEF LeaveAnother, Said
<1>3. CASE ~other.kin /\ \E said \in {"quit", "killed"} : Answers(a, said) /\ (said = "killed" => other.killed)
  <2>1. PICK said \in {"quit", "killed"} : Answers(a, said) /\ (said = "killed" => other.killed)
    BY <1>3
  <2>2. /\ asker' \in [Asker -> AnAsker] /\ \A b \in Asker \ {a} : asker'[b] = asker[b]
        /\ asker'[a].pc = "done" /\ asker'[a].of = None /\ asker'[a].answer = said
    BY <1>1, <2>1, AnswersIs DEF Said
  <2>3. Asking(a)' /\ Truth(a)'
    BY <1>1, <1>3, <2>1, <2>2 DEF Asking, AskerAt, Truth, LeaveAnother
  <2>4. WindowTypes'
    BY <1>1, <2>2 DEF LeaveAnother, WindowTypes, AnAsker, AskerPlaces, Said
  <2>5. QED
    BY <2>2, <2>3, <2>4, NobodyMoves, OtherStays DEF Closing, LeaveAnother
<1>4. QED
  BY <1>1, <1>2, <1>3 DEF LeaveAnother, AskerAt

\* Whoever asked goes away.
LEMMA DropCloses ==
    ASSUME Known, NEW a \in Asker, Drop(a)
    PROVE  Closing(a)
<1>1. None \in Said \ {"quit", "killed"}
  BY NoneIsNoWindow DEF Said
<1>2. group' \in Window \cup {None}
  BY DEF Drop, Known, TypeOK, WindowTypes
<1>3. QED
  BY <1>1, <1>2, AnswersClose DEF Drop

-------------------------------------------------------------------------------
(* The stop of ELA, and the window it waits for *)

\* The stop of ELA tells no close anything.
LEMMA SettleSteps ==
    ASSUME Known, SettlePages \/ SettleLaunch \/ SettleWindow \/ SettleDoubt \/ SettleKill
    PROVE  Moved /\ WindowTypes' /\ UNCHANGED <<asker, other>>
<1>1. WindowTypes /\ None \notin Window
  BY NoneIsNoWindow DEF Known, TypeOK
<1>2. CASE SettlePages
  <2>1. WindowTypes'
    BY <1>1, <1>2, BeingLaunchedIs DEF SettlePages, WindowTypes
  <2>2. QED
    BY <1>2, <2>1, NobodyMoves DEF SettlePages
<1>3. CASE SettleLaunch
  <2>1. WindowTypes'
    BY <1>1, <1>3 DEF SettleLaunch, WindowTypes
  <2>2. QED
    BY <1>3, <2>1, NobodyMoves DEF SettleLaunch
<1>4. CASE SettleWindow
  <2>1. settling' \in [pc : {"pages", "launching", "window", "doubting", "killing", "settled"},
                       of : Window \cup {None}, group : Window \cup {None}]
    BY <1>1, <1>4 DEF SettleWindow, SettlesTo, WindowTypes
  <2>2. WindowTypes'
    BY <1>1, <1>4, <2>1 DEF SettleWindow, WindowTypes
  <2>3. QED
    BY <1>4, <2>2, NobodyMoves DEF SettleWindow
<1>5. CASE SettleKill
  <2>1. settling' \in [pc : {"pages", "launching", "window", "doubting", "killing", "settled"},
                       of : Window \cup {None}, group : Window \cup {None}]
    BY <1>1, <1>5 DEF SettleKill, SettlesTo, WindowTypes
  <2>2. CASE settling.group = None
    <3>1. UNCHANGED win
      BY <1>5, <2>2 DEF SettleKill
    <3>2. WindowTypes'
      BY <1>1, <1>5, <2>1, <3>1 DEF SettleKill, WindowTypes
    <3>3. QED
      BY <1>5, <3>1, <3>2, NobodyMoves DEF SettleKill
  <2>3. CASE settling.group # None
    <3>1. Kills(settling.group)
      BY <1>5, <2>3 DEF SettleKill
    <3>2. /\ settling.of = watched /\ watched \in Window /\ settling.group = settling.of
          /\ win[watched].pc \in Past
      BY <1>1, <1>5, <2>3 DEF SettleKill, Known, Settled, LastOne, WindowTypes
    <3>4. Moved /\ win' \in [Window -> AWindow]
      BY <3>1, <3>2, KillsSteps
    <3>5. WindowTypes'
      BY <1>1, <1>5, <2>1, <3>4 DEF SettleKill, WindowTypes, AWindow, WindowPlaces
    <3>6. QED
      BY <1>5, <3>4, <3>5 DEF SettleKill
  <2>4. QED
    BY <2>2, <2>3
<1>6. CASE SettleDoubt
  <2>1. settling' \in [pc : {"pages", "launching", "window", "doubting", "killing", "settled"},
                       of : Window \cup {None}, group : Window \cup {None}]
    BY <1>1, <1>6 DEF SettleDoubt, SettlesTo, WindowTypes
  <2>2. WindowTypes'
    BY <1>1, <1>6, <2>1 DEF SettleDoubt, WindowTypes
  <2>3. QED
    BY <1>6, <2>2, NobodyMoves DEF SettleDoubt
<1>7. QED
  BY <1>2, <1>3, <1>4, <1>5, <1>6

\* What becomes of the window ELA waits for, but when ELA settles.
FieldsGo ==
    \/ watched' = watched /\ group' = group
    \/ \E g \in Window : WinAt(g, "starting") /\ watched' = g /\ group' = g /\ win'[g].pc = "running"
    \/ watched' = watched /\ group' = None /\ \E g \in Window :
           g = watched /\ (~win[g].kin \/ (win[g].told = 0 /\ win[g].pc = "exited" /\ win'[g].pc = "telling"
                                                           /\ win'[g].told = 0))

\* The step of a window.
LEMMA SigningFields ==
    ASSUME Known, NEW g \in Window, Signing(g)
    PROVE  FieldsGo /\ UNCHANGED <<other, asker, settling>>
<1>1. CASE Spawn(g)
  <2>1. WindowTypes
    BY DEF Known, TypeOK
  <2>2. CASE win' = [win EXCEPT ![g].pc = "running", ![g].kin = TRUE] /\ group' = g /\ watched' = g
    <3>1. win'[g].pc = "running"
      BY <2>1, <2>2, SpawnsIs
    <3>2. QED
      BY <1>1, <2>2, <3>1 DEF Spawn, FieldsGo
  <2>3. QED
    BY <1>1, <2>2 DEF Spawn, FieldsGo
<1>2. CASE Waited(g)
  <2>1. WindowTypes /\ "telling" \in WindowPlaces
    BY DEF Known, TypeOK, WindowPlaces
  <2>2. win'[g].pc = "telling" /\ win'[g].told = win[g].told /\ win[g].pc = "exited"
    BY <1>2, <2>1, WinGoesIs DEF Waited, WinAt
  <2>3. g = watched
    BY <2>2 DEF Known, LastOne, IsOpen
  <2>4. QED
    BY <1>2, <2>2, <2>3 DEF Waited, FieldsGo
<1>3. QED
  BY <1>1, <1>2 DEF Signing, TakeFolder, Launch, TellAtStop, ToldEnd, FieldsGo

\* The step of a close.
LEMMA ShuttingFields ==
    ASSUME Known, NEW a \in Asker, Shutting(a)
    PROVE  FieldsGo /\ UNCHANGED settling
<1>1. CASE EndShut(a)
  <2> DEFINE g == asker[a].of
  <2>1. Asking(a) /\ group \in {None, watched} /\ g \in Window \cup {None}
    BY WindowsAre DEF Known, Asked, LastOne, TypeOK, AnAsker
  <2>2. UNCHANGED group \/ (~win[g].kin /\ g \in Window /\ Unleft(g))
    BY <1>1, <2>1 DEF EndShut, QuitIsOver, Asking
  <2>3. QED
    BY <1>1, <2>1, <2>2 DEF EndShut, Unleft, FieldsGo
<1>2. QED
  BY <1>1 DEF Shutting, AskShut, LookShut, DoubtShut, KillShut, NameShut, SignalShut, EndAnother, KillAnother,
     LeaveAnother,
               Drop, FieldsGo

\* The last window, over any step but those of the stop.
LEMMA LastOneStays ==
    ASSUME Known, Alone, Moved, WindowTypes', FieldsGo
    PROVE  LastOne'
<1>1. WindowTypes /\ None \notin Window /\ \A h \in Window : Goes(h)
  BY NoneIsNoWindow DEF Known, TypeOK, Moved
<1>2. watched \in Window \cup {None} /\ watched' \in Window \cup {None}
  BY <1>1 DEF WindowTypes
<1>3. watched' # None => win'[watched'].pc \in Past
  BY <1>1, <1>2 DEF FieldsGo, Known, LastOne, Goes, Past
<1>4. group' \in {None, watched'}
  BY DEF FieldsGo, Known, LastOne
<1>5. ASSUME NEW h \in Window, win'[h].pc \in {"running", "exited"}
      PROVE  watched' = h
  <2>1. Goes(h)
    BY <1>1
  <2>2. CASE win[h].pc = "starting" /\ watched' = h
    BY <2>2
  <2>3. CASE win[h].pc \in {"running", "exited"}
    <3>1. watched = h /\ h \in OnTheFolder
      BY <2>3 DEF Known, LastOne, IsOpen, OnTheFolder
    <3>2. ASSUME NEW g \in Window, WinAt(g, "starting")
          PROVE  FALSE
      <4>1. g \in OnTheFolder
        BY <3>2 DEF OnTheFolder, Launching, WinAt
      <4>2. QED
        BY <2>3, <3>1, <3>2, <4>1 DEF Alone, WinAt
    <3>3. QED
      BY <3>1, <3>2 DEF FieldsGo
  <2>4. QED
    BY <1>5, <2>1, <2>2, <2>3 DEF Goes
<1>6. ASSUME watched' # None, group' = None
      PROVE  ~win'[watched'].kin \/ (win'[watched'].told = 0 /\ win'[watched'].pc \in {"telling", "over"})
  <2>1. watched' = watched /\ watched \in Window /\ Goes(watched) /\ win[watched].pc \in Past
    BY <1>1, <1>2, <1>6 DEF FieldsGo, Known, LastOne
  <2>2. CASE ~win[watched].kin
    BY <2>1, <2>2 DEF Goes
  <2>3. CASE win[watched].told = 0 /\ win[watched].pc \in {"telling", "over"}
    BY <2>1, <2>3 DEF Goes
  <2>4. CASE win'[watched].pc = "telling" /\ win'[watched].told = 0
    BY <2>1, <2>4
  <2>5. QED
    BY <1>1, <1>6, <2>1, <2>2, <2>3, <2>4 DEF FieldsGo, Known, LastOne
<1>7. QED
  BY <1>3, <1>4, <1>5, <1>6 DEF LastOne, IsOpen, WinAt

\* Where the close of ELA is, over the steps of the windows and of those who close them.
LEMMA SettledStays ==
    ASSUME Known, Moved, WindowTypes', FieldsGo, UNCHANGED <<settling, stage, pages>>
    PROVE  Settled'
<1>1. WindowTypes /\ None \notin Window /\ \A h \in Window : Goes(h)
  BY NoneIsNoWindow DEF Known, TypeOK, Moved
<1>2. Settled /\ LastOne
  BY DEF Known
<1>3. \A p \in Page : Alive(p)' <=> Alive(p)
  BY DEF Alive
<1>4. /\ settling.pc = "pages" => stage # "down"
      /\ settling.pc # "pages" => stage \in {"forgotten", "down"} /\ \A p \in Page : Alive(p)' = FALSE
      /\ stage = "down" => settling.pc = "settled"
  BY <1>2, <1>3 DEF Settled
<1>5. settling.pc = "launching" => /\ \A g \in Window : win'[g].pc = "starting" => settling.of = g
                                   /\ settling.group = None
  BY <1>1, <1>2 DEF Settled, Goes, WinAt
<1>6. settling.pc \in {"window", "doubting", "killing", "settled"} =>
          \A g \in Window : win'[g].pc # "starting" /\ win[g].pc # "starting"
  BY <1>1, <1>2 DEF Settled, Goes, WinAt
<1>7. ASSUME settling.pc \in {"window", "doubting", "killing"}
      PROVE  /\ settling.of = watched' /\ watched' # None /\ settling.group \in {None, settling.of}
             /\ settling.group = None => group' = None
             /\ settling.pc = "killing" => ~win'[settling.of].kin \/ settling.group = None
  <2>1. watched' = watched /\ group' \in {group, None}
    BY <1>6, <1>7 DEF FieldsGo, WinAt
  <2>2. settling.of = watched /\ watched \in Window /\ settling.group \in {None, settling.of}
    BY <1>1, <1>2, <1>7 DEF Settled, WindowTypes
  <2>3. win[watched].pc \in Past /\ Goes(watched)
    BY <1>1, <1>2, <2>2 DEF LastOne
  <2>4. QED
    BY <1>1, <1>2, <1>7, <2>1, <2>2, <2>3 DEF Settled, Goes
<1>8. ASSUME settling.pc = "settled"
      PROVE  /\ \A g \in Window : win'[g].pc # "running" /\ (g = settling.of => win'[g].pc = "over")
             /\ settling.of # None => ~win'[settling.of].kin \/ win'[settling.of].told = 0
  <2>1. settling.of \in Window \cup {None}
    BY <1>1 DEF WindowTypes
  <2>2. \A g \in Window : win[g].pc # "running" /\ win[g].pc # "starting"
    BY <1>2, <1>6, <1>8 DEF Settled, WinAt
  <2>3. settling.of # None => win[settling.of].pc = "over" /\ Goes(settling.of)
    BY <1>1, <1>2, <1>8, <2>1 DEF Settled, WinAt
  <2>4. \A g \in Window : win'[g].pc # "running" /\ (g = settling.of => win'[g].pc = "over")
    BY <1>1, <2>2, <2>3 DEF Goes
  <2>5. settling.of # None => ~win'[settling.of].kin \/ win'[settling.of].told = 0
    BY <1>2, <1>8, <2>1, <2>3 DEF Settled, Goes, Past
  <2>6. QED
    BY <2>4, <2>5
<1>9. QED
  BY <1>4, <1>5, <1>6, <1>7, <1>8 DEF Settled, WinAt

\* The close of ELA goes on.
LEMMA SettleGoes ==
    ASSUME Known, Alone, SettleTheWindow
    PROVE  LastOne' /\ Settled'
<1>1. WindowTypes /\ None \notin Window /\ Settled /\ LastOne
  BY NoneIsNoWindow DEF Known, TypeOK
<1>2. UNCHANGED <<stage, pages>> /\ \A p \in Page : Alive(p)' <=> Alive(p)
  BY DEF SettleTheWindow, paging, Alive
<1>3. watched \in Window \cup {None} /\ settling.of \in Window \cup {None}
  BY <1>1 DEF WindowTypes
<1>4. CASE SettlePages /\ \A p \in Page : ~InFlight(p)
  <2>1. UNCHANGED <<win, group, watched>>
    BY <1>4 DEF SettlePages
  <2>2. LastOne'
    BY <1>1, <2>1 DEF LastOne, IsOpen
  <2>3. settling'.pc = "launching" /\ settling'.of = BeingLaunched /\ settling'.group = None /\ stage = "forgotten"
    BY <1>4 DEF SettlePages
  <2>4. ASSUME NEW g \in Window, WinAt(g, "starting")
        PROVE  BeingLaunched = g
    <3>1. BeingLaunched \in Window /\ Launching(BeingLaunched) /\ Launching(g)
      BY <2>4, BeingLaunchedIs DEF Launching, WinAt
    <3>2. QED
      BY <3>1 DEF Alone, OnTheFolder
  <2>5. Settled'
    BY <1>2, <1>4, <2>1, <2>3, <2>4 DEF Settled, InFlight, WinAt
  <2>6. QED
    BY <2>2, <2>5
<1>5. CASE SettleLaunch
  <2>1. UNCHANGED <<win, group, watched>>
    BY <1>5 DEF SettleLaunch
  <2>2. LastOne'
    BY <1>1, <2>1 DEF LastOne, IsOpen
  <2>3. /\ settling'.pc = (IF watched = None THEN "settled" ELSE "window")
        /\ settling'.of = watched /\ settling'.group = group /\ settling.pc = "launching"
    BY <1>5 DEF SettleLaunch
  <2>4. \A g \in Window : ~WinAt(g, "starting")
    BY <1>1, <1>5, <2>3 DEF SettleLaunch, IsLaunched, Settled, Launching, WinAt
  <2>5. stage = "forgotten" /\ \A p \in Page : ~Alive(p)
    BY <1>1, <2>3 DEF Settled
  <2>6. group \in {None, watched} /\ \A g \in Window : WinAt(g, "running") => watched = g
    BY <1>1 DEF LastOne, IsOpen, WinAt
  <2>7. Settled'
    BY <1>1, <1>2, <2>1, <2>3, <2>4, <2>5, <2>6 DEF Settled, WinAt
  <2>8. QED
    BY <2>2, <2>7
<1>6. CASE SettleWindow
  <2>1. /\ UNCHANGED win /\ watched' = None /\ group' = None /\ settling.pc \in {"window", "killing"}
        /\ settling'.pc = "settled" /\ settling'.of = settling.of /\ settling'.group = settling.group
    BY <1>1, <1>6 DEF SettleWindow, SettlesTo, WindowTypes
  <2>2. settling.of = watched /\ watched \in Window /\ WinAt(watched, "over")
    BY <1>1, <1>3, <1>6, <2>1 DEF Settled, SettleWindow, NothingLeft
  <2>3. \A g \in Window : ~IsOpen(g) /\ ~WinAt(g, "running") /\ ~WinAt(g, "starting")
    BY <1>1, <2>1, <2>2 DEF LastOne, IsOpen, WinAt, Settled
  <2>4. LastOne'
    BY <2>1, <2>3 DEF LastOne, IsOpen
  <2>5. ~win[watched].kin \/ win[watched].told = 0
    BY <1>1, <1>6, <2>1, <2>2 DEF Settled, LastOne, SettleWindow, NothingLeft
  <2>6. stage = "forgotten" /\ \A p \in Page : ~Alive(p)
    BY <1>1, <2>1 DEF Settled
  <2>7. Settled'
    BY <1>1, <1>2, <2>1, <2>2, <2>3, <2>5, <2>6 DEF Settled, WinAt
  <2>8. QED
    BY <2>4, <2>7
<1>7. CASE SettleKill
  <2>1. /\ UNCHANGED <<watched, group>> /\ settling.pc \in {"window", "doubting"}
        /\ settling'.pc = "killing" /\ settling'.of = settling.of /\ settling'.group = settling.group
    BY <1>1, <1>7 DEF SettleKill, SettlesTo, WindowTypes
  <2>2. Moved /\ WindowTypes'
    BY <1>7, SettleSteps
  <2>3. LastOne'
    BY <2>1, <2>2, LastOneStays DEF FieldsGo
  <2>4. settling.of = watched /\ watched \in Window /\ settling.group \in {None, watched}
    BY <1>1, <1>3, <2>1 DEF Settled
  <2>5. settling.group # None => ~win'[watched].kin
    <3>1. ASSUME settling.group # None
          PROVE  win'[watched].kin <=> FALSE
      BY <1>1, <1>7, <2>4, <3>1, KillsIs DEF SettleKill
    <3>2. QED
      BY <3>1
  <2>6. \A g \in Window : ~WinAt(g, "starting") /\ win'[g].pc # "starting"
    BY <1>1, <2>1, <2>2 DEF Settled, Moved, Goes, WinAt
  <2>7. stage = "forgotten" /\ \A p \in Page : ~Alive(p)
    BY <1>1, <2>1 DEF Settled
  <2>8. settling.group = None => group = None
    BY <1>1, <2>1 DEF Settled
  <2>9. Settled'
    BY <1>1, <1>2, <2>1, <2>4, <2>5, <2>6, <2>7, <2>8 DEF Settled, WinAt
  <2>10. QED
    BY <2>3, <2>9
<1>8. CASE SettleDoubt
  <2>1. /\ UNCHANGED <<win, watched, group>> /\ settling.pc = "window"
        /\ settling'.pc = "doubting" /\ settling'.of = settling.of /\ settling'.group = settling.group
    BY <1>1, <1>8 DEF SettleDoubt, SettlesTo, WindowTypes
  <2>2. LastOne'
    BY <1>1, <2>1 DEF LastOne, IsOpen
  <2>3. Settled'
    BY <1>1, <1>2, <2>1 DEF Settled, WinAt
  <2>4. QED
    BY <2>2, <2>3
<1>9. QED
  BY <1>4, <1>5, <1>6, <1>7, <1>8 DEF SettleTheWindow

\* One window on the folder, and none beside a page.
LEMMA FolderStays ==
    ASSUME Known, Alone, Moved, UNCHANGED pages
    PROVE  Alone'
<1>1. Mine' = Mine
  BY DEF Mine, Holds, Alive
<1>2. \A h \in Window : win'[h].pc \in {"preparing", "starting", "running", "exited"} =>
          h \in OnTheFolder \/ (~Taken /\ Mine = {})
  BY DEF Moved, Goes, OnTheFolder, Launching, IsOpen
<1>3. \A h \in Window : h \in OnTheFolder' <=> win'[h].pc \in {"preparing", "starting", "running", "exited"}
  BY DEF OnTheFolder, Launching, IsOpen
<1>4. ASSUME NEW g \in OnTheFolder', NEW h \in OnTheFolder', g # h
      PROVE  FALSE
  <2>1. g \in Window /\ h \in Window
    BY DEF OnTheFolder
  <2>2. win'[g] = win[g] \/ win'[h] = win[h]
    BY <1>4, <2>1 DEF Moved
  <2>3. g \in OnTheFolder \/ h \in OnTheFolder
    BY <1>3, <2>1, <2>2 DEF OnTheFolder, Launching, IsOpen
  <2>4. ~(~Taken /\ Mine = {})
    BY <2>3 DEF Taken
  <2>5. g \in OnTheFolder /\ h \in OnTheFolder
    BY <1>2, <1>3, <2>1, <2>4
  <2>6. QED
    BY <1>4, <2>5 DEF Alone
<1>5. Mine' = {} \/ OnTheFolder' = {}
  <2>1. CASE Mine = {}
    BY <1>1, <2>1
  <2>2. CASE Mine # {}
    <3>1. OnTheFolder = {}
      BY <2>2 DEF Alone
    <3>2. \A h \in OnTheFolder' : FALSE
      BY <1>2, <1>3, <2>2, <3>1 DEF OnTheFolder
    <3>3. QED
      BY <3>2
  <2>3. QED
    BY <2>1, <2>2
<1>6. QED
  BY <1>1, <1>4, <1>5 DEF Alone

-------------------------------------------------------------------------------
(* What the operations do to the tables of the pages and of the runs *)

\* Where a run may be, and what a page is.
WalkPlaces == {"idle", "asking", "granting", "calling", "releasing", "opening", "using", "offering", "verifying",
               "looking", "verified", "closing"}
PageStates == {"new", "starting", "loading", "open", "shutting", "gone"}
AWalk == [pc : WalkPlaces, page : Page \cup {None}]
APage == [state : PageStates, by : Task \cup {None}, on : Browsers, held : BOOLEAN, timed : BOOLEAN, looked : BOOLEAN]
AKept == [page : Page \cup {None}, step : Nat]

\* The types of the runs and of the pages, in these words.
LEMMA TablesAre ==
    ASSUME TypeOK, Shaped
    PROVE  walk \in [Task -> AWalk] /\ pages \in [Page -> APage] /\ kept \in [Task -> AKept]
BY DEF TypeOK, Shaped, AWalk, APage, AKept, WalkPlaces, PageStates

\* A page that stays as it is.
SamePage(p) ==
    /\ pages'[p].state = pages[p].state /\ pages'[p].by = pages[p].by /\ pages'[p].on = pages[p].on
    /\ pages'[p].held <=> pages[p].held
    /\ pages'[p].timed <=> pages[p].timed

\* Those of a set are out of the table.
LEMMA ShutIs ==
    ASSUME TypeOK, Shaped, NEW P, pages' = Shut(P)
    PROVE  /\ pages' \in [Page -> APage]
           /\ \A p \in Page : p \in P /\ InTable(p) =>
                  /\ pages'[p].state = "shutting" /\ ~pages'[p].timed
                  /\ pages'[p].by = pages[p].by /\ pages'[p].on = pages[p].on
           /\ \A p \in Page : ~(p \in P /\ InTable(p)) => pages'[p] = pages[p]
<1>1. pages \in [Page -> APage]
  BY TablesAre
<1>2. \A p \in Page : LET q == [pages[p] EXCEPT !.state = "shutting", !.timed = FALSE] IN
          /\ q \in APage /\ q.state = "shutting" /\ ~q.timed /\ q.by = pages[p].by /\ q.on = pages[p].on
  BY <1>1 DEF APage, PageStates
<1>3. \A p \in Page : pages'[p] = IF p \in P /\ InTable(p)
                                  THEN [pages[p] EXCEPT !.state = "shutting", !.timed = FALSE] ELSE pages[p]
  BY DEF Shut
<1>4. pages' \in [Page -> APage]
  BY <1>1, <1>2 DEF Shut
<1>5. QED
  BY <1>2, <1>3, <1>4

\* The page k is out of the table.
LEMMA ShutOne ==
    ASSUME TypeOK, Shaped, NEW k, pages' = Shut({k})
    PROVE  /\ pages' \in [Page -> APage]
           /\ \A p \in Page : p = k /\ InTable(p) =>
                  /\ pages'[p].state = "shutting" /\ pages'[p].by = pages[p].by /\ pages'[p].on = pages[p].on
           /\ \A p \in Page : ~(p = k /\ InTable(p)) => pages'[p] = pages[p]
<1> DEFINE P == {k}
<1>1. pages' = Shut(P) /\ \A p : p \in P <=> p = k
  OBVIOUS
<1> HIDE DEF P
<1>2. QED
  BY <1>1, ShutIs

\* A page nobody holds any more.
LEMMA HeldIs ==
    ASSUME TypeOK, Shaped, NEW q \in Page, pages' = [pages EXCEPT ![q].held = FALSE]
    PROVE  /\ pages' \in [Page -> APage] /\ \A p \in Page \ {q} : pages'[p] = pages[p]
           /\ pages'[q].state = pages[q].state /\ pages'[q].by = pages[q].by /\ pages'[q].on = pages[q].on
           /\ ~pages'[q].held
           /\ pages'[q].timed <=> pages[q].timed
<1>1. pages \in [Page -> APage]
  BY TablesAre
<1>2. QED
  BY <1>1 DEF APage

\* A page that changes its state only.
LEMMA StateIs ==
    ASSUME TypeOK, Shaped, NEW q \in Page, NEW s \in PageStates, pages' = [pages EXCEPT ![q].state = s]
    PROVE  /\ pages' \in [Page -> APage] /\ \A p \in Page \ {q} : pages'[p] = pages[p]
           /\ pages'[q].state = s /\ pages'[q].by = pages[q].by /\ pages'[q].on = pages[q].on
           /\ pages'[q].held <=> pages[q].held
           /\ pages'[q].timed <=> pages[q].timed
<1>1. pages \in [Page -> APage]
  BY TablesAre
<1>2. QED
  BY <1>1 DEF APage

\* A run that goes on.
LEMMA GoIs ==
    ASSUME TypeOK, Shaped, NEW t \in Task, NEW pc \in WalkPlaces, Go(t, pc)
    PROVE  /\ walk' \in [Task -> AWalk] /\ \A s \in Task \ {t} : walk'[s] = walk[s]
           /\ walk'[t].pc = pc /\ walk'[t].page = walk[t].page
<1>1. walk \in [Task -> AWalk]
  BY TablesAre
<1>2. QED
  BY <1>1 DEF AWalk, Go

\* A run that goes on with a page.
LEMMA GoWithIs ==
    ASSUME TypeOK, Shaped, NEW t \in Task, NEW pc \in WalkPlaces, NEW p \in Page \cup {None}, GoWith(t, pc, p)
    PROVE  /\ walk' \in [Task -> AWalk] /\ \A s \in Task \ {t} : walk'[s] = walk[s]
           /\ walk'[t].pc = pc /\ walk'[t].page = p
<1>1. walk \in [Task -> AWalk]
  BY TablesAre
<1>2. QED
  BY <1>1 DEF AWalk, GoWith

\* A task that keeps no page any more.
LEMMA UnkeptIs ==
    ASSUME TypeOK, Shaped, NEW t \in Task, Unkept(t)
    PROVE  /\ kept' \in [Task -> AKept] /\ watch' \in [Task -> {"off", "looks", "judges", "sleeps"}]
           /\ \A s \in Task \ {t} : kept'[s] = kept[s] /\ watch'[s] = watch[s]
           /\ kept'[t] = NoPage /\ kept'[t].page = None /\ watch'[t] = "off"
<1>1. kept \in [Task -> AKept] /\ watch \in [Task -> {"off", "looks", "judges", "sleeps"}]
  BY TablesAre DEF TypeOK
<1>2. NoPage \in AKept /\ NoPage.page = None
  BY DEF NoPage, AKept
<1> HIDE DEF NoPage
<1>3. QED
  BY <1>1, <1>2 DEF Unkept

\* The steps of a plan, and the order they are run in.
LEMMA PlanIs ==
    ASSUME TypeOK, NEW t \in Task
    PROVE  /\ Len(plan[t].order) \in Nat /\ Steps(t) \in SUBSET Nat
           /\ \A n \in Nat : n < Len(plan[t].order) => plan[t].order[n + 1] \in Steps(t)
<1>1. PICK f \in Plans : plan = f
  BY DEF TypeOK
<1>2. /\ f[t].steps \in Seq([on : Browsers, continues : BOOLEAN, asks : BOOLEAN])
      /\ f[t].order \in Seq(DOMAIN f[t].steps)
  BY PlansAssumption
<1>3. Steps(t) = 1 .. Len(f[t].steps) /\ Len(f[t].steps) \in Nat
  BY <1>1, <1>2 DEF Steps
<1>4. Len(plan[t].order) \in Nat
  BY <1>1, <1>2
<1>5. \A n \in Nat : n < Len(plan[t].order) => plan[t].order[n + 1] \in Steps(t)
  BY <1>1, <1>2 DEF Steps
<1>6. QED
  BY <1>3, <1>4, <1>5

\* A run that is under way has a step to run.
LEMMA StepIs ==
    ASSUME TypeOK, Shaped, NEW t \in Task, ~At(t, "idle") \/ done[t] < Len(plan[t].order)
    PROVE  done[t] < Len(plan[t].order) /\ Current(t) \in Steps(t)
<1>1. done[t] \in 0 .. Len(plan[t].order) /\ (done[t] = Len(plan[t].order) => At(t, "idle"))
  BY DEF TypeOK, At
<1>2. Len(plan[t].order) \in Nat
  BY PlanIs
<1>3. done[t] \in Nat /\ done[t] < Len(plan[t].order)
  BY <1>1, <1>2
<1>4. QED
  BY <1>3, PlanIs DEF Current

-------------------------------------------------------------------------------
(* What a step of a run, and of the room's watch, leaves *)

\* What the lemmas below need to know of the pages.
Base == TypeOK /\ Shaped /\ Finished /\ Owners /\ Each

\* It touches its own task, and pages nobody else opened.
OnlyOf(t) ==
    /\ \A s \in Task \ {t} : walk'[s] = walk[s] /\ kept'[s] = kept[s] /\ watch'[s] = watch[s]
    /\ \A p \in Page : pages'[p] = pages[p] \/ (pages'[p].by = t /\ pages[p].by \in {t, None})

\* It opens none.
Mortal == \A p \in Page : Alive(p)' => Alive(p) /\ pages'[p].on = pages[p].on

\* What TypeOK says of each task.
LEMMA TaskTypes ==
    ASSUME TypeOK, NEW s \in Task
    PROVE  /\ done[s] \in 0 .. Len(plan[s].order)
           /\ question[s] \in [Steps(s) -> {"none", "pending", "expired", "no", "yes", "granted"}]
           /\ grant[s] \in [Steps(s) -> {"none", "fresh", "late"}]
           /\ kept[s] = NoPage \/ (kept[s].page \in Page /\ kept[s].step \in Steps(s))
           /\ done[s] = Len(plan[s].order) => walk[s].pc = "idle"
BY DEF TypeOK

\* The types, over a step that touches the pages, one run and one task.
LEMMA TypesOf ==
    ASSUME Base, NEW t \in Task, UNCHANGED <<plan, done, question, grant, stage, window>>,
           task' \in [Task -> {"live", "waiting", "ended"}], \A s \in Task : task[s] = "ended" => task'[s] = "ended",
           walk' \in [Task -> AWalk], pages' \in [Page -> APage], kept' \in [Task -> AKept],
           watch' \in [Task -> {"off", "looks", "judges", "sleeps"}],
           \A s \in Task \ {t} : walk'[s] = walk[s] /\ kept'[s] = kept[s],
           walk[t].pc = "idle" => walk'[t].pc = "idle" \/ done[t] < Len(plan[t].order),
           kept'[t] = NoPage \/ (kept'[t].page \in Page /\ kept'[t].step \in Steps(t))
    PROVE  TypeOK' /\ Shaped' /\ Finished'
<1>1. TypeOK /\ Shaped /\ Finished
  BY DEF Base
<1>2. WindowTypes'
  BY <1>1 DEF TypeOK, WindowTypes, window
<1>3. \A s \in Task : Steps(s)' = Steps(s)
  BY DEF Steps
<1>4. Len(plan[t].order) \in Nat
  BY <1>1, PlanIs
<1>5. \A s \in Task :
        /\ done'[s] \in 0 .. Len(plan'[s].order)
        /\ question'[s] \in [Steps(s) -> {"none", "pending", "expired", "no", "yes", "granted"}]
        /\ grant'[s] \in [Steps(s) -> {"none", "fresh", "late"}]
        /\ kept'[s] = NoPage \/ (kept'[s].page \in Page /\ kept'[s].step \in Steps(s))
        /\ done'[s] = Len(plan'[s].order) => walk'[s].pc = "idle"
  <2>1. TAKE s \in Task
  <2>2. /\ done[s] \in 0 .. Len(plan[s].order)
        /\ question[s] \in [Steps(s) -> {"none", "pending", "expired", "no", "yes", "granted"}]
        /\ grant[s] \in [Steps(s) -> {"none", "fresh", "late"}]
        /\ kept[s] = NoPage \/ (kept[s].page \in Page /\ kept[s].step \in Steps(s))
        /\ done[s] = Len(plan[s].order) => walk[s].pc = "idle"
    BY <1>1, TaskTypes
  <2>3. kept'[s] = NoPage \/ (kept'[s].page \in Page /\ kept'[s].step \in Steps(s))
    BY <2>2
  <2>4. done[s] = Len(plan[s].order) => walk'[s].pc = "idle"
    BY <1>4, <2>2
  <2>5. QED
    BY <2>2, <2>3, <2>4
<1>6. TypeOK'
  BY <1>1, <1>2, <1>3, <1>5 DEF TypeOK, AWalk, APage, WalkPlaces, PageStates
<1>7. Shaped'
  BY <1>1 DEF Shaped, AKept
<1>8. Finished'
  BY <1>1 DEF Finished
<1>9. QED
  BY <1>6, <1>7, <1>8

\* Who opened each page.
LEMMA OwnersStay ==
    ASSUME Base, NEW t \in Task, OnlyOf(t), \A p \in Page : pages'[p].state = "new" => pages'[p] = pages[p]
    PROVE  Owners'
BY DEF Base, OnlyOf, Owners, Unopened

\* The pages of the other tasks.
LEMMA EachStays ==
    ASSUME Base, NEW t \in Task, OnlyOf(t), Local(t)', UNCHANGED stage
    PROVE  Each'
<1>1. ASSUME NEW s \in Task \ {t}
      PROVE  Local(s)'
  <2>1. /\ Local(s) /\ walk'[s] = walk[s] /\ kept'[s] = kept[s] /\ watch'[s] = watch[s] /\ s # None
        /\ walk[s].page \in Page \cup {None} /\ kept[s].page \in Page \cup {None}
    BY TablesAre, NoneIsNothing DEF Base, Each, OnlyOf, AWalk, AKept
  <2>2. \A p \in Page : pages'[p].by = s \/ pages[p].by = s => pages'[p] = pages[p]
    BY <2>1 DEF OnlyOf
  <2>3. Holding(s)'
    BY <2>1, <2>2, NoneIsNothing DEF Local, Holding, Hand
  <2>4. ASSUME stage = "up"
        PROVE  Handing(s)'
    <3>1. Handing(s)
      BY <2>1, <2>4 DEF Local
    <3>2. QED
      BY <2>1, <2>2, <3>1 DEF Handing, Hands, InHand, Hand, At
  <2>5. QED
    BY <2>3, <2>4 DEF Local
<1>2. QED
  BY <1>1 DEF Each

\* What a step of the run of a task, or of the watch of its page, keeps.
Runs(t) == TypeOK' /\ Shaped' /\ Finished' /\ OnlyOf(t) /\ Owners' /\ Local(t)'

\* A step that touches no page, keeps none and lets none go.
LEMMA PagelessRuns ==
    ASSUME Base, NEW t \in Task, UNCHANGED <<kept, watch, pages, stage>>, TypeOK', Shaped', Finished',
           \A s \in Task \ {t} : walk'[s] = walk[s],
           walk[t].pc \notin {"opening", "using", "offering", "looking"},
           walk'[t].pc \notin {"opening", "using", "offering", "verifying", "looking"},
           walk'[t].page \in {None, walk[t].page}
    PROVE  Runs(t)
<1>1. OnlyOf(t) /\ Owners'
  BY DEF OnlyOf, Base, Owners
<1>2. Local(t) /\ walk[t].page \in Page \cup {None}
  BY TablesAre DEF Base, Each, AWalk
<1>3. Holding(t)'
  BY <1>2, NoneIsNothing DEF Local, Holding, Hand
<1>4. ASSUME stage = "up"
      PROVE  Handing(t)'
  BY <1>2, <1>4 DEF Local, Handing, Hands, InHand, Hand, At
<1>5. QED
  BY <1>1, <1>3, <1>4 DEF Runs, Local

\* Its task is stopped before the tool.
LEMMA HearStopRuns ==
    ASSUME Base, NEW t \in Task, HearStop(t)
    PROVE  Runs(t)
<1>t. TypeOK /\ Shaped /\ Finished /\ Local(t)
  BY DEF Base, Each
<1>d. /\ walk \in [Task -> AWalk] /\ pages \in [Page -> APage] /\ kept \in [Task -> AKept]
      /\ None \notin Page \cup Task
      /\ task \in [Task -> {"live", "waiting", "ended"}] /\ watch \in [Task -> {"off", "looks", "judges", "sleeps"}]
      /\ kept[t] = NoPage \/ (kept[t].page \in Page /\ kept[t].step \in Steps(t))
      /\ walk[t].page \in Page \cup {None} /\ kept[t].page \in Page \cup {None}
  BY <1>t, TablesAre, NoneIsNothing DEF TypeOK, AWalk, AKept
<1>1. /\ walk' \in [Task -> AWalk] /\ \A s \in Task \ {t} : walk'[s] = walk[s]
      /\ walk'[t].pc = "idle" /\ walk'[t].page \in {None, walk[t].page} /\ walk[t].pc = "calling"
  BY <1>t, GoWithIs DEF HearStop, Rest, At, WalkPlaces
<1>2. TypeOK' /\ Shaped' /\ Finished'
  BY <1>t, <1>d, <1>1, TypesOf DEF HearStop, consent
<1>3. QED
  BY <1>1, <1>2, PagelessRuns DEF HearStop, consent

\* The run begins.
LEMMA BeginRuns ==
    ASSUME Base, NEW t \in Task, Begin(t)
    PROVE  Runs(t)
<1>t. TypeOK /\ Shaped /\ Finished /\ Local(t)
  BY DEF Base, Each
<1>d. /\ walk \in [Task -> AWalk] /\ pages \in [Page -> APage] /\ kept \in [Task -> AKept]
      /\ None \notin Page \cup Task
      /\ task \in [Task -> {"live", "waiting", "ended"}] /\ watch \in [Task -> {"off", "looks", "judges", "sleeps"}]
      /\ kept[t] = NoPage \/ (kept[t].page \in Page /\ kept[t].step \in Steps(t))
      /\ walk[t].page \in Page \cup {None} /\ kept[t].page \in Page \cup {None}
  BY <1>t, TablesAre, NoneIsNothing DEF TypeOK, AWalk, AKept
<1>1. PICK pc \in {"calling", "granting", "asking"} : Go(t, pc)
  BY DEF Begin
<1>2. /\ walk' \in [Task -> AWalk] /\ \A s \in Task \ {t} : walk'[s] = walk[s]
      /\ walk'[t].pc = pc /\ walk'[t].page = walk[t].page /\ walk[t].pc = "idle"
  BY <1>t, <1>1, GoIs DEF Begin, At, WalkPlaces
<1>3. TypeOK' /\ Shaped' /\ Finished'
  BY <1>t, <1>d, <1>2, TypesOf DEF Begin, consent
<1>4. QED
  BY <1>2, <1>3, PagelessRuns DEF Begin, consent

\* The step is over without success.
LEMMA ClosedRuns ==
    ASSUME Base, NEW t \in Task, Closed(t)
    PROVE  Runs(t)
<1>t. TypeOK /\ Shaped /\ Finished /\ Local(t)
  BY DEF Base, Each
<1>d. /\ walk \in [Task -> AWalk] /\ pages \in [Page -> APage] /\ kept \in [Task -> AKept]
      /\ None \notin Page \cup Task
      /\ task \in [Task -> {"live", "waiting", "ended"}] /\ watch \in [Task -> {"off", "looks", "judges", "sleeps"}]
      /\ kept[t] = NoPage \/ (kept[t].page \in Page /\ kept[t].step \in Steps(t))
      /\ walk[t].page \in Page \cup {None} /\ kept[t].page \in Page \cup {None}
  BY <1>t, TablesAre, NoneIsNothing DEF TypeOK, AWalk, AKept
<1>1. /\ walk' \in [Task -> AWalk] /\ \A s \in Task \ {t} : walk'[s] = walk[s]
      /\ walk'[t].pc = "idle" /\ walk'[t].page = None /\ walk[t].pc = "closing"
  BY <1>t, GoWithIs DEF Closed, Rest, At, WalkPlaces
<1>2. /\ task' \in [Task -> {"live", "waiting", "ended"}]
      /\ \A s \in Task : task[s] = "ended" => task'[s] = "ended"
  BY <1>d DEF Closed, Ends
<1>3. TypeOK' /\ Shaped' /\ Finished'
  BY <1>t, <1>d, <1>1, <1>2, TypesOf DEF Closed, consent
<1>4. QED
  BY <1>1, <1>3, PagelessRuns DEF Closed, consent

\* A table of the tasks that changes for one of them, at one of its steps.
LEMMA TableIs ==
    ASSUME NEW t \in Task, NEW f, f = [s \in Task |-> f[s]], NEW D, NEW S, f[t] \in [D -> S],
           NEW k \in D, NEW x \in S, NEW g, g = [f EXCEPT ![t][k] = x]
    PROVE  /\ g = [s \in Task |-> g[s]] /\ \A s \in Task \ {t} : g[s] = f[s]
           /\ g[t] \in [D -> S]
OBVIOUS

\* The types, over a step of one task that touches no page.
LEMMA TypesOfTask ==
    ASSUME Base, NEW t \in Task, UNCHANGED <<plan, kept, watch, pages, stage, window>>,
           task' \in [Task -> {"live", "waiting", "ended"}],
           walk' \in [Task -> AWalk], \A s \in Task \ {t} : walk'[s] = walk[s] /\ task'[s] = task[s],
           done' \in [Task -> Nat], question' = [s \in Task |-> question'[s]], grant' = [s \in Task |-> grant'[s]],
           \A s \in Task \ {t} : done'[s] = done[s] /\ question'[s] = question[s] /\ grant'[s] = grant[s],
           question'[t] \in [Steps(t) -> {"none", "pending", "expired", "no", "yes", "granted"}],
           grant'[t] \in [Steps(t) -> {"none", "fresh", "late"}],
           done'[t] \in 0 .. Len(plan[t].order),
           done'[t] = Len(plan[t].order) => walk'[t].pc = "idle" /\ task'[t] = "ended"
    PROVE  TypeOK' /\ Shaped' /\ Finished'
<1>1. TypeOK /\ Shaped /\ Finished
  BY DEF Base
<1>2. WindowTypes'
  BY <1>1 DEF TypeOK, WindowTypes, window
<1>3. \A s \in Task : Steps(s)' = Steps(s)
  BY DEF Steps
<1>4. \A s \in Task :
        /\ done'[s] \in 0 .. Len(plan'[s].order)
        /\ question'[s] \in [Steps(s) -> {"none", "pending", "expired", "no", "yes", "granted"}]
        /\ grant'[s] \in [Steps(s) -> {"none", "fresh", "late"}]
        /\ kept'[s] = NoPage \/ (kept'[s].page \in Page /\ kept'[s].step \in Steps(s))
        /\ done'[s] = Len(plan'[s].order) => walk'[s].pc = "idle"
  <2>1. TAKE s \in Task
  <2>2. CASE s = t
    BY <1>1, <2>2 DEF TypeOK
  <2>3. CASE s # t
    BY <1>1, <2>3, TaskTypes
  <2>4. QED
    BY <2>2, <2>3
<1>5. TypeOK'
  BY <1>1, <1>2, <1>3, <1>4 DEF TypeOK, AWalk, WalkPlaces
<1>6. Shaped'
  BY <1>1 DEF Shaped
<1>7. Finished'
  BY <1>1 DEF Finished
<1>8. QED
  BY <1>5, <1>6, <1>7

\* The user is asked, or the step is refused.
LEMMA AskRuns ==
    ASSUME Base, NEW t \in Task, Ask(t)
    PROVE  Runs(t)
<1>t. TypeOK /\ Shaped /\ Finished /\ Local(t)
  BY DEF Base, Each
<1>d. /\ walk \in [Task -> AWalk] /\ pages \in [Page -> APage] /\ kept \in [Task -> AKept]
      /\ None \notin Page \cup Task
      /\ task \in [Task -> {"live", "waiting", "ended"}] /\ watch \in [Task -> {"off", "looks", "judges", "sleeps"}]
      /\ kept[t] = NoPage \/ (kept[t].page \in Page /\ kept[t].step \in Steps(t))
      /\ walk[t].page \in Page \cup {None} /\ kept[t].page \in Page \cup {None}
  BY <1>t, TablesAre, NoneIsNothing DEF TypeOK, AWalk, AKept
<1>q. /\ question = [s \in Task |-> question[s]] /\ grant = [s \in Task |-> grant[s]] /\ done \in [Task -> Nat]
      /\ question[t] \in [Steps(t) -> {"none", "pending", "expired", "no", "yes", "granted"}]
      /\ grant[t] \in [Steps(t) -> {"none", "fresh", "late"}]
      /\ done[t] \in 0 .. Len(plan[t].order)
  BY <1>t DEF Shaped, TypeOK
<1>1. /\ walk' \in [Task -> AWalk] /\ \A s \in Task \ {t} : walk'[s] = walk[s]
      /\ walk'[t].pc = "idle" /\ walk'[t].page = None /\ walk[t].pc = "asking"
  BY <1>t, GoWithIs DEF Ask, Rest, At, WalkPlaces
<1>2. done[t] < Len(plan[t].order) /\ Current(t) \in Steps(t) /\ Len(plan[t].order) \in Nat
  BY <1>t, <1>1, StepIs, PlanIs DEF At
<1>3. /\ task' \in [Task -> {"live", "waiting", "ended"}] /\ \A s \in Task \ {t} : task'[s] = task[s]
  BY <1>d DEF Ask, Ends
<1>4. /\ question' = [s \in Task |-> question'[s]] /\ \A s \in Task \ {t} : question'[s] = question[s]
      /\ question'[t] \in [Steps(t) -> {"none", "pending", "expired", "no", "yes", "granted"}]
  <2>1. /\ question = [s \in Task |-> question[s]]
        /\ question[t] \in [Steps(t) -> {"none", "pending", "expired", "no", "yes", "granted"}]
    BY <1>t DEF Shaped, TypeOK
  <2>2. CASE question' = question
    BY <2>1, <2>2
  <2>3. CASE question' = [question EXCEPT ![t][Current(t)] = "pending"]
    BY <1>2, <2>1, <2>3, TableIs
  <2>4. QED
    BY <2>2, <2>3 DEF Ask
<1>x. UNCHANGED <<plan, kept, watch, pages, stage, window, done, grant>> /\ done[t] # Len(plan[t].order)
  BY <1>q, <1>2 DEF Ask
<1>5. TypeOK' /\ Shaped' /\ Finished'
  BY <1>d, <1>q, <1>1, <1>3, <1>4, <1>x, TypesOfTask
<1>6. QED
  BY <1>1, <1>5, PagelessRuns DEF Ask, consent

\* The yes becomes a grant.
LEMMA GrantRuns ==
    ASSUME Base, NEW t \in Task, Grant(t)
    PROVE  Runs(t)
<1>t. TypeOK /\ Shaped /\ Finished /\ Local(t)
  BY DEF Base, Each
<1>d. /\ walk \in [Task -> AWalk] /\ pages \in [Page -> APage] /\ kept \in [Task -> AKept]
      /\ None \notin Page \cup Task
      /\ task \in [Task -> {"live", "waiting", "ended"}] /\ watch \in [Task -> {"off", "looks", "judges", "sleeps"}]
      /\ kept[t] = NoPage \/ (kept[t].page \in Page /\ kept[t].step \in Steps(t))
      /\ walk[t].page \in Page \cup {None} /\ kept[t].page \in Page \cup {None}
  BY <1>t, TablesAre, NoneIsNothing DEF TypeOK, AWalk, AKept
<1>q. /\ question = [s \in Task |-> question[s]] /\ grant = [s \in Task |-> grant[s]] /\ done \in [Task -> Nat]
      /\ question[t] \in [Steps(t) -> {"none", "pending", "expired", "no", "yes", "granted"}]
      /\ grant[t] \in [Steps(t) -> {"none", "fresh", "late"}]
      /\ done[t] \in 0 .. Len(plan[t].order)
  BY <1>t DEF Shaped, TypeOK
<1>1. /\ walk' \in [Task -> AWalk] /\ \A s \in Task \ {t} : walk'[s] = walk[s]
      /\ walk'[t].pc = "calling" /\ walk'[t].page = walk[t].page /\ walk[t].pc = "granting"
  BY <1>t, GoIs DEF Grant, At, WalkPlaces
<1>2. done[t] < Len(plan[t].order) /\ Current(t) \in Steps(t) /\ Len(plan[t].order) \in Nat
  BY <1>t, <1>1, StepIs, PlanIs DEF At
<1>3. /\ question = [s \in Task |-> question[s]] /\ grant = [s \in Task |-> grant[s]]
      /\ question[t] \in [Steps(t) -> {"none", "pending", "expired", "no", "yes", "granted"}]
      /\ grant[t] \in [Steps(t) -> {"none", "fresh", "late"}]
  BY <1>t DEF Shaped, TypeOK
<1>4. /\ question' = [s \in Task |-> question'[s]] /\ \A s \in Task \ {t} : question'[s] = question[s]
      /\ question'[t] \in [Steps(t) -> {"none", "pending", "expired", "no", "yes", "granted"}]
  BY <1>2, <1>3, TableIs DEF Grant
<1>5. /\ grant' = [s \in Task |-> grant'[s]] /\ \A s \in Task \ {t} : grant'[s] = grant[s]
      /\ grant'[t] \in [Steps(t) -> {"none", "fresh", "late"}]
  BY <1>2, <1>3, TableIs DEF Grant
<1>x. UNCHANGED <<plan, kept, watch, pages, stage, window, done, task>> /\ done[t] # Len(plan[t].order)
  BY <1>q, <1>2 DEF Grant
<1>6. TypeOK' /\ Shaped' /\ Finished'
  BY <1>d, <1>q, <1>1, <1>4, <1>5, <1>x, TypesOfTask
<1>7. QED
  BY <1>1, <1>6, PagelessRuns DEF Grant, consent

\* The step is completed, and the task after the last one.
LEMMA CompleteRuns ==
    ASSUME Base, NEW t \in Task, Complete(t)
    PROVE  Runs(t)
<1>t. TypeOK /\ Shaped /\ Finished /\ Local(t)
  BY DEF Base, Each
<1>d. /\ walk \in [Task -> AWalk] /\ pages \in [Page -> APage] /\ kept \in [Task -> AKept]
      /\ None \notin Page \cup Task
      /\ task \in [Task -> {"live", "waiting", "ended"}] /\ watch \in [Task -> {"off", "looks", "judges", "sleeps"}]
      /\ kept[t] = NoPage \/ (kept[t].page \in Page /\ kept[t].step \in Steps(t))
      /\ walk[t].page \in Page \cup {None} /\ kept[t].page \in Page \cup {None}
  BY <1>t, TablesAre, NoneIsNothing DEF TypeOK, AWalk, AKept
<1>q. /\ question = [s \in Task |-> question[s]] /\ grant = [s \in Task |-> grant[s]] /\ done \in [Task -> Nat]
      /\ question[t] \in [Steps(t) -> {"none", "pending", "expired", "no", "yes", "granted"}]
      /\ grant[t] \in [Steps(t) -> {"none", "fresh", "late"}]
      /\ done[t] \in 0 .. Len(plan[t].order)
  BY <1>t DEF Shaped, TypeOK
<1>1. /\ walk' \in [Task -> AWalk] /\ \A s \in Task \ {t} : walk'[s] = walk[s]
      /\ walk'[t].pc = "idle" /\ walk'[t].page = None /\ walk[t].pc = "verified"
  BY <1>t, GoWithIs DEF Complete, Rest, At, WalkPlaces
<1>2. done[t] < Len(plan[t].order) /\ Len(plan[t].order) \in Nat /\ done \in [Task -> Nat]
  BY <1>t, <1>1, StepIs, PlanIs DEF At, Shaped
<1>3. done' \in [Task -> Nat] /\ done'[t] = done[t] + 1 /\ \A s \in Task \ {t} : done'[s] = done[s]
  BY <1>2 DEF Complete
<1>4. /\ task' \in [Task -> {"live", "waiting", "ended"}] /\ \A s \in Task \ {t} : task'[s] = task[s]
      /\ done'[t] = Len(plan[t].order) => task'[t] = "ended"
  BY <1>d DEF Complete, Ends
<1>5. done'[t] \in 0 .. Len(plan[t].order)
  BY <1>2, <1>3
<1>6. TypeOK' /\ Shaped' /\ Finished'
  <2>1. /\ UNCHANGED <<plan, kept, watch, pages, stage, window, question, grant>>
        /\ done'[t] = Len(plan[t].order) => walk'[t].pc = "idle" /\ task'[t] = "ended"
    BY <1>1, <1>4 DEF Complete, consent
  <2>2. /\ question' = [s \in Task |-> question'[s]] /\ grant' = [s \in Task |-> grant'[s]]
        /\ question'[t] \in [Steps(t) -> {"none", "pending", "expired", "no", "yes", "granted"}]
        /\ grant'[t] \in [Steps(t) -> {"none", "fresh", "late"}]
        /\ \A s \in Task \ {t} : done'[s] = done[s] /\ question'[s] = question[s] /\ grant'[s] = grant[s]
    BY <1>q, <1>3, <2>1
  <2>3. QED
    BY <1>1, <1>3, <1>4, <1>5, <2>1, <2>2, TypesOfTask
<1>7. QED
  BY <1>1, <1>6, PagelessRuns DEF Complete, consent

-------------------------------------------------------------------------------
(* The steps that hand a page over *)

\* A step that opens no page runs when it leaves each page of its task where that task has it.
LEMMA HandOvers ==
    ASSUME Base, NEW t \in Task, TypeOK', Shaped', Finished', UNCHANGED stage,
           \A s \in Task \ {t} : walk'[s] = walk[s] /\ kept'[s] = kept[s] /\ watch'[s] = watch[s],
           \A p \in Page : /\ pages'[p] = pages[p] \/ (pages[p].by = t /\ pages'[p].by = t)
                           /\ pages'[p].state = "new" => pages'[p] = pages[p]
                           /\ Alive(p)' => Alive(p) /\ pages'[p].on = pages[p].on,
           walk'[t].page \in {None, walk[t].page, kept[t].page}, kept'[t].page \in {None, walk[t].page, kept[t].page},
           walk'[t].pc \in {"opening", "using", "offering", "verifying", "looking"} => walk'[t].page # None,
           stage = "up" => kept'[t].page # None <=> watch'[t] # "off",
           stage = "up" => \A p \in Page :
               pages'[p].state \in {"starting", "loading", "open"} /\ pages'[p].by = t => Hands(t, p)'
    PROVE  Runs(t) /\ Mortal
<1>1. OnlyOf(t) /\ Mortal
  BY DEF OnlyOf, Mortal
<1>2. Owners'
  BY <1>1, OwnersStay
<1>3. /\ Holding(t) /\ walk[t].page \in Page \cup {None} /\ kept[t].page \in Page \cup {None}
  BY TablesAre DEF Base, Each, Local, AWalk, AKept
<1>4. \A p \in Page : pages[p].by = t => pages'[p].by = t
  OBVIOUS
<1>5. Holding(t)'
  BY <1>3, <1>4 DEF Holding, Hand
<1>6. Local(t)'
  BY <1>5 DEF Local, Handing
<1>7. QED
  BY <1>1, <1>2, <1>6 DEF Runs

\* The page the room keeps is closed, and kept no more.
LEMMA LetsGo ==
    ASSUME Base, NEW t \in Task, UNCHANGED <<plan, task, done, question, grant, stage, window>>,
           pages' = Shut({kept[t].page}), Unkept(t),
           walk' \in [Task -> AWalk], \A s \in Task \ {t} : walk'[s] = walk[s],
           \/ walk' = walk
           \/ walk[t].pc = "calling" /\ walk'[t].pc \in {"releasing", "closing"} /\ walk'[t].page = kept[t].page
    PROVE  Runs(t) /\ Mortal
<1>t. TypeOK /\ Shaped /\ Finished /\ Local(t)
  BY DEF Base, Each
<1>d. /\ walk \in [Task -> AWalk] /\ pages \in [Page -> APage] /\ kept \in [Task -> AKept]
      /\ None \notin Page \cup Task
      /\ task \in [Task -> {"live", "waiting", "ended"}] /\ watch \in [Task -> {"off", "looks", "judges", "sleeps"}]
      /\ kept[t] = NoPage \/ (kept[t].page \in Page /\ kept[t].step \in Steps(t))
      /\ walk[t].page \in Page \cup {None} /\ kept[t].page \in Page \cup {None}
  BY <1>t, TablesAre, NoneIsNothing DEF TypeOK, AWalk, AKept
<1> DEFINE k == kept[t].page
<1>1. /\ kept' \in [Task -> AKept] /\ watch' \in [Task -> {"off", "looks", "judges", "sleeps"}]
      /\ \A s \in Task \ {t} : kept'[s] = kept[s] /\ watch'[s] = watch[s]
      /\ kept'[t] = NoPage /\ kept'[t].page = None /\ watch'[t] = "off"
  BY <1>t, UnkeptIs
<1>2. /\ pages' \in [Page -> APage]
      /\ \A p \in Page : p = k /\ InTable(p) =>
             /\ pages'[p].state = "shutting" /\ pages'[p].by = pages[p].by /\ pages'[p].on = pages[p].on
      /\ \A p \in Page : ~(p = k /\ InTable(p)) => pages'[p] = pages[p]
  BY <1>t, ShutOne
<1>3. walk[t].pc = "idle" => walk'[t].pc = "idle"
  OBVIOUS
<1>4. TypeOK' /\ Shaped' /\ Finished'
  BY <1>t, <1>d, <1>1, <1>2, <1>3, TypesOf
<1>5. Holding(t) /\ (k # None => pages[k].by = t)
  BY <1>t DEF Local, Holding
<1>6. \A p \in Page : /\ pages'[p] = pages[p] \/ (pages[p].by = t /\ pages'[p].by = t)
                      /\ pages'[p].state = "new" => pages'[p] = pages[p]
                      /\ Alive(p)' => Alive(p) /\ pages'[p].on = pages[p].on
  BY <1>d, <1>2, <1>5 DEF Alive, InTable
<1>7. walk'[t].pc \in {"opening", "using", "offering", "verifying", "looking"} => walk'[t].page # None
  BY <1>5 DEF Holding, Hand
<1>8. ASSUME stage = "up", NEW p \in Page, pages'[p].state \in {"starting", "loading", "open"}, pages'[p].by = t
      PROVE  Hands(t, p)'
  <2>1. ~(p = k /\ InTable(p)) /\ pages'[p] = pages[p]
    BY <1>2, <1>8
  <2>2. Hands(t, p)
    BY <1>t, <1>8, <2>1 DEF Local, Handing
  <2>3. p # k
    BY <1>8, <2>1, <2>2 DEF Hands, InTable, At
  <2>4. QED
    BY <1>1, <1>d, <2>1, <2>2, <2>3 DEF Hands, InHand, Hand, At
<1>9. QED
  BY <1>1, <1>4, <1>6, <1>7, <1>8, HandOvers

\* The page of the task is continued on.
LEMMA TakeRuns ==
    ASSUME Base, NEW t \in Task, Take(t)
    PROVE  Runs(t) /\ Mortal
<1>t. TypeOK /\ Shaped /\ Finished /\ Local(t)
  BY DEF Base, Each
<1>d. /\ walk \in [Task -> AWalk] /\ pages \in [Page -> APage] /\ kept \in [Task -> AKept]
      /\ None \notin Page \cup Task
      /\ task \in [Task -> {"live", "waiting", "ended"}] /\ watch \in [Task -> {"off", "looks", "judges", "sleeps"}]
      /\ kept[t] = NoPage \/ (kept[t].page \in Page /\ kept[t].step \in Steps(t))
      /\ walk[t].page \in Page \cup {None} /\ kept[t].page \in Page \cup {None}
  BY <1>t, TablesAre, NoneIsNothing DEF TypeOK, AWalk, AKept
<1> DEFINE k == kept[t].page
<1>1. UNCHANGED <<plan, task, done, question, grant, stage, window>> /\ walk[t].pc = "calling"
  BY DEF Take, consent, At
<1>2. /\ kept' \in [Task -> AKept] /\ watch' \in [Task -> {"off", "looks", "judges", "sleeps"}]
      /\ \A s \in Task \ {t} : kept'[s] = kept[s] /\ watch'[s] = watch[s]
      /\ kept'[t] = NoPage /\ kept'[t].page = None /\ watch'[t] = "off"
  BY <1>t, UnkeptIs DEF Take, HandsOver
<1>3. CASE k # None /\ pages[k].on = Step(t).on /\ InTable(k)
  <2>1. GoWith(t, "using", k) /\ pages' = [pages EXCEPT ![k].held = FALSE] /\ k \in Page
    BY <1>3, <1>d DEF Take
  <2>2. /\ walk' \in [Task -> AWalk] /\ \A s \in Task \ {t} : walk'[s] = walk[s]
        /\ walk'[t].pc = "using" /\ walk'[t].page = k
    BY <1>t, <2>1, GoWithIs DEF WalkPlaces
  <2>3. /\ pages' \in [Page -> APage] /\ \A p \in Page \ {k} : pages'[p] = pages[p]
        /\ pages'[k].state = pages[k].state /\ pages'[k].by = pages[k].by /\ pages'[k].on = pages[k].on
        /\ ~pages'[k].held /\ (pages'[k].timed <=> pages[k].timed)
    BY <1>t, <2>1, HeldIs
  <2>4. TypeOK' /\ Shaped' /\ Finished'
    BY <1>t, <1>d, <1>1, <1>2, <2>2, <2>3, TypesOf
  <2>5. pages[k].by = t /\ pages[k].state \in {"loading", "open"}
    BY <1>t, <1>3 DEF Local, Holding, InTable
  <2>6. ASSUME stage = "up", NEW p \in Page, pages'[p].state \in {"starting", "loading", "open"}, pages'[p].by = t
        PROVE  Hands(t, p)'
    <3>1. Hands(t, p)
      BY <1>t, <2>3, <2>6 DEF Local, Handing
    <3>2. CASE p = k
      BY <1>1, <1>2, <1>d, <2>2, <2>3, <2>5, <3>1, <3>2 DEF Hands, InHand, Hand, At
    <3>3. CASE p # k
      BY <1>1, <1>2, <1>d, <2>2, <2>3, <3>1, <3>3 DEF Hands, InHand, Hand, At
    <3>4. QED
      BY <3>2, <3>3
  <2>7. QED
    BY <1>1, <1>2, <1>3, <2>2, <2>3, <2>4, <2>5, <2>6, HandOvers DEF Alive
<1>4. CASE k # None /\ pages[k].on = Step(t).on /\ ~InTable(k)
  <2>1. GoWith(t, "closing", k) /\ pages' = pages /\ k \in Page
    BY <1>4, <1>d DEF Take
  <2>2. /\ walk' \in [Task -> AWalk] /\ \A s \in Task \ {t} : walk'[s] = walk[s]
        /\ walk'[t].pc = "closing" /\ walk'[t].page = k
    BY <1>t, <2>1, GoWithIs DEF WalkPlaces
  <2>3. TypeOK' /\ Shaped' /\ Finished'
    BY <1>t, <1>d, <1>1, <1>2, <2>1, <2>2, TypesOf
  <2>4. ASSUME stage = "up", NEW p \in Page, pages'[p].state \in {"starting", "loading", "open"}, pages'[p].by = t
        PROVE  Hands(t, p)'
    <3>1. Hands(t, p)
      BY <1>t, <2>1, <2>4 DEF Local, Handing
    <3>2. p # k
      BY <1>1, <1>4, <2>1, <2>4, <3>1 DEF Hands, At, InTable
    <3>3. QED
      BY <1>1, <1>2, <1>d, <2>1, <2>2, <3>1, <3>2 DEF Hands, InHand, Hand, At
  <2>5. QED
    BY <1>1, <1>2, <2>1, <2>2, <2>3, <2>4, HandOvers DEF Alive
<1>5. CASE ~(k # None /\ pages[k].on = Step(t).on)
  <2>1. GoWith(t, "closing", k) /\ pages' = Shut({k})
    BY <1>5 DEF Take
  <2>2. /\ walk' \in [Task -> AWalk] /\ \A s \in Task \ {t} : walk'[s] = walk[s]
        /\ walk'[t].pc = "closing" /\ walk'[t].page = k
    BY <1>t, <1>d, <2>1, GoWithIs DEF WalkPlaces
  <2>3. QED
    BY <1>1, <2>1, <2>2, LetsGo DEF Take, HandsOver
<1>6. QED
  BY <1>3, <1>4, <1>5

\* The page the room keeps is let go before another is opened.
LEMMA ReleaseRuns ==
    ASSUME Base, NEW t \in Task, Release(t)
    PROVE  Runs(t) /\ Mortal
<1>t. TypeOK /\ Shaped /\ Finished /\ Local(t)
  BY DEF Base, Each
<1>d. /\ walk \in [Task -> AWalk] /\ pages \in [Page -> APage] /\ kept \in [Task -> AKept]
      /\ None \notin Page \cup Task
      /\ task \in [Task -> {"live", "waiting", "ended"}] /\ watch \in [Task -> {"off", "looks", "judges", "sleeps"}]
      /\ kept[t] = NoPage \/ (kept[t].page \in Page /\ kept[t].step \in Steps(t))
      /\ walk[t].page \in Page \cup {None} /\ kept[t].page \in Page \cup {None}
  BY <1>t, TablesAre, NoneIsNothing DEF TypeOK, AWalk, AKept
<1>1. UNCHANGED <<plan, task, done, question, grant, stage, window>> /\ walk[t].pc = "calling"
  BY DEF Release, consent, At
<1>2. /\ walk' \in [Task -> AWalk] /\ \A s \in Task \ {t} : walk'[s] = walk[s]
      /\ walk'[t].pc = "releasing" /\ walk'[t].page = kept[t].page
  BY <1>t, <1>d, GoWithIs DEF Release, WalkPlaces
<1>3. QED
  BY <1>1, <1>2, LetsGo DEF Release

\* The browser of a step is one of the two.
LEMMA StepOn ==
    ASSUME TypeOK, Shaped, NEW t \in Task, ~At(t, "idle")
    PROVE  Step(t).on \in Browsers
<1>1. Current(t) \in Steps(t)
  BY StepIs
<1>2. plan[t].steps \in Seq([on : Browsers, continues : BOOLEAN, asks : BOOLEAN])
  BY PlansAssumption DEF TypeOK
<1>3. ASSUME NEW S, NEW f \in Seq(S), NEW k \in DOMAIN f
      PROVE  f[k] \in S
  BY <1>3
<1>4. plan[t].steps[Current(t)] \in [on : Browsers, continues : BOOLEAN, asks : BOOLEAN]
  BY <1>1, <1>2, <1>3 DEF Steps
<1>5. QED
  BY <1>4 DEF Step

\* A page starts, while ELA is up, and on the profile when nobody holds it.
Opening(t) ==
    /\ stage = "up"
    /\ \E k \in Page :
        /\ ~Alive(k) /\ \A p \in Page \ {k} : pages'[p] = pages[p]
        /\ pages'[k].on = "profile" => Mine = {} /\ ~Taken

\* A page is opened, on a folder nobody holds, or refused.
LEMMA OpenRuns ==
    ASSUME Base, NEW t \in Task, Open(t)
    PROVE  Runs(t) /\ (Mortal \/ Opening(t))
<1>t. TypeOK /\ Shaped /\ Finished /\ Local(t)
  BY DEF Base, Each
<1>d. /\ walk \in [Task -> AWalk] /\ pages \in [Page -> APage] /\ kept \in [Task -> AKept]
      /\ None \notin Page \cup Task
      /\ task \in [Task -> {"live", "waiting", "ended"}] /\ watch \in [Task -> {"off", "looks", "judges", "sleeps"}]
      /\ kept[t] = NoPage \/ (kept[t].page \in Page /\ kept[t].step \in Steps(t))
      /\ walk[t].page \in Page \cup {None} /\ kept[t].page \in Page \cup {None}
  BY <1>t, TablesAre, NoneIsNothing DEF TypeOK, AWalk, AKept
<1>w. stage = "up" => kept[t].page # None <=> watch[t] # "off"
  BY <1>t DEF Local, Handing
<1>1. /\ UNCHANGED <<plan, task, done, question, grant, kept, watch, stage, window>> /\ walk[t].pc = "releasing"
      /\ Hand(t) # None => ~Alive(Hand(t))
  BY DEF Open, consent, At
<1>2. CASE GoWith(t, "closing", None) /\ UNCHANGED pages
  <2>1. /\ walk' \in [Task -> AWalk] /\ \A s \in Task \ {t} : walk'[s] = walk[s]
        /\ walk'[t].pc = "closing" /\ walk'[t].page = None
    BY <1>t, <1>2, GoWithIs DEF WalkPlaces
  <2>2. TypeOK' /\ Shaped' /\ Finished'
    BY <1>t, <1>d, <1>1, <1>2, <2>1, TypesOf
  <2>3. QED
    BY <1>1, <1>2, <2>1, <2>2, PagelessRuns DEF Mortal, Alive
<1>3. CASE /\ stage = "up" /\ (Step(t).on = "profile" => Mine = {} /\ ~Taken)
           /\ \E q \in Page : pages[q].state = "new"
           /\ LET p == CHOOSE p \in Page : pages[p].state = "new" IN
              /\ pages' = [pages EXCEPT ![p] = [Unopened EXCEPT !.state = "starting", !.by = t, !.on = Step(t).on]]
              /\ GoWith(t, "opening", p)
  <2> DEFINE k == CHOOSE p \in Page : pages[p].state = "new"
             born == [Unopened EXCEPT !.state = "starting", !.by = t, !.on = Step(t).on]
  <2>1. k \in Page /\ pages[k].state = "new"
    BY <1>3, Zenon
  <2>2. pages' = [pages EXCEPT ![k] = born] /\ GoWith(t, "opening", k)
    BY <1>3, Zenon
  <2> HIDE DEF k
  <2>3. Step(t).on \in Browsers
    BY <1>t, <1>1, StepOn DEF At
  <2>4. /\ born \in APage /\ born.state = "starting" /\ born.by = t /\ born.on = Step(t).on
        /\ ~born.held /\ ~born.timed
    BY <1>d, <2>3 DEF APage, Unopened, PageStates
  <2> HIDE DEF born
  <2>5. /\ pages' \in [Page -> APage] /\ \A p \in Page \ {k} : pages'[p] = pages[p]
        /\ pages'[k] = born
    BY <1>d, <2>1, <2>2, <2>4
  <2>6. /\ walk' \in [Task -> AWalk] /\ \A s \in Task \ {t} : walk'[s] = walk[s]
        /\ walk'[t].pc = "opening" /\ walk'[t].page = k
    BY <1>t, <2>1, <2>2, GoWithIs DEF WalkPlaces
  <2>7. TypeOK' /\ Shaped' /\ Finished'
    BY <1>t, <1>d, <1>1, <2>5, <2>6, TypesOf
  <2>8. pages[k].by = None /\ ~Alive(k)
    BY <2>1 DEF Base, Owners, Unopened, Alive
  <2>9. OnlyOf(t) /\ Owners'
    BY <1>1, <2>4, <2>5, <2>6, <2>8, OwnersStay DEF OnlyOf
  <2>10. Holding(t) /\ kept[t].page # k
    BY <1>t, <1>d, <2>1, <2>8 DEF Local, Holding
  <2>11. Holding(t)'
    BY <1>1, <1>d, <2>1, <2>4, <2>5, <2>6, <2>10 DEF Holding, Hand
  <2>12. ASSUME NEW p \in Page, pages'[p].state \in {"starting", "loading", "open"}, pages'[p].by = t
         PROVE  Hands(t, p)'
    <3>1. CASE p = k
      BY <1>1, <1>d, <2>1, <2>4, <2>5, <2>6, <2>10, <3>1 DEF Hands, InHand, Hand, At
    <3>2. CASE p # k
      <4>1. Hands(t, p)
        BY <1>t, <1>3, <2>5, <2>12, <3>2 DEF Local, Handing
      <4>2. QED
        BY <1>1, <1>d, <2>5, <2>6, <3>2, <4>1 DEF Hands, InHand, Hand, At
    <3>3. QED
      BY <3>1, <3>2
  <2>13. Local(t)'
    BY <1>1, <1>3, <1>t, <2>11, <2>12 DEF Local, Handing
  <2>14. Opening(t)
    BY <1>3, <2>1, <2>4, <2>5, <2>8 DEF Opening
  <2>15. QED
    BY <2>7, <2>9, <2>13, <2>14 DEF Runs
<1>4. QED
  BY <1>2, <1>3 DEF Open

\* The page enters the table, or is closed.
LEMMA StartedRuns ==
    ASSUME Base, NEW t \in Task, Started(t)
    PROVE  Runs(t) /\ Mortal
<1>t. TypeOK /\ Shaped /\ Finished /\ Local(t)
  BY DEF Base, Each
<1>d. /\ walk \in [Task -> AWalk] /\ pages \in [Page -> APage] /\ kept \in [Task -> AKept]
      /\ None \notin Page \cup Task
      /\ task \in [Task -> {"live", "waiting", "ended"}] /\ watch \in [Task -> {"off", "looks", "judges", "sleeps"}]
      /\ kept[t] = NoPage \/ (kept[t].page \in Page /\ kept[t].step \in Steps(t))
      /\ walk[t].page \in Page \cup {None} /\ kept[t].page \in Page \cup {None}
  BY <1>t, TablesAre, NoneIsNothing DEF TypeOK, AWalk, AKept
<1>w. stage = "up" => kept[t].page # None <=> watch[t] # "off"
  BY <1>t DEF Local, Handing
<1> DEFINE k == walk[t].page
<1>1. /\ UNCHANGED <<plan, task, done, question, grant, kept, watch, stage, window>> /\ walk[t].pc = "opening"
      /\ pages[k].state = "starting"
  BY DEF Started, consent, At, Hand
<1>2. k \in Page /\ pages[k].by = t /\ Holding(t)
  BY <1>t, <1>d, <1>1 DEF Local, Holding, Hand
<1>3. CASE pages' = [pages EXCEPT ![k].state = "loading"] /\ UNCHANGED walk
  <2>1. /\ pages' \in [Page -> APage] /\ \A p \in Page \ {k} : pages'[p] = pages[p]
        /\ pages'[k].state = "loading" /\ pages'[k].by = pages[k].by /\ pages'[k].on = pages[k].on
        /\ pages'[k].held <=> pages[k].held
        /\ pages'[k].timed <=> pages[k].timed
    BY <1>t, <1>2, <1>3, StateIs DEF PageStates
  <2>2. TypeOK' /\ Shaped' /\ Finished'
    BY <1>t, <1>d, <1>1, <1>3, <2>1, TypesOf
  <2>3. ASSUME stage = "up", NEW p \in Page, pages'[p].state \in {"starting", "loading", "open"}, pages'[p].by = t
        PROVE  Hands(t, p)'
    <3>1. Hands(t, p)
      BY <1>t, <1>1, <1>2, <2>1, <2>3 DEF Local, Handing
    <3>2. QED
      BY <1>1, <1>3, <1>d, <2>1, <3>1 DEF Hands, InHand, Hand, At
  <2>4. /\ \A p \in Page : /\ pages'[p] = pages[p] \/ (pages[p].by = t /\ pages'[p].by = t)
                           /\ pages'[p].state = "new" => pages'[p] = pages[p]
                           /\ Alive(p)' => Alive(p) /\ pages'[p].on = pages[p].on
    BY <1>1, <1>2, <2>1 DEF Alive
  <2>5. QED
    BY <1>t, <1>1, <1>2, <1>3, <2>2, <2>3, <2>4, <1>d, <1>w, HandOvers
<1>4. CASE pages' = [pages EXCEPT ![k].state = "shutting"] /\ Go(t, "closing")
  <2>1. /\ pages' \in [Page -> APage] /\ \A p \in Page \ {k} : pages'[p] = pages[p]
        /\ pages'[k].state = "shutting" /\ pages'[k].by = pages[k].by /\ pages'[k].on = pages[k].on
    BY <1>t, <1>2, <1>4, StateIs DEF PageStates
  <2>2. /\ walk' \in [Task -> AWalk] /\ \A s \in Task \ {t} : walk'[s] = walk[s]
        /\ walk'[t].pc = "closing" /\ walk'[t].page = k
    BY <1>t, <1>4, GoIs DEF WalkPlaces
  <2>3. TypeOK' /\ Shaped' /\ Finished'
    BY <1>t, <1>d, <1>1, <2>1, <2>2, TypesOf
  <2>4. ASSUME stage = "up", NEW p \in Page, pages'[p].state \in {"starting", "loading", "open"}, pages'[p].by = t
        PROVE  Hands(t, p)'
    <3>1. p # k /\ pages'[p] = pages[p]
      BY <2>1, <2>4
    <3>2. Hands(t, p)
      BY <1>t, <2>4, <3>1 DEF Local, Handing
    <3>3. QED
      BY <1>1, <1>d, <2>2, <3>1, <3>2 DEF Hands, InHand, Hand, At
  <2>5. /\ \A p \in Page : /\ pages'[p] = pages[p] \/ (pages[p].by = t /\ pages'[p].by = t)
                           /\ pages'[p].state = "new" => pages'[p] = pages[p]
                           /\ Alive(p)' => Alive(p) /\ pages'[p].on = pages[p].on
    BY <1>1, <1>2, <2>1 DEF Alive
  <2>6. QED
    BY <1>t, <1>1, <1>2, <2>2, <2>3, <2>4, <2>5, <1>d, <1>w, HandOvers
<1>5. QED
  BY <1>3, <1>4 DEF Started, Hand

\* The page is loaded, or gone.
LEMMA LoadedRuns ==
    ASSUME Base, NEW t \in Task, Loaded(t)
    PROVE  Runs(t) /\ Mortal
<1>t. TypeOK /\ Shaped /\ Finished /\ Local(t)
  BY DEF Base, Each
<1>d. /\ walk \in [Task -> AWalk] /\ pages \in [Page -> APage] /\ kept \in [Task -> AKept]
      /\ None \notin Page \cup Task
      /\ task \in [Task -> {"live", "waiting", "ended"}] /\ watch \in [Task -> {"off", "looks", "judges", "sleeps"}]
      /\ kept[t] = NoPage \/ (kept[t].page \in Page /\ kept[t].step \in Steps(t))
      /\ walk[t].page \in Page \cup {None} /\ kept[t].page \in Page \cup {None}
  BY <1>t, TablesAre, NoneIsNothing DEF TypeOK, AWalk, AKept
<1>w. stage = "up" => kept[t].page # None <=> watch[t] # "off"
  BY <1>t DEF Local, Handing
<1> DEFINE k == walk[t].page
<1>1. /\ UNCHANGED <<plan, task, done, question, grant, kept, watch, stage, window>> /\ walk[t].pc = "opening"
      /\ pages[k].state # "starting"
  BY DEF Loaded, consent, At, Hand
<1>2. k \in Page /\ pages[k].by = t /\ Holding(t)
  BY <1>t, <1>d, <1>1 DEF Local, Holding, Hand
<1>3. CASE pages[k].state = "loading" /\ pages' = [pages EXCEPT ![k].state = "open"] /\ Go(t, "using")
  <2>1. /\ pages' \in [Page -> APage] /\ \A p \in Page \ {k} : pages'[p] = pages[p]
        /\ pages'[k].state = "open" /\ pages'[k].by = pages[k].by /\ pages'[k].on = pages[k].on
        /\ pages'[k].held <=> pages[k].held
        /\ pages'[k].timed <=> pages[k].timed
    BY <1>t, <1>2, <1>3, StateIs DEF PageStates
  <2>2. /\ walk' \in [Task -> AWalk] /\ \A s \in Task \ {t} : walk'[s] = walk[s]
        /\ walk'[t].pc = "using" /\ walk'[t].page = k
    BY <1>t, <1>3, GoIs DEF WalkPlaces
  <2>3. TypeOK' /\ Shaped' /\ Finished'
    BY <1>t, <1>d, <1>1, <2>1, <2>2, TypesOf
  <2>4. ASSUME stage = "up", NEW p \in Page, pages'[p].state \in {"starting", "loading", "open"}, pages'[p].by = t
        PROVE  Hands(t, p)'
    <3>1. Hands(t, p)
      BY <1>t, <1>2, <1>3, <2>1, <2>4 DEF Local, Handing
    <3>2. QED
      BY <1>1, <1>d, <2>1, <2>2, <3>1 DEF Hands, InHand, Hand, At
  <2>5. /\ \A p \in Page : /\ pages'[p] = pages[p] \/ (pages[p].by = t /\ pages'[p].by = t)
                           /\ pages'[p].state = "new" => pages'[p] = pages[p]
                           /\ Alive(p)' => Alive(p) /\ pages'[p].on = pages[p].on
    BY <1>2, <1>3, <2>1 DEF Alive
  <2>6. QED
    BY <1>t, <1>1, <1>2, <2>2, <2>3, <2>4, <2>5, <1>d, <1>w, HandOvers
<1>4. CASE pages[k].state # "loading" /\ UNCHANGED pages /\ Go(t, "closing")
  <2>1. /\ walk' \in [Task -> AWalk] /\ \A s \in Task \ {t} : walk'[s] = walk[s]
        /\ walk'[t].pc = "closing" /\ walk'[t].page = k
    BY <1>t, <1>4, GoIs DEF WalkPlaces
  <2>2. TypeOK' /\ Shaped' /\ Finished'
    BY <1>t, <1>d, <1>1, <1>4, <2>1, TypesOf
  <2>3. ASSUME stage = "up", NEW p \in Page, pages'[p].state \in {"starting", "loading", "open"}, pages'[p].by = t
        PROVE  Hands(t, p)'
    <3>1. Hands(t, p)
      BY <1>t, <1>4, <2>3 DEF Local, Handing
    <3>2. QED
      BY <1>1, <1>4, <1>d, <2>1, <2>3, <3>1 DEF Hands, InHand, Hand, At
  <2>4. QED
    BY <1>t, <1>1, <1>2, <1>4, <2>1, <2>2, <2>3, <1>d, <1>w, HandOvers DEF Alive
<1>5. QED
  BY <1>3, <1>4 DEF Loaded, Hand

\* The work on the page succeeds.
LEMMA WorkRuns ==
    ASSUME Base, NEW t \in Task, Work(t)
    PROVE  Runs(t) /\ Mortal
<1>t. TypeOK /\ Shaped /\ Finished /\ Local(t)
  BY DEF Base, Each
<1>d. /\ walk \in [Task -> AWalk] /\ pages \in [Page -> APage] /\ kept \in [Task -> AKept]
      /\ None \notin Page \cup Task
      /\ task \in [Task -> {"live", "waiting", "ended"}] /\ watch \in [Task -> {"off", "looks", "judges", "sleeps"}]
      /\ kept[t] = NoPage \/ (kept[t].page \in Page /\ kept[t].step \in Steps(t))
      /\ walk[t].page \in Page \cup {None} /\ kept[t].page \in Page \cup {None}
  BY <1>t, TablesAre, NoneIsNothing DEF TypeOK, AWalk, AKept
<1>w. stage = "up" => kept[t].page # None <=> watch[t] # "off"
  BY <1>t DEF Local, Handing
<1>1. /\ UNCHANGED <<plan, task, done, question, grant, kept, watch, pages, stage, window>>
      /\ walk[t].pc = "using"
  BY DEF Work, consent, At
<1>2. /\ walk' \in [Task -> AWalk] /\ \A s \in Task \ {t} : walk'[s] = walk[s]
      /\ walk'[t].pc = "offering" /\ walk'[t].page = walk[t].page
  BY <1>t, GoIs DEF Work, WalkPlaces
<1>3. TypeOK' /\ Shaped' /\ Finished'
  BY <1>t, <1>d, <1>1, <1>2, TypesOf
<1>4. ASSUME stage = "up", NEW p \in Page, pages'[p].state \in {"starting", "loading", "open"}, pages'[p].by = t
      PROVE  Hands(t, p)'
  <2>1. Hands(t, p)
    BY <1>t, <1>1, <1>4 DEF Local, Handing
  <2>2. QED
    BY <1>1, <1>2, <1>d, <1>4, <2>1 DEF Hands, InHand, Hand, At
<1>5. walk[t].page # None
  BY <1>t, <1>1 DEF Local, Holding, Hand
<1>6. QED
  BY <1>t, <1>1, <1>2, <1>3, <1>4, <1>5, <1>d, <1>w, HandOvers DEF Alive

\* It fails, and its page is closed.
LEMMA FailRuns ==
    ASSUME Base, NEW t \in Task, Fail(t)
    PROVE  Runs(t) /\ Mortal
<1>t. TypeOK /\ Shaped /\ Finished /\ Local(t)
  BY DEF Base, Each
<1>d. /\ walk \in [Task -> AWalk] /\ pages \in [Page -> APage] /\ kept \in [Task -> AKept]
      /\ None \notin Page \cup Task
      /\ task \in [Task -> {"live", "waiting", "ended"}] /\ watch \in [Task -> {"off", "looks", "judges", "sleeps"}]
      /\ kept[t] = NoPage \/ (kept[t].page \in Page /\ kept[t].step \in Steps(t))
      /\ walk[t].page \in Page \cup {None} /\ kept[t].page \in Page \cup {None}
  BY <1>t, TablesAre, NoneIsNothing DEF TypeOK, AWalk, AKept
<1>w. stage = "up" => kept[t].page # None <=> watch[t] # "off"
  BY <1>t DEF Local, Handing
<1> DEFINE k == walk[t].page
<1>1. /\ UNCHANGED <<plan, task, done, question, grant, kept, watch, stage, window>>
      /\ \/ walk[t].pc = "releasing"
         \/ walk[t].pc \in {"opening", "using"} /\ pages[k].state # "starting"
      /\ pages' = Shut({k}) /\ GoWith(t, "closing", k)
  BY DEF Fail, Leaves, consent, At, Hand
<1>2. k # None => pages[k].by = t
  BY <1>t DEF Local, Holding, Hand
<1>3. /\ pages' \in [Page -> APage]
      /\ \A p \in Page : p = k /\ InTable(p) =>
             /\ pages'[p].state = "shutting" /\ pages'[p].by = pages[p].by /\ pages'[p].on = pages[p].on
      /\ \A p \in Page : ~(p = k /\ InTable(p)) => pages'[p] = pages[p]
  BY <1>t, <1>1, ShutOne
<1>4. /\ walk' \in [Task -> AWalk] /\ \A s \in Task \ {t} : walk'[s] = walk[s]
      /\ walk'[t].pc = "closing" /\ walk'[t].page = k
  BY <1>t, <1>d, <1>1, GoWithIs DEF WalkPlaces
<1>5. TypeOK' /\ Shaped' /\ Finished'
  BY <1>t, <1>d, <1>1, <1>3, <1>4, TypesOf
<1>6. \A p \in Page : /\ pages'[p] = pages[p] \/ (pages[p].by = t /\ pages'[p].by = t)
                      /\ pages'[p].state = "new" => pages'[p] = pages[p]
                      /\ Alive(p)' => Alive(p) /\ pages'[p].on = pages[p].on
  BY <1>d, <1>2, <1>3 DEF Alive, InTable
<1>7. ASSUME stage = "up", NEW p \in Page, pages'[p].state \in {"starting", "loading", "open"}, pages'[p].by = t
      PROVE  Hands(t, p)'
  <2>1. ~(p = k /\ InTable(p)) /\ pages'[p] = pages[p]
    BY <1>3, <1>7
  <2>2. Hands(t, p)
    BY <1>t, <1>7, <2>1 DEF Local, Handing
  <2>3. p # k
    BY <1>1, <1>7, <2>1, <2>2 DEF Hands, InTable, At
  <2>4. QED
    BY <1>1, <1>4, <1>d, <2>1, <2>2, <2>3 DEF Hands, InHand, Hand, At
<1>8. QED
  <2>1. /\ \A s \in Task \ {t} : walk'[s] = walk[s] /\ kept'[s] = kept[s] /\ watch'[s] = watch[s]
        /\ walk'[t].page \in {None, walk[t].page, kept[t].page}
        /\ kept'[t].page \in {None, walk[t].page, kept[t].page}
        /\ walk'[t].pc \notin {"opening", "using", "offering", "verifying", "looking"}
        /\ stage = "up" => kept'[t].page # None <=> watch'[t] # "off"
    BY <1>1, <1>4, <1>w
  <2>2. QED
    BY <1>1, <1>5, <1>6, <1>7, <2>1, HandOvers

\* A page that is kept, or timed, or looked at.
LEMMA KeptIs ==
    ASSUME TypeOK, Shaped, NEW k \in Page, NEW o,
           pages' = [Shut({o}) EXCEPT ![k].held = InTable(k), ![k].timed = FALSE]
    PROVE  /\ pages' \in [Page -> APage]
           /\ \A p \in Page \ {k} : p = o /\ InTable(p) =>
                  pages'[p].state = "shutting" /\ pages'[p].by = pages[p].by /\ pages'[p].on = pages[p].on
           /\ \A p \in Page \ {k} : ~(p = o /\ InTable(p)) => pages'[p] = pages[p]
           /\ pages'[k].by = pages[k].by /\ pages'[k].on = pages[k].on /\ ~pages'[k].timed
           /\ pages'[k].held <=> InTable(k)
           /\ pages'[k].state = pages[k].state \/ (pages'[k].state = "shutting" /\ InTable(k) /\ o = k)
<1> DEFINE S == Shut({o})
<1>1. pages \in [Page -> APage]
  BY TablesAre
<1>2. \A p \in Page : LET q == [pages[p] EXCEPT !.state = "shutting", !.timed = FALSE] IN
          /\ q \in APage /\ q.state = "shutting" /\ ~q.timed /\ q.by = pages[p].by /\ q.on = pages[p].on
  BY <1>1 DEF APage, PageStates
<1>3. /\ S \in [Page -> APage]
      /\ \A p \in Page : p = o /\ InTable(p) =>
             S[p].state = "shutting" /\ S[p].by = pages[p].by /\ S[p].on = pages[p].on
      /\ \A p \in Page : ~(p = o /\ InTable(p)) => S[p] = pages[p]
  BY <1>1, <1>2 DEF Shut
<1>4. InTable(k) \in BOOLEAN
  BY DEF InTable
<1> DEFINE b == InTable(k)
<1> HIDE DEF S, b
<1>5. pages' = [S EXCEPT ![k].held = b, ![k].timed = FALSE] /\ b \in BOOLEAN
  BY <1>4 DEF S, b
<1>6. /\ pages' \in [Page -> APage] /\ \A p \in Page \ {k} : pages'[p] = S[p]
      /\ pages'[k].by = S[k].by /\ pages'[k].on = S[k].on /\ ~pages'[k].timed /\ pages'[k].state = S[k].state
      /\ pages'[k].held <=> b
  <2>1. S \in [Page -> APage]
    BY <1>3
  <2>2. /\ pages'[k] = [S[k] EXCEPT !.held = b, !.timed = FALSE] /\ S[k] \in APage
        /\ \A p \in Page \ {k} : pages'[p] = S[p]
        /\ pages' = [p \in Page |-> pages'[p]]
    BY <1>5, <2>1
  <2>3. /\ pages'[k].state = S[k].state /\ pages'[k].by = S[k].by /\ pages'[k].on = S[k].on
        /\ pages'[k].held <=> b
        /\ ~pages'[k].timed
        /\ pages'[k] \in APage
    BY <1>5, <2>2 DEF APage
  <2>4. pages' \in [Page -> APage]
    BY <2>1, <2>2, <2>3
  <2>5. QED
    BY <2>2, <2>3, <2>4
<1>7. \A p \in Page \ {k} : /\ p = o /\ InTable(p) => /\ pages'[p].state = "shutting"
                                                      /\ pages'[p].by = pages[p].by /\ pages'[p].on = pages[p].on
                            /\ ~(p = o /\ InTable(p)) => pages'[p] = pages[p]
  <2>1. TAKE p \in Page \ {k}
  <2>2. pages'[p] = S[p]
    BY <1>6
  <2>3. QED
    BY <1>3, <2>2
<1>8. /\ S[k].by = pages[k].by /\ S[k].on = pages[k].on
      /\ S[k].state = pages[k].state \/ (S[k].state = "shutting" /\ InTable(k) /\ o = k)
  BY <1>3
<1>9. QED
  BY <1>6, <1>7, <1>8 DEF b

\* One that is given a deadline.
LEMMA TimedIs ==
    ASSUME TypeOK, Shaped, NEW k \in Page, pages' = [pages EXCEPT ![k].timed = InTable(k)]
    PROVE  /\ pages' \in [Page -> APage] /\ \A p \in Page \ {k} : pages'[p] = pages[p]
           /\ pages'[k].state = pages[k].state /\ pages'[k].by = pages[k].by /\ pages'[k].on = pages[k].on
           /\ pages'[k].held <=> pages[k].held
           /\ pages'[k].timed <=> InTable(k)
<1> DEFINE b == InTable(k)
<1>1. pages \in [Page -> APage] /\ b \in BOOLEAN
  BY TablesAre DEF InTable
<1> HIDE DEF b
<1>2. pages' = [pages EXCEPT ![k].timed = b]
  BY DEF b
<1>3. /\ pages' \in [Page -> APage] /\ \A p \in Page \ {k} : pages'[p] = pages[p]
      /\ pages'[k].state = pages[k].state /\ pages'[k].by = pages[k].by /\ pages'[k].on = pages[k].on
      /\ pages'[k].held <=> pages[k].held
      /\ pages'[k].timed <=> b
  BY <1>1, <1>2 DEF APage
<1>4. QED
  BY <1>3 DEF b

\* One the verifier looks at.
LEMMA LookedIs ==
    ASSUME TypeOK, Shaped, NEW k \in Page, pages' = [pages EXCEPT ![k].looked = TRUE, ![k].timed = FALSE]
    PROVE  /\ pages' \in [Page -> APage] /\ \A p \in Page \ {k} : pages'[p] = pages[p]
           /\ pages'[k].state = pages[k].state /\ pages'[k].by = pages[k].by /\ pages'[k].on = pages[k].on
           /\ pages'[k].held <=> pages[k].held
           /\ ~pages'[k].timed
<1>1. pages \in [Page -> APage]
  BY TablesAre
<1>2. QED
  BY <1>1 DEF APage

\* One it looks at no more, released or not.
LEMMA SeenIs ==
    ASSUME TypeOK, Shaped, NEW k \in Page, NEW released \in BOOLEAN,
           pages' = IF released THEN [[pages EXCEPT ![k].looked = FALSE] EXCEPT ![k].state = "shutting"]
                    ELSE [pages EXCEPT ![k].looked = FALSE]
    PROVE  /\ pages' \in [Page -> APage] /\ \A p \in Page \ {k} : pages'[p] = pages[p]
           /\ pages'[k].state = (IF released THEN "shutting" ELSE pages[k].state)
           /\ pages'[k].by = pages[k].by /\ pages'[k].on = pages[k].on
           /\ pages'[k].held <=> pages[k].held
           /\ pages'[k].timed <=> pages[k].timed
<1>1. pages \in [Page -> APage]
  BY TablesAre
<1> DEFINE seen == [pages EXCEPT ![k].looked = FALSE]
<1>2. /\ seen \in [Page -> APage] /\ \A p \in Page \ {k} : seen[p] = pages[p]
      /\ seen[k].state = pages[k].state /\ seen[k].by = pages[k].by /\ seen[k].on = pages[k].on
      /\ seen[k].held <=> pages[k].held
      /\ seen[k].timed <=> pages[k].timed
  BY <1>1 DEF APage
<1> HIDE DEF seen
<1>3. CASE released
  <2>1. pages' = [seen EXCEPT ![k].state = "shutting"]
    BY <1>3 DEF seen
  <2>2. QED
    <3>1. seen \in [Page -> APage]
      BY <1>2
    <3>2. /\ pages'[k] = [seen[k] EXCEPT !.state = "shutting"] /\ seen[k] \in APage
          /\ \A p \in Page \ {k} : pages'[p] = seen[p]
          /\ pages' = [p \in Page |-> pages'[p]]
      BY <2>1, <3>1
    <3>3. /\ pages'[k].state = "shutting" /\ pages'[k].by = seen[k].by /\ pages'[k].on = seen[k].on
          /\ pages'[k].held <=> seen[k].held
          /\ pages'[k].timed <=> seen[k].timed
          /\ pages'[k] \in APage
      BY <3>2 DEF APage, PageStates
    <3>4. pages' \in [Page -> APage]
      BY <3>1, <3>2, <3>3
    <3>5. QED
      BY <1>2, <1>3, <3>2, <3>3, <3>4
<1>4. CASE ~released
  BY <1>2, <1>4 DEF seen
<1>5. QED
  BY <1>3, <1>4

\* What becomes of the pages of one task that are shut, kept, timed or looked at.
LEMMA OwnPages ==
    ASSUME Base, NEW t \in Task,
           \A p \in Page : \/ pages'[p] = pages[p]
                           \/ /\ pages[p].by = t /\ pages'[p].by = t /\ pages'[p].on = pages[p].on
                              /\ pages'[p].state = pages[p].state \/ (pages'[p].state = "shutting" /\ InTable(p))
    PROVE  \A p \in Page : /\ pages'[p] = pages[p] \/ (pages[p].by = t /\ pages'[p].by = t)
                           /\ pages'[p].state = "new" => pages'[p] = pages[p]
                           /\ Alive(p)' => Alive(p) /\ pages'[p].on = pages[p].on
<1> TAKE p \in Page
<1>1. CASE pages'[p] = pages[p]
  BY <1>1 DEF Alive
<1>2. CASE /\ pages[p].by = t /\ pages'[p].by = t /\ pages'[p].on = pages[p].on
           /\ pages'[p].state = pages[p].state \/ (pages'[p].state = "shutting" /\ InTable(p))
  <2>1. pages[p].state # "new"
    BY <1>2, NoneIsNothing DEF Base, Owners, Unopened
  <2>2. QED
    BY <1>2, <2>1 DEF Alive, InTable
<1>3. QED
  BY <1>1, <1>2

\* The page goes to the room, or to the verifier.
LEMMA OfferRuns ==
    ASSUME Base, NEW t \in Task, Offer(t)
    PROVE  Runs(t) /\ Mortal
<1>t. TypeOK /\ Shaped /\ Finished /\ Local(t)
  BY DEF Base, Each
<1>d. /\ walk \in [Task -> AWalk] /\ pages \in [Page -> APage] /\ kept \in [Task -> AKept]
      /\ None \notin Page \cup Task
      /\ task \in [Task -> {"live", "waiting", "ended"}] /\ watch \in [Task -> {"off", "looks", "judges", "sleeps"}]
      /\ kept[t] = NoPage \/ (kept[t].page \in Page /\ kept[t].step \in Steps(t))
      /\ walk[t].page \in Page \cup {None} /\ kept[t].page \in Page \cup {None}
  BY <1>t, TablesAre, NoneIsNothing DEF TypeOK, AWalk, AKept
<1>w. stage = "up" => kept[t].page # None <=> watch[t] # "off"
  BY <1>t DEF Local, Handing
<1> DEFINE k == walk[t].page
            o == kept[t].page
<1>1. /\ UNCHANGED <<plan, task, done, question, grant, stage, window>> /\ walk[t].pc = "offering"
      /\ Go(t, "verifying")
  BY DEF Offer, Keep, consent, At, Hand
<1>2. k \in Page /\ pages[k].by = t /\ (o # None => pages[o].by = t)
  BY <1>t, <1>d, <1>1 DEF Local, Holding, Hand
<1>3. /\ walk' \in [Task -> AWalk] /\ \A s \in Task \ {t} : walk'[s] = walk[s]
      /\ walk'[t].pc = "verifying" /\ walk'[t].page = k
  BY <1>t, <1>1, GoIs DEF WalkPlaces
<1>4. CASE Continues(t) /\ Keep(t, k)
  <2>1. /\ pages' = [Shut({o}) EXCEPT ![k].held = InTable(k), ![k].timed = FALSE]
        /\ kept' = [kept EXCEPT ![t] = [page |-> k, step |-> Following(t)]]
        /\ watch' = [watch EXCEPT ![t] = "looks"] /\ Following(t) \in Steps(t)
    BY <1>4 DEF Keep, Continues
  <2>2. Following(t) \in Nat
    BY <1>t, <2>1, PlanIs
  <2>3. /\ kept' \in [Task -> AKept] /\ \A s \in Task \ {t} : kept'[s] = kept[s]
        /\ kept'[t].page = k /\ kept'[t].step = Following(t)
    BY <1>d, <1>2, <2>1, <2>2 DEF AKept
  <2>4. /\ watch' \in [Task -> {"off", "looks", "judges", "sleeps"}] /\ watch'[t] = "looks"
        /\ \A s \in Task \ {t} : watch'[s] = watch[s]
    BY <1>d, <2>1
  <2>5. /\ pages' \in [Page -> APage]
        /\ \A p \in Page \ {k} : p = o /\ InTable(p) =>
               pages'[p].state = "shutting" /\ pages'[p].by = pages[p].by /\ pages'[p].on = pages[p].on
        /\ \A p \in Page \ {k} : ~(p = o /\ InTable(p)) => pages'[p] = pages[p]
        /\ pages'[k].by = pages[k].by /\ pages'[k].on = pages[k].on /\ ~pages'[k].timed
        /\ pages'[k].held <=> InTable(k)
        /\ pages'[k].state = pages[k].state \/ (pages'[k].state = "shutting" /\ InTable(k) /\ o = k)
    <3>1. k \in Page /\ pages' = [Shut({o}) EXCEPT ![k].held = InTable(k), ![k].timed = FALSE]
      BY <1>2, <2>1
    <3> HIDE DEF k, o
    <3>2. QED
      BY <1>t, <3>1, KeptIs
  <2>6. TypeOK' /\ Shaped' /\ Finished'
    <3>1. kept'[t].page \in Page /\ kept'[t].step \in Steps(t) /\ walk[t].pc # "idle"
      BY <1>1, <1>2, <2>1, <2>3
    <3>2. pages' \in [Page -> APage]
      BY <2>5
    <3>3. QED
      BY <1>d, <1>1, <1>3, <2>3, <2>4, <3>1, <3>2, TypesOf
  <2>7. \A p \in Page : /\ pages'[p] = pages[p] \/ (pages[p].by = t /\ pages'[p].by = t)
                        /\ pages'[p].state = "new" => pages'[p] = pages[p]
                        /\ Alive(p)' => Alive(p) /\ pages'[p].on = pages[p].on
    BY <1>d, <1>2, <2>5, OwnPages
  <2>8. ASSUME stage = "up", NEW p \in Page, pages'[p].state \in {"starting", "loading", "open"}, pages'[p].by = t
        PROVE  Hands(t, p)'
    <3>1. CASE p = k
      <4>1. pages[k].state \in {"starting", "loading", "open"}
        BY <2>5, <2>8, <3>1
      <4>2. Hands(t, k)
        BY <1>t, <1>2, <2>8, <4>1 DEF Local, Handing
      <4>3. InTable(k)
        BY <1>1, <4>1, <4>2 DEF Hands, At, InTable
      <4>4. QED
        BY <1>3, <2>3, <2>5, <2>8, <3>1, <4>3 DEF Hands, InHand, Hand, At, InTable
    <3>2. CASE p # k
      <4>1. ~(p = o /\ InTable(p)) /\ pages'[p] = pages[p]
        BY <2>5, <2>8, <3>2
      <4>2. Hands(t, p)
        BY <1>t, <2>8, <4>1 DEF Local, Handing
      <4>3. p # o
        BY <1>1, <2>8, <4>1, <4>2 DEF Hands, InTable, At
      <4>4. QED
        BY <1>1, <1>3, <1>d, <2>3, <3>2, <4>1, <4>2, <4>3 DEF Hands, InHand, Hand, At
    <3>3. QED
      BY <3>1, <3>2
  <2>9. QED
    BY <1>1, <1>2, <1>3, <1>d, <2>3, <2>4, <2>6, <2>7, <2>8, HandOvers
<1>5. CASE pages' = [pages EXCEPT ![k].timed = InTable(k)] /\ UNCHANGED <<kept, watch>>
  <2>1. /\ pages' \in [Page -> APage] /\ \A p \in Page \ {k} : pages'[p] = pages[p]
        /\ pages'[k].state = pages[k].state /\ pages'[k].by = pages[k].by /\ pages'[k].on = pages[k].on
        /\ pages'[k].held <=> pages[k].held
        /\ pages'[k].timed <=> InTable(k)
    BY <1>t, <1>2, <1>5, TimedIs
  <2>2. TypeOK' /\ Shaped' /\ Finished'
    BY <1>t, <1>d, <1>1, <1>3, <1>5, <2>1, TypesOf
  <2>3. \A p \in Page : /\ pages'[p] = pages[p] \/ (pages[p].by = t /\ pages'[p].by = t)
                        /\ pages'[p].state = "new" => pages'[p] = pages[p]
                        /\ Alive(p)' => Alive(p) /\ pages'[p].on = pages[p].on
    BY <1>2, <2>1, OwnPages
  <2>4. ASSUME stage = "up", NEW p \in Page, pages'[p].state \in {"starting", "loading", "open"}, pages'[p].by = t
        PROVE  Hands(t, p)'
    <3>1. CASE p = k
      <4>1. Hands(t, k)
        BY <1>t, <1>2, <2>1, <2>4, <3>1 DEF Local, Handing
      <4>2. InTable(k)
        BY <1>1, <2>1, <2>4, <3>1, <4>1 DEF Hands, At, InTable
      <4>3. QED
        BY <1>1, <1>3, <1>5, <2>1, <3>1, <4>1, <4>2 DEF Hands, InHand, Hand, At, InTable
    <3>2. CASE p # k
      <4>1. Hands(t, p)
        BY <1>t, <2>1, <2>4, <3>2 DEF Local, Handing
      <4>2. QED
        BY <1>1, <1>3, <1>5, <2>1, <3>2, <4>1 DEF Hands, InHand, Hand, At
    <3>3. QED
      BY <3>1, <3>2
  <2>5. QED
    BY <1>1, <1>2, <1>3, <1>5, <1>d, <1>w, <2>2, <2>3, <2>4, HandOvers
<1>6. QED
  BY <1>4, <1>5 DEF Offer, Hand

\* The verifier looks at the page, or finds it gone.
LEMMA LookRuns ==
    ASSUME Base, NEW t \in Task, Look(t)
    PROVE  Runs(t) /\ Mortal
<1>t. TypeOK /\ Shaped /\ Finished /\ Local(t)
  BY DEF Base, Each
<1>d. /\ walk \in [Task -> AWalk] /\ pages \in [Page -> APage] /\ kept \in [Task -> AKept]
      /\ None \notin Page \cup Task
      /\ task \in [Task -> {"live", "waiting", "ended"}] /\ watch \in [Task -> {"off", "looks", "judges", "sleeps"}]
      /\ kept[t] = NoPage \/ (kept[t].page \in Page /\ kept[t].step \in Steps(t))
      /\ walk[t].page \in Page \cup {None} /\ kept[t].page \in Page \cup {None}
  BY <1>t, TablesAre, NoneIsNothing DEF TypeOK, AWalk, AKept
<1>w. stage = "up" => kept[t].page # None <=> watch[t] # "off"
  BY <1>t DEF Local, Handing
<1> DEFINE k == walk[t].page
<1>1. /\ UNCHANGED <<plan, task, done, question, grant, kept, watch, stage, window>> /\ walk[t].pc = "verifying"
  BY DEF Look, consent, At
<1>2. k \in Page /\ pages[k].by = t
  BY <1>t, <1>d, <1>1 DEF Local, Holding, Hand
<1>3. CASE pages' = [pages EXCEPT ![k].looked = TRUE, ![k].timed = FALSE] /\ Go(t, "looking")
  <2>1. /\ walk' \in [Task -> AWalk] /\ \A s \in Task \ {t} : walk'[s] = walk[s]
        /\ walk'[t].pc = "looking" /\ walk'[t].page = k
    BY <1>t, <1>3, GoIs DEF WalkPlaces
  <2>2. /\ pages' \in [Page -> APage] /\ \A p \in Page \ {k} : pages'[p] = pages[p]
        /\ pages'[k].state = pages[k].state /\ pages'[k].by = pages[k].by /\ pages'[k].on = pages[k].on
        /\ pages'[k].held <=> pages[k].held
        /\ ~pages'[k].timed
    BY <1>t, <1>2, <1>3, LookedIs
  <2>3. TypeOK' /\ Shaped' /\ Finished'
    BY <1>t, <1>d, <1>1, <2>1, <2>2, TypesOf
  <2>4. \A p \in Page : /\ pages'[p] = pages[p] \/ (pages[p].by = t /\ pages'[p].by = t)
                        /\ pages'[p].state = "new" => pages'[p] = pages[p]
                        /\ Alive(p)' => Alive(p) /\ pages'[p].on = pages[p].on
    BY <1>2, <2>2, OwnPages
  <2>5. ASSUME stage = "up", NEW p \in Page, pages'[p].state \in {"starting", "loading", "open"}, pages'[p].by = t
        PROVE  Hands(t, p)'
    <3>1. Hands(t, p)
      BY <1>t, <1>2, <2>2, <2>5 DEF Local, Handing
    <3>2. QED
      BY <1>1, <2>1, <2>2, <2>5, <3>1 DEF Hands, InHand, Hand, At
  <2>6. QED
    BY <1>1, <1>2, <1>d, <1>w, <2>1, <2>3, <2>4, <2>5, HandOvers
<1>4. CASE GoWith(t, "closing", None) /\ UNCHANGED pages
  <2>1. /\ walk' \in [Task -> AWalk] /\ \A s \in Task \ {t} : walk'[s] = walk[s]
        /\ walk'[t].pc = "closing" /\ walk'[t].page = None
    BY <1>t, <1>4, GoWithIs DEF WalkPlaces
  <2>2. TypeOK' /\ Shaped' /\ Finished'
    BY <1>t, <1>d, <1>1, <1>4, <2>1, TypesOf
  <2>3. QED
    BY <1>1, <1>4, <2>1, <2>2, PagelessRuns DEF Mortal, Alive
<1>5. QED
  BY <1>3, <1>4 DEF Look, Hand

\* The look ends, and releases a page nobody holds.
LEMMA LookedRuns ==
    ASSUME Base, NEW t \in Task, Looked(t)
    PROVE  Runs(t) /\ Mortal
<1>t. TypeOK /\ Shaped /\ Finished /\ Local(t)
  BY DEF Base, Each
<1>d. /\ walk \in [Task -> AWalk] /\ pages \in [Page -> APage] /\ kept \in [Task -> AKept]
      /\ None \notin Page \cup Task
      /\ task \in [Task -> {"live", "waiting", "ended"}] /\ watch \in [Task -> {"off", "looks", "judges", "sleeps"}]
      /\ kept[t] = NoPage \/ (kept[t].page \in Page /\ kept[t].step \in Steps(t))
      /\ walk[t].page \in Page \cup {None} /\ kept[t].page \in Page \cup {None}
  BY <1>t, TablesAre, NoneIsNothing DEF TypeOK, AWalk, AKept
<1>w. stage = "up" => kept[t].page # None <=> watch[t] # "off"
  BY <1>t DEF Local, Handing
<1> DEFINE k == walk[t].page
            released == Releases(k) /\ InTable(k)
<1>1. /\ UNCHANGED <<plan, task, done, question, grant, kept, watch, stage, window>> /\ walk[t].pc = "looking"
  BY DEF Looked, consent, At
<1>2. k \in Page /\ pages[k].by = t
  BY <1>t, <1>d, <1>1 DEF Local, Holding, Hand
<1>3. /\ released \in BOOLEAN
      /\ pages' = IF released THEN [[pages EXCEPT ![k].looked = FALSE] EXCEPT ![k].state = "shutting"]
                  ELSE [pages EXCEPT ![k].looked = FALSE]
  BY DEF Looked, Hand, Releases, InTable
<1>4. PICK pc \in {"closing", "verified"}, q \in {None, k} : GoWith(t, pc, q)
  BY DEF Looked, Hand
<1>5. /\ walk' \in [Task -> AWalk] /\ \A s \in Task \ {t} : walk'[s] = walk[s]
      /\ walk'[t].pc = pc /\ walk'[t].page = q
  BY <1>t, <1>d, <1>4, GoWithIs DEF WalkPlaces
<1>6. released <=> ~pages[k].held /\ InTable(k)
  BY DEF Releases
<1> HIDE DEF released
<1>7. /\ pages' \in [Page -> APage] /\ \A p \in Page \ {k} : pages'[p] = pages[p]
      /\ pages'[k].state = (IF released THEN "shutting" ELSE pages[k].state)
      /\ pages'[k].by = pages[k].by /\ pages'[k].on = pages[k].on
      /\ pages'[k].held <=> pages[k].held
      /\ pages'[k].timed <=> pages[k].timed
  BY <1>t, <1>2, <1>3, SeenIs
<1>8. TypeOK' /\ Shaped' /\ Finished'
  BY <1>t, <1>d, <1>1, <1>5, <1>7, TypesOf
<1>9. \A p \in Page : /\ pages'[p] = pages[p] \/ (pages[p].by = t /\ pages'[p].by = t)
                      /\ pages'[p].state = "new" => pages'[p] = pages[p]
                      /\ Alive(p)' => Alive(p) /\ pages'[p].on = pages[p].on
  BY <1>2, <1>6, <1>7, OwnPages
<1>10. ASSUME stage = "up", NEW p \in Page, pages'[p].state \in {"starting", "loading", "open"}, pages'[p].by = t
      PROVE  Hands(t, p)'
  <2>1. CASE p = k
    <3>1. ~released /\ Hands(t, k)
      BY <1>t, <1>2, <1>7, <1>10, <2>1 DEF Local, Handing
    <3>2. pages[k].held
      BY <1>1, <1>6, <1>7, <1>10, <2>1, <3>1 DEF Hands, At, InTable
    <3>3. QED
      BY <1>1, <1>5, <1>7, <2>1, <3>1, <3>2 DEF Hands, InHand, Hand, At
  <2>2. CASE p # k
    <3>1. Hands(t, p)
      BY <1>t, <1>7, <1>10, <2>2 DEF Local, Handing
    <3>2. QED
      BY <1>1, <1>5, <1>7, <1>d, <2>2, <3>1 DEF Hands, InHand, Hand, At
  <2>3. QED
    BY <2>1, <2>2
<1>11. QED
  BY <1>1, <1>2, <1>d, <1>w, <1>5, <1>8, <1>9, <1>10, HandOvers

\* The watch of the room goes on, and nothing else does.
LEMMA WatchesOn ==
    ASSUME Base, NEW t \in Task, NEW w \in {"off", "looks", "judges", "sleeps"},
           UNCHANGED <<plan, task, done, question, grant, walk, kept, pages, stage, window>>,
           watch' = [watch EXCEPT ![t] = w], stage = "up" => w # "off", watch[t] # "off"
    PROVE  Runs(t) /\ Mortal
<1>t. TypeOK /\ Shaped /\ Finished /\ Local(t)
  BY DEF Base, Each
<1>d. /\ walk \in [Task -> AWalk] /\ pages \in [Page -> APage] /\ kept \in [Task -> AKept]
      /\ None \notin Page \cup Task
      /\ task \in [Task -> {"live", "waiting", "ended"}] /\ watch \in [Task -> {"off", "looks", "judges", "sleeps"}]
      /\ kept[t] = NoPage \/ (kept[t].page \in Page /\ kept[t].step \in Steps(t))
      /\ walk[t].page \in Page \cup {None} /\ kept[t].page \in Page \cup {None}
  BY <1>t, TablesAre, NoneIsNothing DEF TypeOK, AWalk, AKept
<1>w. stage = "up" => kept[t].page # None <=> watch[t] # "off"
  BY <1>t DEF Local, Handing
<1>1. /\ watch' \in [Task -> {"off", "looks", "judges", "sleeps"}] /\ watch'[t] = w
      /\ \A s \in Task \ {t} : watch'[s] = watch[s]
  BY <1>d
<1>2. TypeOK' /\ Shaped' /\ Finished'
  BY <1>t, <1>d, <1>1, TypesOf
<1>3. ASSUME stage = "up", NEW p \in Page, pages'[p].state \in {"starting", "loading", "open"}, pages'[p].by = t
      PROVE  Hands(t, p)'
  BY <1>t, <1>3 DEF Local, Handing, Hands, InHand, Hand, At
<1>4. walk[t].pc \in {"opening", "using", "offering", "verifying", "looking"} => walk[t].page # None
  BY <1>t DEF Local, Holding, Hand
<1>5. QED
  BY <1>1, <1>2, <1>3, <1>4, <1>d, <1>w, HandOvers DEF Alive

\* The watch reads the task and the question.
LEMMA WatchLooksRuns ==
    ASSUME Base, NEW t \in Task, WatchLooks(t)
    PROVE  Runs(t) /\ Mortal
<1>t. TypeOK /\ Shaped /\ Finished /\ Local(t)
  BY DEF Base, Each
<1>d. /\ walk \in [Task -> AWalk] /\ pages \in [Page -> APage] /\ kept \in [Task -> AKept]
      /\ None \notin Page \cup Task
      /\ task \in [Task -> {"live", "waiting", "ended"}] /\ watch \in [Task -> {"off", "looks", "judges", "sleeps"}]
      /\ kept[t] = NoPage \/ (kept[t].page \in Page /\ kept[t].step \in Steps(t))
      /\ walk[t].page \in Page \cup {None} /\ kept[t].page \in Page \cup {None}
  BY <1>t, TablesAre, NoneIsNothing DEF TypeOK, AWalk, AKept
<1>w. stage = "up" => kept[t].page # None <=> watch[t] # "off"
  BY <1>t DEF Local, Handing
<1>1. UNCHANGED <<plan, task, done, question, grant, walk, stage, window>> /\ watch[t] # "off"
  BY <1>d DEF WatchLooks, consent
<1>2. CASE CloseKept(t)
  BY <1>1, <1>2, <1>d, LetsGo DEF CloseKept
<1>3. CASE \E w \in {"judges", "sleeps"} : watch' = [watch EXCEPT ![t] = w] /\ UNCHANGED <<kept, pages>>
  BY <1>1, <1>3, WatchesOn
<1>4. QED
  BY <1>2, <1>3 DEF WatchLooks

\* The watch reads the grant.
LEMMA WatchJudgesRuns ==
    ASSUME Base, NEW t \in Task, WatchJudges(t)
    PROVE  Runs(t) /\ Mortal
<1>t. TypeOK /\ Shaped /\ Finished /\ Local(t)
  BY DEF Base, Each
<1>d. /\ walk \in [Task -> AWalk] /\ pages \in [Page -> APage] /\ kept \in [Task -> AKept]
      /\ None \notin Page \cup Task
      /\ task \in [Task -> {"live", "waiting", "ended"}] /\ watch \in [Task -> {"off", "looks", "judges", "sleeps"}]
      /\ kept[t] = NoPage \/ (kept[t].page \in Page /\ kept[t].step \in Steps(t))
      /\ walk[t].page \in Page \cup {None} /\ kept[t].page \in Page \cup {None}
  BY <1>t, TablesAre, NoneIsNothing DEF TypeOK, AWalk, AKept
<1>w. stage = "up" => kept[t].page # None <=> watch[t] # "off"
  BY <1>t DEF Local, Handing
<1>1. UNCHANGED <<plan, task, done, question, grant, walk, stage, window>> /\ watch[t] # "off"
  BY <1>d DEF WatchJudges, consent
<1>2. CASE CloseKept(t)
  BY <1>1, <1>2, <1>d, LetsGo DEF CloseKept
<1>3. CASE \E w \in {"judges", "sleeps"} : watch' = [watch EXCEPT ![t] = w] /\ UNCHANGED <<kept, pages>>
  BY <1>1, <1>3, WatchesOn
<1>4. QED
  BY <1>2, <1>3 DEF WatchJudges

\* The watch wakes.
LEMMA WatchWakesRuns ==
    ASSUME Base, NEW t \in Task, WatchWakes(t)
    PROVE  Runs(t) /\ Mortal
<1>t. TypeOK /\ Shaped /\ Finished /\ Local(t)
  BY DEF Base, Each
<1>d. /\ walk \in [Task -> AWalk] /\ pages \in [Page -> APage] /\ kept \in [Task -> AKept]
      /\ None \notin Page \cup Task
      /\ task \in [Task -> {"live", "waiting", "ended"}] /\ watch \in [Task -> {"off", "looks", "judges", "sleeps"}]
      /\ kept[t] = NoPage \/ (kept[t].page \in Page /\ kept[t].step \in Steps(t))
      /\ walk[t].page \in Page \cup {None} /\ kept[t].page \in Page \cup {None}
  BY <1>t, TablesAre, NoneIsNothing DEF TypeOK, AWalk, AKept
<1>w. stage = "up" => kept[t].page # None <=> watch[t] # "off"
  BY <1>t DEF Local, Handing
<1>1. PICK w \in {"looks", "off"} : watch' = [watch EXCEPT ![t] = w] /\ (stage = "up" => w # "off")
  BY DEF WatchWakes
<1>2. QED
  BY <1>1, WatchesOn DEF WatchWakes, consent

-------------------------------------------------------------------------------
(* The other steps: the pages by themselves, the user, and the stop of ELA *)

\* A step that leaves every page and every run where they are.
LEMMA PagesStay ==
    ASSUME Base, UNCHANGED <<walk, kept, watch, pages, stage>>, TypeOK', Shaped', Finished'
    PROVE  Base' /\ Mortal
<1>1. Owners'
  BY DEF Base, Owners
<1>2. Each'
  BY DEF Base, Each, Local, Holding, Handing, Hands, InHand, Hand, At
<1>3. QED
  BY <1>1, <1>2 DEF Base, Mortal, Alive

\* A step of the windows.
LEMMA WindowsOnly ==
    ASSUME Base, UNCHANGED <<paging, stage>>, WindowTypes'
    PROVE  Base' /\ Mortal
<1>1. UNCHANGED <<plan, task, done, question, grant, walk, kept, watch, pages>>
  BY DEF paging, consent
<1>2. TypeOK'
  BY <1>1 DEF Base, TypeOK, Steps
<1>3. Shaped' /\ Finished'
  BY <1>1 DEF Base, Shaped, Finished
<1>4. QED
  BY <1>1, <1>2, <1>3, PagesStay

\* A step that touches no window and no task.
LEMMA OthersStay ==
    ASSUME Base, UNCHANGED <<plan, task, done, question, grant, walk, window>>,
           pages' \in [Page -> APage], stage' \in {"up", "stopping", "forgotten", "down"},
           \/ UNCHANGED <<kept, watch>>
           \/ kept' = [t \in Task |-> NoPage] /\ watch' = [t \in Task |-> "off"]
    PROVE  TypeOK' /\ Shaped' /\ Finished'
<1>1. TypeOK /\ Shaped /\ Finished
  BY DEF Base
<1>2. WindowTypes'
  BY <1>1 DEF TypeOK, WindowTypes, window
<1>3. \A s \in Task : Steps(s)' = Steps(s)
  BY DEF Steps
<1>4. NoPage \in AKept
  BY DEF NoPage, AKept
<1>5. /\ kept' \in [Task -> AKept] /\ watch' \in [Task -> {"off", "looks", "judges", "sleeps"}]
      /\ \A s \in Task : kept'[s] = kept[s] \/ kept'[s] = NoPage
  <2>1. kept \in [Task -> AKept] /\ watch \in [Task -> {"off", "looks", "judges", "sleeps"}]
    BY <1>1, TablesAre DEF TypeOK
  <2>2. QED
    BY <1>4, <2>1
<1>6. \A s \in Task :
        /\ done'[s] \in 0 .. Len(plan'[s].order)
        /\ question'[s] \in [Steps(s) -> {"none", "pending", "expired", "no", "yes", "granted"}]
        /\ grant'[s] \in [Steps(s) -> {"none", "fresh", "late"}]
        /\ kept'[s] = NoPage \/ (kept'[s].page \in Page /\ kept'[s].step \in Steps(s))
        /\ done'[s] = Len(plan'[s].order) => walk'[s].pc = "idle"
  BY <1>1, <1>5 DEF TypeOK
<1>7. TypeOK'
  BY <1>1, <1>2, <1>3, <1>5, <1>6 DEF TypeOK, APage, PageStates
<1>8. Shaped'
  BY <1>1, <1>5 DEF Shaped, AKept
<1>9. Finished'
  BY <1>1 DEF Finished
<1>10. QED
  BY <1>7, <1>8, <1>9

\* A page leaves the table, or ends.
LEMMA PageLeaves ==
    ASSUME Base, UNCHANGED <<plan, task, done, question, grant, walk, kept, watch, stage, window>>,
           pages' \in [Page -> APage],
           \A p \in Page : \/ pages'[p] = pages[p]
                           \/ /\ Alive(p) /\ pages'[p].state \in {"shutting", "gone"}
                              /\ pages'[p].by = pages[p].by /\ pages'[p].on = pages[p].on
    PROVE  Base' /\ Mortal
<1>1. TypeOK' /\ Shaped' /\ Finished'
  BY OthersStay DEF Base, TypeOK
<1>2. Owners'
  BY DEF Base, Owners, Alive
<1>3. ASSUME NEW t \in Task
      PROVE  Local(t)'
  <2>1. Local(t) /\ walk[t].page \in Page \cup {None} /\ kept[t].page \in Page \cup {None}
    BY TablesAre DEF Base, Each, AWalk, AKept
  <2>2. Holding(t)'
    BY <2>1 DEF Local, Holding, Hand
  <2>3. ASSUME stage = "up"
        PROVE  Handing(t)'
    <3>1. Handing(t)
      BY <2>1, <2>3 DEF Local
    <3>2. ASSUME NEW p \in Page, pages'[p].state \in {"starting", "loading", "open"}, pages'[p].by = t
          PROVE  Hands(t, p)'
      <4>1. pages'[p] = pages[p]
        BY <3>2
      <4>2. Hands(t, p)
        BY <3>1, <3>2, <4>1 DEF Handing
      <4>3. QED
        BY <4>1, <4>2 DEF Hands, InHand, Hand, At
    <3>3. QED
      BY <3>1, <3>2 DEF Handing
  <2>4. QED
    BY <2>2, <2>3 DEF Local
<1>4. Mortal
  BY DEF Mortal, Alive
<1>5. QED
  BY <1>1, <1>2, <1>3, <1>4 DEF Base, Each

\* Its processes end.
LEMMA GoneLeaves ==
    ASSUME Base, NEW k \in Page, Gone(k)
    PROVE  Base' /\ Mortal
<1>1. "gone" \in PageStates /\ TypeOK /\ Shaped
  BY DEF PageStates, Base
<1>2. /\ pages' \in [Page -> APage] /\ \A p \in Page \ {k} : pages'[p] = pages[p]
      /\ pages'[k].state = "gone" /\ pages'[k].by = pages[k].by /\ pages'[k].on = pages[k].on
  BY <1>1, StateIs DEF Gone
<1>3. Alive(k)
  BY DEF Gone, Alive
<1>4. QED
  BY <1>2, <1>3, PageLeaves DEF Gone, consent

\* Its deadline passes, or ELA stops.
LEMMA ShutLeaves ==
    ASSUME Base, NEW k \in Page, Expire(k) \/ CloseOnStop(k)
    PROVE  Base' /\ Mortal
<1>1. /\ pages' = Shut({k}) /\ TypeOK /\ Shaped
      /\ UNCHANGED <<plan, task, done, question, grant, walk, kept, watch, stage, window>>
  BY DEF Expire, CloseOnStop, Base, consent
<1>2. /\ pages' \in [Page -> APage]
      /\ \A p \in Page : p = k /\ InTable(p) =>
             /\ pages'[p].state = "shutting" /\ pages'[p].by = pages[p].by /\ pages'[p].on = pages[p].on
      /\ \A p \in Page : ~(p = k /\ InTable(p)) => pages'[p] = pages[p]
  BY <1>1, ShutOne
<1>3. \A p \in Page : InTable(p) => Alive(p)
  BY DEF InTable, Alive
<1>4. QED
  BY <1>1, <1>2, <1>3, PageLeaves

\* The user answers, or ends a task; a question or a grant lapses.
LEMMA UserStays ==
    ASSUME Base, NEW t \in Task, Answer(t) \/ Cancel(t) \/ Lapse(t)
    PROVE  Base' /\ Mortal
<1>1. TypeOK /\ Shaped /\ Finished
  BY DEF Base
<1>2. /\ UNCHANGED <<plan, done, walk, kept, watch, pages, stage, window>>
      /\ task \in [Task -> {"live", "waiting", "ended"}] /\ walk \in [Task -> AWalk]
  BY <1>1, TablesAre DEF Answer, Cancel, Lapse, consent, TypeOK
<1>3. /\ question = [s \in Task |-> question[s]] /\ grant = [s \in Task |-> grant[s]] /\ done \in [Task -> Nat]
      /\ question[t] \in [Steps(t) -> {"none", "pending", "expired", "no", "yes", "granted"}]
      /\ grant[t] \in [Steps(t) -> {"none", "fresh", "late"}]
      /\ done[t] \in 0 .. Len(plan[t].order)
      /\ done[t] = Len(plan[t].order) => walk[t].pc = "idle" /\ task[t] = "ended"
  BY <1>1 DEF Shaped, TypeOK, Finished
<1>4. /\ task' \in [Task -> {"live", "waiting", "ended"}] /\ \A s \in Task \ {t} : task'[s] = task[s]
      /\ task[t] = "ended" => task'[t] = "ended"
  BY <1>2 DEF Answer, Cancel, Lapse, Ends
<1>5. task[t] = "waiting" => done[t] # Len(plan[t].order) /\ Current(t) \in Steps(t)
  <2>1. ASSUME task[t] = "waiting"
        PROVE  done[t] < Len(plan[t].order)
    <3>1. Len(plan[t].order) \in Nat
      BY <1>1, PlanIs
    <3>2. QED
      BY <1>3, <2>1, <3>1
  <2>2. QED
    BY <1>1, <1>3, <2>1, StepIs
<1>6. /\ question' = [s \in Task |-> question'[s]] /\ \A s \in Task \ {t} : question'[s] = question[s]
      /\ question'[t] \in [Steps(t) -> {"none", "pending", "expired", "no", "yes", "granted"}]
  <2>1. CASE question' = question
    BY <1>3, <2>1
  <2>2. CASE \E k \in Steps(t), x \in {"expired", "no", "yes"} : question' = [question EXCEPT ![t][k] = x]
    <3>1. PICK k \in Steps(t), x \in {"expired", "no", "yes"} : question' = [question EXCEPT ![t][k] = x]
      BY <2>2
    <3>2. x \in {"none", "pending", "expired", "no", "yes", "granted"}
      OBVIOUS
    <3>3. QED
      BY <1>3, <3>1, <3>2, TableIs
  <2>3. QED
    BY <1>5, <2>1, <2>2 DEF Answer, Cancel, Lapse, consent
<1>7. /\ grant' = [s \in Task |-> grant'[s]] /\ \A s \in Task \ {t} : grant'[s] = grant[s]
      /\ grant'[t] \in [Steps(t) -> {"none", "fresh", "late"}]
  <2>1. CASE grant' = grant
    BY <1>3, <2>1
  <2>2. CASE \E k \in Steps(t) : grant' = [grant EXCEPT ![t][k] = "late"]
    <3>1. PICK k \in Steps(t) : grant' = [grant EXCEPT ![t][k] = "late"]
      BY <2>2
    <3>2. QED
      BY <1>3, <3>1, TableIs
  <2>3. QED
    BY <2>1, <2>2 DEF Answer, Cancel, Lapse, consent
<1>8. done[t] = Len(plan[t].order) => walk'[t].pc = "idle" /\ task'[t] = "ended"
  BY <1>2, <1>3, <1>4
<1>9. TypeOK' /\ Shaped' /\ Finished'
  BY <1>2, <1>3, <1>4, <1>6, <1>7, <1>8, TypesOfTask
<1>10. QED
  BY <1>2, <1>9, PagesStay

\* ELA stops.
LEMMA StopStays ==
    ASSUME Base, Stop \/ Forget \/ Down
    PROVE  Base' /\ Mortal
<1>1. /\ UNCHANGED <<plan, task, done, question, grant, walk, pages, window>>
      /\ stage' \in {"stopping", "forgotten", "down"}
      /\ \/ UNCHANGED <<kept, watch>>
         \/ kept' = [t \in Task |-> NoPage] /\ watch' = [t \in Task |-> "off"]
  BY DEF Stop, Forget, Down, paging, consent
<1>2. pages' \in [Page -> APage]
  BY <1>1, TablesAre DEF Base
<1>3. TypeOK' /\ Shaped' /\ Finished'
  BY <1>1, <1>2, OthersStay
<1>4. Owners'
  BY <1>1 DEF Base, Owners
<1>5. ASSUME NEW t \in Task
      PROVE  Local(t)'
  <2>1. Local(t) /\ NoPage.page = None
    BY DEF Base, Each, NoPage
  <2>2. kept'[t].page \in {None, kept[t].page}
    BY <1>1, <2>1
  <2>3. Holding(t)'
    BY <1>1, <2>1, <2>2 DEF Local, Holding, Hand
  <2>4. QED
    BY <1>1, <2>3 DEF Local
<1>6. QED
  BY <1>1, <1>3, <1>4, <1>5 DEF Base, Each, Mortal, Alive

-------------------------------------------------------------------------------
(* The pages and the windows together *)

\* The rest of the invariant, over a step that opens no page and moves no window.
LEMMA MortalKeeps ==
    ASSUME IInv, Mortal, UNCHANGED <<stage, window>>
    PROVE  Alone' /\ LastOne' /\ Settled' /\ Asked' /\ CutIsKilled' /\ ShutIsTrue'
<1>1. UNCHANGED <<win, group, watched, other, asker, settling>> /\ \A p \in Page : Alive(p)' => Alive(p)
  BY DEF window, Mortal
<1>2. LastOne' /\ Asked' /\ CutIsKilled' /\ ShutIsTrue'
  BY <1>1 DEF IInv, LastOne, IsOpen, Asked, Asking, AskerAt, CutIsKilled, ShutIsTrue, WinAt
<1>3. Settled'
  BY <1>1 DEF IInv, Settled, WinAt
<1>4. Mine' \subseteq Mine
  BY DEF Mine, Holds, Mortal
<1>5. OnTheFolder' = OnTheFolder
  BY <1>1 DEF OnTheFolder, Launching, IsOpen
<1>6. Alone'
  BY <1>4, <1>5 DEF IInv, Alone
<1>7. QED
  BY <1>2, <1>3, <1>6

\* And over one that opens a page.
LEMMA OpeningKeeps ==
    ASSUME IInv, NEW t \in Task, Opening(t), UNCHANGED <<stage, window>>
    PROVE  Alone' /\ LastOne' /\ Settled' /\ Asked' /\ CutIsKilled' /\ ShutIsTrue'
<1>1. UNCHANGED <<win, group, watched, other, asker, settling>> /\ stage = "up"
  BY DEF window, Opening
<1>2. LastOne' /\ Asked' /\ CutIsKilled' /\ ShutIsTrue'
  BY <1>1 DEF IInv, LastOne, IsOpen, Asked, Asking, AskerAt, CutIsKilled, ShutIsTrue, WinAt
<1>3. settling.pc = "pages"
  BY <1>1 DEF IInv, Settled
<1>4. Settled'
  BY <1>1, <1>3 DEF Settled
<1>5. PICK k \in Page : /\ ~Alive(k) /\ \A p \in Page \ {k} : pages'[p] = pages[p]
                        /\ pages'[k].on = "profile" => Mine = {} /\ ~Taken
  BY DEF Opening
<1>6. OnTheFolder' = OnTheFolder
  BY <1>1 DEF OnTheFolder, Launching, IsOpen
<1>7. \A p \in Mine' : p \in Mine \/ (p = k /\ Mine = {} /\ ~Taken)
  BY <1>5 DEF Mine, Holds, Alive
<1>8. Alone'
  <2>1. CASE Mine' \subseteq Mine
    BY <1>6, <2>1 DEF IInv, Alone
  <2>2. CASE ~(Mine' \subseteq Mine)
    <3>1. Mine = {} /\ ~Taken
      BY <1>7, <2>2
    <3>2. \A p \in Mine' : p = k
      BY <1>7, <3>1
    <3>3. OnTheFolder = {}
      BY <3>1 DEF Taken
    <3>4. QED
      BY <1>6, <3>2, <3>3 DEF Alone
  <2>3. QED
    BY <2>1, <2>2
<1>9. QED
  BY <1>2, <1>4, <1>8

\* A step of a run, or of the watch of its page.
LEMMA RunKeeps ==
    ASSUME IInv, NEW t \in Task, Run(t) \/ Watch(t)
    PROVE  IInv'
<1>1. Base
  BY DEF IInv, Base
<1>2. UNCHANGED <<stage, window>>
  BY DEF Run, Watch, Begin, Ask, Grant, HearStop, Take, Release, Open, Started, Loaded, Work, Fail, Closed, Offer,
         Look, Looked, Complete, WatchLooks, WatchJudges, WatchWakes
<1>3. Runs(t) /\ (Mortal \/ Opening(t))
  <2>1. CASE Begin(t) \/ Ask(t) \/ Grant(t) \/ HearStop(t) \/ Closed(t) \/ Complete(t)
    <3>1. UNCHANGED pages
      BY <2>1 DEF Begin, Ask, Grant, HearStop, Closed, Complete
    <3>2. Mortal
      BY <3>1 DEF Mortal, Alive
    <3>3. QED
      BY <1>1, <2>1, <3>2, BeginRuns, AskRuns, GrantRuns, HearStopRuns, ClosedRuns, CompleteRuns
  <2>2. CASE Take(t) \/ Release(t) \/ Open(t) \/ Started(t) \/ Loaded(t) \/ Work(t) \/ Fail(t)
    BY <1>1, <2>2, TakeRuns, ReleaseRuns, OpenRuns, StartedRuns, LoadedRuns, WorkRuns, FailRuns
  <2>3. CASE Offer(t) \/ Look(t) \/ Looked(t) \/ WatchLooks(t) \/ WatchJudges(t) \/ WatchWakes(t)
    BY <1>1, <2>3, OfferRuns, LookRuns, LookedRuns, WatchLooksRuns, WatchJudgesRuns, WatchWakesRuns
  <2>4. QED
    BY <2>1, <2>2, <2>3 DEF Run, Watch
<1>4. Each'
  BY <1>1, <1>2, <1>3, EachStays DEF Runs
<1>5. Alone' /\ LastOne' /\ Settled' /\ Asked' /\ CutIsKilled' /\ ShutIsTrue'
  BY <1>2, <1>3, MortalKeeps, OpeningKeeps
<1>6. QED
  BY <1>3, <1>4, <1>5 DEF IInv, Runs

\* A step of a page, or of the user.
LEMMA PageKeeps ==
    ASSUME IInv, \/ \E p \in Page : Gone(p) \/ Expire(p) \/ CloseOnStop(p)
                 \/ User
    PROVE  IInv'
<1>1. Base
  BY DEF IInv, Base
<1>2. Base' /\ Mortal
  BY <1>1, GoneLeaves, ShutLeaves, UserStays DEF User
<1>3. UNCHANGED <<stage, window>>
  BY DEF Gone, Expire, CloseOnStop, User, Answer, Cancel, Lapse
<1>4. QED
  BY <1>2, <1>3, MortalKeeps DEF IInv, Base

\* The stop of ELA begins, forgets the pages, and ends.
LEMMA StopKeeps ==
    ASSUME IInv, Stop \/ Forget \/ Down
    PROVE  IInv'
<1>1. Base
  BY DEF IInv, Base
<1>2. Base' /\ Mortal
  BY <1>1, StopStays
<1>3. UNCHANGED <<win, group, watched, other, asker, settling, pages>>
  BY DEF Stop, Forget, Down, window, paging
<1>4. Alone' /\ LastOne' /\ Asked' /\ CutIsKilled' /\ ShutIsTrue'
  BY <1>3 DEF IInv, Alone, Mine, Holds, Alive, OnTheFolder, Launching, LastOne, IsOpen, Asked, Asking, AskerAt,
              CutIsKilled, ShutIsTrue, WinAt
<1>5. Settled'
  BY <1>3 DEF IInv, Settled, Stop, Forget, Down, WinAt, Alive
<1>6. QED
  BY <1>2, <1>4, <1>5 DEF IInv, Base

\* A close of the user, told the truth.
LEMMA ClosingTells ==
    ASSUME Known, NEW a \in Asker, Closing(a)
    PROVE  Asked' /\ ShutIsTrue'
<1>1. ASSUME NEW b \in Asker
      PROVE  Asking(b)' /\ Truth(b)'
  <2>1. CASE b = a
    BY <2>1 DEF Closing
  <2>2. CASE b # a
    BY <2>2, SeenStays DEF Closing
  <2>3. QED
    BY <2>1, <2>2
<1>2. other'.told <= 1 /\ \A g \in Window : win'[g].told <= 1
  BY DEF Closing, OtherGoes, Moved, Goes
<1>3. QED
  BY <1>1, <1>2 DEF Asked, ShutIsTrue, Truth

\* The step of a window, while nobody is told anything new.
LEMMA NobodyTold ==
    ASSUME Known, Moved, OtherGoes, UNCHANGED asker
    PROVE  Asked' /\ ShutIsTrue'
<1>1. \A b \in Asker : Asking(b)' /\ Truth(b)'
  BY SeenStays
<1>2. other'.told <= 1 /\ \A g \in Window : win'[g].told <= 1
  BY DEF OtherGoes, Moved, Goes
<1>3. QED
  BY <1>1, <1>2 DEF Asked, ShutIsTrue, Truth

\* A step of the windows, of those who close them, or of the stop.
LEMMA WindowKeeps ==
    ASSUME IInv, \/ \E g \in Window : Signing(g)
                 \/ \E a \in Asker : Shutting(a)
                 \/ ByThemselves \/ SettleTheWindow
    PROVE  IInv'
<1>1. Base /\ Known /\ Alone
  BY DEF IInv, Base, Known
<1>2. UNCHANGED <<paging, stage>> /\ UNCHANGED pages
  BY DEF Signing, Shutting, ByThemselves, SettleTheWindow, paging
<1>3. Moved /\ WindowTypes' /\ Asked' /\ ShutIsTrue'
  <2>1. ASSUME NEW g \in Window, Signing(g)
        PROVE  Moved /\ WindowTypes' /\ Asked' /\ ShutIsTrue'
    <3>1. Moved /\ WindowTypes'
      BY <1>1, <2>1, TakeFolderSteps, LaunchSteps, SpawnSteps, TellAtStopSteps, WaitedSteps, ToldEndSteps DEF
         Signing
    <3>2. OtherGoes /\ UNCHANGED asker
      BY <1>1, <2>1, SigningFields, OtherStays
    <3>3. QED
      BY <1>1, <3>1, <3>2, NobodyTold
  <2>2. ASSUME NEW a \in Asker, Shutting(a)
        PROVE  Moved /\ WindowTypes' /\ Asked' /\ ShutIsTrue'
    <3>1. Closing(a)
      BY <1>1, <2>2, AskShutCloses, LookShutCloses, EndShutCloses, DoubtShutCloses, KillShutCloses, NameShutCloses,
         SignalShutCloses, EndAnotherCloses, KillAnotherCloses, LeaveAnotherCloses, DropCloses DEF Shutting
    <3>2. QED
      BY <1>1, <3>1, ClosingTells DEF Closing
  <2>3. CASE ByThemselves
    <3>1. Moved /\ WindowTypes' /\ UNCHANGED asker
      BY <1>1, <2>3, AskWindowSteps, ExitSteps, KinEndsSteps, OtherSteps
         DEF ByThemselves, AskWindow, Exit, KinEnds, OtherStarts, OtherEnds
    <3>2. OtherGoes
      <4>1. other.told <= 1 /\ WindowTypes
        BY <1>1 DEF Known, ShutIsTrue, TypeOK
      <4>2. UNCHANGED other \/ OtherStarts(Locked) \/ OtherEnds
        BY <2>3 DEF ByThemselves, AskWindow, Exit, KinEnds
      <4>3. QED
        BY <4>1, <4>2 DEF OtherGoes, OtherStarts, OtherEnds, WindowTypes
    <3>3. QED
      BY <1>1, <3>1, <3>2, NobodyTold
  <2>4. CASE SettleTheWindow
    <3>1. Moved /\ WindowTypes' /\ UNCHANGED <<asker, other>>
      BY <1>1, <2>4, SettleSteps DEF SettleTheWindow
    <3>2. OtherGoes
      BY <1>1, <3>1, OtherStays
    <3>3. QED
      BY <1>1, <3>1, <3>2, NobodyTold
  <2>5. QED
    BY <2>1, <2>2, <2>3, <2>4
<1>4. LastOne' /\ Settled'
  <2>1. CASE SettleTheWindow
    BY <1>1, <2>1, SettleGoes
  <2>2. CASE ~SettleTheWindow
    <3>1. FieldsGo /\ UNCHANGED settling
      BY <1>1, <2>2, SigningFields, ShuttingFields
         DEF ByThemselves, AskWindow, Exit, KinEnds, OtherStarts, OtherEnds, FieldsGo
    <3>2. QED
      BY <1>1, <1>2, <1>3, <3>1, LastOneStays, SettledStays
  <2>3. QED
    BY <2>1, <2>2
<1>5. Alone'
  BY <1>1, <1>2, <1>3, FolderStays
<1>6. Base'
  BY <1>1, <1>2, <1>3, WindowsOnly
<1>7. CutIsKilled'
  BY <1>3 DEF CutIsKilled, Moved, Goes
<1>8. QED
  BY <1>3, <1>4, <1>5, <1>6, <1>7 DEF IInv, Base

-------------------------------------------------------------------------------
(* The invariant holds *)

\* At the beginning no page is open and no window runs.
LEMMA InitHolds ==
    ASSUME Init
    PROVE  IInv
<1>1. /\ walk = [t \in Task |-> [pc |-> "idle", page |-> None]] /\ kept = [t \in Task |-> NoPage]
      /\ watch = [t \in Task |-> "off"] /\ pages = [p \in Page |-> Unopened] /\ stage = "up"
      /\ NoPage.page = None /\ NoPage.step = 0 /\ None \notin Page /\ None \notin Task
  BY NoneIsNothing DEF Init, NoPage
<1>2. \A t \in Task : Len(plan[t].order) \in Nat /\ Len(plan[t].order) # 0
  <2>1. TAKE t \in Task
  <2>2. PICK f \in Plans : plan = f
    BY DEF Init
  <2>3. /\ f[t].steps \in Seq([on : Browsers, continues : BOOLEAN, asks : BOOLEAN])
        /\ f[t].order \in Seq(DOMAIN f[t].steps) /\ Len(f[t].order) = Len(f[t].steps) /\ f[t].steps # <<>>
    BY PlansAssumption
  <2>4. Len(f[t].steps) \in Nat /\ Len(f[t].steps) # 0
    BY <2>3
  <2>5. QED
    BY <2>2, <2>3, <2>4
<1>3. WindowTypes
  <2> DEFINE refused == [NoWindow EXCEPT !.pc = "refused"]
             ended == [NoBrowser EXCEPT !.pc = "gone"]
  <2>z. 0 \in 0 .. 2
    OBVIOUS
  <2>1. NoWindow \in AWindow /\ refused \in AWindow
    <3>1. NoWindow \in AWindow
      BY <2>z DEF NoWindow, AWindow, WindowPlaces
    <3> HIDE DEF NoWindow
    <3>2. refused \in AWindow
      BY <3>1 DEF AWindow, WindowPlaces
    <3>3. QED
      BY <3>1, <3>2
  <2>2. NoShut \in AnAsker /\ [NoShut EXCEPT !.pc = "done"] \in AnAsker
    BY DEF NoShut, AnAsker, AskerPlaces, Said
  <2>3. /\ NoBrowser \in ABrowser
        /\ ended \in ABrowser
    <3>1. NoBrowser \in ABrowser
      BY <2>z DEF NoBrowser, ABrowser
    <3> HIDE DEF NoBrowser
    <3>2. ended \in ABrowser
      BY <3>1 DEF ABrowser
    <3>3. QED
      BY <3>1, <3>2
  <2>4. /\ win \in [Window -> {NoWindow, [NoWindow EXCEPT !.pc = "refused"]}]
        /\ asker \in [Asker -> {NoShut, [NoShut EXCEPT !.pc = "done"]}]
        /\ other \in {NoBrowser, [NoBrowser EXCEPT !.pc = "gone"]}
        /\ group = None /\ watched = None
        /\ settling = [pc |-> "pages", of |-> None, group |-> None]
    BY DEF Init, InitWindows
  <2>5. win \in [Window -> AWindow]
    BY <2>1, <2>4
  <2>6. asker \in [Asker -> AnAsker]
    BY <2>2, <2>4
  <2>7. other \in ABrowser
    BY <2>3, <2>4
  <2>8. settling \in [pc : {"pages", "launching", "window", "doubting", "killing", "settled"},
                      of : Window \cup {None}, group : Window \cup {None}]
    BY <2>4
  <2>9. QED
    BY <2>4, <2>5, <2>6, <2>7, <2>8 DEF WindowTypes, AWindow, ABrowser, AnAsker, WindowPlaces, AskerPlaces, Said
<1>4. /\ \A t \in Task : /\ done[t] = 0 /\ kept[t] = NoPage /\ watch[t] = "off"
                         /\ walk[t].pc = "idle" /\ walk[t].page = None
      /\ \A p \in Page : pages[p] = Unopened
  BY <1>1 DEF Init
<1>5. TypeOK
  <2>1. Unopened \in APage /\ [pc |-> "idle", page |-> None] \in AWalk
    BY DEF Unopened, APage, PageStates, Browsers, AWalk, WalkPlaces
  <2>2. pages \in [Page -> APage] /\ walk \in [Task -> AWalk]
    BY <1>1, <2>1
  <2>3. \A t \in Task : /\ question[t] \in [Steps(t) -> {"none", "pending", "expired", "no", "yes", "granted"}]
                        /\ grant[t] \in [Steps(t) -> {"none", "fresh", "late"}]
    BY DEF Init
  <2>4. \A t \in Task : done[t] \in 0 .. Len(plan[t].order)
    BY <1>2, <1>4
  <2>5. plan \in Plans /\ task \in [Task -> {"live", "waiting", "ended"}]
        /\ watch \in [Task -> {"off", "looks", "judges", "sleeps"}]
    BY <1>1 DEF Init
  <2>6. QED
    BY <1>1, <1>3, <1>4, <2>2, <2>3, <2>4, <2>5 DEF TypeOK, APage, PageStates, AWalk, WalkPlaces
<1>6. Shaped
  <2>1. NoPage \in [page : Page \cup {None}, step : Nat]
    BY DEF NoPage
  <2>2. kept \in [Task -> [page : Page \cup {None}, step : Nat]] /\ done \in [Task -> Nat]
    BY <1>1, <2>1 DEF Init
  <2>3. question = [t \in Task |-> question[t]] /\ grant = [t \in Task |-> grant[t]]
    BY DEF Init
  <2>4. QED
    BY <2>2, <2>3 DEF Shaped
<1>7. Finished
  BY <1>2, <1>4 DEF Finished
<1>8. \A p \in Page : pages[p].state = "new"
  BY <1>4 DEF Unopened
<1>9. Owners
  BY <1>4, <1>8 DEF Owners
<1>10. Each
  BY <1>1, <1>4, <1>8 DEF Each, Local, Holding, Handing, Hand
<1>11. \A g \in Window : win[g].pc \in {"new", "refused"} /\ win[g].told = 0 /\ win[g].cut = FALSE
  BY DEF Init, InitWindows, NoWindow
<1>12. Alone
  <2>1. \A p \in Page : p \notin Mine
    BY <1>8 DEF Mine, Holds, Alive
  <2>2. \A g \in Window : g \notin OnTheFolder
    BY <1>11 DEF OnTheFolder, Launching, IsOpen
  <2>3. QED
    BY <2>1, <2>2 DEF Alone, Mine, OnTheFolder
<1>13. LastOne
  BY <1>11 DEF Init, InitWindows, LastOne, IsOpen
<1>14. Settled
  BY <1>1 DEF Init, InitWindows, Settled
<1>15. \A a \in Asker : asker[a].pc \in {"idle", "done"} /\ asker[a].answer = None
  BY DEF Init, InitWindows, NoShut
<1>16. Asked
  BY <1>15 DEF Asked, Asking, AskerAt
<1>17. ShutIsTrue
  BY <1>11, <1>15, NoneIsNoWindow DEF ShutIsTrue, Init, InitWindows, NoBrowser
<1>18. CutIsKilled
  BY <1>11 DEF CutIsKilled
<1>19. QED
  BY <1>18, <1>5, <1>6, <1>7, <1>9, <1>10, <1>12, <1>13, <1>14, <1>16, <1>17 DEF IInv

\* Every step keeps it.
LEMMA NextKeeps ==
    ASSUME IInv, [Next]_vars
    PROVE  IInv'
<1>1. CASE UNCHANGED vars
  <2>1. Base /\ UNCHANGED <<paging, stage, window>>
    BY <1>1 DEF IInv, Base, vars
  <2>2. WindowTypes'
    BY <2>1 DEF Base, TypeOK, WindowTypes, window
  <2>3. Base' /\ Mortal
    BY <2>1, <2>2, WindowsOnly
  <2>4. QED
    BY <2>1, <2>3, MortalKeeps DEF IInv, Base
<1>2. CASE Next
  BY <1>2, RunKeeps, PageKeeps, WindowKeeps, StopKeeps DEF Next
<1>3. QED
  BY <1>1, <1>2

\* The invariant, in every state that can be reached: executive/pages.py, infrastructure/machine/browser.py,
\* infrastructure/machine/account.py.
THEOREM InvariantHolds == Spec => []IInv
<1>1. Init => IInv
  BY InitHolds
<1>2. IInv /\ [Next]_vars => IInv'
  BY NextKeeps
<1>3. QED
  BY <1>1, <1>2, PTL DEF Spec

\* Every variable keeps its type.
THEOREM TypesHold == Spec => []TypeOK
<1>1. IInv => TypeOK
  BY DEF IInv
<1>2. QED
  BY <1>1, InvariantHolds, PTL

\* A page that can be used has one who closes it and no second one, over every hand-over between its step, the room
\* and the verifier, and every page the room keeps is watched: ports.py:3448, "whoever holds a page closes it".
THEOREM OneCloserHolds == Spec => []OneCloser
<1>1. ASSUME IInv, stage = "up", NEW p \in Page, InTable(p)
      PROVE  \E t \in Task, by \in {"step", "room", "deadline"} : Closers(p) = {<<by, t>>} /\ pages[p].by = t
  <2> DEFINE t == pages[p].by
             inHands == {s \in Task : InHand(s, p)}
             inRoom == {s \in Task : kept[s].page = p}
  <2>1. t \in Task /\ pages[p].state \in {"loading", "open"} /\ None \notin Page
    BY <1>1, NoneIsNothing DEF IInv, Owners, InTable
  <2>2. Hands(t, p)
    BY <1>1, <2>1 DEF IInv, Each, Local, Handing
  <2>3. \A s \in Task : InHand(s, p) \/ kept[s].page = p => s = t
    BY <1>1, <2>1 DEF IInv, Each, Local, Holding, InHand
  <2>4. CASE InHand(t, p)
    <3>1. kept[t].page # p /\ ~pages[p].timed
      BY <2>2, <2>4 DEF Hands, InHand, At
    <3>2. inHands = {t} /\ inRoom = {}
      BY <2>1, <2>3, <2>4, <3>1
    <3>3. Closers(p) = {<<"step", s>> : s \in inHands} \cup {<<"room", s>> : s \in inRoom}
      BY <3>1 DEF Closers
    <3>4. Closers(p) = {<<"step", t>>}
      BY <3>2, <3>3
    <3>5. QED
      BY <2>1, <3>4
  <2>5. CASE kept[t].page = p
    <3>1. ~InHand(t, p) /\ ~pages[p].timed
      BY <2>2, <2>5 DEF Hands, InHand, At
    <3>2. inHands = {} /\ inRoom = {t}
      BY <2>1, <2>3, <2>5, <3>1
    <3>3. Closers(p) = {<<"step", s>> : s \in inHands} \cup {<<"room", s>> : s \in inRoom}
      BY <3>1 DEF Closers
    <3>4. Closers(p) = {<<"room", t>>}
      BY <3>2, <3>3
    <3>5. QED
      BY <2>1, <3>4
  <2>6. CASE ~InHand(t, p) /\ kept[t].page # p
    <3>1. pages[p].timed
      BY <2>2, <2>6 DEF Hands
    <3>2. inHands = {} /\ inRoom = {}
      BY <2>3, <2>6
    <3>3. Closers(p) = {<<"step", s>> : s \in inHands} \cup {<<"room", s>> : s \in inRoom} \cup {<<"deadline", t>>}
      BY <3>1 DEF Closers
    <3>4. Closers(p) = {<<"deadline", t>>}
      BY <3>2, <3>3
    <3>5. QED
      BY <2>1, <3>4
  <2>7. QED
    BY <2>4, <2>5, <2>6
<1>2. ASSUME IInv, stage = "up", NEW t \in Task
      PROVE  kept[t] # NoPage <=> watch[t] # "off"
  <2>1. kept[t].page # None <=> watch[t] # "off"
    BY <1>2 DEF IInv, Each, Local, Handing
  <2>2. kept[t] = NoPage \/ kept[t].page \in Page
    BY <1>2 DEF IInv, TypeOK
  <2>3. NoPage.page = None /\ None \notin Page
    BY NoneIsNothing DEF NoPage
  <2>4. QED
    BY <2>1, <2>2, <2>3
<1>3. IInv => OneCloser
  BY <1>1, <1>2 DEF OneCloser
<1>4. QED
  BY <1>3, InvariantHolds, PTL

\* One browser of ELA's at a time on the folder of the profile, and nothing of the two browsers, nor a window ELA
\* waits for, runs once its stop is over: infrastructure/machine/account.py:31, :869, :1399.
THEOREM BrowsersAreCountedHolds == Spec => []BrowsersAreCounted
<1>1. ASSUME IInv
      PROVE  OneOnTheProfile
  <2> DEFINE held == {p \in Page : pages[p].on = "profile" /\ Alive(p)} \cup OnTheFolder
  <2>1. held = Mine \cup OnTheFolder
    BY DEF Mine, Holds
  <2>2. \A x, y \in held : x = y
    BY <1>1, <2>1 DEF IInv, Alone
  <2>3. Cardinality(held) <= 1
    <3> HIDE DEF held
    <3>1. CASE held = {}
      BY <3>1, FS_EmptySet
    <3>2. CASE held # {}
      <4>1. PICK x : x \in held
        BY <3>2
      <4>2. held = {x}
        BY <2>2, <4>1
      <4>3. QED
        BY <4>2, FS_Singleton
    <3>3. QED
      BY <3>1, <3>2
  <2>4. QED
    BY <2>3 DEF OneOnTheProfile
<1>2. ASSUME IInv, stage = "down"
      PROVE  NothingAfterTheStop
  <2>1. settling.pc = "settled" /\ Settled /\ None \notin Window
    BY <1>2, NoneIsNoWindow DEF IInv, Settled
  <2>2. \A p \in Page : ~Alive(p)
    BY <2>1 DEF Settled
  <2>3. ASSUME NEW g \in Window
        PROVE  /\ win[g].pc \notin {"starting", "running"}
               /\ win[g].kin => win[g].told = 0 \/ g # settling.of
    BY <2>1 DEF Settled, WinAt
  <2>4. QED
    BY <2>2, <2>3 DEF NothingAfterTheStop
<1>3. IInv => BrowsersAreCounted
  BY <1>1, <1>2 DEF BrowsersAreCounted, NothingAfterTheStop
<1>4. QED
  BY <1>3, InvariantHolds, PTL

\* "quit" or "killed" is answered only of a browser of which nothing is left, "killed" only if ELA sent its kill, and
\* "quit" of a window only if no kill cut it short, over looks that are stale when they are acted on; it is told once.
\* ports.py:3250, infrastructure/machine/account.py:972, :1296.
THEOREM ShutIsTrueHolds == Spec => []ShutIsTrue
<1>1. IInv => ShutIsTrue
  BY DEF IInv
<1>2. QED
  BY <1>1, InvariantHolds, PTL
================================================================================
