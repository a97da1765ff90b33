---------------------------- MODULE SessionsProofs ----------------------------
(***************************************************************************)
(* What holds of a guided session for every budget, number of looks, of    *)
(* calls and of crashes: what it may cost is counted and within the yes,   *)
(* its gestures are within the yes too, its close leaves nobody at work on *)
(* its word, and a start-up leaves nothing of a session that has ended.    *)
(***************************************************************************)
EXTENDS Sessions, SetLemmas

-------------------------------------------------------------------------------
(* The inductive invariant *)

\* The steps of the tool before its launch.
Before == {"called", "opened", "launching"}

\* Those in which the room is open.
Held == {"opened", "launching", "watching", "interrupting", "ended"}

\* Before the launch nothing was asked, called or made.
Unborn ==
    tool \in Before =>
        /\ asked = 0 /\ room.looks = 0 /\ following = {}
        /\ process # "written"
        /\ \A c \in Call : calls[c].pc = "unused"
        /\ \A n \in Gesture : gestures[n].state = "none"

\* The room is open while its tool holds it, hears nobody before its check, and is swept by its close alone.
RoomOfTheTool ==
    /\ room.live => tool \in Held
    /\ room.passed => room.live
    /\ sweeper["close"] # Resting => tool = "closing"

\* What the calls cost is within the yes, within what the tool says once it says it, and that is what is stored.
Money ==
    /\ Tally <= Amount
    /\ usage # None => tool \in {"returned", "stored"}
    /\ usage \in Nat => Tally <= usage /\ usage <= Amount
    /\ outcome # None => tool = "stored" /\ outcome = usage

\* A number the room gave, or still owes to the second half of a login, is one of those the model asked for.
Numbers ==
    /\ room.looks + Cardinality(following) <= Looks
    /\ tool \in {"watching", "interrupting"} => room.looks + Cardinality(following) <= asked
    /\ \A n \in Gesture : gestures[n].state # "none" => n <= Looks
    /\ tool \in Held => \A n \in Gesture : (gestures[n].state # "none" => n <= room.looks)
    /\ \A n \in Gesture : gestures[n].state = "found" => n \in following

\* Whoever works on the word of the session is among those its close has still to look at.
Looking ==
    tool = "closing" =>
        \A n \in Gesture : gestures[n].state = "covered" => n \in sweeper["close"].todo \/ n = sweeper["close"].at

\* After a close that was not refused nobody works on the word of the session.
Closed ==
    tool \in {"returned", "stored"} /\ usage # Unknown => \A n \in Gesture : gestures[n].state # "covered"

\* Of a task that has ended, the first step of the start-up has ended every child.
Swept == up = "sweeping" /\ parent = "ended" => \A n \in Gesture : ~Alive(n)

\* The invariant: every step keeps it.
IInv == TypeOK /\ Unborn /\ RoomOfTheTool /\ Money /\ Numbers /\ Looking /\ Closed /\ Swept

-------------------------------------------------------------------------------
(* What the operations do to the gestures, the stops, the room and the calls *)

\* What a sweeper holds.
LEMMA SweeperIs ==
    ASSUME TypeOK, NEW w \in Sweepers
    PROVE  /\ sweeper[w] = [due |-> sweeper[w].due, todo |-> sweeper[w].todo, at |-> sweeper[w].at]
           /\ sweeper[w].due \in BOOLEAN /\ sweeper[w].todo \in SUBSET Gesture
           /\ sweeper[w].at \in Gesture \cup {None} /\ None \notin Gesture
<1>1. sweeper[w] \in [due : BOOLEAN, todo : SUBSET Gesture, at : Gesture \cup {None}]
  BY DEF TypeOK
<1>2. None \notin Gesture
  BY SessionsAssumption DEF Gesture
<1>3. QED
  BY <1>1, <1>2

\* A sweeper that is changed in any of the ways the stops change it is still one.
LEMMA SweeperStays ==
    ASSUME TypeOK, NEW w \in Sweepers, NEW s \in [due : BOOLEAN, todo : SUBSET Gesture, at : Gesture \cup {None}],
           sweeper' = [sweeper EXCEPT ![w] = s]
    PROVE  /\ sweeper' \in [Sweepers -> [due : BOOLEAN, todo : SUBSET Gesture, at : Gesture \cup {None}]]
           /\ sweeper'[w] = s /\ \A v \in Sweepers \ {w} : sweeper'[v] = sweeper[v]
BY DEF TypeOK

\* A gesture that moves keeps its kind, and the others do not move.
LEMMA MovesOne ==
    ASSUME TypeOK, NEW n \in Gesture, NEW s \in Living \cup {"making", "found"}, Moves(n, s)
    PROVE  /\ gestures' \in [Gesture -> GestureStates]
           /\ gestures'[n].state = s /\ \A m \in Gesture \ {n} : gestures'[m] = gestures[m]
<1>1. gestures[n] \in GestureStates
  BY DEF TypeOK
<1>2. PICK k \in {"read", "act"}, old \in {"none", "making", "found", "over"} \cup Living :
          gestures[n] = [kind |-> k, state |-> old]
  BY <1>1 DEF GestureStates
<1>3. gestures' = [gestures EXCEPT ![n] = [kind |-> k, state |-> s]]
  <2>1. [gestures[n] EXCEPT !.state = s] = [kind |-> k, state |-> s]
    BY <1>2
  <2>2. gestures' = [gestures EXCEPT ![n] = [gestures[n] EXCEPT !.state = s]]
    BY DEF Moves
  <2>3. QED
    BY <2>1, <2>2
<1>4. [kind |-> k, state |-> s] \in GestureStates
  BY DEF GestureStates
<1>5. QED
  BY <1>3, <1>4 DEF TypeOK

\* The same of a gesture that ends.
LEMMA EndsOne ==
    ASSUME TypeOK, NEW n \in Gesture, Ends(n)
    PROVE  /\ gestures' \in [Gesture -> GestureStates]
           /\ gestures'[n].state = "over" /\ \A m \in Gesture \ {n} : gestures'[m] = gestures[m]
BY DEF Ends, Over, TypeOK, GestureStates

\* A number that is taken.
LEMMA TakenOne ==
    ASSUME TypeOK, NEW n \in Gesture, NEW k \in {"read", "act"}, Taken(n, k)
    PROVE  /\ gestures' \in [Gesture -> GestureStates]
           /\ gestures'[n].state = "making" /\ \A m \in Gesture \ {n} : gestures'[m] = gestures[m]
BY DEF Taken, TypeOK, GestureStates

\* A child on its way.
Goes(n) == Create(n) \/ Unplannable(n) \/ Walk(n) \/ Answer(n) \/ Work(n)

\* It was something already; it is covered at its decision only, in a session that is live; and the
\* form of a page is found for a login that goes on.
LEMMA GoesIs ==
    ASSUME TypeOK, NEW n \in Gesture, Goes(n)
    PROVE  /\ Serving /\ UNCHANGED <<core, step, host, room, sweeper, calls, following, process>>
           /\ gestures' \in [Gesture -> GestureStates] /\ \A m \in Gesture \ {n} : gestures'[m] = gestures[m]
           /\ gestures[n].state # "none" /\ gestures'[n].state # "none"
           /\ gestures'[n].state = "found" => n \in following
           /\ gestures'[n].state = "covered" => room.live
<1>1. /\ Serving /\ UNCHANGED <<core, step, host, room, sweeper, calls, following, process>>
      /\ gestures[n].state # "none"
  BY DEF Goes, Create, Unplannable, Walk, Answer, Work, Running
<1>2. CASE Create(n)
  <2>1. Moves(n, "born") /\ "born" \in Living
    BY <1>2 DEF Create, Living
  <2>2. QED
    BY <1>1, <2>1, MovesOne
<1>3. CASE Unplannable(n)
  BY <1>1, <1>3, EndsOne DEF Unplannable
<1>4. CASE Walk(n)
  <2>1. CASE Covered(n)
    <3>1. Moves(n, "covered") /\ "covered" \in Living /\ room.live
      BY <1>4, <2>1 DEF Walk, Living, Running, Covered
    <3>2. QED
      BY <1>1, <3>1, MovesOne
  <2>2. CASE ~Covered(n)
    <3>1. Moves(n, "waiting") /\ "waiting" \in Living
      BY <1>4, <2>2 DEF Walk, Living
    <3>2. QED
      BY <1>1, <3>1, MovesOne
  <2>3. QED
    BY <2>1, <2>2
<1>5. CASE Answer(n)
  <2>1. Moves(n, "approved") \/ Ends(n)
    BY <1>5 DEF Answer
  <2>2. "approved" \in Living
    BY DEF Living, Running
  <2>3. QED
    BY <1>1, <2>1, <2>2, MovesOne, EndsOne
<1>6. CASE Work(n)
  <2>1. Ends(n) \/ (n \in following /\ Moves(n, "found"))
    BY <1>6 DEF Work
  <2>2. QED
    BY <1>1, <2>1, MovesOne, EndsOne
<1>7. QED
  BY <1>2, <1>3, <1>4, <1>5, <1>6 DEF Goes

\* A login that goes on ends its read and takes the next number.
LEMMA LoginGoesOnIs ==
    ASSUME TypeOK, NEW n \in Gesture, LoginGoesOn(n)
    PROVE  LET number == room.looks + 1
           IN  /\ number \in Gesture /\ gestures[n].state = "found" /\ following' = following \ {n}
               /\ room' \in Rooms /\ room'.looks = number
               /\ room'.live = room.live /\ room'.passed = room.passed
               /\ room'.halted = room.halted /\ room'.checked = room.checked
               /\ gestures' \in [Gesture -> GestureStates]
               /\ gestures'[number].state = "making"
               /\ n # number => gestures'[n].state = "over"
               /\ \A m \in Gesture \ {n, number} : gestures'[m] = gestures[m]
<1> DEFINE number == room.looks + 1
           making == [kind |-> "act", state |-> "making"]
<1>1. number \in Gesture /\ gestures[n].state = "found" /\ following' = following \ {n}
  BY DEF LoginGoesOn
<1>2. gestures' = [gestures EXCEPT ![n] = Over, ![number] = making]
  BY DEF LoginGoesOn
<1>3. room' = [room EXCEPT !.looks = number]
  BY DEF LoginGoesOn
<1>4. Over \in GestureStates /\ making \in GestureStates /\ Over.state = "over" /\ making.state = "making"
  BY DEF Over, GestureStates
<1>5. /\ gestures' \in [Gesture -> GestureStates] /\ gestures'[number] = making
      /\ n # number => gestures'[n] = Over
      /\ \A m \in Gesture \ {n, number} : gestures'[m] = gestures[m]
  <2> HIDE DEF making, number
  <2>1. QED
    BY <1>1, <1>2, <1>4 DEF TypeOK
<1>6. /\ room' \in Rooms /\ room'.looks = number
      /\ room'.live = room.live /\ room'.passed = room.passed
      /\ room'.halted = room.halted /\ room'.checked = room.checked
  <2>1. number \in 0 .. Looks + 1
    BY <1>1, SessionsAssumption DEF Gesture
  <2> HIDE DEF number
  <2>2. QED
    BY <1>3, <2>1 DEF Rooms, TypeOK
<1>7. QED
  BY <1>1, <1>4, <1>5, <1>6

\* The child is alive, and the stop ends it.
Stopped(w) ==
    /\ \E n \in Gesture : n = sweeper[w].at /\ Alive(n) /\ Ends(n)
    /\ sweeper' = [sweeper EXCEPT ![w] = [sweeper[w] EXCEPT !.at = None]] /\ UNCHANGED <<tool, usage>>
\* The stop is refused because the child has ended meanwhile.
Refusal(w) ==
    /\ sweeper' = [sweeper EXCEPT ![w] = Resting] /\ UNCHANGED gestures
    /\ w = "close" => tool' = "returned" /\ usage' = Unknown
    /\ w # "close" => UNCHANGED <<tool, usage>>

\* A stop cancels the child it stands at, or is refused and rests.
LEMMA CancelIs ==
    ASSUME TypeOK, NEW w \in Sweepers, Cancel(w)
    PROVE  /\ Serving /\ sweeper[w].at # None /\ UNCHANGED <<core, step, asked, room, calls, following, process>>
           /\ Stopped(w) \/ Refusal(w)
<1>1. sweeper[w].at \in Gesture
  BY SweeperIs DEF Cancel
<1>2. CASE Alive(sweeper[w].at)
  BY <1>1, <1>2 DEF Cancel, Stopped, TypeOK
<1>3. CASE ~Alive(sweeper[w].at)
  BY <1>3 DEF Cancel, Refusal, Return
<1>4. Serving /\ sweeper[w].at # None /\ UNCHANGED <<core, step, asked, room, calls, following, process>>
  BY DEF Cancel
<1>5. QED
  BY <1>2, <1>3, <1>4

\* A stop that looks at its next child keeps the rest to be looked at, and stays on one that is alive.
LEMMA LookIs ==
    ASSUME TypeOK, NEW w \in Sweepers, Look(w)
    PROVE  \E n \in sweeper[w].todo, at \in Gesture \cup {None} :
              /\ at = IF Alive(n) THEN n ELSE None
              /\ sweeper' = [sweeper EXCEPT ![w] = [sweeper[w] EXCEPT !.todo = sweeper[w].todo \ {n}, !.at = at]]
              /\ Serving /\ sweeper[w].todo # {} /\ UNCHANGED <<core, step, host, room, calls, children, process>>
<1> DEFINE n == Min(sweeper[w].todo)
<1>1. sweeper[w].todo \in SUBSET Nat /\ sweeper[w].todo # {} /\ sweeper[w].todo \in SUBSET Gesture
  <2>1. sweeper[w].todo \in SUBSET Gesture /\ sweeper[w].todo # {}
    BY SweeperIs DEF Look
  <2>2. Gesture \in SUBSET Nat
    BY DEF Gesture
  <2>3. QED
    BY <2>1, <2>2
<1>2. n \in sweeper[w].todo
  <2>1. \E x \in sweeper[w].todo : \A y \in sweeper[w].todo : x <= y
    BY <1>1, LeastOfNaturals
  <2>2. QED
    BY <2>1 DEF Min
<1>3. /\ sweeper' = [sweeper EXCEPT ![w].todo = @ \ {n}, ![w].at = IF Alive(n) THEN n ELSE None]
      /\ Serving /\ UNCHANGED <<core, step, host, room, calls, children, process>>
  BY DEF Look
<1> HIDE DEF n
<1> DEFINE at == IF Alive(n) THEN n ELSE None
<1>4. sweeper' = [sweeper EXCEPT ![w] = [sweeper[w] EXCEPT !.todo = sweeper[w].todo \ {n}, !.at = at]]
  BY <1>3 DEF TypeOK
<1>5. at \in Gesture \cup {None}
  BY <1>1, <1>2
<1>6. QED
  BY <1>1, <1>2, <1>3, <1>4, <1>5

\* The start-up ends children and processes, and the task of the session with them.
LEMMA StartUpIs ==
    ASSUME TypeOK, StartUp
    PROVE  /\ UNCHANGED <<crashes, outcome, host, room, sweeper, calls, following>>
           /\ gestures' \in [Gesture -> GestureStates]
           /\ \A n \in Gesture : gestures'[n] = gestures[n] \/ (Alive(n) /\ gestures'[n].state = "over")
           /\ process' = process \/ process' = "dead"
           /\ parent' \in {parent, "ended"}
           /\ up' \in {"serving"} \cup Booting
           /\ up' = "sweeping" => up = "orphans"
<1>1. UNCHANGED <<crashes, outcome, host, room, sweeper, calls, following>> /\ up' = After(up) /\ Does(up)
  BY DEF StartUp
<1>2. up \in {"down", "orphans", "sweeping"}
  BY DEF StartUp, TypeOK, Booting
<1>3. up' \in {"serving"} \cup Booting /\ (up' = "sweeping" => up = "orphans")
  BY <1>1, <1>2 DEF After, Booting
<1>4. Over \in GestureStates /\ Over.state = "over"
  BY DEF Over, GestureStates
<1>5. CASE up = "down"
  <2>1. Recover
    BY <1>1, <1>5 DEF Does
  <2>2. PICK lost \in SUBSET {n \in Gesture : gestures[n].state \in {"waiting"} \cup Running} :
            gestures' = [n \in Gesture |-> IF n \in lost THEN Over ELSE gestures[n]]
    BY <2>1 DEF Recover
  <2>3. \A n \in lost : Alive(n)
    BY DEF Alive, Living
  <2>4. QED
    BY <1>1, <1>3, <1>4, <2>1, <2>2, <2>3 DEF Recover, TypeOK
<1>6. CASE up = "orphans"
  <2>1. CloseOrphans
    BY <1>1, <1>6 DEF Does
  <2>2. QED
    BY <1>1, <1>3, <1>4, <2>1 DEF CloseOrphans, TypeOK
<1>7. CASE up = "sweeping"
  <2>1. Sweep
    BY <1>1, <1>7 DEF Does
  <2>2. QED
    BY <1>1, <1>3, <2>1 DEF Sweep, TypeOK
<1>8. QED
  BY <1>2, <1>5, <1>6, <1>7

\* A halt and an opening leave a record of the room.
LEMMA HaltedIs ==
    ASSUME TypeOK
    PROVE  /\ Halted \in Rooms /\ Halted.live = room.live /\ Halted.passed = room.passed
           /\ Halted.looks = room.looks /\ Halted.checked = room.checked
BY DEF Halted, Rooms, TypeOK

\* A room that is shut, one that opens, and one that is closed with the looks it had.
LEMMA ShutIs ==
    ASSUME NEW k \in 0 .. Looks + 1
    PROVE  LET opened == [Shut EXCEPT !.live = TRUE]
               closed == [Shut EXCEPT !.checked = TRUE, !.looks = k]
           IN  /\ Shut \in Rooms /\ ~Shut.live /\ ~Shut.passed /\ Shut.looks = 0
               /\ opened \in Rooms /\ opened.live /\ ~opened.passed /\ opened.looks = 0
               /\ closed \in Rooms /\ ~closed.live /\ ~closed.passed /\ closed.looks = k
<1>1. Shut \in Rooms
  <2>1. 0 \in 0 .. Looks + 1
    BY SessionsAssumption
  <2>2. QED
    BY <2>1 DEF Shut, Rooms
<1>2. ASSUME NEW s, s = [Shut EXCEPT !.live = TRUE]
      PROVE  s \in Rooms /\ s.live /\ ~s.passed /\ s.looks = 0
  BY <1>1, <1>2 DEF Shut, Rooms
<1>3. ASSUME NEW s, s = [Shut EXCEPT !.checked = TRUE, !.looks = k]
      PROVE  s \in Rooms /\ ~s.live /\ ~s.passed /\ s.looks = k
  BY <1>1, <1>3 DEF Shut, Rooms
<1>4. ~Shut.live /\ ~Shut.passed /\ Shut.looks = 0
  BY DEF Shut
<1>5. QED
  BY <1>1, <1>2, <1>3, <1>4

\* The states a call is left in.
LEMMA CallStatesAre ==
    /\ [pc |-> "waiting"] \in CallStates /\ Settled(0) \in CallStates
    /\ \A k \in 1 .. MaxWorst : [pc |-> "flying", worst |-> k] \in CallStates
    /\ \A k \in 0 .. MaxWorst : Settled(k) \in CallStates /\ Settled(k).pc = "over" /\ Settled(k).counted = k
BY SessionsAssumption DEF CallStates, Settled

\* A stop that rests has the shape of a stop.
LEMMA RestingIs == Resting \in [due : BOOLEAN, todo : SUBSET Gesture, at : Gesture \cup {None}]
BY DEF Resting

\* A call that is weighed is in flight or over, and whoever is refused halts the room.
LEMMA WeighIs ==
    ASSUME TypeOK, NEW c \in Call, Weigh(c)
    PROVE  /\ room' \in Rooms /\ room'.live = room.live /\ room'.passed = room.passed /\ room'.looks = room.looks
           /\ calls' \in [Call -> CallStates] /\ \A d \in Call \ {c} : calls'[d] = calls[d]
           /\ \/ \E worst \in 1 .. MaxWorst : /\ room.passed /\ Fits(worst)
                                              /\ calls'[c].pc = "flying" /\ calls'[c].worst = worst
              \/ calls'[c].pc = "over" /\ calls'[c].counted = 0
<1>1. CASE \E worst \in 1 .. MaxWorst : /\ room.passed /\ Fits(worst)
                                        /\ calls' = [calls EXCEPT ![c] = [pc |-> "flying", worst |-> worst]]
                                        /\ UNCHANGED room
  <2>1. PICK worst \in 1 .. MaxWorst : /\ room.passed /\ Fits(worst)
                                       /\ calls' = [calls EXCEPT ![c] = [pc |-> "flying", worst |-> worst]]
                                       /\ UNCHANGED room
    BY <1>1
  <2>2. [pc |-> "flying", worst |-> worst] \in CallStates
    BY CallStatesAre
  <2>3. QED
    BY <2>1, <2>2 DEF TypeOK
<1>2. CASE calls' = [calls EXCEPT ![c] = Settled(0)] /\ room' = Halted
  <2>1. Settled(0) \in CallStates /\ Settled(0).pc = "over" /\ Settled(0).counted = 0
    BY CallStatesAre, SessionsAssumption
  <2>2. QED
    BY <1>2, <2>1, HaltedIs DEF TypeOK
<1>3. QED
  BY <1>1, <1>2 DEF Weigh

\* A call that is settled counts what it was weighed at, or less.
LEMMA SettleIs ==
    ASSUME TypeOK, NEW c \in Call, Settle(c)
    PROVE  /\ calls' \in [Call -> CallStates] /\ \A d \in Call \ {c} : calls'[d] = calls[d]
           /\ calls[c].pc = "flying" /\ calls'[c].pc = "over" /\ calls'[c].counted <= calls[c].worst
<1>1. calls[c].pc = "flying" /\ calls[c].worst \in 1 .. MaxWorst
  BY DEF Settle, TypeOK, CallStates
<1>2. PICK cost \in 0 .. calls[c].worst : calls' = [calls EXCEPT ![c] = Settled(cost)]
  BY DEF Settle
<1>3. /\ Settled(cost) \in CallStates /\ Settled(cost).pc = "over" /\ Settled(cost).counted = cost
      /\ cost <= calls[c].worst
  BY <1>1, <1>2, CallStatesAre, SessionsAssumption
<1>4. QED
  BY <1>1, <1>2, <1>3 DEF TypeOK

\* The room gives a number to what the model asks for.
Numbered(kind) ==
    LET number == room.looks + 1
    IN  /\ asked' <= Looks /\ number \in Gesture /\ room' = [room EXCEPT !.looks = number]
        /\ \/ kind # "login" /\ Taken(number, kind) /\ UNCHANGED following
           \/ kind = "login" /\ Taken(number, "read") /\ following' = following \cup {number}
           \/ kind = "login" /\ Ends(number) /\ UNCHANGED following

\* The logins that go on can be counted.
LEMMA FollowingIsFinite ==
    ASSUME NEW S \in SUBSET Gesture
    PROVE  IsFiniteSet(S) /\ Cardinality(S) \in Nat
<1>1. IsFiniteSet(Gesture)
  BY SessionsAssumption, FS_Interval DEF Gesture
<1>2. QED
  BY <1>1, FS_Subset, FS_CardinalityType

\* The number is the next one, the child is being made, and the logins that go on cost one more at most.
LEMMA NumberedIs ==
    ASSUME TypeOK, NEW kind \in {"read", "act", "login"}, Numbered(kind)
    PROVE  /\ asked' <= Looks /\ room'.looks = room.looks + 1 /\ room' \in Rooms
           /\ room'.live = room.live /\ room'.passed = room.passed
           /\ gestures' \in [Gesture -> GestureStates]
           /\ following' \subseteq Gesture /\ following \subseteq following'
           /\ \A n \in Gesture : gestures'[n].state # "none" => gestures[n].state # "none" \/ n = room.looks + 1
           /\ \A n \in Gesture : gestures'[n].state = "found" => gestures[n].state = "found"
           /\ \A n \in Gesture : gestures'[n].state = "covered" => gestures[n].state = "covered"
           /\ Cardinality(following') + 1 <= Cardinality(following) + Cost(kind)
<1> DEFINE number == room.looks + 1
<1>1. /\ asked' <= Looks /\ number \in Gesture /\ room' = [room EXCEPT !.looks = number]
      /\ \/ kind # "login" /\ Taken(number, kind) /\ UNCHANGED following
         \/ kind = "login" /\ Taken(number, "read") /\ following' = following \cup {number}
         \/ kind = "login" /\ Ends(number) /\ UNCHANGED following
  BY DEF Numbered
<1>2. number \in 0 .. Looks + 1
  BY <1>1, SessionsAssumption DEF Gesture
<1> HIDE DEF number
<1>3. room'.looks = number /\ room' \in Rooms /\ room'.live = room.live /\ room'.passed = room.passed
  BY <1>1, <1>2 DEF TypeOK, Rooms
<1>4. /\ gestures' \in [Gesture -> GestureStates] /\ gestures'[number].state \in {"making", "over"}
      /\ \A m \in Gesture \ {number} : gestures'[m] = gestures[m]
  BY <1>1, TakenOne, EndsOne
<1>5. /\ \A n \in Gesture : gestures'[n].state # "none" => gestures[n].state # "none" \/ n = number
      /\ \A n \in Gesture : gestures'[n].state = "found" => gestures[n].state = "found"
      /\ \A n \in Gesture : gestures'[n].state = "covered" => gestures[n].state = "covered"
  BY <1>1, <1>4
<1>6. IsFiniteSet(following) /\ Cardinality(following) \in Nat /\ following \subseteq Gesture
  BY FollowingIsFinite DEF TypeOK
<1>7. following' \subseteq Gesture /\ following \subseteq following'
  BY <1>1, <1>6
<1>8. Cardinality(following') + 1 <= Cardinality(following) + Cost(kind)
  <2>1. CASE UNCHANGED following
    BY <1>6, <2>1 DEF Cost
  <2>2. CASE kind = "login" /\ following' = following \cup {number}
    <3>1. Cardinality(following \cup {number}) =
              IF number \in following THEN Cardinality(following) ELSE Cardinality(following) + 1
      BY <1>6, FS_AddElement
    <3>2. Cardinality(following') \in {Cardinality(following), Cardinality(following) + 1}
      BY <2>2, <3>1
    <3>3. Cost(kind) = 2
      BY <2>2 DEF Cost
    <3>4. QED
      BY <1>6, <3>1, <3>2, <3>3
  <2>3. QED
    BY <1>1, <2>1, <2>2
<1>9. QED
  BY <1>1, <1>3, <1>5, <1>4, <1>7, <1>8 DEF number

\* What the model asks for is past the looks, or heard by a room that is ending, or numbered.
LEMMA AskIs ==
    ASSUME TypeOK, NEW kind \in {"read", "act", "login"}, Ask(kind)
    PROVE  /\ asked' \in 0 .. Looks + 2 /\ room' \in Rooms
           /\ room'.live = room.live /\ room'.passed = room.passed
           /\ gestures' \in [Gesture -> GestureStates] /\ following' \subseteq Gesture
           /\ \A n \in Gesture : gestures'[n].state = "covered" => gestures[n].state = "covered"
           /\ (room'.looks = room.looks /\ UNCHANGED children) \/ Numbered(kind)
<1>1. asked' \in 0 .. Looks + 2
  <2>1. asked' = asked + Cost(kind) /\ asked <= Looks /\ asked \in Nat /\ Cost(kind) \in {1, 2}
    BY DEF Ask, Cost, TypeOK
  <2>2. QED
    BY <2>1, SessionsAssumption
<1>2. CASE asked' > Looks
  <2>1. room' = Halted /\ UNCHANGED children
    BY <1>1, <1>2, SessionsAssumption DEF Ask
  <2>2. QED
    BY <1>1, <2>1, HaltedIs DEF children, TypeOK
<1>3. CASE asked' <= Looks /\ room.halted
  <2>1. UNCHANGED <<room, children>>
    BY <1>1, <1>3, SessionsAssumption DEF Ask
  <2>2. QED
    BY <1>1, <2>1 DEF children, TypeOK
<1>4. CASE asked' <= Looks /\ ~room.halted
  <2>1. Numbered(kind)
    BY <1>1, <1>4, SessionsAssumption DEF Ask, Numbered
  <2>2. QED
    BY <1>1, <2>1, NumberedIs
<1>5. QED
  BY <1>1, <1>2, <1>3, <1>4, SessionsAssumption

-------------------------------------------------------------------------------
(* The budget *)

\* What each call counts, as a map.
Counts == [c \in Call |-> Counted(c)]
\* The function the fold builds.
CountedSum(iter) ==
    iter = [s \in SUBSET Call |-> IF s = {} THEN 0 ELSE Counted(Chosen(s)) + iter[s \ {Chosen(s)}]]

\* A call counts a natural number.
LEMMA CountedIs ==
    ASSUME TypeOK, NEW c \in Call
    PROVE  /\ Counted(c) \in Nat
           /\ calls[c].pc = "over" => Counted(c) = calls[c].counted
           /\ calls[c].pc = "flying" => Counted(c) = calls[c].worst
           /\ calls[c].pc \in {"unused", "waiting"} => Counted(c) = 0
<1>1. /\ calls[c].pc = "over" => Counted(c) = calls[c].counted
      /\ calls[c].pc = "flying" => Counted(c) = calls[c].worst
      /\ calls[c].pc \in {"unused", "waiting"} => Counted(c) = 0
  BY DEF Counted
<1>2. \/ calls[c].pc \in {"unused", "waiting"}
      \/ calls[c].pc = "flying" /\ calls[c].worst \in 1 .. MaxWorst
      \/ calls[c].pc = "over" /\ calls[c].counted \in 0 .. MaxWorst
  BY DEF TypeOK, CallStates
<1>3. QED
  BY <1>1, <1>2, SessionsAssumption

\* The tally is a sum over the calls.
LEMMA TallyIsSum ==
    ASSUME TypeOK
    PROVE  Tally = Sum(Counts, Call) /\ Counts \in [Call -> Nat] /\ Tally \in Nat
<1>1. IsFiniteSet(Call)
  BY SessionsAssumption, FS_Interval DEF Call
<1>2. Counts \in [Call -> Nat]
  BY CountedIs DEF Counts
<1>3. ASSUME NEW iter
      PROVE  CountedSum(iter) <=> IsSum(Counts, Call, iter)
  <2>1. ASSUME NEW s \in SUBSET Call
        PROVE  (IF s = {} THEN 0 ELSE Counted(Chosen(s)) + iter[s \ {Chosen(s)}]) = Adds(Counts, iter, s)
    <3>1. s # {} => Chosen(s) \in Call
      BY DEF Chosen
    <3>2. s # {} => Counts[Chosen(s)] = Counted(Chosen(s))
      BY <3>1 DEF Counts
    <3>3. QED
      BY <3>2 DEF Adds
  <2>2. [s \in SUBSET Call |-> IF s = {} THEN 0 ELSE Counted(Chosen(s)) + iter[s \ {Chosen(s)}]]
          = [s \in SUBSET Call |-> Adds(Counts, iter, s)]
    BY <2>1
  <2>3. QED
    BY <2>2 DEF CountedSum, IsSum
<1>4. PICK g \in [SUBSET Call -> Nat] : IsSum(Counts, Call, g)
  BY <1>1, <1>2, SumExists
<1> DEFINE h == CHOOSE iter : CountedSum(iter)
<1>5. CountedSum(h)
  <2>1. \E iter : CountedSum(iter)
    BY <1>3, <1>4
  <2>2. QED
    BY <2>1
<1>6. Tally = h[Call]
  BY DEF Tally, MapThenSumSet, MapThenFoldSet, CountedSum, Chosen
<1> HIDE DEF h
<1>7. IsSum(Counts, Call, h)
  BY <1>3, <1>5
<1>8. Sum(Counts, Call) = g[Call]
  BY <1>1, <1>2, <1>4, SumIs DEF Sum
<1>9. Call \in SUBSET (Call \cap Call) /\ \A x \in Call : Counts[x] = Counts[x]
  OBVIOUS
<1>10. h[Call] = g[Call]
  BY <1>1, <1>2, <1>4, <1>7, <1>9, SumAgrees
<1>11. QED
  BY <1>2, <1>6, <1>8, <1>10, <1>4

\* The same, as an implication that holds after a step too.
LEMMA TallySums == TypeOK => Tally = Sum(Counts, Call) /\ Counts \in [Call -> Nat] /\ Tally \in Nat
BY TallyIsSum

\* It is one after a step too.
LEMMA TallyStaysSum ==
    ASSUME TypeOK'
    PROVE  /\ Tally' = Sum(Counts', Call) /\ Counts' \in [Call -> Nat] /\ Tally' \in Nat
           /\ \A c \in Call : Counts'[c] = Counted(c)'
<1>2. (TypeOK => Tally = Sum(Counts, Call) /\ Counts \in [Call -> Nat] /\ Tally \in Nat)'
  BY TallySums, PTL
<1>3. Call' = Call
  BY DEF Call
<1>4. Sum(Counts, Call)' = Sum(Counts', Call')
  OBVIOUS
<1>5. \A c \in Call : Counts'[c] = Counted(c)'
  BY <1>3 DEF Counts
<1>6. QED
  BY <1>2, <1>3, <1>4, <1>5

\* A step that changes one call changes the tally by as much.
LEMMA TallyMoves ==
    ASSUME TypeOK, TypeOK', NEW c \in Call, \A d \in Call \ {c} : calls'[d] = calls[d]
    PROVE  /\ Tally' + Counted(c) = Tally + Counted(c)'
           /\ Tally \in Nat /\ Tally' \in Nat /\ Counted(c) \in Nat /\ Counted(c)' \in Nat
<1>1. IsFiniteSet(Call)
  BY SessionsAssumption, FS_Interval DEF Call
<1>2. Tally = Sum(Counts, Call) /\ Counts \in [Call -> Nat] /\ Tally \in Nat
  BY TallyIsSum
<1>3. /\ Tally' = Sum(Counts', Call) /\ Counts' \in [Call -> Nat] /\ Tally' \in Nat
      /\ \A d \in Call : Counts'[d] = Counted(d)'
  BY TallyStaysSum
<1>4. ASSUME NEW d \in Call \ {c}
      PROVE  Counts[d] = Counts'[d]
  <2>1. Counted(d) = Counted(d)'
    BY DEF Counted
  <2>2. QED
    BY <1>3, <2>1 DEF Counts
<1>5. Sum(Counts', Call) + Counts[c] = Sum(Counts, Call) + Counts'[c]
  BY <1>1, <1>2, <1>3, <1>4, SumChanges
<1>6. Counts[c] = Counted(c) /\ Counts'[c] = Counted(c)' /\ Counts[c] \in Nat /\ Counts'[c] \in Nat
  BY <1>2, <1>3 DEF Counts
<1>7. QED
  BY <1>2, <1>3, <1>5, <1>6

\* Where no call counts more or less, neither does the tally.
LEMMA TallyStays ==
    ASSUME TypeOK, TypeOK', \A c \in Call : Counted(c)' = Counted(c)
    PROVE  Tally' = Tally
<1>1. Call' = Call
  BY DEF Call
<1>2. Counts' = Counts
  BY <1>1 DEF Counts
<1>3. QED
  BY <1>2, TallyIsSum, TallyStaysSum

\* A step that changes no call does not change the tally.
LEMMA SameCallsSameTally ==
    ASSUME TypeOK, TypeOK', UNCHANGED calls
    PROVE  Tally' = Tally
BY TallyStays DEF Counted

\* A tally that did not grow stays within what the tool said.
LEMMA SmallerTallyKeeps ==
    ASSUME Money, TypeOK, TypeOK', Tally' <= Tally, UNCHANGED <<tool, usage, outcome>>
    PROVE  Money'
<1>1. Tally \in Nat /\ Tally' \in Nat
  BY TallyIsSum, TallyStaysSum
<1>2. QED
  BY <1>1, SessionsAssumption DEF Money

\* Types are kept.
LEMMA TypeOKKeeps ==
    ASSUME IInv, [Next]_vars
    PROVE  TypeOK'
<1>0. TypeOK /\ Unborn /\ RoomOfTheTool /\ Money /\ Numbers /\ Looking /\ Closed /\ Swept
  BY DEF IInv
<1>1. CASE Refused
  BY <1>0, <1>1 DEF Refused, Return, core, children, step, At, TypeOK, Rooms, CallStates, ToolSteps
<1>2. CASE Open
  <2>1. 0 \in 0 .. Looks + 1
    BY SessionsAssumption
  <2>2. room' \in Rooms
    BY <1>2, <2>1, ShutIs DEF Open
  <2>3. QED
    BY <1>0, <1>2, <2>2 DEF Open, At, core, step, children, TypeOK, ToolSteps
<1>3. CASE Launch
  BY <1>0, <1>3 DEF Launch, core, children, At, step, TypeOK, Rooms, CallStates, ToolSteps
<1>4. CASE Spawn
  BY <1>0, <1>4 DEF Spawn, host, core, children, At, step, TypeOK
<1>5. CASE WritePid
  BY <1>0, <1>5 DEF WritePid, core, children, At, step, TypeOK, Rooms, CallStates, ToolSteps
<1>6. CASE LaunchFails
  BY <1>0, <1>6 DEF LaunchFails, core, children, At, step, TypeOK, Rooms, CallStates, ToolSteps
<1>7. CASE Watch
  BY <1>0, <1>7 DEF Watch, core, children, At, Halted, step, TypeOK, Rooms, CallStates, ToolSteps
<1>8. CASE Interrupt
  BY <1>0, <1>8 DEF Interrupt, core, children, At, step, TypeOK, Rooms, CallStates, ToolSteps
<1>9. CASE BeginClose
  <2>1. room.looks \in 0 .. Looks + 1
    BY <1>0 DEF TypeOK, Rooms
  <2>2. room' \in Rooms
    BY <1>9, <2>1, ShutIs DEF BeginClose
  <2> DEFINE todo == 1 .. room.looks
  <2>3. todo \in SUBSET Gesture
    BY <2>1, SessionsAssumption DEF Gesture
  <2>4. sweeper' = [sweeper EXCEPT !["close"] =
                        [due |-> sweeper["close"].due, todo |-> todo, at |-> sweeper["close"].at]]
    <3>1. [sweeper["close"] EXCEPT !.todo = todo] =
              [due |-> sweeper["close"].due, todo |-> todo, at |-> sweeper["close"].at]
      BY <1>0, SweeperIs DEF Sweepers
    <3>2. sweeper' = [sweeper EXCEPT !["close"] = [sweeper["close"] EXCEPT !.todo = todo]]
      BY <1>9 DEF BeginClose
    <3>3. QED
      BY <3>1, <3>2
  <2>5. sweeper' \in [Sweepers -> [due : BOOLEAN, todo : SUBSET Gesture, at : Gesture \cup {None}]]
    <3>1. [due |-> sweeper["close"].due, todo |-> todo, at |-> sweeper["close"].at]
            \in [due : BOOLEAN, todo : SUBSET Gesture, at : Gesture \cup {None}]
      BY <1>0, <2>3, SweeperIs DEF Sweepers
    <3>2. QED
      BY <1>0, <2>4, <3>1, SweeperStays DEF Sweepers
  <2>6. asked' \in 0 .. Looks + 2
    BY <1>9, SessionsAssumption DEF BeginClose
  <2>7. QED
    BY <1>0, <1>9, <2>2, <2>5, <2>6 DEF BeginClose, core, step, children, TypeOK, ToolSteps
<1>10. CASE FinishClose
  <2>1. Tally \in Nat
    BY <1>0, TallyIsSum
  <2>2. calls' \in [Call -> CallStates]
    <3>1. ASSUME NEW c \in Call, calls[c].pc = "flying"
          PROVE  Settled(calls[c].worst) \in CallStates
      <4>1. calls[c].worst \in 1 .. MaxWorst
        BY <1>0, <3>1 DEF TypeOK, CallStates
      <4>2. QED
        BY <4>1, CallStatesAre, SessionsAssumption
    <3>2. QED
      BY <1>0, <1>10, <3>1 DEF FinishClose, TypeOK
  <2>3. QED
    BY <1>0, <1>10, <2>1, <2>2 DEF FinishClose, Return, core, step, children, TypeOK, ToolSteps
<1>11. CASE Store
  BY <1>0, <1>11 DEF Store, core, children, At, TypeOK, Rooms, CallStates, ToolSteps
<1>12. CASE EndParent
  BY <1>0, <1>12 DEF EndParent, core, host, children, TypeOK
<1>13. ASSUME NEW c \in Call, Relay(c)
      PROVE  TypeOK'
  <2>1. room' \in Rooms /\ calls' \in [Call -> CallStates]
    <3>1. CASE Weigh(c)
      BY <1>0, <3>1, WeighIs
    <3>2. CASE calls' = [calls EXCEPT ![c] = [pc |-> "waiting"]] /\ UNCHANGED room
      BY <1>0, <3>2, CallStatesAre DEF TypeOK
    <3>3. QED
      BY <1>13, <3>1, <3>2 DEF Relay
  <2>2. QED
    BY <1>0, <1>13, <2>1 DEF Relay, core, step, host, children, TypeOK
<1>14. ASSUME NEW c \in Call, Wake(c)
      PROVE  TypeOK'
  <2>1. room' \in Rooms /\ calls' \in [Call -> CallStates]
    BY <1>0, <1>14, WeighIs DEF Wake
  <2>2. QED
    BY <1>0, <1>14, <2>1 DEF Wake, core, step, host, children, TypeOK
<1>15. ASSUME NEW c \in Call, Settle(c)
      PROVE  TypeOK'
  <2>1. calls' \in [Call -> CallStates]
    BY <1>0, <1>15, SettleIs
  <2>2. QED
    BY <1>0, <1>15, <2>1 DEF Settle, core, step, host, children, TypeOK
<1>16. ASSUME NEW kind \in {"read", "act", "login"}, Ask(kind)
      PROVE  TypeOK'
  <2>1. /\ asked' \in 0 .. Looks + 2 /\ room' \in Rooms /\ gestures' \in [Gesture -> GestureStates]
        /\ following' \subseteq Gesture
    BY <1>0, <1>16, AskIs
  <2>2. QED
    BY <1>0, <1>16, <2>1 DEF Ask, core, step, TypeOK
<1>17. ASSUME NEW n \in Gesture, Goes(n)
      PROVE  TypeOK'
  <2>1. /\ gestures' \in [Gesture -> GestureStates]
        /\ UNCHANGED <<core, step, host, room, sweeper, calls, following, process>>
    BY <1>0, <1>17, GoesIs
  <2>2. QED
    BY <1>0, <2>1 DEF core, step, host, TypeOK
<1>18. ASSUME NEW n \in Gesture, LoginGoesOn(n)
      PROVE  TypeOK'
  <2>1. gestures' \in [Gesture -> GestureStates] /\ room' \in Rooms
    BY <1>0, <1>18, LoginGoesOnIs
  <2>2. following' \subseteq Gesture
    BY <1>0, <1>18 DEF LoginGoesOn, TypeOK
  <2>3. QED
    BY <1>0, <1>18, <2>1, <2>2 DEF LoginGoesOn, core, step, host, TypeOK
<1>19. ASSUME NEW n \in Gesture, LoginEnds(n)
      PROVE  TypeOK'
  BY <1>0, <1>19 DEF LoginEnds, host, core, step, TypeOK
<1>20. ASSUME NEW w \in Sweepers, Look(w)
      PROVE  TypeOK'
  <2>1. PICK n \in sweeper[w].todo, at \in Gesture \cup {None} :
            /\ sweeper' = [sweeper EXCEPT ![w] = [sweeper[w] EXCEPT !.todo = sweeper[w].todo \ {n}, !.at = at]]
            /\ UNCHANGED <<core, step, host, room, calls, children, process>>
    BY <1>0, <1>20, LookIs
  <2>2. [sweeper[w] EXCEPT !.todo = sweeper[w].todo \ {n}, !.at = at]
          \in [due : BOOLEAN, todo : SUBSET Gesture, at : Gesture \cup {None}]
    BY <1>0 DEF TypeOK
  <2>3. sweeper' \in [Sweepers -> [due : BOOLEAN, todo : SUBSET Gesture, at : Gesture \cup {None}]]
    BY <1>0, <2>1, <2>2, SweeperStays
  <2>4. QED
    BY <1>0, <2>1, <2>3 DEF core, step, host, children, TypeOK
<1>21. ASSUME NEW w \in Sweepers, Cancel(w)
      PROVE  TypeOK'
  <2>1. /\ UNCHANGED <<core, step, asked, room, calls, following, process>>
        /\ Stopped(w) \/ Refusal(w)
    BY <1>0, <1>21, CancelIs
  <2>2. CASE Stopped(w)
    <3>1. gestures' \in [Gesture -> GestureStates]
      BY <1>0, <2>2, EndsOne DEF Stopped
    <3>2. [sweeper[w] EXCEPT !.at = None] \in [due : BOOLEAN, todo : SUBSET Gesture, at : Gesture \cup {None}]
      BY <1>0 DEF TypeOK
    <3>3. sweeper' \in [Sweepers -> [due : BOOLEAN, todo : SUBSET Gesture, at : Gesture \cup {None}]]
      BY <1>0, <2>2, <3>2, SweeperStays DEF Stopped
    <3>4. QED
      BY <1>0, <2>1, <2>2, <3>1, <3>3 DEF Stopped, core, step, TypeOK
  <2>3. CASE Refusal(w)
    <3>1. sweeper' \in [Sweepers -> [due : BOOLEAN, todo : SUBSET Gesture, at : Gesture \cup {None}]]
      BY <1>0, <2>3, RestingIs, SweeperStays DEF Refusal
    <3>2. tool' \in ToolSteps /\ usage' \in Nat \cup {Unknown, None}
      BY <1>0, <2>3 DEF Refusal, TypeOK, ToolSteps
    <3>3. QED
      BY <1>0, <2>1, <2>3, <3>1, <3>2 DEF Refusal, core, step, TypeOK
  <2>4. QED
    BY <2>1, <2>2, <2>3
<1>22. CASE Stop
  <2> DEFINE s == [sweeper["stop"] EXCEPT !.due = TRUE]
  <2>1. s \in [due : BOOLEAN, todo : SUBSET Gesture, at : Gesture \cup {None}]
    BY <1>0 DEF TypeOK, Sweepers
  <2>2. sweeper' = [sweeper EXCEPT !["stop"] = s]
    BY <1>22 DEF Stop
  <2> HIDE DEF s
  <2>3. sweeper' \in [Sweepers -> [due : BOOLEAN, todo : SUBSET Gesture, at : Gesture \cup {None}]]
    BY <1>0, <2>1, <2>2, SweeperStays DEF Sweepers
  <2>4. QED
    BY <1>0, <1>22, <2>3 DEF Stop, core, host, children, TypeOK
<1>23. CASE StopGestures
  <2> DEFINE todo == IF room.live THEN 1 .. room.looks ELSE {}
             s == [sweeper["stop"] EXCEPT !.due = FALSE, !.todo = todo]
  <2>1. todo \in SUBSET Gesture
    <3>1. room.looks \in 0 .. Looks + 1
      BY <1>0 DEF TypeOK, Rooms
    <3>2. QED
      BY <3>1, SessionsAssumption DEF Gesture
  <2>2. sweeper' = [sweeper EXCEPT !["stop"] = s]
    BY <1>0, <1>23 DEF StopGestures, TypeOK, Sweepers
  <2> HIDE DEF todo
  <2>3. s \in [due : BOOLEAN, todo : SUBSET Gesture, at : Gesture \cup {None}]
    BY <1>0, <2>1 DEF TypeOK, Sweepers
  <2> HIDE DEF s
  <2>4. sweeper' \in [Sweepers -> [due : BOOLEAN, todo : SUBSET Gesture, at : Gesture \cup {None}]]
    BY <1>0, <2>2, <2>3, SweeperStays DEF Sweepers
  <2>5. QED
    BY <1>0, <1>23, <2>4, HaltedIs DEF StopGestures, core, step, host, children, TypeOK
<1>24. CASE ListTools
  BY <1>0, <1>24 DEF ListTools, host, core, children, Halted, step, TypeOK, Rooms
<1>25. CASE AskPermission
  BY <1>0, <1>25 DEF AskPermission, host, core, children, Halted, step, TypeOK, Rooms
<1>26. CASE ProcessEnds
  BY <1>0, <1>26 DEF ProcessEnds, host, core, children, step, TypeOK
<1>27. CASE Crash
  BY <1>0, <1>27, SessionsAssumption DEF Crash, NoGesture, Over, Shut, Settled, step, Resting, TypeOK, Rooms,
    CallStates, ToolSteps, GestureStates, Living, Running, Call, Gesture, Sweepers, Booting, Serving, Halted
<1>28. CASE StartUp
  <2>1. /\ UNCHANGED <<crashes, outcome, host, room, sweeper, calls, following>>
        /\ gestures' \in [Gesture -> GestureStates]
        /\ process' = process \/ process' = "dead"
        /\ parent' \in {parent, "ended"}
        /\ up' \in {"serving"} \cup Booting
    BY <1>0, <1>28, StartUpIs
  <2>2. QED
    BY <1>0, <2>1 DEF host, TypeOK
<1>29. CASE UNCHANGED vars
  BY <1>0, <1>29 DEF vars, core, step, host, children, TypeOK
<1>30. QED
  BY <1>1, <1>2, <1>3, <1>4, <1>5, <1>6, <1>7, <1>8, <1>9, <1>10, <1>11, <1>12, <1>13, <1>14, <1>15, <1>16, <1>17,
     <1>18, <1>19, <1>20, <1>21, <1>22, <1>23, <1>24, <1>25, <1>26, <1>27, <1>28, <1>29 DEF Next, ToolStep,
     CloseSteps, Gateway, GestureStep, Goes, Sweepers

\* Nothing is born before the launch.
LEMMA UnbornKeeps ==
    ASSUME IInv, [Next]_vars
    PROVE  Unborn'
<1>0. TypeOK /\ Unborn /\ RoomOfTheTool /\ Money /\ Numbers /\ Looking /\ Closed /\ Swept
  BY DEF IInv
<1>1. CASE Refused
  BY <1>1 DEF Refused, Return, children, At, Unborn, Before
<1>2. CASE Open
  BY <1>0, <1>2 DEF Open, children, At, Shut, Unborn, Before
<1>3. CASE Launch
  BY <1>0, <1>3 DEF Launch, children, At, Unborn, Before
<1>4. CASE Spawn
  BY <1>0, <1>4 DEF Spawn, host, children, At, Unborn, Before
<1>5. CASE WritePid
  BY <1>5 DEF WritePid, children, At, Unborn, Before
<1>6. CASE LaunchFails
  BY <1>6 DEF LaunchFails, children, At, Unborn, Before
<1>7. CASE Watch
  BY <1>7 DEF Watch, children, At, Halted, Unborn, Before
<1>8. CASE Interrupt
  BY <1>8 DEF Interrupt, children, At, Unborn, Before
<1>9. CASE BeginClose
  BY <1>9 DEF BeginClose, children, At, Shut, Unborn, Before
<1>10. CASE FinishClose
  BY <1>10 DEF FinishClose, Return, children, At, Settled, Unborn, Before
<1>11. CASE Store
  BY <1>11 DEF Store, children, At, Unborn, Before
<1>12. CASE EndParent
  BY <1>12 DEF EndParent, host, children, Unborn, Before
<1>13. ASSUME NEW c \in Call, Relay(c)
      PROVE  Unborn'
  BY <1>0, <1>13 DEF Relay, children, Weigh, host, Halted, Settled, Unborn, Before
<1>14. ASSUME NEW c \in Call, Wake(c)
      PROVE  Unborn'
  BY <1>0, <1>14 DEF Wake, host, children, Weigh, Halted, Settled, Unborn, Before
<1>15. ASSUME NEW c \in Call, Settle(c)
      PROVE  Unborn'
  BY <1>0, <1>15 DEF Settle, children, Settled, host, Unborn, Before
<1>16. ASSUME NEW kind \in {"read", "act", "login"}, Ask(kind)
      PROVE  Unborn'
  BY <1>16 DEF Ask, children, Halted, Taken, Ends, Over, Unborn, Before
<1>17. ASSUME NEW n \in Gesture, Goes(n)
      PROVE  Unborn'
  BY <1>0, <1>17, GoesIs DEF core, step, host, Unborn
<1>18. ASSUME NEW n \in Gesture, LoginGoesOn(n)
      PROVE  Unborn'
  BY <1>0, <1>18 DEF LoginGoesOn, host, Unborn
<1>19. ASSUME NEW n \in Gesture, LoginEnds(n)
      PROVE  Unborn'
  BY <1>0, <1>19 DEF LoginEnds, host, Unborn, Before
<1>20. ASSUME NEW w \in Sweepers, Look(w)
      PROVE  Unborn'
  BY <1>0, <1>20 DEF Look, children, Alive, host, Unborn, Before
<1>21. ASSUME NEW w \in Sweepers, Cancel(w)
      PROVE  Unborn'
  <2>1. CASE tool \in Before
    <3>1. sweeper["close"] = Resting /\ \A m \in Gesture : ~Alive(m)
      BY <1>0, <2>1 DEF RoomOfTheTool, Unborn, Before, Alive, Living, Running
    <3>2. w # "close" /\ ~Stopped(w)
      BY <1>0, <1>21, <3>1, CancelIs DEF Stopped, Resting
    <3>3. UNCHANGED <<asked, room, calls, following, process, gestures, tool>>
      BY <1>0, <1>21, <3>2, CancelIs DEF Refusal
    <3>4. QED
      BY <1>0, <3>3 DEF Unborn
  <2>2. CASE tool \notin Before
    <3>1. tool' \notin Before
      BY <1>0, <1>21, <2>2, CancelIs DEF Stopped, Refusal, Before
    <3>2. QED
      BY <3>1 DEF Unborn
  <2>3. QED
    BY <2>1, <2>2
<1>22. CASE Stop
  BY <1>0, <1>22 DEF Stop, host, children, Unborn, Before
<1>23. CASE StopGestures
  BY <1>0, <1>23 DEF StopGestures, children, Halted, host, Unborn, Before
<1>24. CASE ListTools
  BY <1>0, <1>24 DEF ListTools, host, children, Halted, Unborn, Before
<1>25. CASE AskPermission
  BY <1>0, <1>25 DEF AskPermission, host, children, Halted, Unborn, Before
<1>26. CASE ProcessEnds
  BY <1>0, <1>26 DEF ProcessEnds, host, children, Unborn, Before
<1>27. CASE Crash
  BY <1>27 DEF Crash, NoGesture, Over, Shut, Settled, Unborn, Before
<1>28. CASE StartUp
  <2>1. /\ UNCHANGED <<host, room, calls, following>>
        /\ \A n \in Gesture : gestures'[n] = gestures[n] \/ (Alive(n) /\ gestures'[n].state = "over")
        /\ process' = process \/ process' = "dead"
    BY <1>0, <1>28, StartUpIs
  <2>2. QED
    BY <1>0, <2>1 DEF host, Unborn, Alive, Living, Running
<1>29. CASE UNCHANGED vars
  BY <1>0, <1>29 DEF vars, core, step, host, children, Unborn, Before
<1>30. QED
  BY <1>1, <1>2, <1>3, <1>4, <1>5, <1>6, <1>7, <1>8, <1>9, <1>10, <1>11, <1>12, <1>13, <1>14, <1>15, <1>16, <1>17,
     <1>18, <1>19, <1>20, <1>21, <1>22, <1>23, <1>24, <1>25, <1>26, <1>27, <1>28, <1>29 DEF Next, ToolStep,
     CloseSteps, Gateway, GestureStep, Goes, Sweepers

\* The room's record is the tool's.
LEMMA RoomOfTheToolKeeps ==
    ASSUME IInv, [Next]_vars
    PROVE  RoomOfTheTool'
<1>0. TypeOK /\ Unborn /\ RoomOfTheTool /\ Money /\ Numbers /\ Looking /\ Closed /\ Swept
  BY DEF IInv
<1>1. CASE Refused
  BY <1>0, <1>1 DEF Refused, Return, At, RoomOfTheTool, Held
<1>2. CASE Open
  <2>0. 0 \in 0 .. Looks + 1
    BY SessionsAssumption
  <2>1. room'.live /\ ~room'.passed
    BY <1>2, <2>0, ShutIs DEF Open
  <2>2. QED
    BY <1>0, <1>2, <2>1 DEF Open, At, Held, RoomOfTheTool
<1>3. CASE Launch
  BY <1>0, <1>3 DEF Launch, At, RoomOfTheTool, Held
<1>4. CASE Spawn
  BY <1>0, <1>4 DEF Spawn, host, At, RoomOfTheTool, Held
<1>5. CASE WritePid
  BY <1>0, <1>5 DEF WritePid, At, RoomOfTheTool, Held
<1>6. CASE LaunchFails
  BY <1>0, <1>6 DEF LaunchFails, At, RoomOfTheTool, Held
<1>7. CASE Watch
  BY <1>0, <1>7 DEF Watch, At, Halted, RoomOfTheTool, Held
<1>8. CASE Interrupt
  BY <1>0, <1>8 DEF Interrupt, At, RoomOfTheTool, Held
<1>9. CASE BeginClose
  BY <1>9 DEF BeginClose, At, Shut, RoomOfTheTool, Held
<1>10. CASE FinishClose
  BY <1>0, <1>10 DEF FinishClose, Return, At, Settled, Resting, RoomOfTheTool, Held
<1>11. CASE Store
  BY <1>0, <1>11 DEF Store, At, RoomOfTheTool, Held
<1>12. CASE EndParent
  BY <1>0, <1>12 DEF EndParent, host, RoomOfTheTool, Held
<1>13. ASSUME NEW c \in Call, Relay(c)
      PROVE  RoomOfTheTool'
  BY <1>0, <1>13 DEF Relay, Weigh, host, Halted, Settled, RoomOfTheTool, Held, TypeOK, Rooms
<1>14. ASSUME NEW c \in Call, Wake(c)
      PROVE  RoomOfTheTool'
  BY <1>0, <1>14 DEF Wake, host, Weigh, Halted, Settled, RoomOfTheTool, Held, TypeOK, Rooms
<1>15. ASSUME NEW c \in Call, Settle(c)
      PROVE  RoomOfTheTool'
  BY <1>0, <1>15 DEF Settle, Settled, host, RoomOfTheTool, Held
<1>16. ASSUME NEW kind \in {"read", "act", "login"}, Ask(kind)
      PROVE  RoomOfTheTool'
  BY <1>0, <1>16 DEF Ask, Halted, RoomOfTheTool, Held, TypeOK, Rooms
<1>17. ASSUME NEW n \in Gesture, Goes(n)
      PROVE  RoomOfTheTool'
  BY <1>0, <1>17, GoesIs DEF host, RoomOfTheTool
<1>18. ASSUME NEW n \in Gesture, LoginGoesOn(n)
      PROVE  RoomOfTheTool'
  <2>1. room'.live = room.live /\ room'.passed = room.passed /\ tool' = tool /\ sweeper' = sweeper
    BY <1>0, <1>18, LoginGoesOnIs DEF LoginGoesOn, host
  <2>2. QED
    BY <1>0, <2>1 DEF RoomOfTheTool
<1>19. ASSUME NEW n \in Gesture, LoginEnds(n)
      PROVE  RoomOfTheTool'
  BY <1>0, <1>19 DEF LoginEnds, host, RoomOfTheTool, Held
<1>20. ASSUME NEW w \in Sweepers, Look(w)
      PROVE  RoomOfTheTool'
  <2>1. PICK n \in sweeper[w].todo, at \in Gesture \cup {None} :
            /\ sweeper' = [sweeper EXCEPT ![w] = [sweeper[w] EXCEPT !.todo = sweeper[w].todo \ {n}, !.at = at]]
            /\ UNCHANGED <<host, room>>
    BY <1>0, <1>20, LookIs
  <2>2. sweeper'["close"] # Resting => sweeper["close"] # Resting
    <3>1. sweeper[w] # Resting
      BY DEF Resting
    <3>2. w # "close" => sweeper'["close"] = sweeper["close"]
      BY <1>0, <2>1 DEF TypeOK, Sweepers
    <3>3. QED
      BY <3>1, <3>2
  <2>3. QED
    BY <1>0, <2>1, <2>2 DEF host, RoomOfTheTool
<1>21. ASSUME NEW w \in Sweepers, Cancel(w)
      PROVE  RoomOfTheTool'
  <2>1. UNCHANGED room /\ (Stopped(w) \/ Refusal(w)) /\ sweeper[w] # Resting
    BY <1>0, <1>21, CancelIs DEF Resting
  <2>2. CASE w = "close"
    <3>1. tool = "closing" /\ ~room.live /\ ~room.passed
      BY <1>0, <2>1, <2>2 DEF RoomOfTheTool, Held, TypeOK, Rooms
    <3>2. tool' = "closing" \/ sweeper'["close"] = Resting
      BY <1>0, <2>1, <2>2, <3>1 DEF Stopped, Refusal, TypeOK
    <3>3. QED
      BY <2>1, <3>1, <3>2 DEF RoomOfTheTool
  <2>3. CASE w # "close"
    <3>1. sweeper'["close"] = sweeper["close"]
      BY <1>0, <2>1, <2>3 DEF Stopped, Refusal, TypeOK, Sweepers
    <3>2. tool' = tool
      BY <2>1, <2>3 DEF Stopped, Refusal
    <3>3. QED
      BY <1>0, <2>1, <3>1, <3>2 DEF RoomOfTheTool
  <2>4. QED
    BY <2>2, <2>3
<1>22. CASE Stop
  BY <1>0, <1>22 DEF Stop, host, RoomOfTheTool, Held
<1>23. CASE StopGestures
  BY <1>0, <1>23, SessionsAssumption DEF StopGestures, At, Serving, Halted, Shut, Return, core, step, host,
     children, vars, Alive, TypeOK, Rooms, Unborn, RoomOfTheTool, Held, Before, Sweepers, Resting, Call, Gesture
<1>24. CASE ListTools
  BY <1>0, <1>24 DEF ListTools, host, Halted, RoomOfTheTool, Held, TypeOK, Rooms
<1>25. CASE AskPermission
  BY <1>0, <1>25 DEF AskPermission, host, Halted, RoomOfTheTool, Held
<1>26. CASE ProcessEnds
  BY <1>0, <1>26 DEF ProcessEnds, host, RoomOfTheTool, Held
<1>27. CASE Crash
  BY <1>0, <1>27, SessionsAssumption DEF Crash, NoGesture, Over, At, Serving, Halted, Shut, Return, core, step,
     host, children, vars, Alive, TypeOK, Rooms, Unborn, RoomOfTheTool, Held, Before, Sweepers, Resting, Call,
     Gesture
<1>28. CASE StartUp
  BY <1>0, <1>28, StartUpIs DEF host, RoomOfTheTool
<1>29. CASE UNCHANGED vars
  BY <1>0, <1>29 DEF vars, core, step, host, children, RoomOfTheTool, Held
<1>30. QED
  BY <1>1, <1>2, <1>3, <1>4, <1>5, <1>6, <1>7, <1>8, <1>9, <1>10, <1>11, <1>12, <1>13, <1>14, <1>15, <1>16, <1>17,
     <1>18, <1>19, <1>20, <1>21, <1>22, <1>23, <1>24, <1>25, <1>26, <1>27, <1>28, <1>29 DEF Next, ToolStep,
     CloseSteps, Gateway, GestureStep, Goes, Sweepers

\* The numbers of the gestures are those of the yes.
LEMMA NumbersKeeps ==
    ASSUME IInv, [Next]_vars
    PROVE  Numbers'
<1>0. TypeOK /\ Unborn /\ RoomOfTheTool /\ Money /\ Numbers /\ Looking /\ Closed /\ Swept
  BY DEF IInv
<1>1. CASE Refused
  BY <1>0, <1>1 DEF Refused, Return, children, At, Numbers, Held
<1>2. CASE Open
  <2>0. 0 \in 0 .. Looks + 1
    BY SessionsAssumption
  <2>1. room'.looks = 0 /\ room.looks = 0
    BY <1>0, <1>2, <2>0, ShutIs DEF Open, At, Unborn, Before
  <2>2. QED
    BY <1>0, <1>2, <2>1 DEF Open, At, children, Unborn, Before, Numbers
<1>3. CASE Launch
  BY <1>0, <1>3 DEF Launch, children, At, Numbers, Held
<1>4. CASE Spawn
  BY <1>0, <1>4 DEF Spawn, host, children, At, Numbers, Held
<1>5. CASE WritePid
  <2>1. room.looks = 0 /\ Cardinality(following) = 0 /\ asked = 0 /\ UNCHANGED <<room, children, asked>>
    BY <1>0, <1>5, FS_EmptySet DEF WritePid, At, Unborn, Before
  <2>2. QED
    BY <1>0, <1>5, <2>1 DEF WritePid, At, Held, children, Numbers
<1>6. CASE LaunchFails
  BY <1>0, <1>6 DEF LaunchFails, children, At, Numbers, Held
<1>7. CASE Watch
  BY <1>0, <1>7 DEF Watch, children, At, Halted, Numbers, Held
<1>8. CASE Interrupt
  BY <1>0, <1>8 DEF Interrupt, children, At, Numbers, Held
<1>9. CASE BeginClose
  <2>1. room'.looks = room.looks
    BY <1>0, <1>9, ShutIs DEF BeginClose, TypeOK, Rooms
  <2>2. QED
    BY <1>0, <1>9, <2>1 DEF BeginClose, children, Held, Numbers
<1>10. CASE FinishClose
  BY <1>0, <1>10 DEF FinishClose, Return, children, At, Settled, Numbers, Held
<1>11. CASE Store
  BY <1>0, <1>11 DEF Store, children, At, Numbers, Held
<1>12. CASE EndParent
  BY <1>0, <1>12 DEF EndParent, host, children, Numbers, Held
<1>13. ASSUME NEW c \in Call, Relay(c)
      PROVE  Numbers'
  BY <1>0, <1>13 DEF Relay, children, Weigh, host, Halted, Settled, Numbers, Held, TypeOK, Rooms
<1>14. ASSUME NEW c \in Call, Wake(c)
      PROVE  Numbers'
  BY <1>0, <1>14 DEF Wake, host, children, Weigh, Halted, Settled, Numbers, Held, TypeOK, Rooms
<1>15. ASSUME NEW c \in Call, Settle(c)
      PROVE  Numbers'
  BY <1>0, <1>15 DEF Settle, children, Settled, host, Numbers, Held
<1>16. ASSUME NEW kind \in {"read", "act", "login"}, Ask(kind)
      PROVE  Numbers'
  <2>1. /\ asked' = asked + Cost(kind) /\ Cost(kind) \in {1, 2} /\ asked \in Nat /\ room.looks \in Nat
        /\ Cardinality(following) \in Nat /\ Cardinality(following') \in Nat
        /\ tool \in {"watching", "interrupting"} /\ UNCHANGED tool
    BY <1>0, <1>16, AskIs, FollowingIsFinite DEF Ask, Cost, TypeOK, Rooms
  <2>2. CASE room'.looks = room.looks /\ UNCHANGED children
    BY <1>0, <2>1, <2>2 DEF children, Numbers, Held
  <2>3. CASE Numbered(kind)
    <3>1. /\ asked' <= Looks /\ room'.looks = room.looks + 1
          /\ Cardinality(following') + 1 <= Cardinality(following) + Cost(kind)
      BY <1>0, <2>3, NumberedIs
    <3>2. /\ \A n \in Gesture : gestures'[n].state # "none" => gestures[n].state # "none" \/ n = room.looks + 1
          /\ \A n \in Gesture : gestures'[n].state = "found" => gestures[n].state = "found"
          /\ following \subseteq following'
      BY <1>0, <2>3, NumberedIs
    <3>3. /\ room'.looks + Cardinality(following') <= asked' /\ room'.looks <= Looks
          /\ room'.looks + Cardinality(following') <= Looks
      BY <1>0, <2>1, <3>1, SessionsAssumption DEF Numbers
    <3>4. \A n \in Gesture : gestures'[n].state # "none" => n <= room'.looks
      BY <1>0, <2>1, <3>1, <3>2 DEF Numbers, Held, Gesture
    <3>5. \A n \in Gesture : gestures'[n].state # "none" => n <= Looks
      BY <1>0, <3>1, <3>2, <3>3 DEF Numbers, Gesture
    <3>6. QED
      BY <1>0, <3>2, <3>3, <3>4, <3>5 DEF Numbers
  <2>4. QED
    BY <1>0, <1>16, <2>2, <2>3, AskIs
<1>17. ASSUME NEW n \in Gesture, Goes(n)
      PROVE  Numbers'
  <2>1. /\ UNCHANGED <<host, room, following>>
        /\ \A m \in Gesture \ {n} : gestures'[m] = gestures[m]
        /\ gestures[n].state # "none"
        /\ gestures'[n].state = "found" => n \in following
    BY <1>0, <1>17, GoesIs
  <2>2. QED
    BY <1>0, <2>1 DEF host, Numbers
<1>18. ASSUME NEW n \in Gesture, LoginGoesOn(n)
      PROVE  Numbers'
  <2> DEFINE number == room.looks + 1
  <2>1. /\ number \in Gesture /\ gestures[n].state = "found" /\ following' = following \ {n} /\ room'.looks = number
        /\ gestures'[number].state = "making" /\ (n # number => gestures'[n].state = "over")
        /\ \A m \in Gesture \ {n, number} : gestures'[m] = gestures[m]
    BY <1>0, <1>18, LoginGoesOnIs
  <2>2. UNCHANGED <<tool, asked>> /\ room.looks \in Nat
    BY <1>0, <1>18 DEF LoginGoesOn, host, TypeOK, Rooms
  <2>3. /\ Cardinality(following') = Cardinality(following) - 1
        /\ Cardinality(following) \in Nat /\ Cardinality(following') \in Nat
    <3>1. n \in following
      BY <1>0, <2>1 DEF Numbers
    <3>2. QED
      BY <1>0, <2>1, <3>1, FollowingIsFinite, FS_RemoveElement, FS_CardinalityType DEF TypeOK
  <2>4. /\ room'.looks + Cardinality(following') <= Looks /\ room'.looks <= Looks
        /\ tool \in {"watching", "interrupting"} => room'.looks + Cardinality(following') <= asked
    BY <1>0, <2>1, <2>2, <2>3, SessionsAssumption DEF Numbers, TypeOK
  <2>5. \A m \in Gesture : gestures'[m].state # "none" => gestures[m].state # "none" \/ m = number
    BY <2>1
  <2>6. \A m \in Gesture : gestures'[m].state # "none" => m <= Looks
    BY <1>0, <2>1, <2>4, <2>5 DEF Numbers
  <2>7. tool' \in Held => \A m \in Gesture : (gestures'[m].state # "none" => m <= room'.looks)
    BY <1>0, <2>1, <2>2, <2>5 DEF Numbers, Gesture
  <2>8. \A m \in Gesture : gestures'[m].state = "found" => m \in following'
    BY <1>0, <2>1 DEF Numbers
  <2>9. QED
    BY <2>2, <2>4, <2>6, <2>7, <2>8 DEF Numbers
<1>19. ASSUME NEW n \in Gesture, LoginEnds(n)
      PROVE  Numbers'
  <2>1. following' = following \ {n} /\ gestures[n].state # "found" /\ n \in following
    BY <1>19 DEF LoginEnds
  <2>2. /\ Cardinality(following') <= Cardinality(following)
        /\ Cardinality(following) \in Nat /\ Cardinality(following') \in Nat
    BY <1>0, <2>1, FollowingIsFinite, FS_RemoveElement, FS_CardinalityType DEF TypeOK
  <2>3. UNCHANGED <<tool, asked, room, gestures>> /\ room.looks \in Nat /\ asked \in Nat
    BY <1>0, <1>19 DEF LoginEnds, host, TypeOK, Rooms
  <2>4. QED
    BY <1>0, <2>1, <2>2, <2>3, SessionsAssumption DEF Numbers
<1>20. ASSUME NEW w \in Sweepers, Look(w)
      PROVE  Numbers'
  BY <1>0, <1>20 DEF Look, children, Alive, host, Numbers, Held
<1>21. ASSUME NEW w \in Sweepers, Cancel(w)
      PROVE  Numbers'
  <2>1. UNCHANGED <<asked, room, following>> /\ (Stopped(w) \/ Refusal(w)) /\ sweeper[w] # Resting
    BY <1>0, <1>21, CancelIs DEF Resting
  <2>2. \A n \in Gesture : gestures'[n] = gestures[n] \/ (gestures[n].state # "none" /\ gestures'[n].state = "over")
    <3>1. CASE Stopped(w)
      BY <1>0, <3>1, EndsOne DEF Stopped, Alive, Living, Running
    <3>2. CASE Refusal(w)
      BY <3>2 DEF Refusal
    <3>3. QED
      BY <2>1, <3>1, <3>2
  <2>3. tool' = tool \/ tool' = "returned"
    BY <2>1 DEF Stopped, Refusal
  <2>4. QED
    BY <1>0, <2>1, <2>2, <2>3 DEF Numbers, Held
<1>22. CASE Stop
  BY <1>0, <1>22 DEF Stop, host, children, Numbers, Held
<1>23. CASE StopGestures
  BY <1>0, <1>23 DEF StopGestures, children, Halted, host, Numbers, Held
<1>24. CASE ListTools
  BY <1>0, <1>24 DEF ListTools, host, children, Halted, Numbers, Held, TypeOK, Rooms
<1>25. CASE AskPermission
  BY <1>0, <1>25 DEF AskPermission, host, children, Halted, Numbers, Held
<1>26. CASE ProcessEnds
  BY <1>0, <1>26 DEF ProcessEnds, host, children, Numbers, Held
<1>27. CASE Crash
  <2>0. 0 \in 0 .. Looks + 1
    BY SessionsAssumption
  <2>1. room'.looks = 0 /\ following' = {} /\ tool' \in {"stored", "gone"} /\ Cardinality(following') = 0
    <3>1. room' = Shut /\ following' = {} /\ tool' \in {"stored", "gone"}
      BY <1>27 DEF Crash
    <3>2. QED
      BY <2>0, <3>1, ShutIs, FS_EmptySet
  <2>2. \A n \in Gesture : /\ gestures'[n].state # "none" => gestures[n].state # "none"
                           /\ gestures'[n].state # "found"
    BY <1>27 DEF Crash, NoGesture, Over
  <2>3. QED
    BY <1>0, <2>1, <2>2, SessionsAssumption DEF Numbers, Held
<1>28. CASE StartUp
  <2>1. /\ UNCHANGED <<host, room, following>>
        /\ \A n \in Gesture : gestures'[n] = gestures[n] \/ (Alive(n) /\ gestures'[n].state = "over")
    BY <1>0, <1>28, StartUpIs
  <2>2. QED
    BY <1>0, <2>1 DEF host, Numbers, Alive, Living, Running
<1>29. CASE UNCHANGED vars
  BY <1>0, <1>29 DEF vars, core, step, host, children, Numbers, Held
<1>30. QED
  BY <1>1, <1>2, <1>3, <1>4, <1>5, <1>6, <1>7, <1>8, <1>9, <1>10, <1>11, <1>12, <1>13, <1>14, <1>15, <1>16, <1>17,
     <1>18, <1>19, <1>20, <1>21, <1>22, <1>23, <1>24, <1>25, <1>26, <1>27, <1>28, <1>29 DEF Next, ToolStep,
     CloseSteps, Gateway, GestureStep, Goes, Sweepers

\* A close that looks misses nobody.
LEMMA LookingKeeps ==
    ASSUME IInv, [Next]_vars
    PROVE  Looking'
<1>0. TypeOK /\ Unborn /\ RoomOfTheTool /\ Money /\ Numbers /\ Looking /\ Closed /\ Swept
  BY DEF IInv
<1>1. CASE Refused
  BY <1>1 DEF Refused, Return, children, At, Looking
<1>2. CASE Open
  BY <1>2 DEF Open, children, At, Looking
<1>3. CASE Launch
  BY <1>3 DEF Launch, children, At, Looking
<1>4. CASE Spawn
  BY <1>4 DEF Spawn, host, children, At, Looking
<1>5. CASE WritePid
  BY <1>5 DEF WritePid, children, At, Looking
<1>6. CASE LaunchFails
  BY <1>6 DEF LaunchFails, children, At, Looking
<1>7. CASE Watch
  BY <1>7 DEF Watch, children, At, Looking
<1>8. CASE Interrupt
  BY <1>8 DEF Interrupt, children, At, Looking
<1>9. CASE BeginClose
  <2>1. \A n \in Gesture : gestures[n].state = "covered" => n <= room.looks
    BY <1>0, <1>9 DEF BeginClose, At, Held, Numbers
  <2>2. sweeper'["close"].todo = 1 .. room.looks /\ room.looks \in Nat
    BY <1>0, <1>9 DEF BeginClose, TypeOK, Sweepers, Rooms
  <2>3. QED
    BY <1>9, <2>1, <2>2 DEF BeginClose, children, Gesture, Looking
<1>10. CASE FinishClose
  BY <1>10 DEF FinishClose, Return, children, At, Settled, Resting, Looking
<1>11. CASE Store
  BY <1>11 DEF Store, children, At, Looking
<1>12. CASE EndParent
  BY <1>12 DEF EndParent, host, children, Looking
<1>13. ASSUME NEW c \in Call, Relay(c)
      PROVE  Looking'
  BY <1>0, <1>13 DEF Relay, children, Weigh, host, Settled, Looking
<1>14. ASSUME NEW c \in Call, Wake(c)
      PROVE  Looking'
  BY <1>0, <1>14 DEF Wake, host, children, Weigh, Settled, Looking
<1>15. ASSUME NEW c \in Call, Settle(c)
      PROVE  Looking'
  BY <1>0, <1>15 DEF Settle, children, Settled, host, Looking
<1>16. ASSUME NEW kind \in {"read", "act", "login"}, Ask(kind)
      PROVE  Looking'
  BY <1>16 DEF Ask, children, Taken, Ends, Over, Looking
<1>17. ASSUME NEW n \in Gesture, Goes(n)
      PROVE  Looking'
  <2>1. /\ UNCHANGED <<host, room, sweeper>>
        /\ \A m \in Gesture \ {n} : gestures'[m] = gestures[m]
        /\ gestures'[n].state = "covered" => room.live
    BY <1>0, <1>17, GoesIs
  <2>2. QED
    BY <1>0, <2>1 DEF host, RoomOfTheTool, Held, Looking
<1>18. ASSUME NEW n \in Gesture, LoginGoesOn(n)
      PROVE  Looking'
  <2> DEFINE number == room.looks + 1
  <2>1. /\ number \in Gesture
        /\ gestures'[number].state = "making" /\ (n # number => gestures'[n].state = "over")
        /\ \A m \in Gesture \ {n, number} : gestures'[m] = gestures[m]
    BY <1>0, <1>18, LoginGoesOnIs
  <2>2. UNCHANGED <<tool, sweeper>>
    BY <1>18 DEF LoginGoesOn, host
  <2> HIDE DEF number
  <2>3. QED
    BY <1>0, <2>1, <2>2 DEF Looking
<1>19. ASSUME NEW n \in Gesture, LoginEnds(n)
      PROVE  Looking'
  BY <1>0, <1>19 DEF LoginEnds, host, Looking
<1>20. ASSUME NEW w \in Sweepers, Look(w)
      PROVE  Looking'
  <2>1. PICK n \in sweeper[w].todo, at \in Gesture \cup {None} :
            /\ at = IF Alive(n) THEN n ELSE None
            /\ sweeper' = [sweeper EXCEPT ![w] = [sweeper[w] EXCEPT !.todo = sweeper[w].todo \ {n}, !.at = at]]
            /\ UNCHANGED <<host, children>>
    BY <1>0, <1>20, LookIs
  <2>2. sweeper[w].at = None
    BY <1>20 DEF Look
  <2>3. CASE w = "close"
    <3>1. sweeper'["close"].todo = sweeper["close"].todo \ {n} /\ sweeper'["close"].at = at
      BY <1>0, <2>1, <2>3 DEF TypeOK, Sweepers
    <3>2. \A m \in Gesture : gestures[m].state = "covered" => Alive(m) /\ m # None
      BY SessionsAssumption DEF Alive, Living, Running, Gesture
    <3>3. QED
      BY <1>0, <2>1, <2>2, <2>3, <3>1, <3>2 DEF host, children, Looking
  <2>4. CASE w # "close"
    BY <1>0, <2>1, <2>4 DEF TypeOK, Sweepers, host, children, Looking
  <2>5. QED
    BY <2>3, <2>4
<1>21. ASSUME NEW w \in Sweepers, Cancel(w)
      PROVE  Looking'
  <2>1. Stopped(w) \/ Refusal(w)
    BY <1>0, <1>21, CancelIs
  <2>2. CASE Refusal(w)
    BY <1>0, <2>2 DEF Refusal, Looking, TypeOK, Sweepers
  <2>3. CASE Stopped(w)
    <3>1. PICK n \in Gesture : /\ n = sweeper[w].at /\ gestures'[n].state = "over"
                               /\ \A m \in Gesture \ {n} : gestures'[m] = gestures[m]
      BY <1>0, <2>3, EndsOne DEF Stopped
    <3>2. tool' = tool
      BY <2>3 DEF Stopped
    <3>3. w = "close" => sweeper'["close"].todo = sweeper["close"].todo
      BY <1>0, <2>3 DEF Stopped, TypeOK, Sweepers
    <3>4. w # "close" => sweeper'["close"] = sweeper["close"]
      BY <1>0, <2>3 DEF Stopped, TypeOK, Sweepers
    <3>5. QED
      BY <1>0, <3>1, <3>2, <3>3, <3>4 DEF Looking
  <2>4. QED
    BY <2>1, <2>2, <2>3
<1>22. CASE Stop
  BY <1>0, <1>22 DEF Stop, host, children, Looking
<1>23. CASE StopGestures
  BY <1>0, <1>23 DEF StopGestures, children, host, Looking, TypeOK, Sweepers
<1>24. CASE ListTools
  BY <1>0, <1>24 DEF ListTools, host, children, Looking
<1>25. CASE AskPermission
  BY <1>0, <1>25 DEF AskPermission, host, children, Looking
<1>26. CASE ProcessEnds
  BY <1>0, <1>26 DEF ProcessEnds, host, children, Looking
<1>27. CASE Crash
  BY <1>27 DEF Crash, NoGesture, Over, Settled, Resting, Looking
<1>28. CASE StartUp
  <2>1. /\ UNCHANGED <<host, sweeper>>
        /\ \A n \in Gesture : gestures'[n] = gestures[n] \/ gestures'[n].state = "over"
    BY <1>0, <1>28, StartUpIs
  <2>2. QED
    BY <1>0, <2>1 DEF host, Looking
<1>29. CASE UNCHANGED vars
  BY <1>0, <1>29 DEF vars, core, step, host, children, Looking
<1>30. QED
  BY <1>1, <1>2, <1>3, <1>4, <1>5, <1>6, <1>7, <1>8, <1>9, <1>10, <1>11, <1>12, <1>13, <1>14, <1>15, <1>16, <1>17,
     <1>18, <1>19, <1>20, <1>21, <1>22, <1>23, <1>24, <1>25, <1>26, <1>27, <1>28, <1>29 DEF Next, ToolStep,
     CloseSteps, Gateway, GestureStep, Goes, Sweepers

\* A close that ended left nobody covered.
LEMMA ClosedKeeps ==
    ASSUME IInv, [Next]_vars
    PROVE  Closed'
<1>0. TypeOK /\ Unborn /\ RoomOfTheTool /\ Money /\ Numbers /\ Looking /\ Closed /\ Swept
  BY DEF IInv
<1>1. CASE Refused
  BY <1>0, <1>1 DEF Refused, Return, children, At, Closed, RoomOfTheTool, Held, Unborn, Before
<1>2. CASE Open
  BY <1>2 DEF Open, children, At, Closed
<1>3. CASE Launch
  BY <1>3 DEF Launch, children, At, Closed
<1>4. CASE Spawn
  BY <1>4 DEF Spawn, host, children, At, Closed
<1>5. CASE WritePid
  BY <1>5 DEF WritePid, children, At, Closed
<1>6. CASE LaunchFails
  BY <1>6 DEF LaunchFails, children, At, Closed
<1>7. CASE Watch
  BY <1>7 DEF Watch, children, At, Closed
<1>8. CASE Interrupt
  BY <1>8 DEF Interrupt, children, At, Closed
<1>9. CASE BeginClose
  BY <1>9 DEF BeginClose, children, At, Closed
<1>10. CASE FinishClose
  <2>1. tool = "closing" /\ sweeper["close"].todo = {} /\ sweeper["close"].at = None
    BY <1>10 DEF FinishClose, At, Resting
  <2>2. \A n \in Gesture : gestures[n].state # "covered"
    BY <1>0, <2>1, SessionsAssumption DEF Looking, Gesture
  <2>3. QED
    BY <1>10, <2>2 DEF FinishClose, children, Closed
<1>11. CASE Store
  BY <1>0, <1>11 DEF Store, children, At, Closed
<1>12. CASE EndParent
  BY <1>0, <1>12 DEF EndParent, host, children, Closed
<1>13. ASSUME NEW c \in Call, Relay(c)
      PROVE  Closed'
  BY <1>0, <1>13 DEF Relay, children, Weigh, host, Settled, Closed
<1>14. ASSUME NEW c \in Call, Wake(c)
      PROVE  Closed'
  BY <1>0, <1>14 DEF Wake, host, children, Weigh, Settled, Closed
<1>15. ASSUME NEW c \in Call, Settle(c)
      PROVE  Closed'
  BY <1>0, <1>15 DEF Settle, children, Settled, host, Closed
<1>16. ASSUME NEW kind \in {"read", "act", "login"}, Ask(kind)
      PROVE  Closed'
  BY <1>16 DEF Ask, children, Taken, Ends, Over, Closed
<1>17. ASSUME NEW n \in Gesture, Goes(n)
      PROVE  Closed'
  <2>1. /\ UNCHANGED <<host, room>>
        /\ \A m \in Gesture \ {n} : gestures'[m] = gestures[m]
        /\ gestures'[n].state = "covered" => room.live
    BY <1>0, <1>17, GoesIs
  <2>2. QED
    BY <1>0, <2>1 DEF host, RoomOfTheTool, Held, Closed
<1>18. ASSUME NEW n \in Gesture, LoginGoesOn(n)
      PROVE  Closed'
  <2> DEFINE number == room.looks + 1
  <2>1. /\ number \in Gesture
        /\ gestures'[number].state = "making" /\ (n # number => gestures'[n].state = "over")
        /\ \A m \in Gesture \ {n, number} : gestures'[m] = gestures[m]
    BY <1>0, <1>18, LoginGoesOnIs
  <2>2. UNCHANGED <<tool, usage>>
    BY <1>18 DEF LoginGoesOn, host
  <2> HIDE DEF number
  <2>3. QED
    BY <1>0, <2>1, <2>2 DEF Closed
<1>19. ASSUME NEW n \in Gesture, LoginEnds(n)
      PROVE  Closed'
  BY <1>0, <1>19 DEF LoginEnds, host, Closed
<1>20. ASSUME NEW w \in Sweepers, Look(w)
      PROVE  Closed'
  BY <1>0, <1>20 DEF Look, children, Alive, host, Closed
<1>21. ASSUME NEW w \in Sweepers, Cancel(w)
      PROVE  Closed'
  <2>1. Stopped(w) \/ Refusal(w)
    BY <1>0, <1>21, CancelIs
  <2>2. CASE Refusal(w)
    BY <1>0, <2>2 DEF Refusal, Closed
  <2>3. CASE Stopped(w)
    BY <1>0, <2>3, EndsOne DEF Stopped, Closed
  <2>4. QED
    BY <2>1, <2>2, <2>3
<1>22. CASE Stop
  BY <1>0, <1>22 DEF Stop, host, children, Closed
<1>23. CASE StopGestures
  BY <1>0, <1>23 DEF StopGestures, children, host, Closed
<1>24. CASE ListTools
  BY <1>0, <1>24 DEF ListTools, host, children, Closed
<1>25. CASE AskPermission
  BY <1>0, <1>25 DEF AskPermission, host, children, Closed
<1>26. CASE ProcessEnds
  BY <1>0, <1>26 DEF ProcessEnds, host, children, Closed
<1>27. CASE Crash
  BY <1>0, <1>27 DEF Crash, NoGesture, Over, Settled, Closed
<1>28. CASE StartUp
  <2>1. /\ UNCHANGED host
        /\ \A n \in Gesture : gestures'[n] = gestures[n] \/ gestures'[n].state = "over"
    BY <1>0, <1>28, StartUpIs
  <2>2. QED
    BY <1>0, <2>1 DEF host, Closed
<1>29. CASE UNCHANGED vars
  BY <1>0, <1>29 DEF vars, core, step, host, children, Closed
<1>30. QED
  BY <1>1, <1>2, <1>3, <1>4, <1>5, <1>6, <1>7, <1>8, <1>9, <1>10, <1>11, <1>12, <1>13, <1>14, <1>15, <1>16, <1>17,
     <1>18, <1>19, <1>20, <1>21, <1>22, <1>23, <1>24, <1>25, <1>26, <1>27, <1>28, <1>29 DEF Next, ToolStep,
     CloseSteps, Gateway, GestureStep, Goes, Sweepers

\* The orphans of a task that ended are over before the sweep.
LEMMA SweptKeeps ==
    ASSUME IInv, [Next]_vars
    PROVE  Swept'
<1>0. TypeOK /\ Unborn /\ RoomOfTheTool /\ Money /\ Numbers /\ Looking /\ Closed /\ Swept
  BY DEF IInv
<1>1. CASE Refused
  BY <1>1 DEF Refused, Return, core, children, step, At, Serving, Swept, Alive
<1>2. CASE Open
  BY <1>2 DEF Open, core, children, At, step, Serving, Swept, Alive
<1>3. CASE Launch
  BY <1>3 DEF Launch, core, children, At, step, Serving, Swept, Alive
<1>4. CASE Spawn
  BY <1>4 DEF Spawn, core, children, At, step, Serving, Swept, Alive
<1>5. CASE WritePid
  BY <1>5 DEF WritePid, core, children, At, step, Serving, Swept, Alive
<1>6. CASE LaunchFails
  BY <1>6 DEF LaunchFails, core, children, At, step, Serving, Swept, Alive
<1>7. CASE Watch
  BY <1>7 DEF Watch, core, children, At, step, Serving, Swept, Alive
<1>8. CASE Interrupt
  BY <1>8 DEF Interrupt, core, children, At, step, Serving, Swept, Alive
<1>9. CASE BeginClose
  BY <1>9 DEF BeginClose, core, children, At, step, Serving, Swept, Alive
<1>10. CASE FinishClose
  BY <1>10 DEF FinishClose, core, Return, children, At, Settled, step, Serving, Swept, Alive
<1>11. CASE Store
  BY <1>11 DEF Store, core, children, At, Serving, Swept, Alive
<1>12. CASE EndParent
  BY <1>12 DEF EndParent, core, Serving, children, Swept, Alive
<1>13. ASSUME NEW c \in Call, Relay(c)
      PROVE  Swept'
  BY <1>13 DEF Relay, core, children, Serving, Weigh, step, Settled, Swept, Alive
<1>14. ASSUME NEW c \in Call, Wake(c)
      PROVE  Swept'
  BY <1>14 DEF Wake, core, children, Serving, step, Weigh, Settled, Swept, Alive
<1>15. ASSUME NEW c \in Call, Settle(c)
      PROVE  Swept'
  BY <1>15 DEF Settle, core, children, Serving, Settled, step, Swept, Alive
<1>16. ASSUME NEW kind \in {"read", "act", "login"}, Ask(kind)
      PROVE  Swept'
  BY <1>16 DEF Ask, core, children, Serving, Taken, step, Ends, Over, Swept, Alive
<1>17. ASSUME NEW n \in Gesture, Goes(n)
      PROVE  Swept'
  BY <1>0, <1>17, GoesIs DEF Serving, core, Swept
<1>18. ASSUME NEW n \in Gesture, LoginGoesOn(n)
      PROVE  Swept'
  BY <1>18 DEF LoginGoesOn, Serving, core, Swept
<1>19. ASSUME NEW n \in Gesture, LoginEnds(n)
      PROVE  Swept'
  BY <1>19 DEF LoginEnds, Serving, core, Swept
<1>20. ASSUME NEW w \in Sweepers, Look(w)
      PROVE  Swept'
  BY <1>20 DEF Look, Serving, core, Swept
<1>21. ASSUME NEW w \in Sweepers, Cancel(w)
      PROVE  Swept'
  BY <1>21 DEF Cancel, Serving, core, Swept
<1>22. CASE Stop
  BY <1>22 DEF Stop, core, Serving, children, Swept, Alive
<1>23. CASE StopGestures
  BY <1>23 DEF StopGestures, core, children, Serving, step, Swept, Alive
<1>24. CASE ListTools
  BY <1>24 DEF ListTools, core, Serving, children, step, Swept, Alive
<1>25. CASE AskPermission
  BY <1>25 DEF AskPermission, core, children, Serving, step, Swept, Alive
<1>26. CASE ProcessEnds
  BY <1>0, <1>26 DEF ProcessEnds, core, children, step, Swept, Alive
<1>27. CASE Crash
  BY <1>27 DEF Crash, NoGesture, Over, Settled, step, Swept, Alive
<1>28. CASE StartUp
  <2>1. CASE up = "orphans"
    <3>1. CloseOrphans
      BY <1>28, <2>1 DEF StartUp, Does
    <3>2. parent = "ended" => \A n \in Gesture : gestures'[n].state \notin Living
      BY <3>1 DEF CloseOrphans, Alive, Over, Living, Running
    <3>3. QED
      BY <3>1, <3>2 DEF CloseOrphans, Swept, Alive
  <2>2. CASE up # "orphans"
    BY <1>0, <1>28, <2>2, StartUpIs DEF Swept
  <2>3. QED
    BY <2>1, <2>2
<1>29. CASE UNCHANGED vars
  BY <1>0, <1>29 DEF vars, core, step, host, children, Swept, Alive
<1>30. QED
  BY <1>1, <1>2, <1>3, <1>4, <1>5, <1>6, <1>7, <1>8, <1>9, <1>10, <1>11, <1>12, <1>13, <1>14, <1>15, <1>16, <1>17,
     <1>18, <1>19, <1>20, <1>21, <1>22, <1>23, <1>24, <1>25, <1>26, <1>27, <1>28, <1>29 DEF Next, ToolStep,
     CloseSteps, Gateway, GestureStep, Goes, Sweepers

\* The outcome and the tally keep to the yes.
LEMMA MoneyKeeps ==
    ASSUME IInv, [Next]_vars
    PROVE  Money'
<1>0. TypeOK /\ TypeOK' /\ Unborn /\ RoomOfTheTool /\ Money /\ Tally \in Nat /\ Tally' \in Nat
  BY TypeOKKeeps, TallyIsSum, TallyStaysSum DEF IInv
<1>1. ASSUME NEW c \in Call, Weigh(c), UNCHANGED <<tool, usage, outcome>>
      PROVE  Money'
  <2>1. /\ \A d \in Call \ {c} : calls'[d] = calls[d]
        /\ \/ \E worst \in 1 .. MaxWorst : /\ room.passed /\ Fits(worst)
                                           /\ calls'[c].pc = "flying" /\ calls'[c].worst = worst
           \/ calls'[c].pc = "over" /\ calls'[c].counted = 0
    BY <1>0, <1>1, WeighIs
  <2>2. /\ Tally' + Counted(c) = Tally + Counted(c)'
        /\ Tally \in Nat /\ Tally' \in Nat /\ Counted(c) \in Nat /\ Counted(c)' \in Nat
    BY <1>0, <2>1, TallyMoves
  <2>3. CASE calls'[c].pc = "over" /\ calls'[c].counted = 0
    <3>1. Counted(c)' = 0
      BY <2>3 DEF Counted
    <3>2. Tally' <= Tally
      BY <2>2, <3>1
    <3>3. QED
      BY <1>0, <1>1, <3>2, SmallerTallyKeeps
  <2>4. CASE \E worst \in 1 .. MaxWorst : /\ room.passed /\ Fits(worst)
                                          /\ calls'[c].pc = "flying" /\ calls'[c].worst = worst
    <3>1. PICK worst \in 1 .. MaxWorst : /\ room.passed /\ Fits(worst)
                                         /\ calls'[c].pc = "flying" /\ calls'[c].worst = worst
      BY <2>4
    <3>2. Counted(c)' = worst
      BY <3>1 DEF Counted
    <3>3. Tally' <= Amount
      BY <2>2, <3>1, <3>2, SessionsAssumption DEF Fits
    <3>4. usage = None /\ outcome = None
      BY <1>0, <3>1 DEF RoomOfTheTool, Held, Money
    <3>5. QED
      BY <1>1, <3>3, <3>4, SessionsAssumption DEF Money
  <2>5. QED
    BY <2>1, <2>3, <2>4
<1>2. ASSUME NEW c \in Call, Relay(c)
      PROVE  Money'
  <2>1. UNCHANGED <<tool, usage, outcome>>
    BY <1>2 DEF Relay, host, step
  <2>2. CASE Weigh(c)
    BY <1>1, <2>1, <2>2
  <2>3. CASE calls' = [calls EXCEPT ![c] = [pc |-> "waiting"]]
    <3>1. calls'[c].pc = "waiting" /\ calls[c].pc = "unused" /\ \A d \in Call \ {c} : calls'[d] = calls[d]
      BY <1>0, <1>2, <2>3 DEF Relay, TypeOK
    <3>2. Counted(c)' = 0 /\ Counted(c) = 0
      BY <3>1 DEF Counted
    <3>3. Tally' <= Tally
      BY <1>0, <3>1, <3>2, TallyMoves
    <3>4. QED
      BY <1>0, <2>1, <3>3, SmallerTallyKeeps
  <2>4. QED
    BY <1>2, <2>2, <2>3 DEF Relay
<1>3. ASSUME NEW c \in Call, Wake(c)
      PROVE  Money'
  BY <1>1, <1>3 DEF Wake, host, step
<1>4. ASSUME NEW c \in Call, Settle(c)
      PROVE  Money'
  <2>1. /\ \A d \in Call \ {c} : calls'[d] = calls[d]
        /\ calls[c].pc = "flying" /\ calls'[c].pc = "over" /\ calls'[c].counted <= calls[c].worst
    BY <1>0, <1>4, SettleIs
  <2>2. Counted(c)' <= Counted(c)
    BY <2>1 DEF Counted
  <2>3. Tally' <= Tally
    BY <1>0, <2>1, <2>2, TallyMoves
  <2>4. QED
    BY <1>0, <1>4, <2>3, SmallerTallyKeeps DEF Settle, host, step
<1>5. CASE FinishClose
  <2>1. Tally' = Tally
    <3>1. ASSUME NEW c \in Call
          PROVE  Counted(c)' = Counted(c)
      <4>1. CASE calls[c].pc = "flying"
        <5>1. calls'[c] = Settled(calls[c].worst) /\ calls[c].worst \in 1 .. MaxWorst
          BY <1>0, <1>5, <4>1 DEF FinishClose, TypeOK, CallStates
        <5>2. calls'[c].pc = "over" /\ calls'[c].counted = calls[c].worst
          BY <5>1 DEF Settled
        <5>3. QED
          BY <4>1, <5>2 DEF Counted
      <4>2. CASE calls[c].pc # "flying"
        <5>1. calls'[c] = calls[c]
          BY <1>5, <4>2 DEF FinishClose
        <5>2. QED
          BY <5>1 DEF Counted
      <4>3. QED
        BY <4>1, <4>2
    <3>2. QED
      BY <1>0, <3>1, TallyStays
  <2>2. tool' = "returned" /\ usage' = Tally /\ outcome' = outcome /\ outcome = None
    BY <1>0, <1>5 DEF FinishClose, At, Return, step, Money
  <2>3. QED
    BY <1>0, <2>1, <2>2 DEF Money
<1>6. CASE Crash
  <2>1. Tally' = Tally
    <3>1. ASSUME NEW c \in Call
          PROVE  Counted(c)' = Counted(c)
      <4>1. CASE calls[c].pc = "waiting"
        <5>1. calls'[c].pc = "over" /\ calls'[c].counted = 0
          BY <1>6, <4>1 DEF Crash, Settled
        <5>2. QED
          BY <4>1, <5>1 DEF Counted
      <4>2. CASE calls[c].pc # "waiting"
        <5>1. calls'[c] = calls[c]
          BY <1>6, <4>2 DEF Crash
        <5>2. QED
          BY <5>1 DEF Counted
      <4>3. QED
        BY <4>1, <4>2
    <3>2. QED
      BY <1>0, <3>1, TallyStays
  <2>2. outcome' = outcome
    BY <1>6 DEF Crash, step
  <2>3. CASE tool = "stored"
    BY <1>0, <1>6, <2>1, <2>2, <2>3 DEF Crash, Money
  <2>4. CASE tool # "stored"
    <3>1. usage' = None /\ outcome' = None
      BY <1>0, <1>6, <2>2, <2>4 DEF Crash, Money
    <3>2. QED
      BY <1>0, <2>1, <3>1, SessionsAssumption DEF Money
  <2>5. QED
    BY <2>3, <2>4
<1>7. CASE Refused
  <2>1. Tally = 0
    <3>1. ASSUME NEW c \in Call
          PROVE  Counts[c] = 0
      BY <1>0, <1>7, <3>1 DEF Refused, At, Unborn, Before, Counts, Counted
    <3>2. IsFiniteSet(Call)
      BY SessionsAssumption, FS_Interval DEF Call
    <3>3. QED
      BY <1>0, <3>1, <3>2, TallyIsSum, SumOfZeros
  <2>2. tool' = "returned" /\ usage' \in {Unknown, 0} /\ outcome' = outcome /\ outcome = None /\ calls' = calls
    BY <1>0, <1>7 DEF Refused, At, Return, step, Money
  <2>3. Tally' = Tally
    BY <1>0, <2>2, SameCallsSameTally
  <2>4. QED
    BY <1>0, <2>1, <2>2, <2>3, SessionsAssumption DEF Money
<1>8. CASE Store
  <2>1. Tally' = Tally
    BY <1>0, <1>8, SameCallsSameTally DEF Store
  <2>2. tool' = "stored" /\ outcome' = usage /\ usage' = usage
    BY <1>8 DEF Store
  <2>3. QED
    BY <1>0, <2>1, <2>2 DEF Money
<1>9. ASSUME NEW w \in Sweepers, Cancel(w)
      PROVE  Money'
  <2>1. calls' = calls /\ outcome' = outcome /\ (Stopped(w) \/ Refusal(w)) /\ sweeper[w] # Resting
    BY <1>0, <1>9, CancelIs DEF step, Resting
  <2>2. Tally' = Tally
    BY <1>0, <2>1, SameCallsSameTally
  <2>3. CASE UNCHANGED <<tool, usage>>
    BY <1>0, <2>1, <2>2, <2>3, SmallerTallyKeeps
  <2>4. CASE w = "close" /\ Refusal(w)
    <3>1. tool' = "returned" /\ usage' = Unknown /\ outcome = None
      BY <1>0, <2>1, <2>4 DEF Refusal, RoomOfTheTool, Money
    <3>2. QED
      BY <1>0, <2>1, <2>2, <3>1, SessionsAssumption DEF Money
  <2>5. QED
    BY <2>1, <2>3, <2>4 DEF Stopped, Refusal
<1>10. ASSUME \/ Open \/ Launch \/ Spawn \/ WritePid \/ LaunchFails \/ Watch \/ Interrupt \/ BeginClose
       PROVE  Money'
  <2>1. /\ calls' = calls /\ usage' = usage /\ outcome' = outcome
        /\ tool \notin {"returned", "stored"}
    BY <1>10 DEF Open, Launch, Spawn, WritePid, LaunchFails, Watch, Interrupt, BeginClose, At, step, host
  <2>2. usage = None /\ outcome = None
    BY <1>0, <2>1 DEF Money
  <2>3. Tally' = Tally
    BY <1>0, <2>1, SameCallsSameTally
  <2>4. QED
    BY <1>0, <2>1, <2>2, <2>3, SessionsAssumption DEF Money
<1>11. ASSUME \/ EndParent \/ Stop \/ StopGestures \/ ListTools \/ AskPermission \/ ProcessEnds \/ StartUp
              \/ UNCHANGED vars
              \/ \E kind \in {"read", "act", "login"} : Ask(kind)
              \/ \E n \in Gesture : Goes(n) \/ LoginGoesOn(n) \/ LoginEnds(n)
              \/ \E w \in Sweepers : Look(w)
       PROVE  Money'
  <2>1. UNCHANGED <<calls, tool, usage, outcome>>
    <3>1. ASSUME NEW w \in Sweepers, Look(w)
          PROVE  UNCHANGED <<calls, tool, usage, outcome>>
      BY <3>1 DEF Look, host, step
    <3>2. ASSUME NEW kind \in {"read", "act", "login"}, Ask(kind)
          PROVE  UNCHANGED <<calls, tool, usage, outcome>>
      BY <3>2 DEF Ask, step
    <3>3. ASSUME NEW n \in Gesture, Goes(n) \/ LoginGoesOn(n) \/ LoginEnds(n)
          PROVE  UNCHANGED <<calls, tool, usage, outcome>>
      BY <3>3 DEF Goes, Create, Unplannable, Walk, Answer, Work, LoginGoesOn, LoginEnds, host, step
    <3>4. QED
      BY <1>11, <3>1, <3>2, <3>3
        DEF EndParent, Stop, StopGestures, ListTools, AskPermission, ProcessEnds, StartUp, vars, host, step
  <2>2. Tally' = Tally
    BY <1>0, <2>1, SameCallsSameTally
  <2>3. QED
    BY <1>0, <2>1, <2>2, SmallerTallyKeeps
<1>12. QED
  BY <1>2, <1>3, <1>4, <1>5, <1>6, <1>7, <1>8, <1>9, <1>10, <1>11
    DEF Next, ToolStep, CloseSteps, Gateway, GestureStep, Goes, Sweepers

\* The initial states satisfy the invariant.
LEMMA InitGood == Init => IInv
<1> SUFFICES ASSUME Init
             PROVE  IInv
  OBVIOUS
<1>1. TypeOK
  <2>1. Shut \in Rooms
    <3>1. 0 \in 0 .. Looks + 1
      BY SessionsAssumption
    <3>2. QED
      BY <3>1, ShutIs
  <2>2. \A w \in Sweepers : sweeper[w] \in [due : BOOLEAN, todo : SUBSET Gesture, at : Gesture \cup {None}]
    BY RestingIs DEF Init
  <2>3. calls \in [Call -> CallStates]
    BY DEF Init, CallStates
  <2>4. gestures \in [Gesture -> GestureStates]
    BY DEF Init, NoGesture, GestureStates
  <2>5. QED
    BY <2>1, <2>2, <2>3, <2>4, SessionsAssumption DEF Init, TypeOK, ToolSteps
<1>2. ~room.live /\ ~room.passed /\ room.looks = 0
  BY DEF Init, Shut
<1>3. Unborn
  BY <1>2 DEF Init, Unborn, NoGesture
<1>4. RoomOfTheTool
  BY <1>2 DEF Init, RoomOfTheTool, Sweepers
<1>5. Money
  <2>1. IsFiniteSet(Call)
    BY SessionsAssumption, FS_Interval DEF Call
  <2>2. \A c \in Call : Counts[c] = 0
    BY DEF Init, Counts, Counted
  <2>3. Tally = 0
    BY <1>1, <2>1, <2>2, TallyIsSum, SumOfZeros
  <2>4. QED
    BY <2>3, SessionsAssumption DEF Init, Money
<1>6. Numbers
  <2>1. Cardinality(following) = 0
    BY FS_EmptySet DEF Init
  <2>2. QED
    BY <1>2, <2>1, SessionsAssumption DEF Init, Numbers, NoGesture, Held
<1>7. Looking /\ Closed /\ Swept
  BY DEF Init, Looking, Closed, Swept
<1>8. QED
  BY <1>1, <1>3, <1>4, <1>5, <1>6, <1>7 DEF IInv

\* Every step keeps it.
LEMMA NextKeeps == IInv /\ [Next]_vars => IInv'
<1> SUFFICES ASSUME IInv, [Next]_vars
             PROVE  IInv'
  OBVIOUS
<1>1. TypeOK' /\ Unborn' /\ RoomOfTheTool' /\ Money' /\ Numbers' /\ Looking' /\ Closed' /\ Swept'
  BY TypeOKKeeps, UnbornKeeps, RoomOfTheToolKeeps, MoneyKeeps, NumbersKeeps, LookingKeeps, ClosedKeeps, SweptKeeps
<1>2. QED
  BY <1>1 DEF IInv

-------------------------------------------------------------------------------
(* The theorems *)

\* The invariant holds in every reachable state.
THEOREM InvariantHolds == Spec => []IInv
BY InitGood, NextKeeps, PTL DEF Spec

\* The records of the room, the budget, the gestures and the stops keep their shape.
\* sessions.py:108, spending.py:431
THEOREM TypesHold == Spec => []TypeOK
<1>1. IInv => TypeOK
  BY DEF IInv
<1>2. QED
  BY <1>1, InvariantHolds, PTL

\* What the provider may have charged is written, and is within the cost the user said yes to, whatever was in
\* flight at the close or at the death of the process.
\* spending.py:526, sessions.py:278
THEOREM ChargesAreCountedHolds == Spec => []ChargesAreCounted
<1>1. IInv => ChargesAreCounted
  <2> SUFFICES ASSUME IInv
               PROVE  ChargesAreCounted
    OBVIOUS
  <2>1. Money /\ TypeOK /\ Tally \in Nat
    BY TallyIsSum DEF IInv
  <2>2. CASE outcome \in Nat
    <3>1. outcome # None /\ outcome = usage
      BY <2>1, <2>2, SessionsAssumption DEF Money
    <3>2. QED
      BY <2>1, <2>2, <3>1, SessionsAssumption DEF Money, ChargesAreCounted
  <2>3. CASE outcome \notin Nat
    BY <2>1, <2>3, SessionsAssumption DEF Money, ChargesAreCounted
  <2>4. QED
    BY <2>2, <2>3
<1>2. QED
  BY <1>1, InvariantHolds, PTL

\* The gestures of a session are as many as its yes, at most, a login counting for both of its halves.
\* sessions.py:226, guided.py:608
THEOREM YesCoversGesturesHolds == Spec => []YesCoversGestures
<1>1. IInv => YesCoversGestures
  <2> SUFFICES ASSUME IInv
               PROVE  YesCoversGestures
    OBVIOUS
  <2> DEFINE S == {n \in Gesture : gestures[n].state # "none"}
             L == 1 .. Looks
  <2>1. S \in SUBSET L
    BY SessionsAssumption DEF IInv, Numbers, Gesture
  <2>2. IsFiniteSet(L) /\ Cardinality(L) = Looks
    <3>1. IsFiniteSet(L) /\ Cardinality(L) = IF 1 > Looks THEN 0 ELSE Looks - 1 + 1
      BY SessionsAssumption, FS_Interval
    <3>2. QED
      BY <3>1, SessionsAssumption
  <2> HIDE DEF L
  <2>3. Cardinality(S) <= Cardinality(L)
    BY <2>1, <2>2, FS_Subset
  <2>4. QED
    BY <2>2, <2>3 DEF YesCoversGestures
<1>2. QED
  BY <1>1, InvariantHolds, PTL

\* A session that was closed leaves no gesture at work on its own word.
\* sessions.py:274, sessions.py:298
THEOREM QuietAfterTheCloseHolds == Spec => []QuietAfterTheClose
<1>1. IInv => QuietAfterTheClose
  BY DEF IInv, Closed, QuietAfterTheClose
<1>2. QED
  BY <1>1, InvariantHolds, PTL

\* The start-up ends every child of a session whose task has ended, and the process whose pid was written.
\* app.py:249, sessions.py:384, agent.py:275
THEOREM StartUpLeavesNothingHolds == Spec => StartUpLeavesNothing
<1>1. ASSUME IInv, [Next]_vars, ~Serving, up' = "serving"
      PROVE  (parent = "ended" => \A n \in Gesture : ~Alive(n)) /\ process' # "written"
  <2>1. StartUp
    <3>1. ASSUME NEW w \in Sweepers, Look(w) \/ Cancel(w)
          PROVE  FALSE
      BY <1>1, <3>1 DEF Look, Cancel
    <3>2. ASSUME NEW c \in Call, Gateway(c)
          PROVE  FALSE
      BY <1>1, <3>2 DEF Gateway, Relay, Wake, Settle
    <3>3. ASSUME NEW n \in Gesture, GestureStep(n)
          PROVE  FALSE
      BY <1>1, <3>3 DEF GestureStep, Create, Unplannable, Walk, Answer, Work, LoginGoesOn, LoginEnds
    <3>4. ASSUME NEW kind \in {"read", "act", "login"}, Ask(kind)
          PROVE  FALSE
      BY <1>1, <3>4 DEF Ask
    <3>5. ASSUME Refused \/ Open \/ Launch \/ Spawn \/ WritePid \/ LaunchFails \/ Watch \/ Interrupt
                   \/ BeginClose \/ FinishClose \/ Store
          PROVE  FALSE
      BY <1>1, <3>5
        DEF Refused, Open, Launch, Spawn, WritePid, LaunchFails, Watch, Interrupt, BeginClose, FinishClose, Store, At
    <3>6. ASSUME EndParent \/ Stop \/ StopGestures \/ ListTools \/ AskPermission \/ ProcessEnds \/ Crash
                   \/ UNCHANGED vars
          PROVE  FALSE
      BY <1>1, <3>6
        DEF EndParent, Stop, StopGestures, ListTools, AskPermission, ProcessEnds, Crash, vars, core, Serving
    <3>7. QED
      BY <1>1, <3>1, <3>2, <3>3, <3>4, <3>5, <3>6 DEF Next, ToolStep, CloseSteps, Sweepers
  <2>2. up = "sweeping"
    BY <1>1, <2>1 DEF StartUp, After, IInv, TypeOK, Booting
  <2>3. process' # "written"
    <3>1. Sweep
      BY <2>1, <2>2 DEF StartUp, Does
    <3>2. QED
      BY <3>1 DEF Sweep
  <2>4. QED
    BY <1>1, <2>2, <2>3 DEF IInv, Swept
<1>2. IInv /\ [Next]_vars => [~Serving /\ up' = "serving" =>
                                /\ parent = "ended" => \A n \in Gesture : ~Alive(n)
                                /\ process' # "written"]_vars
  BY <1>1
<1>3. QED
  BY <1>2, InvariantHolds, PTL DEF Spec, StartUpLeavesNothing
===============================================================================
