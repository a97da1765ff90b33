--------------------------- MODULE AssignmentsProofs ---------------------------
(***************************************************************************)
(* What holds of the work handed to the nodes for every set of tasks and   *)
(* nodes, every length of a claim and any number of crashes.               *)
(***************************************************************************)
EXTENDS Assignments, SetLemmas

-------------------------------------------------------------------------------
(* The inductive invariant *)

\* The stages a call goes through, by what it is.
StagesOf(kind) ==
    {"idle"} \cup
        (IF kind = "run"
         THEN {"walk", "place", "execute", "offer", "lapse", "lapsed", "finish", "leave"} ELSE {})
        \cup (IF kind = "ask" THEN {"begin", "sign", "claim", "record"} ELSE {})
        \cup (IF kind = "stop" THEN {"stopped"} ELSE {})
        \cup (IF kind \in {"run", "ask", "stop"} THEN {"close", "expire"} ELSE {})
        \cup (IF kind = "deliver" THEN {"gate", "store", "refuse", "mark", "close"} ELSE {})
        \cup (IF kind = "renew" THEN {"sign", "renew"} ELSE {})
        \cup (IF kind = "revoke" THEN {"cut"} ELSE {})
\* Each call is at a stage of its own, has read an instant that was, and names a row of the table.
Called ==
    \A c \in Calls :
        /\ call[c].pc \in StagesOf(c.kind)
        /\ call[c].at <= now
        /\ c.kind \in {"ask", "deliver", "renew"} /\ call[c].pc # "idle" => call[c].id \in DOMAIN rows

\* Nothing is served while the Core is down, no sign of life is in the future, and what the nodes
\* hold is in the table.
Named ==
    /\ ~up => \A c \in Calls : call[c] = Idle
    /\ \A t \in Task : seen[t] <= now
    /\ \A d \in Node : /\ node[d].order # None => node[d].order \in DOMAIN rows
                       /\ node[d].envelope # None => node[d].order # None
    /\ ran \cup released \subseteq DOMAIN rows

\* The call c is about the task t, and holds its lock for as long as it is.
About(c, t) ==
    /\ call[c].pc # "idle"
    /\ \/ c.kind = "run" /\ c.of = t
       \/ c.kind = "stop" /\ c.of = t /\ call[c].pc # "stopped"
       \/ c.kind \in {"ask", "deliver"} /\ rows[call[c].id].task = t
Locks == \A c \in Calls, t \in Task : (lock[t] = c) <=> About(c, t)

\* The last row of a task.
IsLast(t, i) == i \in OfTask(t) /\ \A j \in OfTask(t) : j <= i
Over(t) == step[t] \in {"completed", "failed", "cancelled"}
AllExpired(t) == \A i \in OfTask(t) : rows[i].state = "expired"
\* What Standing tells live or lapsed, whatever the instant.
Found(t) ==
    \E i \in OfTask(t) : /\ IsLast(t, i) /\ i \notin released
                         /\ rows[i].state \in {"offered", "claimed", "expired"}

\* What the table says of a task, against its step and its records.
Table(t) ==
    /\ \A i \in OfTask(t) : rows[i].state # "expired" => IsLast(t, i)
    /\ \A i \in OfTask(t) : i \in released => rows[i].state = "expired"
    /\ step[t] = "pending" => AllExpired(t)
    /\ \A i \in OfTask(t) : rows[i].state = "delivered" => i \in outcomes[t] \/ Over(t)
Records(t) ==
    /\ started[t] \subseteq OfTask(t) /\ outcomes[t] \subseteq OfTask(t)
    /\ \A i \in outcomes[t] : IsLast(t, i) /\ i \notin released
    /\ outcomes[t] # {} => step[t] # "pending"
    /\ \A i \in started[t] : /\ t \notin Relocatable /\ IsLast(t, i) /\ i \notin released
                             /\ rows[i].state \in {"claimed", "expired", "delivered"}
    /\ t \notin Relocatable => /\ \A d \in Node : node[d].order \in OfTask(t) => node[d].order \in started[t]
                               /\ ran \cap OfTask(t) \subseteq started[t]

\* What the call that holds the lock of a task has made sure of.
Lapsing(t) == step[t] = "running" /\ outcomes[t] = {} /\ Found(t)
Running(t) ==
    LET pc == call[RunOf(t)].pc IN
    /\ pc = "place" => step[t] \in {"pending", "running"}
    /\ pc \in {"execute", "offer", "lapse", "lapsed", "finish"} => step[t] = "running"
    /\ pc \in {"execute", "offer"} => placed[t] \in Node
    /\ pc = "offer" => ~LeftBehind(t) /\ call[RunOf(t)].at <= seen[t]
    /\ pc = "lapse" => Found(t)
    /\ pc = "lapsed" => OfTask(t) # {} /\ AllExpired(t)
    /\ pc = "finish" => LeftBehind(t)
    /\ pc \in {"close", "expire"} => task[t] = "ended"
    /\ pc = "expire" => Lapsing(t)
Stopping(t) ==
    LET pc == call[StopOf(t)].pc IN
    /\ pc # "idle" => task[t] = "ended"
    /\ pc = "expire" => Lapsing(t)
Asking(t) ==
    \A d \in Node :
        LET c == call[AskOf(d)] IN
        About(AskOf(d), t) =>
            /\ rows[c.id].state = IF c.pc = "record" THEN "claimed" ELSE "offered"
            /\ c.pc \in {"sign", "claim", "record"} => step[t] = "running"
            /\ c.pc = "claim" => c.at <= seen[t]
            /\ c.pc \in {"close", "expire"} => task[t] = "ended"
            /\ c.pc = "expire" => Lapsing(t)
Delivering(t) ==
    \A d \in Node :
        LET c == call[DeliverOf(d)] IN
        About(DeliverOf(d), t) =>
            /\ c.pc \in {"store", "refuse", "mark"} => rows[c.id].state = "claimed"
            /\ c.pc \in {"store", "refuse"} => step[t] = "running"
            /\ c.pc = "mark" => c.id \in outcomes[t] \/ Over(t)
            /\ c.pc = "close" => rows[c.id].state = "delivered"
            /\ t \notin Relocatable => c.id \in started[t]

\* A sign of life of the task is as late as what its live rows were written from.
Signed(t) ==
    task[t] # "ended" =>
        /\ \A i \in OfTask(t) : rows[i].state \in {"offered", "claimed"} => rows[i].expires <= seen[t] + TTL
        /\ \A d \in Node : LET c == call[RenewOf(d)] IN
              c.pc = "renew" /\ rows[c.id].task = t => c.at <= seen[t]

\* Whoever holds the lock of a task whose step runs with nothing to find will not leave it so.
Tracked(t) ==
    crashes = 0 =>
        /\ step[t] = "running" /\ ~Found(t) =>
              \/ call[RunOf(t)].pc \in {"execute", "offer", "close"}
              \/ \E d \in Node : About(DeliverOf(d), t) /\ call[DeliverOf(d)].pc = "close"
        /\ call[RunOf(t)].pc = "place" => step[t] = "pending"
        /\ call[RunOf(t)].pc \in {"execute", "offer"} => AllExpired(t)
Caught(t) ==
    t \notin Relocatable /\ up /\ task[t] = "ended" /\ step[t] = "running" /\ ~Found(t) =>
        \/ call[RunOf(t)].pc # "idle" \/ call[StopOf(t)].pc # "idle"
        \/ \E d \in Node : About(DeliverOf(d), t) /\ rows[call[DeliverOf(d)].id].state = "delivered"

Rows(t) == Table(t) /\ Records(t)
Holders(t) == Running(t) /\ Stopping(t) /\ Asking(t) /\ Delivering(t)
Ends(t) == Signed(t) /\ Tracked(t) /\ Caught(t)
Typed == TypeOK /\ Called /\ Named /\ Locks
IInv == Typed /\ \A t \in Task : Rows(t) /\ Holders(t) /\ Ends(t)

-------------------------------------------------------------------------------
(* Calls *)

\* The names of the calls.
LEMMA CallNames ==
    /\ \A t \in Task : RunOf(t) \in Calls /\ StopOf(t) \in Calls
    /\ \A d \in Node : AskOf(d) \in Calls /\ DeliverOf(d) \in Calls /\ RenewOf(d) \in Calls /\ RevokeOf(d) \in Calls
    /\ \A t : /\ RunOf(t).kind = "run" /\ RunOf(t).of = t /\ StopOf(t).kind = "stop" /\ StopOf(t).of = t
              /\ AskOf(t).kind = "ask" /\ AskOf(t).of = t /\ DeliverOf(t).kind = "deliver" /\ DeliverOf(t).of = t
              /\ RenewOf(t).kind = "renew" /\ RenewOf(t).of = t /\ RevokeOf(t).kind = "revoke" /\ RevokeOf(t).of = t
BY DEF Calls, RunOf, StopOf, AskOf, DeliverOf, RenewOf, RevokeOf

\* A call is one of these.
LEMMA CallIs ==
    ASSUME NEW c \in Calls
    PROVE  /\ c.kind = "run" => c.of \in Task /\ c = RunOf(c.of)
           /\ c.kind = "stop" => c.of \in Task /\ c = StopOf(c.of)
           /\ c.kind = "ask" => c.of \in Node /\ c = AskOf(c.of)
           /\ c.kind = "deliver" => c.of \in Node /\ c = DeliverOf(c.of)
           /\ c.kind = "renew" => c.of \in Node /\ c = RenewOf(c.of)
           /\ c.kind = "revoke" => c.of \in Node /\ c = RevokeOf(c.of)
           /\ c.kind \in {"run", "stop", "ask", "deliver", "renew", "revoke"}
BY DEF Calls, RunOf, StopOf, AskOf, DeliverOf, RenewOf, RevokeOf

\* What a call of a kind may be doing.
LEMMA StagesAre ==
    /\ StagesOf("run") = {"idle", "walk", "place", "execute", "offer", "lapse", "lapsed", "finish", "leave", "close", "expire"}
    /\ StagesOf("stop") = {"idle", "stopped", "close", "expire"}
    /\ StagesOf("ask") = {"idle", "begin", "sign", "claim", "record", "close", "expire"}
    /\ StagesOf("deliver") = {"idle", "gate", "store", "refuse", "mark", "close"}
    /\ StagesOf("renew") = {"idle", "sign", "renew"}
    /\ StagesOf("revoke") = {"idle", "cut"}
BY DEF StagesOf

\* Every stage of a call is one of the stages.
LEMMA StagesAreStages == \A kind : StagesOf(kind) \subseteq Stages
BY DEF StagesOf, Stages

\* The table of assignments, row by row.
LEMMA RowFacts ==
    ASSUME TypeOK
    PROVE  /\ Len(rows) \in Nat /\ DOMAIN rows = 1 .. Len(rows) /\ DOMAIN rows \subseteq Id /\ DOMAIN rows \subseteq Nat
           /\ \A i \in DOMAIN rows : /\ rows[i] \in Row /\ rows[i].task \in Task /\ rows[i].device \in Node
                                     /\ rows[i].state \in RowStates /\ rows[i].expires \in Nat /\ rows[i].claimed \in Nat
<1>1. rows \in Seq(Row) /\ Len(rows) <= MaxRows /\ MaxRows \in Nat
  BY AssignmentsAssumption DEF TypeOK
<1>2. Len(rows) \in Nat /\ DOMAIN rows = 1 .. Len(rows) /\ \A i \in DOMAIN rows : rows[i] \in Row
  BY <1>1
<1>3. \A i \in DOMAIN rows : rows[i].task \in Task /\ rows[i].device \in Node
                                     /\ rows[i].state \in RowStates /\ rows[i].expires \in Nat /\ rows[i].claimed \in Nat
  BY <1>2 DEF Row
<1>4. DOMAIN rows \subseteq Id /\ DOMAIN rows \subseteq Nat
  BY <1>1, <1>2 DEF Id
<1>5. QED
  BY <1>2, <1>3, <1>4

\* The latest row of a task that has one is its last.
LEMMA LatestIsLast ==
    ASSUME TypeOK, NEW t \in Task
    PROVE  /\ OfTask(t) # {} => IsLast(t, Latest(t))
           /\ \A i \in OfTask(t) : IsLast(t, i) => Latest(t) = i
<1>1. Len(rows) \in Nat /\ OfTask(t) \in SUBSET (0 .. Len(rows))
  BY RowFacts DEF OfTask
<1>2. ASSUME OfTask(t) # {}
      PROVE  IsLast(t, Latest(t))
  <2>1. Max(OfTask(t)) \in OfTask(t) /\ \A y \in OfTask(t) : y <= Max(OfTask(t))
    BY <1>1, <1>2, MaxOfInterval
  <2>2. QED
    BY <2>1 DEF IsLast, Latest
<1>3. ASSUME NEW i \in OfTask(t), IsLast(t, i)
      PROVE  Latest(t) = i
  <2>1. Latest(t) \in OfTask(t) /\ Latest(t) <= i /\ i <= Latest(t)
    BY <1>2, <1>3 DEF IsLast
  <2>2. i \in Nat /\ Latest(t) \in Nat
    BY <1>1, <2>1
  <2>3. QED
    BY <2>1, <2>2
<1>4. QED
  BY <1>2, <1>3

\* What Standing tells.
LEMMA StandingTells ==
    ASSUME TypeOK, NEW t \in Task
    PROVE  /\ Standing(t) \in {"live", "lapsed"} <=> Found(t)
           /\ Standing(t) \in {"none", "delivered", "live", "lapsed"}
           /\ Standing(t) = "delivered" => \E i \in OfTask(t) : IsLast(t, i) /\ rows[i].state = "delivered" /\ i \notin released
           /\ Standing(t) = "live" => /\ OfTask(t) # {} /\ Latest(t) \in OfTask(t) /\ IsLast(t, Latest(t)) /\ Latest(t) \notin released
                                      /\ rows[Latest(t)].state \in {"offered", "claimed"}
           /\ Standing(t) = "lapsed" => /\ OfTask(t) # {} /\ Latest(t) \in OfTask(t) /\ IsLast(t, Latest(t)) /\ Latest(t) \notin released
                                        /\ rows[Latest(t)].state \in {"offered", "claimed", "expired"}
<1>1. CASE OfTask(t) = {}
  BY <1>1 DEF Standing, Found
<1>2. CASE OfTask(t) # {}
  <2> DEFINE l == Latest(t)
  <2>1. IsLast(t, l) /\ l \in OfTask(t) /\ \A i \in OfTask(t) : IsLast(t, i) => l = i
    BY <1>2, LatestIsLast DEF IsLast
  <2>2. rows[l].state \in RowStates
    BY <2>1, RowFacts DEF OfTask
  <2> HIDE DEF l
  <2>3. Found(t) <=> l \notin released /\ rows[l].state \in {"offered", "claimed", "expired"}
    BY <2>1 DEF Found
  <2>4. Standing(t) = IF rows[l].state = "withdrawn" \/ l \in released THEN "none"
                      ELSE IF rows[l].state = "delivered" THEN "delivered"
                      ELSE IF Alive(rows[l], now) THEN "live" ELSE "lapsed"
    BY <1>2 DEF Standing, l
  <2>5. Alive(rows[l], now) => rows[l].state \in {"offered", "claimed"}
    BY DEF Alive
  <2>6. QED
    BY <1>2, <2>1, <2>2, <2>3, <2>4, <2>5 DEF l, RowStates
<1>3. QED
  BY <1>1, <1>2

-------------------------------------------------------------------------------
(* What a step does to the calls and the locks *)

\* The rows stay in the table, and rows stay about what they were about.
RowsStay ==
    /\ DOMAIN rows \subseteq DOMAIN rows'
    /\ \A i \in DOMAIN rows : rows'[i].task = rows[i].task

OthersStay(c) == \A o \in Calls \ {c} : call'[o] = call[o]
CallsTyped == call' \in [Calls -> CallState] /\ lock' \in [Task -> Calls \cup {None}]

\* The call c, which holds or takes the lock of t, has nothing to do with another task.
OnlyAbout(c, t) ==
    /\ \A u \in Task \ {t} : ~About(c, u) /\ ~About(c, u)'
    /\ \A o \in Calls \ {c} : ~About(o, t) /\ ~About(o, t)'

\* A call is about one task.
LEMMA AboutOne ==
    ASSUME NEW c, NEW t, NEW u, About(c, t), About(c, u)
    PROVE  t = u
BY DEF About

\* The other calls are about what they were.
LEMMA OthersAbout ==
    ASSUME Typed, RowsStay, NEW c \in Calls, OthersStay(c)
    PROVE  \A o \in Calls \ {c}, u \in Task : (About(o, u)' <=> About(o, u))
<1> TAKE o \in Calls \ {c}, u \in Task
<1>1. call'[o] = call[o]
  BY DEF OthersStay
<1>2. o.kind \in {"ask", "deliver"} /\ call[o].pc # "idle" => rows'[call[o].id].task = rows[call[o].id].task
  BY DEF Typed, Called, RowsStay
<1>3. QED
  BY <1>1, <1>2 DEF About

\* The holder of the lock goes on.
LEMMA HolderGoes ==
    ASSUME Typed, RowsStay, NEW c \in Calls, NEW t \in Task, About(c, t), UNCHANGED <<now, lock>>,
           NEW s \in CallState, s.pc \in StagesOf(c.kind), s.pc \notin {"idle", "stopped"}, s.at <= now, s.id = call[c].id,
           call' = [call EXCEPT ![c] = s]
    PROVE  /\ CallsTyped /\ Called' /\ Locks' /\ OthersStay(c) /\ call'[c] = s
           /\ About(c, t)' /\ OnlyAbout(c, t)
<1>1. call \in [Calls -> CallState] /\ lock \in [Task -> Calls \cup {None}]
  BY DEF Typed, TypeOK
<1>2. CallsTyped /\ OthersStay(c) /\ call'[c] = s
  BY <1>1 DEF CallsTyped, OthersStay
<1>3. Called'
  <2> SUFFICES ASSUME NEW o \in Calls
               PROVE  /\ call'[o].pc \in StagesOf(o.kind)
                      /\ call'[o].at <= now
                      /\ o.kind \in {"ask", "deliver", "renew"} /\ call'[o].pc # "idle" => call'[o].id \in DOMAIN rows'
    BY DEF Called
  <2>1. CASE o = c
    BY <2>1, <1>2 DEF Typed, Called, RowsStay, About
  <2>2. CASE o # c
    <3>1. call'[o] = call[o]
      BY <2>2, <1>2 DEF OthersStay
    <3>2. QED
      BY <3>1 DEF Typed, Called, RowsStay
  <2>3. QED
    BY <2>1, <2>2
<1>4. \A u \in Task : (About(c, u)' <=> About(c, u))
  <2> TAKE u \in Task
  <2>1. call[c].pc # "idle" /\ (c.kind = "stop" => call[c].pc # "stopped")
    BY DEF About
  <2>2. c.kind \in {"ask", "deliver"} => rows'[s.id].task = rows[call[c].id].task
    BY <2>1 DEF Typed, Called, RowsStay
  <2>3. QED
    BY <2>1, <2>2, <1>2 DEF About
<1>5. \A o \in Calls \ {c}, u \in Task : (About(o, u)' <=> About(o, u))
  BY <1>2, OthersAbout
<1>6. Locks'
  BY <1>4, <1>5 DEF Typed, Locks
<1>7. OnlyAbout(c, t)
  <2>1. \A u \in Task \ {t} : ~About(c, u)
    BY AboutOne
  <2>2. \A o \in Calls \ {c} : ~About(o, t)
    BY DEF Typed, Locks
  <2>3. QED
    BY <2>1, <2>2, <1>4, <1>5 DEF OnlyAbout
<1>8. QED
  BY <1>2, <1>3, <1>4, <1>6, <1>7

\* What a free place says.
LEMMA IdleIs == Idle \in CallState /\ Idle.pc = "idle" /\ Idle.at = 0 /\ Idle.id = None /\ Idle.envelope = None
BY DEF Idle, CallState, Stages

\* The holder of the lock returns.
LEMMA HolderLeaves ==
    ASSUME Typed, RowsStay, NEW c \in Calls, NEW t \in Task, About(c, t), UNCHANGED now, Leave(c, t)
    PROVE  /\ CallsTyped /\ Called' /\ Locks' /\ OthersStay(c) /\ call'[c] = Idle
           /\ ~About(c, t)' /\ OnlyAbout(c, t)
<1>1. call \in [Calls -> CallState] /\ lock \in [Task -> Calls \cup {None}] /\ now \in Nat
  BY AssignmentsAssumption DEF Typed, TypeOK
<1>2. CallsTyped /\ OthersStay(c) /\ call'[c] = Idle /\ lock'[t] = None /\ \A u \in Task \ {t} : lock'[u] = lock[u]
  BY <1>1, IdleIs DEF CallsTyped, OthersStay, Leave, Return
<1>3. Called'
  <2> SUFFICES ASSUME NEW o \in Calls
               PROVE  /\ call'[o].pc \in StagesOf(o.kind)
                      /\ call'[o].at <= now
                      /\ o.kind \in {"ask", "deliver", "renew"} /\ call'[o].pc # "idle" => call'[o].id \in DOMAIN rows'
    BY DEF Called
  <2>1. CASE o = c
    BY <2>1, <1>1, <1>2, IdleIs DEF StagesOf
  <2>2. CASE o # c
    <3>1. call'[o] = call[o]
      BY <2>2, <1>2 DEF OthersStay
    <3>2. QED
      BY <3>1 DEF Typed, Called, RowsStay
  <2>3. QED
    BY <2>1, <2>2
<1>4. \A u \in Task : ~About(c, u)'
  BY <1>2, IdleIs DEF About
<1>5. \A o \in Calls \ {c}, u \in Task : (About(o, u)' <=> About(o, u))
  BY <1>2, OthersAbout
<1>6. lock[t] = c
  BY DEF Typed, Locks
<1>7. Locks'
  <2> SUFFICES ASSUME NEW o \in Calls, NEW u \in Task
               PROVE  (lock'[u] = o) <=> About(o, u)'
    BY DEF Locks
  <2>1. None # o
    BY NoneIsNothing
  <2>2. (lock[u] = o) <=> About(o, u)
    BY DEF Typed, Locks
  <2>3. About(c, u) => u = t
    BY AboutOne
  <2>4. QED
    BY <1>2, <1>4, <1>5, <1>6, <2>1, <2>2, <2>3
<1>8. OnlyAbout(c, t)
  <2>1. \A u \in Task \ {t} : ~About(c, u)
    BY AboutOne
  <2>2. \A o \in Calls \ {c} : ~About(o, t)
    BY DEF Typed, Locks
  <2>3. QED
    BY <2>1, <2>2, <1>4, <1>5 DEF OnlyAbout
<1>9. QED
  BY <1>2, <1>3, <1>4, <1>7, <1>8

\* A call takes the lock of t.
LEMMA HolderTakes ==
    ASSUME Typed, RowsStay, NEW c \in Calls, NEW t \in Task, UNCHANGED now, Take(c, t), \A u \in Task : ~About(c, u),
           NEW s \in CallState, s.pc \in StagesOf(c.kind), s.pc \notin {"idle", "stopped"}, s.at <= now,
           \/ c \in {RunOf(t), StopOf(t)}
           \/ c.kind \in {"ask", "deliver"} /\ s.id \in DOMAIN rows /\ rows[s.id].task = t,
           call' = [call EXCEPT ![c] = s]
    PROVE  /\ CallsTyped /\ Called' /\ Locks' /\ OthersStay(c) /\ call'[c] = s
           /\ About(c, t)' /\ OnlyAbout(c, t)
<1>1. call \in [Calls -> CallState] /\ lock \in [Task -> Calls \cup {None}]
  BY DEF Typed, TypeOK
<1>2. /\ CallsTyped /\ OthersStay(c) /\ call'[c] = s /\ lock'[t] = c /\ lock[t] = None
      /\ \A u \in Task \ {t} : lock'[u] = lock[u]
  BY <1>1 DEF CallsTyped, OthersStay, Take, Free
<1>3. Called'
  <2> SUFFICES ASSUME NEW o \in Calls
               PROVE  /\ call'[o].pc \in StagesOf(o.kind)
                      /\ call'[o].at <= now
                      /\ o.kind \in {"ask", "deliver", "renew"} /\ call'[o].pc # "idle" => call'[o].id \in DOMAIN rows'
    BY DEF Called
  <2>1. CASE o = c
    BY <2>1, <1>2, CallNames DEF RowsStay
  <2>2. CASE o # c
    <3>1. call'[o] = call[o]
      BY <2>2, <1>2 DEF OthersStay
    <3>2. QED
      BY <3>1 DEF Typed, Called, RowsStay
  <2>3. QED
    BY <2>1, <2>2
<1>4. \A u \in Task : About(c, u)' <=> u = t
  <2>1. c.kind \in {"ask", "deliver"} => rows'[s.id].task = t
    BY CallNames DEF RowsStay
  <2>2. c \in {RunOf(t), StopOf(t)} => c.of = t /\ c.kind \in {"run", "stop"}
    BY CallNames
  <2>3. QED
    BY <1>2, <2>1, <2>2 DEF About
<1>5. \A o \in Calls \ {c}, u \in Task : (About(o, u)' <=> About(o, u))
  BY <1>2, OthersAbout
<1>6. \A o \in Calls : ~About(o, t)
  BY <1>2, NoneIsNothing DEF Typed, Locks
<1>7. Locks'
  <2> SUFFICES ASSUME NEW o \in Calls, NEW u \in Task
               PROVE  (lock'[u] = o) <=> About(o, u)'
    BY DEF Locks
  <2>1. (lock[u] = o) <=> About(o, u)
    BY DEF Typed, Locks
  <2>2. QED
    BY <1>2, <1>4, <1>5, <1>6, <2>1
<1>8. OnlyAbout(c, t)
  BY <1>4, <1>5, <1>6 DEF OnlyAbout
<1>9. QED
  BY <1>2, <1>3, <1>4, <1>7, <1>8

\* A call that holds no lock moves.
LEMMA LooseMoves ==
    ASSUME Typed, RowsStay, NEW c \in Calls, UNCHANGED <<now, lock>>,
           NEW s \in CallState, s.pc \in StagesOf(c.kind), s.at <= now,
           c.kind \in {"renew", "revoke"} \/ (c.kind = "stop" /\ {call[c].pc, s.pc} \subseteq {"idle", "stopped"}),
           c.kind = "renew" /\ s.pc # "idle" => s.id \in DOMAIN rows,
           call' = [call EXCEPT ![c] = s]
    PROVE  /\ CallsTyped /\ Called' /\ Locks' /\ OthersStay(c) /\ call'[c] = s
           /\ \A o \in Calls, u \in Task : (About(o, u)' <=> About(o, u))
           /\ \A u \in Task : ~About(c, u)
<1>1. call \in [Calls -> CallState] /\ lock \in [Task -> Calls \cup {None}]
  BY DEF Typed, TypeOK
<1>2. CallsTyped /\ OthersStay(c) /\ call'[c] = s
  BY <1>1 DEF CallsTyped, OthersStay
<1>3. Called'
  <2> SUFFICES ASSUME NEW o \in Calls
               PROVE  /\ call'[o].pc \in StagesOf(o.kind)
                      /\ call'[o].at <= now
                      /\ o.kind \in {"ask", "deliver", "renew"} /\ call'[o].pc # "idle" => call'[o].id \in DOMAIN rows'
    BY DEF Called
  <2>1. CASE o = c
    BY <2>1, <1>2 DEF RowsStay
  <2>2. CASE o # c
    <3>1. call'[o] = call[o]
      BY <2>2, <1>2 DEF OthersStay
    <3>2. QED
      BY <3>1 DEF Typed, Called, RowsStay
  <2>3. QED
    BY <2>1, <2>2
<1>4. \A u \in Task : ~About(c, u) /\ ~About(c, u)'
  BY <1>2 DEF About
<1>5. \A o \in Calls \ {c}, u \in Task : (About(o, u)' <=> About(o, u))
  BY <1>2, OthersAbout
<1>6. \A o \in Calls, u \in Task : (About(o, u)' <=> About(o, u))
  BY <1>4, <1>5
<1>7. Locks'
  BY <1>6 DEF Typed, Locks
<1>8. QED
  BY <1>2, <1>3, <1>4, <1>6, <1>7

-------------------------------------------------------------------------------
(* A task a step does not touch *)

StillRows(u) ==
    /\ OfTask(u)' = OfTask(u)
    /\ \A i \in OfTask(u) : rows'[i].state = rows[i].state /\ (i \in released' <=> i \in released)
    /\ step'[u] = step[u] /\ started'[u] = started[u] /\ outcomes'[u] = outcomes[u]
    /\ \A d \in Node : node'[d].order \in OfTask(u) => node'[d].order = node[d].order
    /\ ran' \subseteq ran \cup {node[d].order : d \in Node}

\* Its calls go on as they were; only a stop may begin.
StillCalls(u) ==
    /\ placed'[u] = placed[u] /\ seen[u] <= seen'[u]
    /\ task'[u] = task[u] \/ (task'[u] = "ended" /\ call'[StopOf(u)].pc # "idle")
    /\ \A c \in Calls : (About(c, u)' <=> About(c, u)) /\ (About(c, u) => call'[c] = call[c])
    /\ call'[StopOf(u)] = call[StopOf(u)] \/ (call'[StopOf(u)].pc = "stopped" /\ task'[u] = "ended")
    /\ up' = up /\ crashes' = crashes

\* Work lives no longer than a sign of life allows.
StillSigned(u) ==
    \/ task'[u] = "ended"
    \/ /\ \A i \in OfTask(u) : rows'[i].expires <= rows[i].expires \/ rows'[i].expires <= seen'[u] + TTL
       /\ \A d \in Node : call'[RenewOf(d)].pc = "renew" /\ rows'[call'[RenewOf(d)].id].task = u =>
             \/ call'[RenewOf(d)] = call[RenewOf(d)] /\ rows[call[RenewOf(d)].id].task = u
             \/ call'[RenewOf(d)].at <= seen'[u]
Still(u) == StillRows(u) /\ StillCalls(u) /\ StillSigned(u)

\* The table and the records of a task a step does not touch.
LEMMA RowsStill ==
    ASSUME TypeOK, NEW u \in Task, Rows(u), StillRows(u)
    PROVE  Rows(u)'
<1>1. Table(u)'
  <2>1. \A i : IsLast(u, i)' <=> IsLast(u, i)
    BY DEF IsLast, StillRows
  <2>2. AllExpired(u)' <=> AllExpired(u)
    BY DEF AllExpired, StillRows
  <2>3. Over(u)' <=> Over(u)
    BY DEF Over, StillRows
  <2>4. QED
    BY <2>1, <2>2, <2>3 DEF Table, Rows, StillRows
<1>2. Records(u)'
  <2>1. \A i : IsLast(u, i)' <=> IsLast(u, i)
    BY DEF IsLast, StillRows
  <2>2. OfTask(u)' = OfTask(u) /\ started'[u] = started[u] /\ outcomes'[u] = outcomes[u] /\ step'[u] = step[u]
    BY DEF StillRows
  <2>3. /\ started[u] \subseteq OfTask(u) /\ outcomes[u] \subseteq OfTask(u)
        /\ \A i \in outcomes[u] : IsLast(u, i) /\ i \notin released
        /\ outcomes[u] # {} => step[u] # "pending"
        /\ \A i \in started[u] : /\ u \notin Relocatable /\ IsLast(u, i) /\ i \notin released
                                 /\ rows[i].state \in {"claimed", "expired", "delivered"}
    BY DEF Rows, Records
  <2>4. \A i \in outcomes[u] : i \notin released'
    BY <2>3 DEF StillRows
  <2>5. \A i \in started[u] : i \notin released' /\ rows'[i].state \in {"claimed", "expired", "delivered"}
    BY <2>3 DEF StillRows
  <2>6. ASSUME u \notin Relocatable, NEW d \in Node, node'[d].order \in OfTask(u)
        PROVE  node'[d].order \in started[u]
    BY <2>6 DEF Rows, Records, StillRows
  <2>7. u \notin Relocatable => ran' \cap OfTask(u) \subseteq started[u]
    <3>1. SUFFICES ASSUME u \notin Relocatable, NEW i \in ran', i \in OfTask(u)
                   PROVE  i \in started[u]
      OBVIOUS
    <3>2. i \in ran \/ \E d \in Node : i = node[d].order
      BY DEF StillRows
    <3>3. QED
      BY <3>1, <3>2 DEF Rows, Records
  <2>8. QED
    BY <2>1, <2>2, <2>3, <2>4, <2>5, <2>6, <2>7 DEF Records
<1>3. QED
  BY <1>1, <1>2 DEF Rows

\* What is derived from the rows and the records of a task.
LEMMA DerivedStill ==
    ASSUME NEW u \in Task, StillRows(u)
    PROVE  /\ \A i : IsLast(u, i)' <=> IsLast(u, i)
           /\ Found(u)' <=> Found(u)
           /\ AllExpired(u)' <=> AllExpired(u)
           /\ Over(u)' <=> Over(u)
           /\ LeftBehind(u)' <=> LeftBehind(u)
           /\ Lapsing(u)' <=> Lapsing(u)
<1>1. \A i : IsLast(u, i)' <=> IsLast(u, i)
  BY DEF IsLast, StillRows
<1>2. Found(u)' <=> Found(u)
  BY <1>1 DEF Found, StillRows
<1>3. QED
  BY <1>1, <1>2 DEF AllExpired, Over, LeftBehind, Lapsing, StillRows

\* The row a call of a node is about is one of its task.
LEMMA AboutRow ==
    ASSUME Typed, NEW c \in Calls, NEW u \in Task, About(c, u), c.kind \in {"ask", "deliver"}
    PROVE  call[c].id \in OfTask(u) /\ call[c].id \in DOMAIN rows
BY DEF Typed, Called, About, OfTask

\* The call that holds the lock of a task a step does not touch.
LEMMA HoldersStill ==
    ASSUME Typed, TypeOK', NEW u \in Task, Holders(u), StillRows(u), StillCalls(u)
    PROVE  Holders(u)'
<1>1. Running(u)'
  <2>1. CASE call'[RunOf(u)].pc = "idle"
    BY <2>1 DEF Running
  <2>2. CASE call'[RunOf(u)].pc # "idle"
    <3>1. About(RunOf(u), u)' /\ RunOf(u) \in Calls
      BY <2>2, CallNames DEF About
    <3>2. call'[RunOf(u)] = call[RunOf(u)]
      BY <3>1 DEF StillCalls
    <3>3. seen[u] \in Nat /\ seen'[u] \in Nat /\ call[RunOf(u)].at \in Nat /\ seen[u] <= seen'[u]
      BY <3>1, AssignmentsAssumption DEF Typed, TypeOK, CallState, StillCalls
    <3>4. task[u] = "ended" => task'[u] = "ended"
      BY DEF StillCalls
    <3>5. OfTask(u)' = OfTask(u) /\ step'[u] = step[u] /\ placed'[u] = placed[u]
      BY DEF StillRows, StillCalls
    <3>6. Running(u)
      BY DEF Holders
    <3>7. call[RunOf(u)].at <= seen[u] => call[RunOf(u)].at <= seen'[u]
      BY <3>3
    <3>8. QED
      BY <3>2, <3>4, <3>5, <3>6, <3>7, DerivedStill DEF Running
  <2>3. QED
    BY <2>1, <2>2
<1>2. Stopping(u)'
  <2>1. CASE call'[StopOf(u)] = call[StopOf(u)]
    BY <2>1, DerivedStill DEF Stopping, Holders, StillCalls
  <2>2. CASE call'[StopOf(u)].pc = "stopped" /\ task'[u] = "ended"
    BY <2>2 DEF Stopping
  <2>3. QED
    BY <2>1, <2>2 DEF StillCalls
<1>3. Asking(u)'
  <2> SUFFICES ASSUME NEW d \in Node, About(AskOf(d), u)'
               PROVE  /\ rows'[call'[AskOf(d)].id].state = IF call'[AskOf(d)].pc = "record" THEN "claimed" ELSE "offered"
                      /\ call'[AskOf(d)].pc \in {"sign", "claim", "record"} => step'[u] = "running"
                      /\ call'[AskOf(d)].pc = "claim" => call'[AskOf(d)].at <= seen'[u]
                      /\ call'[AskOf(d)].pc \in {"close", "expire"} => task'[u] = "ended"
                      /\ call'[AskOf(d)].pc = "expire" => Lapsing(u)'
    BY DEF Asking
  <2>1. AskOf(d) \in Calls /\ AskOf(d).kind = "ask"
    BY CallNames
  <2>2. call'[AskOf(d)] = call[AskOf(d)] /\ About(AskOf(d), u)
    BY <2>1 DEF StillCalls
  <2>3. rows'[call[AskOf(d)].id].state = rows[call[AskOf(d)].id].state
    BY <2>1, <2>2, AboutRow DEF StillRows
  <2>4. call[AskOf(d)].at \in Nat /\ seen[u] \in Nat /\ seen'[u] \in Nat /\ seen[u] <= seen'[u]
    BY <2>1, AssignmentsAssumption DEF Typed, TypeOK, CallState, StillCalls
  <2>5. call[AskOf(d)].at <= seen[u] => call[AskOf(d)].at <= seen'[u]
    BY <2>4
  <2>6. task[u] = "ended" => task'[u] = "ended"
    BY DEF StillCalls
  <2>7. QED
    BY <2>2, <2>3, <2>5, <2>6, DerivedStill DEF Asking, Holders, StillRows
<1>4. Delivering(u)'
  <2> SUFFICES ASSUME NEW d \in Node, About(DeliverOf(d), u)'
               PROVE  LET c == call'[DeliverOf(d)] IN
                      /\ c.pc \in {"store", "refuse", "mark"} => rows'[c.id].state = "claimed"
                      /\ c.pc \in {"store", "refuse"} => step'[u] = "running"
                      /\ c.pc = "mark" => c.id \in outcomes'[u] \/ Over(u)'
                      /\ c.pc = "close" => rows'[c.id].state = "delivered"
                      /\ u \notin Relocatable => c.id \in started'[u]
    BY DEF Delivering
  <2>1. DeliverOf(d) \in Calls /\ DeliverOf(d).kind = "deliver"
    BY CallNames
  <2>2. call'[DeliverOf(d)] = call[DeliverOf(d)] /\ About(DeliverOf(d), u)
    BY <2>1 DEF StillCalls
  <2>3. rows'[call[DeliverOf(d)].id].state = rows[call[DeliverOf(d)].id].state
    BY <2>1, <2>2, AboutRow DEF StillRows
  <2>4. QED
    BY <2>2, <2>3, DerivedStill DEF Delivering, Holders, StillRows
<1>5. QED
  BY <1>1, <1>2, <1>3, <1>4 DEF Holders

\* What is open at the end, of a task a step does not touch.
LEMMA EndsStill ==
    ASSUME Typed, TypeOK', NEW u \in Task, Ends(u), Still(u)
    PROVE  Ends(u)'
<1> USE DEF Still
<1>1. Signed(u)'
  <2>1. CASE task'[u] = "ended"
    BY <2>1 DEF Signed
  <2>2. CASE task'[u] # "ended"
    <3>1. task[u] # "ended" /\ Signed(u)
      BY <2>2 DEF StillCalls, Ends
    <3>2. seen[u] \in Nat /\ seen'[u] \in Nat /\ seen[u] <= seen'[u] /\ TTL \in Nat
      BY AssignmentsAssumption DEF Typed, TypeOK, StillCalls
    <3>3. ASSUME NEW i \in OfTask(u), rows[i].state \in {"offered", "claimed"}
          PROVE  rows'[i].expires <= seen'[u] + TTL
      <4>1. rows[i].expires \in Nat /\ rows'[i].expires \in Nat
        <5>1. i \in DOMAIN rows /\ i \in DOMAIN rows'
          <6>1. i \in OfTask(u)'
            BY <3>3 DEF StillRows
          <6>2. QED
            BY <6>1 DEF OfTask
        <5>2. rows[i] \in Row /\ rows'[i] \in Row
          BY <5>1 DEF Typed, TypeOK
        <5>3. QED
          BY <5>2 DEF Row
      <4>2. rows[i].expires <= seen[u] + TTL
        BY <3>1, <3>3 DEF Signed
      <4>3. rows'[i].expires <= rows[i].expires \/ rows'[i].expires <= seen'[u] + TTL
        BY <2>2 DEF StillSigned
      <4>4. QED
        BY <3>2, <4>1, <4>2, <4>3
    <3>4. ASSUME NEW d \in Node, call'[RenewOf(d)].pc = "renew", rows'[call'[RenewOf(d)].id].task = u
          PROVE  call'[RenewOf(d)].at <= seen'[u]
      <4>1. CASE call'[RenewOf(d)].at <= seen'[u]
        BY <4>1
      <4>2. CASE call'[RenewOf(d)] = call[RenewOf(d)] /\ rows[call[RenewOf(d)].id].task = u
        <5>1. call[RenewOf(d)].at <= seen[u]
          BY <3>1, <3>4, <4>2 DEF Signed
        <5>2. call[RenewOf(d)].at \in Nat
          BY CallNames DEF Typed, TypeOK, CallState
        <5>3. QED
          BY <5>1, <5>2, <4>2, <3>2
      <4>3. QED
        BY <4>1, <4>2, <3>4, <2>2 DEF StillSigned
    <3>5. QED
      BY <3>3, <3>4 DEF Signed, StillRows
  <2>3. QED
    BY <2>1, <2>2
<1>2. \A d \in Node : /\ About(DeliverOf(d), u)' <=> About(DeliverOf(d), u)
                      /\ About(DeliverOf(d), u) => call'[DeliverOf(d)] = call[DeliverOf(d)]
                      /\ About(DeliverOf(d), u) => rows'[call[DeliverOf(d)].id].state = rows[call[DeliverOf(d)].id].state
  <2> TAKE d \in Node
  <2>1. DeliverOf(d) \in Calls /\ DeliverOf(d).kind = "deliver"
    BY CallNames
  <2>2. About(DeliverOf(d), u) => call[DeliverOf(d)].id \in OfTask(u)
    BY <2>1, AboutRow
  <2>3. QED
    BY <2>1, <2>2 DEF StillCalls, StillRows
<1>3. /\ About(RunOf(u), u)' <=> call'[RunOf(u)].pc # "idle"
      /\ About(RunOf(u), u) <=> call[RunOf(u)].pc # "idle"
      /\ RunOf(u) \in Calls
  BY CallNames DEF About
<1>4. call[RunOf(u)].pc # "idle" \/ call'[RunOf(u)].pc # "idle" => call'[RunOf(u)] = call[RunOf(u)]
  BY <1>3 DEF StillCalls
<1>5. Tracked(u)'
  BY <1>2, <1>4, DerivedStill DEF Tracked, Ends, StillRows, StillCalls
<1>6. Caught(u)'
  <2>1. call[StopOf(u)].pc # "idle" => call'[StopOf(u)].pc # "idle"
    BY DEF StillCalls
  <2>2. task'[u] = "ended" /\ task[u] # "ended" => call'[StopOf(u)].pc # "idle"
    BY DEF StillCalls
  <2>3. QED
    BY <1>2, <1>4, <2>1, <2>2, DerivedStill DEF Caught, Ends, StillRows, StillCalls
<1>7. QED
  BY <1>1, <1>5, <1>6 DEF Ends

\* Nothing changes for a task that is not touched.
LEMMA StillKeeps ==
    ASSUME Typed, TypeOK', NEW u \in Task, Rows(u) /\ Holders(u) /\ Ends(u), Still(u)
    PROVE  Rows(u)' /\ Holders(u)' /\ Ends(u)'
BY RowsStill, HoldersStill, EndsStill DEF Still, Typed

\* A step of the call c about the task t, whose lock it holds, takes or leaves.
Alters(c, t) ==
    /\ RowsStay
    /\ \A i \in DOMAIN rows' : rows'[i].task # t => i \in DOMAIN rows /\ rows'[i] = rows[i]
    /\ released \subseteq released' /\ \A i \in released' \ released : i \in OfTask(t)
    /\ \A u \in Task \ {t} : /\ task'[u] = task[u] /\ seen'[u] = seen[u] /\ step'[u] = step[u] /\ placed'[u] = placed[u]
                             /\ started'[u] = started[u] /\ outcomes'[u] = outcomes[u]
    /\ \A d \in Node : node'[d].order \in OfTask(t) \cup {node[d].order, None}
    /\ ran' = ran /\ up' = up /\ crashes' = crashes
    /\ OthersStay(c) /\ OnlyAbout(c, t)
    /\ c.kind \in {"run", "stop"} => c.of = t
    /\ c.kind \in {"run", "stop", "ask", "deliver"}

\* A row is about one task.
LEMMA RowOfOne ==
    ASSUME NEW t, NEW u, t # u, NEW i \in OfTask(t)
    PROVE  i \notin OfTask(u)
BY DEF OfTask

\* The step of a holder does not touch the other tasks.
LEMMA OthersStill ==
    ASSUME Typed, TypeOK', NEW c \in Calls, NEW t \in Task, Alters(c, t)
    PROVE  \A u \in Task \ {t} : Still(u)
<1> SUFFICES ASSUME NEW u \in Task \ {t}
             PROVE  Still(u)
  OBVIOUS
<1>1. OfTask(u)' = OfTask(u)
  BY DEF Alters, RowsStay, OfTask
<1>2. \A i \in OfTask(u) : i \in DOMAIN rows /\ rows'[i] = rows[i]
  BY <1>1 DEF Alters, OfTask
<1>3. StillRows(u)
  <2>1. \A i \in OfTask(u) : i \in released' <=> i \in released
    BY RowOfOne DEF Alters
  <2>2. None \notin OfTask(u)
    BY NoneIsNothing, RowFacts DEF OfTask, Typed
  <2>3. \A d \in Node : node'[d].order \in OfTask(u) => node'[d].order = node[d].order
    BY <2>2, RowOfOne DEF Alters
  <2>4. QED
    BY <1>1, <1>2, <2>1, <2>3 DEF StillRows, Alters
<1>4. StillCalls(u)
  <2>1. \A o \in Calls \ {c} : (About(o, u)' <=> About(o, u)) /\ call'[o] = call[o]
    BY OthersAbout DEF Alters, OthersStay
  <2>2. ~About(c, u) /\ ~About(c, u)'
    BY DEF Alters, OnlyAbout
  <2>3. StopOf(u) # c /\ StopOf(u) \in Calls
    BY CallNames DEF Alters
  <2>4. seen[u] <= seen'[u]
    BY DEF Alters, Typed, TypeOK
  <2>5. QED
    BY <2>1, <2>2, <2>3, <2>4 DEF StillCalls, Alters
<1>5. StillSigned(u)
  <2>1. \A i \in OfTask(u) : rows'[i].expires <= rows[i].expires
    BY <1>2, RowFacts DEF Typed
  <2>2. ASSUME NEW d \in Node, call'[RenewOf(d)].pc = "renew", rows'[call'[RenewOf(d)].id].task = u
        PROVE  call'[RenewOf(d)] = call[RenewOf(d)] /\ rows[call[RenewOf(d)].id].task = u
    <3>1. RenewOf(d) \in Calls /\ RenewOf(d) # c /\ RenewOf(d).kind = "renew"
      BY CallNames DEF Alters
    <3>2. call'[RenewOf(d)] = call[RenewOf(d)]
      BY <3>1 DEF Alters, OthersStay
    <3>3. call[RenewOf(d)].id \in DOMAIN rows
      BY <3>1, <3>2, <2>2 DEF Typed, Called
    <3>4. QED
      BY <3>2, <3>3, <2>2 DEF Alters, RowsStay
  <2>3. QED
    BY <2>1, <2>2 DEF StillSigned
<1>6. QED
  BY <1>3, <1>4, <1>5 DEF Still

\* A step of a holder keeps the invariant when it keeps what is said of its own task.
LEMMA HolderKeeps ==
    ASSUME IInv, Typed', NEW c \in Calls, NEW t \in Task, Alters(c, t), Rows(t)' /\ Holders(t)' /\ Ends(t)'
    PROVE  IInv'
<1>1. ASSUME NEW u \in Task \ {t}
      PROVE  Rows(u)' /\ Holders(u)' /\ Ends(u)'
  <2>1. Still(u)
    BY OthersStill DEF IInv, Typed
  <2>2. Rows(u) /\ Holders(u) /\ Ends(u)
    BY DEF IInv
  <2>3. Typed /\ TypeOK'
    BY DEF IInv, Typed
  <2>4. QED
    BY <2>1, <2>2, <2>3, StillKeeps
<1>2. QED
  BY <1>1 DEF IInv

-------------------------------------------------------------------------------
(* What the steps of a holder have in common *)

CallsKept(c, t) == CallsTyped /\ Called' /\ Locks' /\ OthersStay(c) /\ OnlyAbout(c, t)

\* The holder of the lock goes to another stage.
LEMMA GoesTo ==
    ASSUME Typed, RowsStay, NEW c \in Calls, NEW t \in Task, About(c, t), UNCHANGED <<now, lock>>,
           NEW p \in StagesOf(c.kind) \ {"idle", "stopped"}, Goto(c, p)
    PROVE  /\ CallsKept(c, t) /\ About(c, t)'
           /\ call'[c].pc = p /\ call'[c].id = call[c].id /\ call'[c].at = call[c].at /\ call'[c].envelope = call[c].envelope
<1> DEFINE s == [call[c] EXCEPT !.pc = p]
<1>1. call[c] \in CallState /\ p \in Stages /\ call[c].at <= now
  BY StagesAreStages DEF Typed, TypeOK, Called
<1>2. s \in CallState /\ s.pc = p /\ s.id = call[c].id /\ s.at = call[c].at /\ s.envelope = call[c].envelope
  BY <1>1 DEF CallState
<1>3. call' = [call EXCEPT ![c] = s]
  BY DEF Goto
<1> HIDE DEF s
<1>4. CallsTyped /\ Called' /\ Locks' /\ OthersStay(c) /\ call'[c] = s /\ About(c, t)' /\ OnlyAbout(c, t)
  BY <1>1, <1>2, <1>3, HolderGoes
<1>5. QED
  BY <1>2, <1>4 DEF CallsKept

\* The holder of the lock leaves it and returns.
LEMMA Returns ==
    ASSUME Typed, RowsStay, NEW c \in Calls, NEW t \in Task, About(c, t), UNCHANGED now, Leave(c, t)
    PROVE  CallsKept(c, t) /\ ~About(c, t)' /\ call'[c] = Idle /\ call'[c].pc = "idle"
BY HolderLeaves, IdleIs DEF CallsKept

\* A request comes in and takes the lock.
LEMMA Enters ==
    ASSUME Typed, RowsStay, NEW c \in Calls, NEW t \in Task, UNCHANGED now, c.kind \in {"run", "ask", "deliver"},
           NEW p \in StagesOf(c.kind) \ {"idle", "stopped"}, NEW i \in Id \cup {None}, NEW e \in Envelopes \cup {None},
           Enter(c, p, i, e), Take(c, t),
           c = RunOf(t) \/ (c.kind \in {"ask", "deliver"} /\ i \in DOMAIN rows /\ rows[i].task = t)
    PROVE  /\ CallsKept(c, t) /\ About(c, t)'
           /\ call'[c].pc = p /\ call'[c].id = i /\ call'[c].at = now /\ call'[c].envelope = e
           /\ \A o \in Calls : ~About(o, t)
<1> DEFINE s == [pc |-> p, id |-> i, at |-> now, envelope |-> e]
<1>1. p \in Stages /\ now \in Nat
  BY StagesAreStages, AssignmentsAssumption DEF Typed, TypeOK
<1>2. s \in CallState /\ s.pc = p /\ s.id = i /\ s.at = now /\ s.envelope = e /\ s.at <= now
  BY <1>1 DEF CallState
<1>3. call' = [call EXCEPT ![c] = s] /\ call[c].pc = "idle"
  BY IdleIs DEF Enter
<1>4. \A u \in Task : ~About(c, u)
  BY <1>3 DEF About
<1> HIDE DEF s
<1>5. CallsTyped /\ Called' /\ Locks' /\ OthersStay(c) /\ call'[c] = s /\ About(c, t)' /\ OnlyAbout(c, t)
  <2>1. s.pc \in StagesOf(c.kind) /\ s.pc \notin {"idle", "stopped"}
    BY <1>2
  <2>2. \/ c \in {RunOf(t), StopOf(t)}
        \/ c.kind \in {"ask", "deliver"} /\ s.id \in DOMAIN rows /\ rows[s.id].task = t
    BY <1>2
  <2>3. QED
    BY <1>2, <1>3, <1>4, <2>1, <2>2, HolderTakes, ZenonT(40)
<1>6. \A o \in Calls : ~About(o, t)
  BY <1>4, <1>5 DEF OnlyAbout
<1>7. QED
  BY <1>2, <1>5, <1>6 DEF CallsKept

\* The nodes hold what is in the table, and no sign of life is in the future.
LEMMA NamedKept ==
    ASSUME Typed, TypeOK', up', now' = now, RowsStay, ran' \subseteq ran, released' \subseteq released \cup DOMAIN rows,
           \A u \in Task : seen'[u] \in {seen[u], now},
           \A d \in Node : node'[d] \in {node[d], Empty} \/ (node'[d].order \in DOMAIN rows /\ node'[d].envelope = node[d].envelope)
    PROVE  Named'
<1>1. now \in Nat
  BY AssignmentsAssumption DEF Typed, TypeOK
<1>2. \A u \in Task : seen'[u] <= now
  BY <1>1 DEF Typed, Named
<1>3. \A d \in Node : /\ node'[d].order # None => node'[d].order \in DOMAIN rows'
                      /\ node'[d].envelope # None => node'[d].order # None
  <2> TAKE d \in Node
  <2>1. Empty.order = None /\ Empty.envelope = None
    BY DEF Empty
  <2>2. \A i \in DOMAIN rows : i \in DOMAIN rows' /\ i # None
    BY NoneIsNothing, RowFacts DEF Typed, RowsStay
  <2>3. QED
    BY <2>1, <2>2 DEF Typed, Named
<1>4. ran' \cup released' \subseteq DOMAIN rows'
  BY DEF Typed, Named, RowsStay
<1>5. QED
  BY <1>2, <1>3, <1>4 DEF Named

\* The holders of a task other than the call that moves.
LEMMA OthersHold ==
    ASSUME Typed, NEW c \in Calls, NEW t \in Task, Holders(t), CallsKept(c, t), task[t] = "ended" => task'[t] = "ended"
    PROVE  /\ c # RunOf(t) => Running(t)'
           /\ c # StopOf(t) => Stopping(t)'
           /\ c.kind # "ask" => Asking(t)'
           /\ c.kind # "deliver" => Delivering(t)'
           /\ \A d \in Node : /\ About(AskOf(d), t)' => c = AskOf(d)
                              /\ About(DeliverOf(d), t)' => c = DeliverOf(d)
<1> USE CallNames
<1>1. \A o \in Calls \ {c} : ~About(o, t)' /\ ~About(o, t)
  BY DEF CallsKept, OnlyAbout
<1>2. ASSUME c # RunOf(t)
      PROVE  Running(t)'
  <2>1. call'[RunOf(t)].pc = "idle"
    BY <1>1, <1>2 DEF About
  <2>2. QED
    BY <2>1 DEF Running
<1>3. ASSUME c # StopOf(t)
      PROVE  Stopping(t)'
  <2>1. call'[StopOf(t)] = call[StopOf(t)]
    BY <1>3 DEF CallsKept, OthersStay
  <2>2. call'[StopOf(t)].pc \in {"idle", "stopped"}
    BY <1>1, <1>3 DEF About
  <2>3. QED
    BY <2>1, <2>2 DEF Stopping, Holders
<1>4. \A d \in Node : /\ About(AskOf(d), t)' => c = AskOf(d)
                      /\ About(DeliverOf(d), t)' => c = DeliverOf(d)
  BY <1>1
<1>5. QED
  BY <1>2, <1>3, <1>4 DEF Asking, Delivering

\* The rows of a task whose table and records stay.
LEMMA RowsUnchanged ==
    ASSUME Typed, NEW t \in Task, Rows(t), UNCHANGED <<rows, released, ran>>,
           step'[t] = step[t], started'[t] = started[t], outcomes'[t] = outcomes[t],
           \A d \in Node : node'[d].order \in {node[d].order, None}
    PROVE  StillRows(t) /\ Rows(t)'
<1>1. None \notin OfTask(t)
  BY NoneIsNothing, RowFacts DEF OfTask, Typed
<1>2. StillRows(t)
  BY <1>1 DEF StillRows, OfTask
<1>3. QED
  BY <1>2, RowsStill DEF Typed

\* Work lives no longer than a sign of life allows, whoever holds the lock.
LEMMA SignedKept ==
    ASSUME Typed, TypeOK', NEW c \in Calls, NEW t \in Task, Signed(t), OthersStay(c), c.kind # "renew", RowsStay,
           seen[t] <= seen'[t], task'[t] # "ended" => task[t] # "ended",
           \A i \in OfTask(t)' : rows'[i].state \in {"offered", "claimed"} =>
              \/ i \in OfTask(t) /\ rows[i].state \in {"offered", "claimed"} /\ rows'[i].expires = rows[i].expires
              \/ rows'[i].expires <= seen'[t] + TTL
    PROVE  Signed(t)'
<1>1. SUFFICES ASSUME task'[t] # "ended", task[t] # "ended"
               PROVE  /\ \A i \in OfTask(t)' : rows'[i].state \in {"offered", "claimed"} => rows'[i].expires <= seen'[t] + TTL
                      /\ \A d \in Node : call'[RenewOf(d)].pc = "renew" /\ rows'[call'[RenewOf(d)].id].task = t =>
                            call'[RenewOf(d)].at <= seen'[t]
  BY DEF Signed
<1>2. seen[t] \in Nat /\ seen'[t] \in Nat /\ TTL \in Nat
  BY AssignmentsAssumption DEF Typed, TypeOK
<1>3. ASSUME NEW i \in OfTask(t)', rows'[i].state \in {"offered", "claimed"}
      PROVE  rows'[i].expires <= seen'[t] + TTL
  <2>1. CASE i \in OfTask(t) /\ rows[i].state \in {"offered", "claimed"} /\ rows'[i].expires = rows[i].expires
    <3>1. rows[i].expires <= seen[t] + TTL /\ rows[i].expires \in Nat
      BY <1>1, <2>1, RowFacts DEF Signed, Typed, OfTask
    <3>2. QED
      BY <2>1, <3>1, <1>2
  <2>2. QED
    BY <2>1, <1>3
<1>4. ASSUME NEW d \in Node, call'[RenewOf(d)].pc = "renew", rows'[call'[RenewOf(d)].id].task = t
      PROVE  call'[RenewOf(d)].at <= seen'[t]
  <2>1. RenewOf(d) \in Calls /\ RenewOf(d).kind = "renew"
    BY CallNames
  <2>2. call'[RenewOf(d)] = call[RenewOf(d)]
    BY <2>1 DEF OthersStay
  <2>3. call[RenewOf(d)].id \in DOMAIN rows
    BY <2>1, <2>2, <1>4 DEF Typed, Called
  <2>4. call[RenewOf(d)].at <= seen[t] /\ call[RenewOf(d)].at \in Nat
    BY <1>1, <2>1, <2>2, <2>3, <1>4 DEF Signed, RowsStay, Typed, TypeOK, CallState
  <2>5. QED
    BY <2>2, <2>4, <1>2
<1>5. QED
  BY <1>3, <1>4

\* An unchanged table.
LEMMA SameRowsStay == UNCHANGED rows => RowsStay
BY DEF RowsStay

\* The run of a task that is at a stage of its own.
LEMMA RunIs ==
    ASSUME IInv, NEW t \in Task, NEW p, p # "idle", At(RunOf(t), p)
    PROVE  /\ RunOf(t) \in Calls /\ RunOf(t).kind = "run" /\ RunOf(t).of = t
           /\ About(RunOf(t), t) /\ up /\ call[RunOf(t)].pc = p
           /\ Typed /\ TypeOK /\ Rows(t) /\ Table(t) /\ Records(t) /\ Holders(t) /\ Running(t) /\ Ends(t) /\ Signed(t)
           /\ \A d \in Node : ~About(DeliverOf(d), t) /\ ~About(AskOf(d), t)
<1>1. RunOf(t) \in Calls /\ RunOf(t).kind = "run" /\ RunOf(t).of = t
  BY CallNames
<1>2. About(RunOf(t), t) /\ up /\ call[RunOf(t)].pc = p
  BY <1>1 DEF At, About
<1>3. Typed /\ TypeOK /\ Rows(t) /\ Table(t) /\ Records(t) /\ Holders(t) /\ Running(t) /\ Ends(t) /\ Signed(t)
  BY DEF IInv, Typed, Rows, Holders, Ends
<1>4. lock[t] = RunOf(t)
  BY <1>1, <1>2, <1>3 DEF Typed, Locks
<1>5. ASSUME NEW d \in Node
      PROVE  ~About(DeliverOf(d), t) /\ ~About(AskOf(d), t)
  <2>1. DeliverOf(d) \in Calls /\ AskOf(d) \in Calls /\ RunOf(t) # DeliverOf(d) /\ RunOf(t) # AskOf(d)
    BY <1>1, CallNames
  <2>2. QED
    BY <1>3, <1>4, <2>1 DEF Typed, Locks
<1>6. QED
  BY <1>1, <1>2, <1>3, <1>5

\* What a step of the run owes to what is open at the end.
LEMMA RunEnds ==
    ASSUME Typed, NEW t \in Task, CallsKept(RunOf(t), t), crashes' = crashes,
           LET pc == call'[RunOf(t)].pc IN
           /\ crashes = 0 /\ step'[t] = "running" /\ pc \notin {"execute", "offer", "close"} => Found(t)'
           /\ crashes = 0 /\ pc = "place" => step'[t] = "pending"
           /\ crashes = 0 /\ pc \in {"execute", "offer"} => AllExpired(t)'
           /\ pc = "idle" => task'[t] # "ended" \/ step'[t] # "running" \/ Found(t)'
    PROVE  Tracked(t)' /\ Caught(t)'
BY DEF Tracked, Caught

-------------------------------------------------------------------------------
(* The steps of a run *)

\* A step of the run keeps the invariant when it keeps what is said of its own task.
LEMMA RunKeeps ==
    ASSUME IInv, NEW t \in Task, CallsKept(RunOf(t), t), up, UNCHANGED <<world, nodes>>, TypeOK', RowsStay,
           \A i \in DOMAIN rows' : rows'[i].task # t => i \in DOMAIN rows /\ rows'[i] = rows[i],
           released \subseteq released', \A i \in released' \ released : i \in OfTask(t),
           \A u \in Task \ {t} : /\ task'[u] = task[u] /\ seen'[u] = seen[u] /\ step'[u] = step[u] /\ placed'[u] = placed[u]
                                /\ started'[u] = started[u] /\ outcomes'[u] = outcomes[u],
           seen'[t] \in {seen[t], now}, task[t] = "ended" => task'[t] = "ended",
           \A i \in OfTask(t)' : rows'[i].state \in {"offered", "claimed"} =>
              \/ i \in OfTask(t) /\ rows[i].state \in {"offered", "claimed"} /\ rows'[i].expires = rows[i].expires
              \/ rows'[i].expires <= seen'[t] + TTL,
           Rows(t)', Running(t)',
           LET pc == call'[RunOf(t)].pc IN
           /\ crashes = 0 /\ step'[t] = "running" /\ pc \notin {"execute", "offer", "close"} => Found(t)'
           /\ crashes = 0 /\ pc = "place" => step'[t] = "pending"
           /\ crashes = 0 /\ pc \in {"execute", "offer"} => AllExpired(t)'
           /\ pc = "idle" => task'[t] # "ended" \/ step'[t] # "running" \/ Found(t)'
    PROVE  IInv'
<1> DEFINE c == RunOf(t)
<1>1. c \in Calls /\ c.kind = "run" /\ c.of = t
  BY CallNames
<1>2. Typed /\ TypeOK /\ Rows(t) /\ Holders(t) /\ Signed(t)
  BY DEF IInv, Typed, Ends
<1> USE DEF world, nodes
<1>3. \A u \in Task : seen'[u] \in {seen[u], now}
  OBVIOUS
<1>4. Named'
  <2>1. released' \subseteq released \cup DOMAIN rows
    BY DEF OfTask
  <2>2. QED
    BY <1>2, <1>3, <2>1, NamedKept
<1>5. Typed'
  BY <1>4 DEF Typed, CallsKept
<1>6. Alters(c, t)
  BY <1>1 DEF Alters, CallsKept
<1>7. Holders(t)'
  BY <1>1, <1>2, OthersHold, CallNames DEF Holders
<1>8. Tracked(t)' /\ Caught(t)'
  BY <1>2, RunEnds
<1>9. Signed(t)'
  <2>1. seen[t] <= seen'[t]
    <3>1. seen[t] \in Nat /\ now \in Nat /\ seen[t] <= now
      BY <1>2, AssignmentsAssumption DEF Typed, TypeOK, Named
    <3>2. QED
      BY <3>1
  <2>2. OthersStay(c)
    BY DEF CallsKept
  <2> HIDE DEF c
  <2>3. QED
    BY <1>1, <1>2, <2>1, <2>2, SignedKept
<1>10. QED
  BY <1>1, <1>5, <1>6, <1>7, <1>8, <1>9, HolderKeeps DEF Ends

\* A step of the run that writes nothing but its own place.
LEMMA RunOnlyMoves ==
    ASSUME IInv, NEW t \in Task, CallsKept(RunOf(t), t), up, UNCHANGED <<world, stores, nodes>>,
           Running(t)',
           LET pc == call'[RunOf(t)].pc IN
           /\ crashes = 0 /\ step[t] = "running" /\ pc \notin {"execute", "offer", "close"} => Found(t)
           /\ crashes = 0 /\ pc = "place" => step[t] = "pending"
           /\ crashes = 0 /\ pc \in {"execute", "offer"} => AllExpired(t)
           /\ pc = "idle" => task[t] # "ended" \/ step[t] # "running" \/ Found(t)
    PROVE  IInv'
<1>1. Typed /\ TypeOK /\ Rows(t)
  BY DEF IInv, Typed
<1> USE DEF world, stores, nodes, records
<1>2. RowsStay
  BY SameRowsStay
<1>3. TypeOK'
  BY <1>1 DEF TypeOK, CallsKept, CallsTyped
<1>4. StillRows(t) /\ Rows(t)'
  BY <1>1, RowsUnchanged
<1>5. \A i \in OfTask(t)' : i \in OfTask(t) /\ rows'[i] = rows[i]
  BY DEF OfTask
<1>6. QED
  BY <1>1, <1>2, <1>3, <1>4, <1>5, DerivedStill, RunKeeps

\* A run that begins finds what the last holder of the lock left.
LEMMA RunStartsKeeps ==
    ASSUME IInv, NEW t \in Task, RunStarts(t)
    PROVE  IInv'
<1> DEFINE c == RunOf(t)
<1>1. c \in Calls /\ c.kind = "run"
  BY CallNames
<1>2. Typed /\ up /\ UNCHANGED <<world, stores, nodes>> /\ RowsStay /\ now' = now
  BY SameRowsStay DEF IInv, RunStarts, Enter, stores, world
<1>3. /\ CallsKept(c, t) /\ call'[c].pc = "walk" /\ \A o \in Calls : ~About(o, t)
  <2>1. "walk" \in StagesOf(c.kind) \ {"idle", "stopped"}
    BY <1>1, StagesAre
  <2>2. Enter(c, "walk", None, None) /\ Take(c, t) /\ c = RunOf(t)
    BY DEF RunStarts
  <2> HIDE DEF c
  <2>3. QED
    BY <1>1, <1>2, <2>1, <2>2, Enters
<1>4. Running(t)'
  BY <1>3 DEF Running
<1>5. crashes = 0 /\ step[t] = "running" => Found(t)
  <2>1. call[c].pc = "idle" /\ \A d \in Node : ~About(DeliverOf(d), t)
    BY <1>1, <1>3, CallNames DEF About
  <2>2. QED
    BY <2>1 DEF IInv, Ends, Tracked
<1>6. QED
  BY <1>2, <1>3, <1>4, <1>5, RunOnlyMoves DEF world

\* The last look of a run (TaskRunner.run): the task is read again under the lock.
LEMMA RunLeavesKeeps ==
    ASSUME IInv, NEW t \in Task, RunLeaves(t)
    PROVE  IInv'
<1> DEFINE c == RunOf(t)
<1>1. At(c, "leave") /\ UNCHANGED <<world, stores, nodes>>
  BY DEF RunLeaves
<1>2. /\ c \in Calls /\ c.kind = "run" /\ About(c, t) /\ up /\ Typed
      /\ \A d \in Node : ~About(DeliverOf(d), t) /\ ~About(AskOf(d), t)
  BY <1>1, RunIs
<1>3. RowsStay /\ now' = now
  BY <1>1, SameRowsStay DEF stores, world
<1>4. crashes = 0 /\ step[t] = "running" => Found(t)
  BY <1>1, <1>2 DEF IInv, Ends, Tracked, At
<1>5. CASE task[t] = "ended"
  <2>1. Goto(c, "close") /\ UNCHANGED lock /\ "close" \in StagesOf("run") \ {"idle", "stopped"}
    BY <1>5, StagesAre DEF RunLeaves
  <2>2. CallsKept(c, t) /\ call'[c].pc = "close"
    BY <1>2, <1>3, <2>1, GoesTo
  <2>3. Running(t)'
    BY <1>1, <1>5, <2>2 DEF Running, stores
  <2>4. QED
    BY <1>1, <1>2, <2>2, <2>3, RunOnlyMoves DEF world
<1>6. CASE task[t] # "ended"
  <2>1. Leave(c, t)
    BY <1>6 DEF RunLeaves
  <2>2. CallsKept(c, t) /\ call'[c].pc = "idle"
    BY <1>2, <1>3, <2>1, Returns
  <2>3. Running(t)'
    BY <2>2 DEF Running
  <2>4. QED
    BY <1>1, <1>2, <1>4, <1>6, <2>2, <2>3, RunOnlyMoves DEF world
<1>7. QED
  BY <1>5, <1>6

\* What is known of the run of a task when its step is not in the hands of anybody else.
LEMMA RunFinds ==
    ASSUME IInv, NEW t \in Task, NEW p, p # "idle", At(RunOf(t), p)
    PROVE  /\ crashes = 0 /\ step[t] = "running" /\ p \notin {"execute", "offer", "close"} => Found(t)
           /\ crashes = 0 /\ p = "place" => step[t] = "pending"
           /\ crashes = 0 /\ p \in {"execute", "offer"} => AllExpired(t)
           /\ step[t] \in StepStates /\ (Over(t) <=> step[t] \notin {"pending", "running"})
BY RunIs DEF IInv, Ends, Tracked, At, TypeOK, StepStates, Over

\* A turn of the walk (TaskRunner._walk).
LEMMA RunWalksKeeps ==
    ASSUME IInv, NEW t \in Task, RunWalks(t)
    PROVE  IInv'
<1> DEFINE c == RunOf(t)
           stand == IF step[t] = "running" THEN Standing(t) ELSE "none"
           turn == CASE stand = "live" -> "leave"
                     [] stand = "lapsed" -> "lapse"
                     [] stand = "delivered" -> "finish"
                     [] stand = "none" -> "place"
<1>1. At(c, "walk") /\ UNCHANGED <<world, step, placed, rows, records, nodes, lock>>
  BY DEF RunWalks
<1>2. /\ c \in Calls /\ c.kind = "run" /\ About(c, t) /\ up /\ Typed /\ TypeOK /\ Rows(t) /\ Table(t) /\ Holders(t)
      /\ \A d \in Node : ~About(DeliverOf(d), t) /\ ~About(AskOf(d), t)
  BY <1>1, RunIs
<1>3. RowsStay /\ now' = now /\ UNCHANGED <<released, started, outcomes>>
  BY <1>1, SameRowsStay DEF world, records
<1>4. crashes = 0 /\ step[t] = "running" => Found(t)
  BY <1>1, RunFinds
<1>5. CASE task[t] = "ended" /\ Goto(c, "close") /\ UNCHANGED <<task, seen>>
  <2>1. "close" \in StagesOf("run") \ {"idle", "stopped"}
    BY StagesAre
  <2>2. CallsKept(c, t) /\ call'[c].pc = "close"
    BY <1>1, <1>2, <1>3, <1>5, <2>1, GoesTo
  <2>3. Running(t)'
    BY <1>5, <2>2 DEF Running
  <2>4. QED
    BY <1>1, <1>2, <1>5, <2>2, <2>3, RunOnlyMoves DEF stores
<1>6. CASE task[t] # "ended" /\ step[t] \in {"completed", "failed"} /\ SetTask(t, "ended") /\ Goto(c, "leave")
  <2>1. "leave" \in StagesOf("run") \ {"idle", "stopped"}
    BY StagesAre
  <2>2. CallsKept(c, t) /\ call'[c].pc = "leave"
    BY <1>1, <1>2, <1>3, <1>6, <2>1, GoesTo
  <2>3. Running(t)'
    BY <2>2 DEF Running
  <2>4. /\ task' = [task EXCEPT ![t] = "ended"] /\ seen' = [seen EXCEPT ![t] = now]
        /\ task'[t] = "ended" /\ seen'[t] = now /\ \A u \in Task \ {t} : task'[u] = task[u] /\ seen'[u] = seen[u]
    BY <1>2, <1>6 DEF SetTask, Sign, TypeOK
  <2>5. TypeOK'
    BY <1>1, <1>2, <1>3, <2>2, <2>4 DEF TypeOK, CallsKept, CallsTyped, TaskStates, world, nodes
  <2>6. StillRows(t) /\ Rows(t)'
    BY <1>1, <1>2, <1>3, RowsUnchanged DEF nodes
  <2>7. \A i \in OfTask(t)' : i \in OfTask(t) /\ rows'[i] = rows[i]
    BY <1>1 DEF OfTask
  <2>8. QED
    BY <1>1, <1>2, <1>3, <1>6, <2>2, <2>3, <2>4, <2>5, <2>6, <2>7, RunKeeps DEF world
<1>7. CASE task[t] # "ended" /\ step[t] \in {"pending", "running"} /\ Goto(c, turn) /\ UNCHANGED <<task, seen>>
  <2>1. /\ stand \in {"none", "delivered", "live", "lapsed"}
        /\ stand = "live" => turn = "leave"
        /\ stand = "lapsed" => turn = "lapse" /\ step[t] = "running" /\ Found(t)
        /\ stand = "delivered" => turn = "finish" /\ step[t] = "running" /\ \E i \in OfTask(t) : rows[i].state = "delivered"
        /\ stand = "none" => turn = "place" /\ (step[t] = "running" => ~Found(t))
    BY <1>2, StandingTells
  <2> HIDE DEF turn, stand
  <2>2. turn \in {"leave", "lapse", "finish", "place"} /\ turn \in StagesOf("run") \ {"idle", "stopped"}
    BY <2>1, StagesAre
  <2>3. CallsKept(c, t) /\ call'[c].pc = turn
    BY <1>1, <1>2, <1>3, <1>7, <2>2, GoesTo
  <2>4. stand = "delivered" => LeftBehind(t)
    BY <1>2, <2>1 DEF Table, Over, LeftBehind
  <2>5. Running(t)'
    <3>1. StillRows(t)
      BY <1>1, <1>2, <1>3, RowsUnchanged DEF nodes
    <3>2. turn = "lapse" => Found(t)' /\ step'[t] = "running"
      BY <2>1, <3>1, DerivedStill DEF StillRows
    <3>3. turn = "finish" => LeftBehind(t)' /\ step'[t] = "running"
      BY <2>1, <2>4, <3>1, DerivedStill DEF StillRows
    <3>4. turn = "place" => step'[t] \in {"pending", "running"}
      BY <1>1, <1>7
    <3>5. QED
      BY <2>2, <2>3, <3>2, <3>3, <3>4 DEF Running
  <2>6. crashes = 0 /\ turn = "place" => step[t] = "pending"
    BY <1>4, <1>7, <2>1
  <2>7. QED
    BY <1>1, <1>2, <1>4, <1>7, <2>2, <2>3, <2>5, <2>6, RunOnlyMoves DEF stores
<1>8. QED
  BY <1>5, <1>6, <1>7 DEF RunWalks

\* A step that starts or closes leaves the table as it was: what the table says of it still holds.
LEMMA StepWrites ==
    ASSUME Typed, NEW t \in Task, Rows(t), UNCHANGED <<rows, released, started, outcomes, node, ran>>,
           step'[t] \in {"completed", "failed", "cancelled"} \/ (step[t] \in {"pending", "running"} /\ step'[t] = "running")
    PROVE  /\ Rows(t)' /\ (Found(t)' <=> Found(t)) /\ (AllExpired(t)' <=> AllExpired(t)) /\ (LeftBehind(t)' <=> LeftBehind(t))
           /\ OfTask(t)' = OfTask(t)
<1>1. \A i : (IsLast(t, i)' <=> IsLast(t, i)) /\ OfTask(t)' = OfTask(t)
  BY DEF IsLast, OfTask
<1>2. Found(t)' <=> Found(t)
  BY <1>1 DEF Found
<1>3. AllExpired(t)' <=> AllExpired(t)
  BY DEF AllExpired, OfTask
<1>4. LeftBehind(t)' <=> LeftBehind(t)
  BY DEF LeftBehind
<1>5. step[t] \in {"pending", "running"} => ~Over(t)
  BY DEF Over
<1>6. step'[t] \in {"completed", "failed", "cancelled"} => Over(t)'
  BY DEF Over
<1>7. Table(t)'
  BY <1>1, <1>5, <1>6 DEF Rows, Table
<1>8. Records(t)'
  BY <1>1 DEF Rows, Records
<1>9. QED
  BY <1>1, <1>2, <1>3, <1>4, <1>7, <1>8 DEF Rows

\* The placing of a step, which starts it or confirms its node.
LEMMA RunPlacesKeeps ==
    ASSUME IInv, NEW t \in Task, RunPlaces(t)
    PROVE  IInv'
<1> DEFINE c == RunOf(t)
<1>1. At(c, "place") /\ UNCHANGED <<world, rows, records, nodes, lock>>
  BY DEF RunPlaces
<1>2. /\ c \in Calls /\ c.kind = "run" /\ About(c, t) /\ up /\ Typed /\ TypeOK /\ Rows(t) /\ Table(t) /\ Holders(t)
      /\ Running(t) /\ call[c].pc = "place"
  BY <1>1, RunIs
<1>3. RowsStay /\ UNCHANGED <<released, started, outcomes, node, ran, now, crashes, up>>
  BY <1>1, SameRowsStay DEF world, records, nodes
<1>4. /\ crashes = 0 /\ step[t] = "running" => Found(t)
      /\ crashes = 0 => step[t] = "pending"
      /\ step[t] \in {"pending", "running"}
  BY <1>1, <1>2, RunFinds DEF Running
<1>5. {"close", "execute", "leave"} \subseteq StagesOf("run") \ {"idle", "stopped"}
  BY StagesAre
<1>6. CASE task[t] = "ended" /\ Goto(c, "close") /\ UNCHANGED <<task, seen, step, placed>>
  <2>1. CallsKept(c, t) /\ call'[c].pc = "close"
    BY <1>1, <1>2, <1>3, <1>5, <1>6, GoesTo
  <2>2. Running(t)'
    BY <1>6, <2>1 DEF Running
  <2>3. QED
    BY <1>1, <1>2, <1>6, <2>1, <2>2, RunOnlyMoves DEF stores
<1>7. ASSUME NEW d \in Node \ revoked, task[t] # "ended",
             IF task[t] = "executing" /\ step[t] = "running" THEN UNCHANGED <<task, seen>> ELSE SetTask(t, "executing"),
             step' = [step EXCEPT ![t] = "running"], placed' = [placed EXCEPT ![t] = d], Goto(c, "execute")
      PROVE  IInv'
  <2>1. CallsKept(c, t) /\ call'[c].pc = "execute"
    BY <1>1, <1>2, <1>3, <1>5, <1>7, GoesTo
  <2>2. /\ step'[t] = "running" /\ placed'[t] = d
        /\ \A u \in Task \ {t} : /\ step'[u] = step[u] /\ placed'[u] = placed[u]
                                 /\ task'[u] = task[u] /\ seen'[u] = seen[u]
        /\ task'[t] \in {task[t], "executing"} /\ seen'[t] \in {seen[t], now}
        /\ task' \in [Task -> TaskStates] /\ seen' \in [Task -> 0 .. MaxTime]
    BY <1>2, <1>7, ZenonT(40) DEF SetTask, Sign, TypeOK, TaskStates
  <2>3. TypeOK'
    BY <1>1, <1>2, <1>3, <1>7, <2>1, <2>2 DEF TypeOK, CallsKept, CallsTyped, StepStates, nodes
  <2>4. Rows(t)' /\ (AllExpired(t)' <=> AllExpired(t))
    BY <1>2, <1>3, <1>4, <1>1, <2>2, StepWrites
  <2>5. crashes = 0 => AllExpired(t)'
    BY <1>2, <1>4, <2>4 DEF Table
  <2>6. Running(t)'
    BY <2>1, <2>2 DEF Running
  <2>7. \A i \in OfTask(t)' : i \in OfTask(t) /\ rows'[i] = rows[i]
    BY <1>1 DEF OfTask
  <2>8. QED
    BY <1>1, <1>2, <1>3, <1>7, <2>1, <2>2, <2>3, <2>4, <2>5, <2>6, <2>7, RunKeeps
<1>8. CASE /\ task[t] # "ended"
           /\ IF task[t] = "executing" THEN SetTask(t, "queued") ELSE UNCHANGED <<task, seen>>
           /\ Goto(c, "leave") /\ UNCHANGED <<step, placed>>
  <2>1. CallsKept(c, t) /\ call'[c].pc = "leave"
    BY <1>1, <1>2, <1>3, <1>5, <1>8, GoesTo
  <2>2. /\ \A u \in Task \ {t} : task'[u] = task[u] /\ seen'[u] = seen[u]
        /\ task'[t] \in {task[t], "queued"} /\ seen'[t] \in {seen[t], now}
        /\ task' \in [Task -> TaskStates] /\ seen' \in [Task -> 0 .. MaxTime]
    BY <1>2, <1>8 DEF SetTask, Sign, TypeOK, TaskStates
  <2>3. TypeOK'
    BY <1>1, <1>2, <1>3, <1>8, <2>1, <2>2 DEF TypeOK, CallsKept, CallsTyped, nodes
  <2>4. StillRows(t) /\ Rows(t)'
    BY <1>1, <1>2, <1>3, <1>8, RowsUnchanged
  <2>5. Running(t)'
    BY <2>1 DEF Running
  <2>6. \A i \in OfTask(t)' : i \in OfTask(t) /\ rows'[i] = rows[i]
    BY <1>1 DEF OfTask
  <2>7. crashes = 0 /\ step'[t] = "running" => Found(t)'
    BY <1>4, <1>8
  <2>8. QED
    BY <1>1, <1>2, <1>3, <1>8, <2>1, <2>2, <2>3, <2>4, <2>5, <2>6, <2>7, RunKeeps
<1>9. QED
  BY <1>6, <1>7, <1>8 DEF RunPlaces

\* The first half of Executor.execute, up to the instant of the offer.
LEMMA RunExecutesKeeps ==
    ASSUME IInv, NEW t \in Task, RunExecutes(t)
    PROVE  IInv'
<1> DEFINE c == RunOf(t)
<1>1. At(c, "execute") /\ UNCHANGED <<world, task, step, placed, rows, records, nodes, lock>>
  BY DEF RunExecutes
<1>2. /\ c \in Calls /\ c.kind = "run" /\ About(c, t) /\ up /\ Typed /\ TypeOK /\ Rows(t) /\ Holders(t)
      /\ Running(t) /\ call[c].pc = "execute" /\ step[t] = "running" /\ placed[t] \in Node
  BY <1>1, RunIs DEF Running
<1>3. RowsStay /\ UNCHANGED <<released, started, outcomes, node, ran, now, crashes, up>>
  BY <1>1, SameRowsStay DEF world, records, nodes
<1>4. crashes = 0 => AllExpired(t)
  BY <1>1, RunFinds
<1>5. {"close", "finish", "offer"} \subseteq StagesOf("run") \ {"idle", "stopped"}
  BY StagesAre
<1>6. CASE task[t] = "ended"
  <2>1. Goto(c, "close") /\ UNCHANGED seen
    BY <1>6 DEF RunExecutes
  <2>2. CallsKept(c, t) /\ call'[c].pc = "close"
    BY <1>1, <1>2, <1>3, <1>5, <2>1, GoesTo
  <2>3. Running(t)'
    BY <1>1, <1>6, <2>2 DEF Running
  <2>4. QED
    BY <1>1, <1>2, <2>1, <2>2, <2>3, RunOnlyMoves DEF stores
<1>7. CASE task[t] # "ended" /\ LeftBehind(t)
  <2>1. Goto(c, "finish") /\ UNCHANGED seen
    BY <1>7 DEF RunExecutes
  <2>2. CallsKept(c, t) /\ call'[c].pc = "finish"
    BY <1>1, <1>2, <1>3, <1>5, <2>1, GoesTo
  <2>3. StillRows(t)
    BY <1>1, <1>2, <1>3, RowsUnchanged
  <2>4. Running(t)'
    BY <1>1, <1>2, <1>7, <2>2, <2>3, DerivedStill DEF Running
  <2>5. crashes = 0 => Found(t)
    <3>1. SUFFICES ASSUME crashes = 0
                   PROVE  Found(t)
      OBVIOUS
    <3>2. PICK i \in started[t] \cup outcomes[t] : TRUE
      BY <1>7 DEF LeftBehind
    <3>3. i \in OfTask(t) /\ IsLast(t, i) /\ i \notin released
      BY <1>2 DEF Rows, Records
    <3>4. rows[i].state = "expired"
      BY <1>4, <3>1, <3>3 DEF AllExpired
    <3>5. QED
      BY <3>3, <3>4 DEF Found
  <2>6. QED
    BY <1>1, <1>2, <2>1, <2>2, <2>4, <2>5, RunOnlyMoves DEF stores
<1>8. CASE task[t] # "ended" /\ ~LeftBehind(t)
  <2> DEFINE s == [call[c] EXCEPT !.pc = "offer", !.at = now]
  <2>1. call' = [call EXCEPT ![c] = s] /\ Sign(t)
    BY <1>2, <1>8 DEF RunExecutes
  <2>2. s \in CallState /\ s.pc = "offer" /\ s.at = now /\ s.id = call[c].id /\ s.at <= now
    <3>1. call[c] \in CallState /\ now \in Nat
      BY <1>2, AssignmentsAssumption DEF TypeOK
    <3>2. "offer" \in Stages
      BY DEF Stages
    <3>3. s \in CallState
      BY <3>1, <3>2 DEF CallState
    <3>4. s.pc = "offer" /\ s.at = now /\ s.id = call[c].id
      BY <3>1 DEF CallState
    <3>5. s.at <= now
      BY <3>1, <3>4
    <3>6. QED
      BY <3>3, <3>4, <3>5
  <2> HIDE DEF s
  <2>3. CallsKept(c, t) /\ call'[c] = s
    BY <1>1, <1>2, <1>3, <1>5, <2>1, <2>2, HolderGoes DEF CallsKept
  <2>4. /\ seen'[t] = now /\ \A u \in Task \ {t} : seen'[u] = seen[u]
        /\ seen' \in [Task -> 0 .. MaxTime]
    BY <1>2, <2>1 DEF Sign, TypeOK
  <2>5. TypeOK'
    BY <1>1, <1>2, <1>3, <2>3, <2>4 DEF TypeOK, CallsKept, CallsTyped, nodes
  <2>6. StillRows(t) /\ Rows(t)'
    BY <1>1, <1>2, <1>3, RowsUnchanged
  <2>7. Running(t)'
    BY <1>1, <1>2, <1>8, <2>2, <2>3, <2>4, <2>6, DerivedStill DEF Running
  <2>8. \A i \in OfTask(t)' : i \in OfTask(t) /\ rows'[i] = rows[i]
    BY <1>1 DEF OfTask
  <2>9. crashes = 0 => AllExpired(t)'
    BY <1>4, <2>6, DerivedStill
  <2>10. QED
    BY <1>1, <1>2, <1>3, <1>8, <2>2, <2>3, <2>4, <2>5, <2>6, <2>7, <2>8, <2>9, RunKeeps
<1>9. QED
  BY <1>6, <1>7, <1>8

\* The row a run writes for its offer.
LEMMA OfferIs ==
    ASSUME NEW t \in Task, NEW n \in Nat, placed[t] \in Node
    PROVE  /\ OfferOf(t, n) \in Row /\ OfferOf(t, n).task = t /\ OfferOf(t, n).state = "offered"
           /\ OfferOf(t, n).expires <= n + TTL
<1>1. LeastOf(TTL, DecisionTTL) \in Nat /\ LeastOf(TTL, DecisionTTL) <= TTL
  BY AssignmentsAssumption DEF LeastOf
<1>2. n + LeastOf(TTL, DecisionTTL) \in Nat /\ n + LeastOf(TTL, DecisionTTL) <= n + TTL
  BY <1>1, AssignmentsAssumption
<1>3. QED
  BY <1>2 DEF OfferOf, Row, RowStates

\* The insert of the offer.
LEMMA RunOffersKeeps ==
    ASSUME IInv, NEW t \in Task, RunOffers(t)
    PROVE  IInv'
<1> DEFINE c == RunOf(t)
<1>1. At(c, "offer") /\ Len(rows) < MaxRows /\ Goto(c, "leave")
      /\ UNCHANGED <<world, task, seen, step, placed, records, nodes, lock>>
  BY DEF RunOffers
<1>2. /\ c \in Calls /\ c.kind = "run" /\ About(c, t) /\ up /\ Typed /\ TypeOK /\ Rows(t) /\ Holders(t)
      /\ Running(t) /\ call[c].pc = "offer" /\ step[t] = "running" /\ placed[t] \in Node /\ ~LeftBehind(t)
      /\ call[c].at <= seen[t]
  BY <1>1, RunIs DEF Running
<1>3. UNCHANGED <<released, started, outcomes, node, ran, revoked, now, crashes, up>>
  BY <1>1 DEF world, records, nodes
<1>4. crashes = 0 => AllExpired(t)
  BY <1>1, RunFinds
<1>5. "leave" \in StagesOf("run") \ {"idle", "stopped"}
  BY StagesAre
<1>6. call[c].at \in Nat /\ seen[t] \in Nat /\ TTL \in Nat
  BY <1>2, AssignmentsAssumption DEF TypeOK, CallState
<1>7. CASE Open(t) = {}
  <2> PICK n : n = Len(rows) + 1
    OBVIOUS
  <2> PICK r : r = OfferOf(t, call[c].at)
    OBVIOUS
  <2>1. rows' = Append(rows, r)
    BY <1>7 DEF RunOffers
  <2>2. r \in Row /\ r.task = t /\ r.state = "offered" /\ r.expires <= call[c].at + TTL
    BY <1>2, <1>6, OfferIs
  <2>3. rows \in Seq(Row) /\ Len(rows) \in Nat /\ DOMAIN rows = 1 .. Len(rows) /\ MaxRows \in Nat
    BY <1>2, RowFacts, AssignmentsAssumption DEF TypeOK
  <2>4. /\ rows' \in Seq(Row) /\ Len(rows') = n /\ n <= MaxRows /\ rows'[n] = r
        /\ DOMAIN rows' = 1 .. n /\ \A i \in DOMAIN rows : rows'[i] = rows[i]
    BY <1>1, <2>1, <2>2, <2>3
  <2>5. n \notin DOMAIN rows /\ DOMAIN rows' = DOMAIN rows \cup {n} /\ \A i \in DOMAIN rows : i <= n
    BY <2>3, <2>4
  <2>6. RowsStay
    BY <2>4, <2>5 DEF RowsStay
  <2>7. CallsKept(c, t) /\ call'[c].pc = "leave"
    BY <1>1, <1>2, <1>3, <1>5, <2>6, GoesTo
  <2>8. TypeOK'
    BY <1>1, <1>2, <1>3, <2>4, <2>7 DEF TypeOK, CallsKept, CallsTyped
  <2>9. OfTask(t)' = OfTask(t) \cup {n} /\ n \notin OfTask(t) /\ \A i \in OfTask(t) : i \in DOMAIN rows
    BY <2>2, <2>4, <2>5 DEF OfTask
  <2>10. \A i \in OfTask(t) : rows[i].state = "expired" /\ rows'[i] = rows[i]
    BY <1>7, <2>4, <2>9 DEF Open
  <2>11. n \notin released
    BY <1>2, <2>5 DEF Typed, Named
  <2>12. IsLast(t, n)'
    BY <2>4, <2>5, <2>9, <2>3 DEF IsLast
  <2>13. Table(t)'
    BY <1>1, <1>2, <1>3, <2>2, <2>4, <2>9, <2>10, <2>11, <2>12 DEF Table, Over
  <2>14. Records(t)'
    <3>1. started[t] = {} /\ outcomes[t] = {}
      BY <1>2 DEF LeftBehind
    <3>2. \A d \in Node : node[d].order # n
      BY <2>5, NoneIsNothing, <1>2, <2>3 DEF Typed, Named
    <3>3. n \notin ran
      BY <2>5, <1>2 DEF Typed, Named
    <3>4. QED
      BY <1>1, <1>2, <1>3, <2>9, <3>1, <3>2, <3>3 DEF Rows, Records
  <2>15. Found(t)'
    BY <1>3, <2>2, <2>4, <2>9, <2>11, <2>12 DEF Found
  <2>16. Running(t)'
    BY <2>7 DEF Running
  <2>17. \A i \in OfTask(t)' : rows'[i].state \in {"offered", "claimed"} => rows'[i].expires <= seen[t] + TTL
    <3>1. r.expires \in Nat
      BY <2>2 DEF Row
    <3>2. r.expires <= seen[t] + TTL
      BY <1>2, <1>6, <2>2, <3>1
    <3>3. QED
      BY <2>4, <2>9, <2>10, <3>2
  <2>18. \A i \in DOMAIN rows' : rows'[i].task # t => i \in DOMAIN rows /\ rows'[i] = rows[i]
    BY <2>2, <2>4, <2>5
  <2>19. QED
    BY <1>1, <1>2, <1>3, <2>6, <2>7, <2>8, <2>13, <2>14, <2>15, <2>16, <2>17, <2>18, RunKeeps DEF Rows
<1>8. CASE Open(t) # {}
  <2>1. rows' = rows
    BY <1>8 DEF RunOffers
  <2>2. CallsKept(c, t) /\ call'[c].pc = "leave"
    BY <1>1, <1>2, <1>3, <1>5, <2>1, SameRowsStay, GoesTo
  <2>3. Running(t)'
    BY <2>2 DEF Running
  <2>4. crashes # 0
    BY <1>4, <1>8 DEF AllExpired, Open
  <2>5. QED
    BY <1>1, <1>2, <2>1, <2>2, <2>3, <2>4, RunOnlyMoves DEF stores
<1>9. QED
  BY <1>7, <1>8

\* One row of the table changes, and stays about the same task.
LEMMA RowWrites ==
    ASSUME TypeOK, NEW i \in DOMAIN rows, NEW r \in Row, r.task = rows[i].task, SetRow(i, r)
    PROVE  /\ rows' \in Seq(Row) /\ Len(rows') <= MaxRows /\ DOMAIN rows' = DOMAIN rows /\ RowsStay
           /\ rows'[i] = r /\ \A j \in DOMAIN rows : j # i => rows'[j] = rows[j]
           /\ \A t : OfTask(t)' = OfTask(t)
<1>1. rows \in Seq(Row) /\ Len(rows) \in Nat /\ DOMAIN rows = 1 .. Len(rows) /\ Len(rows) <= MaxRows
  BY RowFacts DEF TypeOK
<1>2. rows' = [rows EXCEPT ![i] = r]
  BY DEF SetRow
<1>3. /\ rows' \in Seq(Row) /\ DOMAIN rows' = DOMAIN rows /\ Len(rows') = Len(rows)
      /\ rows'[i] = r /\ \A j \in DOMAIN rows : j # i => rows'[j] = rows[j]
  BY <1>1, <1>2
<1>4. \A j \in DOMAIN rows : rows'[j].task = rows[j].task
  BY <1>3
<1>5. QED
  BY <1>1, <1>3, <1>4 DEF RowsStay, OfTask

\* The state of one row changes, and nothing else of it.
LEMMA StateWrites ==
    ASSUME TypeOK, NEW i \in DOMAIN rows, NEW s \in RowStates, SetState(i, s)
    PROVE  /\ rows' \in Seq(Row) /\ Len(rows') <= MaxRows /\ DOMAIN rows' = DOMAIN rows /\ RowsStay
           /\ rows'[i].state = s /\ rows'[i].expires = rows[i].expires /\ rows'[i].task = rows[i].task
           /\ \A j \in DOMAIN rows : j # i => rows'[j] = rows[j]
           /\ \A t : OfTask(t)' = OfTask(t)
<1> DEFINE r == [rows[i] EXCEPT !.state = s]
<1>1. rows[i] \in Row
  BY RowFacts
<1>2. r \in Row /\ r.state = s /\ r.expires = rows[i].expires /\ r.task = rows[i].task
  BY <1>1 DEF Row
<1>3. SetRow(i, r)
  BY DEF SetState
<1> HIDE DEF r
<1>4. QED
  BY <1>2, <1>3, RowWrites

\* The last row of a task, which nothing was made of, expires.
LEMMA LastExpires ==
    ASSUME Typed, NEW t \in Task, Rows(t), Found(t), SetState(Latest(t), "expired"),
           UNCHANGED <<released, started, outcomes, node, ran>>,
           step'[t] = step[t] \/ step'[t] \in {"completed", "failed", "cancelled"}
    PROVE  /\ rows' \in Seq(Row) /\ Len(rows') <= MaxRows /\ RowsStay
           /\ Rows(t)' /\ AllExpired(t)' /\ Found(t)' /\ OfTask(t)' # {} /\ (LeftBehind(t)' <=> LeftBehind(t))
           /\ \A i \in DOMAIN rows' : rows'[i].task # t => i \in DOMAIN rows /\ rows'[i] = rows[i]
           /\ Latest(t) \in DOMAIN rows
<1>1. PICK l \in OfTask(t) : IsLast(t, l) /\ l \notin released /\ rows[l].state \in {"offered", "claimed", "expired"}
  BY DEF Found
<1>2. Latest(t) = l /\ l \in DOMAIN rows /\ rows[l].task = t /\ TypeOK /\ "expired" \in RowStates
  BY <1>1, LatestIsLast DEF Typed, OfTask, RowStates
<1>3. SetState(l, "expired")
  BY <1>2
<1>4. /\ rows' \in Seq(Row) /\ Len(rows') <= MaxRows /\ DOMAIN rows' = DOMAIN rows /\ RowsStay
      /\ rows'[l].state = "expired" /\ \A j \in DOMAIN rows : j # l => rows'[j] = rows[j]
      /\ OfTask(t)' = OfTask(t) /\ rows'[l].task = t
  BY <1>2, <1>3, StateWrites
<1>5. \A i : IsLast(t, i)' <=> IsLast(t, i)
  BY <1>4 DEF IsLast
<1>6. \A i \in OfTask(t) : i # l => rows[i].state = "expired"
  <2> SUFFICES ASSUME NEW i \in OfTask(t), rows[i].state # "expired"
               PROVE  i = l
    OBVIOUS
  <2>1. IsLast(t, i)
    BY DEF Rows, Table
  <2>2. QED
    BY <1>1, <2>1, LatestIsLast, <1>2
<1>7. AllExpired(t)'
  BY <1>4, <1>6 DEF AllExpired, OfTask
<1>8. Found(t)'
  BY <1>1, <1>4, <1>5 DEF Found
<1>9. Table(t)'
  BY <1>7, <1>4 DEF Table, AllExpired
<1>10. Records(t)'
  BY <1>4, <1>5, <1>7 DEF Rows, Records, AllExpired
<1>11. LeftBehind(t)' <=> LeftBehind(t)
  BY DEF LeftBehind
<1>12. \A i \in DOMAIN rows' : rows'[i].task # t => i \in DOMAIN rows /\ rows'[i] = rows[i]
  BY <1>2, <1>4
<1>13. QED
  BY <1>1, <1>2, <1>4, <1>7, <1>8, <1>9, <1>10, <1>11, <1>12 DEF Rows

\* The expiry a run writes where time has decided.
LEMMA RunLapsesKeeps ==
    ASSUME IInv, NEW t \in Task, RunLapses(t)
    PROVE  IInv'
<1> DEFINE c == RunOf(t)
<1>1. At(c, "lapse") /\ UNCHANGED <<world, task, seen, step, placed, records, nodes>>
  BY DEF RunLapses
<1>2. /\ c \in Calls /\ c.kind = "run" /\ About(c, t) /\ up /\ Typed /\ TypeOK /\ Rows(t) /\ Holders(t)
      /\ Running(t) /\ call[c].pc = "lapse" /\ step[t] = "running" /\ Found(t)
  BY <1>1, RunIs DEF Running
<1>3. UNCHANGED <<released, started, outcomes, node, ran, revoked, now, crashes, up>>
  BY <1>1 DEF world, records, nodes
<1>4. CASE Alive(rows[Latest(t)], now)
  <2>1. Leave(c, t) /\ UNCHANGED rows
    BY <1>4 DEF RunLapses
  <2>2. CallsKept(c, t) /\ call'[c].pc = "idle"
    BY <1>2, <1>3, <2>1, SameRowsStay, Returns
  <2>3. Running(t)'
    BY <2>2 DEF Running
  <2>4. QED
    BY <1>1, <1>2, <2>1, <2>2, <2>3, RunOnlyMoves DEF stores
<1>5. CASE ~Alive(rows[Latest(t)], now)
  <2>1. SetState(Latest(t), "expired") /\ Goto(c, "lapsed") /\ UNCHANGED lock
    BY <1>5 DEF RunLapses
  <2>2. /\ rows' \in Seq(Row) /\ Len(rows') <= MaxRows /\ RowsStay
        /\ Rows(t)' /\ AllExpired(t)' /\ Found(t)' /\ OfTask(t)' # {}
        /\ \A i \in DOMAIN rows' : rows'[i].task # t => i \in DOMAIN rows /\ rows'[i] = rows[i]
    BY <1>1, <1>2, <1>3, <2>1, LastExpires
  <2>3. "lapsed" \in StagesOf("run") \ {"idle", "stopped"}
    BY StagesAre
  <2>4. CallsKept(c, t) /\ call'[c].pc = "lapsed"
    BY <1>2, <1>3, <2>1, <2>2, <2>3, GoesTo
  <2>5. Running(t)'
    BY <1>1, <1>2, <2>2, <2>4 DEF Running
  <2>6. TypeOK'
    BY <1>1, <1>2, <1>3, <2>2, <2>4 DEF TypeOK, CallsKept, CallsTyped
  <2>7. \A i \in OfTask(t)' : rows'[i].state = "expired"
    BY <2>2 DEF AllExpired
  <2>8. QED
    BY <1>1, <1>2, <1>3, <2>2, <2>4, <2>5, <2>6, <2>7, RunKeeps
<1>6. QED
  BY <1>4, <1>5

\* The release of a step nothing was made of.
LEMMA RunReleasesKeeps ==
    ASSUME IInv, NEW t \in Task, RunReleases(t)
    PROVE  IInv'
<1> DEFINE c == RunOf(t)
<1>1. At(c, "lapsed") /\ UNCHANGED <<world, task, placed, rows, started, outcomes, nodes, lock>>
  BY DEF RunReleases
<1>2. /\ c \in Calls /\ c.kind = "run" /\ About(c, t) /\ up /\ Typed /\ TypeOK /\ Rows(t) /\ Holders(t)
      /\ Running(t) /\ call[c].pc = "lapsed" /\ step[t] = "running" /\ OfTask(t) # {} /\ AllExpired(t)
  BY <1>1, RunIs DEF Running
<1>3. UNCHANGED <<node, ran, revoked, now, crashes, up>> /\ RowsStay
  BY <1>1, SameRowsStay DEF world, nodes
<1>4. crashes = 0 => Found(t)
  BY <1>1, <1>2, RunFinds
<1>5. {"close", "finish", "walk"} \subseteq StagesOf("run") \ {"idle", "stopped"}
  BY StagesAre
<1>6. CASE LeftBehind(t) \/ task[t] = "ended"
  <2> DEFINE p == IF LeftBehind(t) THEN "finish" ELSE "close"
  <2>1. Goto(c, p) /\ UNCHANGED <<seen, step, released>> /\ p \in {"finish", "close"}
    BY <1>6 DEF RunReleases
  <2>2. CallsKept(c, t) /\ call'[c].pc = p
    BY <1>1, <1>2, <1>3, <1>5, <2>1, GoesTo
  <2>3. StillRows(t)
    BY <1>1, <1>2, <1>3, <2>1, RowsUnchanged
  <2>4. Running(t)'
    BY <1>1, <1>2, <1>6, <2>1, <2>2, <2>3, DerivedStill DEF Running
  <2>5. QED
    BY <1>1, <1>2, <1>4, <2>1, <2>2, <2>4, RunOnlyMoves DEF stores, records
<1>7. CASE ~LeftBehind(t) /\ task[t] # "ended"
  <2>1. SetStep(t, "pending") /\ released' = released \cup {Latest(t)} /\ Goto(c, "walk")
    BY <1>7 DEF RunReleases
  <2>2. CallsKept(c, t) /\ call'[c].pc = "walk"
    BY <1>1, <1>2, <1>3, <1>5, <2>1, GoesTo
  <2>3. /\ step'[t] = "pending" /\ seen'[t] = now /\ \A u \in Task \ {t} : step'[u] = step[u] /\ seen'[u] = seen[u]
        /\ step' \in [Task -> StepStates] /\ seen' \in [Task -> 0 .. MaxTime]
    BY <1>2, <2>1 DEF SetStep, Sign, TypeOK, StepStates
  <2>4. Latest(t) \in OfTask(t) /\ Latest(t) \in DOMAIN rows /\ Latest(t) \in Id
    BY <1>2, LatestIsLast, RowFacts DEF IsLast, OfTask
  <2>5. TypeOK'
    BY <1>1, <1>2, <1>3, <2>1, <2>2, <2>3, <2>4 DEF TypeOK, CallsKept, CallsTyped
  <2>6. OfTask(t)' = OfTask(t) /\ AllExpired(t)'
    BY <1>1, <1>2 DEF OfTask, AllExpired
  <2>7. Table(t)'
    BY <2>6 DEF Table, AllExpired
  <2>8. Records(t)'
    <3>1. started[t] = {} /\ outcomes[t] = {}
      BY <1>7 DEF LeftBehind
    <3>2. QED
      BY <1>1, <1>2, <1>3, <2>6, <3>1 DEF Rows, Records
  <2>9. Running(t)'
    BY <2>2 DEF Running
  <2>10. \A i \in OfTask(t)' : i \in OfTask(t) /\ rows'[i] = rows[i]
    BY <1>1, <2>6
  <2>11. released \subseteq released' /\ \A i \in released' \ released : i \in OfTask(t)
    BY <2>1, <2>4
  <2>12. QED
    BY <1>1, <1>2, <1>3, <1>7, <2>2, <2>3, <2>5, <2>7, <2>8, <2>9, <2>10, <2>11, RunKeeps DEF Rows
<1>8. QED
  BY <1>6, <1>7

\* The step closes as the stores say.
LEMMA VerdictsEnd ==
    ASSUME NEW t
    PROVE  Verdicts(t) \subseteq {"completed", "failed", "cancelled"}
<1>1. CASE outcomes[t] # {}
  BY <1>1 DEF Verdicts
<1>2. CASE outcomes[t] = {} /\ started[t] # {}
  BY <1>2 DEF Verdicts
<1>3. CASE outcomes[t] = {} /\ started[t] = {}
  BY <1>3 DEF Verdicts
<1>4. QED
  BY <1>1, <1>2, <1>3

\* The step of a task closes, and nothing else changes but a sign of life.
LEMMA StepCloses ==
    ASSUME Typed, NEW t \in Task, NEW v \in {"completed", "failed", "cancelled"}, SetStep(t, v)
    PROVE  /\ step'[t] = v /\ seen'[t] = now /\ \A u \in Task \ {t} : step'[u] = step[u] /\ seen'[u] = seen[u]
           /\ step' \in [Task -> StepStates] /\ seen' \in [Task -> 0 .. MaxTime]
BY DEF SetStep, Sign, Typed, TypeOK, StepStates

\* The second half of the executor, for what was left in the store.
LEMMA RunFinishesKeeps ==
    ASSUME IInv, NEW t \in Task, RunFinishes(t)
    PROVE  IInv'
<1> DEFINE c == RunOf(t)
<1>1. At(c, "finish") /\ UNCHANGED <<world, task, placed, rows, records, nodes>>
  BY DEF RunFinishes
<1>2. /\ c \in Calls /\ c.kind = "run" /\ About(c, t) /\ up /\ Typed /\ TypeOK /\ Rows(t) /\ Holders(t)
      /\ Running(t) /\ call[c].pc = "finish" /\ step[t] = "running" /\ LeftBehind(t)
  BY <1>1, RunIs DEF Running
<1>3. UNCHANGED <<released, started, outcomes, node, ran, revoked, now, crashes, up>> /\ RowsStay
  BY <1>1, SameRowsStay DEF world, nodes, records
<1>4. {"close", "walk"} \subseteq StagesOf("run") \ {"idle", "stopped"}
  BY StagesAre
<1>5. CASE task[t] = "ended" /\ Goto(c, "close") /\ UNCHANGED <<seen, step, lock>>
  <2>1. CallsKept(c, t) /\ call'[c].pc = "close"
    BY <1>2, <1>3, <1>4, <1>5, GoesTo
  <2>2. Running(t)'
    BY <1>1, <1>5, <2>1 DEF Running
  <2>3. QED
    BY <1>1, <1>2, <1>5, <2>1, <2>2, RunOnlyMoves DEF stores
<1>6. ASSUME task[t] # "ended", NEW v \in Verdicts(t), SetStep(t, v), Goto(c, "walk"), UNCHANGED lock
      PROVE  IInv'
  <2>1. CallsKept(c, t) /\ call'[c].pc = "walk"
    BY <1>2, <1>3, <1>4, <1>6, GoesTo
  <2>2. v \in {"completed", "failed", "cancelled"}
    BY VerdictsEnd
  <2>3. /\ step'[t] = v /\ seen'[t] = now /\ \A u \in Task \ {t} : step'[u] = step[u] /\ seen'[u] = seen[u]
        /\ step' \in [Task -> StepStates] /\ seen' \in [Task -> 0 .. MaxTime]
    BY <1>2, <1>6, <2>2, StepCloses
  <2>4. TypeOK'
    BY <1>1, <1>2, <1>3, <2>1, <2>3 DEF TypeOK, CallsKept, CallsTyped
  <2>5. Rows(t)'
    BY <1>1, <1>2, <1>3, <2>2, <2>3, StepWrites
  <2>6. Running(t)'
    BY <2>1 DEF Running
  <2>7. \A i \in OfTask(t)' : i \in OfTask(t) /\ rows'[i] = rows[i]
    BY <1>1 DEF OfTask
  <2>8. QED
    BY <1>1, <1>2, <1>3, <1>6, <2>1, <2>2, <2>3, <2>4, <2>5, <2>6, <2>7, RunKeeps
<1>7. ~(~(LeftBehind(t) /\ step[t] = "running"))
  BY <1>2
<1>8. QED
  BY <1>5, <1>6, <1>7 DEF RunFinishes

-------------------------------------------------------------------------------
(* The steps of any holder of the lock *)

\* A step of a holder of the lock keeps the invariant when it keeps what is said of its own task.
LEMMA HolderStep ==
    ASSUME IInv, NEW c \in Calls, NEW t \in Task, c.kind \in {"run", "stop", "ask", "deliver"},
           c.kind \in {"run", "stop"} => c.of = t,
           CallsKept(c, t), up, UNCHANGED <<world, ran, released>>, TypeOK', RowsStay,
           \A d \in Node : \/ node'[d] \in {node[d], Empty}
                           \/ node'[d].order \in OfTask(t) /\ node'[d].envelope = node[d].envelope,
           \A i \in DOMAIN rows' : rows'[i].task # t => i \in DOMAIN rows /\ rows'[i] = rows[i],
           \A u \in Task \ {t} : /\ task'[u] = task[u] /\ seen'[u] = seen[u] /\ step'[u] = step[u] /\ placed'[u] = placed[u]
                                /\ started'[u] = started[u] /\ outcomes'[u] = outcomes[u],
           seen'[t] \in {seen[t], now}, task'[t] # "ended" => task[t] # "ended",
           \A i \in OfTask(t)' : rows'[i].state \in {"offered", "claimed"} =>
              \/ i \in OfTask(t) /\ rows[i].state \in {"offered", "claimed"} /\ rows'[i].expires = rows[i].expires
              \/ rows'[i].expires <= seen'[t] + TTL,
           Rows(t)', Holders(t)', Tracked(t)', Caught(t)'
    PROVE  IInv'
<1>1. Typed /\ TypeOK /\ Signed(t)
  BY DEF IInv, Typed, Ends
<1> USE DEF world
<1>2. \A u \in Task : seen'[u] \in {seen[u], now}
  OBVIOUS
<1>3. Empty.order = None
  BY DEF Empty
<1>4. Named'
  <2>1. \A d \in Node : node'[d] \in {node[d], Empty} \/ (node'[d].order \in DOMAIN rows /\ node'[d].envelope = node[d].envelope)
    BY DEF OfTask
  <2>2. QED
    BY <1>1, <1>2, <2>1, NamedKept
<1>5. Typed'
  BY <1>4 DEF Typed, CallsKept
<1>6. Alters(c, t)
  BY <1>3 DEF Alters, CallsKept
<1>7. Signed(t)'
  <2>1. seen[t] <= seen'[t]
    <3>1. seen[t] \in Nat /\ now \in Nat /\ seen[t] <= now
      BY <1>1, AssignmentsAssumption DEF Typed, TypeOK, Named
    <3>2. QED
      BY <3>1
  <2>2. OthersStay(c)
    BY DEF CallsKept
  <2>3. QED
    BY <1>1, <2>1, <2>2, SignedKept
<1>8. QED
  BY <1>5, <1>6, <1>7, HolderKeeps DEF Ends

\* The holder that returns leaves nobody at the task.
LEMMA HolderLeft ==
    ASSUME Typed, NEW c \in Calls, NEW t \in Task, c.kind \in {"run", "stop", "ask", "deliver"},
           Holders(t), CallsKept(c, t), ~About(c, t)', call'[c] = Idle, task[t] = "ended" => task'[t] = "ended"
    PROVE  /\ Holders(t)' /\ call'[RunOf(t)].pc = "idle"
           /\ \A d \in Node : ~About(DeliverOf(d), t)'
<1>1. \A o \in Calls : ~About(o, t)'
  BY DEF CallsKept, OnlyAbout
<1>2. call'[RunOf(t)].pc = "idle" /\ call'[StopOf(t)].pc \in {"idle", "stopped"}
  BY <1>1, CallNames DEF About
<1>3. \A d \in Node : ~About(DeliverOf(d), t)' /\ ~About(AskOf(d), t)'
  BY <1>1, CallNames
<1>4. call'[StopOf(t)].pc = "stopped" => task'[t] = "ended"
  <2>1. CASE c = StopOf(t)
    BY <2>1, IdleIs
  <2>2. CASE c # StopOf(t)
    <3>1. call'[StopOf(t)] = call[StopOf(t)]
      BY <2>2, CallNames DEF CallsKept, OthersStay
    <3>2. QED
      BY <3>1 DEF Holders, Stopping
  <2>3. QED
    BY <2>1, <2>2
<1>5. Running(t)' /\ Stopping(t)'
  BY <1>2, <1>4 DEF Running, Stopping
<1>6. Asking(t)' /\ Delivering(t)'
  BY <1>3 DEF Asking, Delivering
<1>7. QED
  BY <1>2, <1>3, <1>5, <1>6 DEF Holders

\* The claim of one node goes on.
LEMMA AskerGoes ==
    ASSUME Typed, NEW d \in Node, NEW t \in Task, Holders(t), CallsKept(AskOf(d), t), task[t] = "ended" => task'[t] = "ended",
           LET c == call'[AskOf(d)] IN
           /\ rows'[c.id].state = IF c.pc = "record" THEN "claimed" ELSE "offered"
           /\ c.pc \in {"sign", "claim", "record"} => step'[t] = "running"
           /\ c.pc = "claim" => c.at <= seen'[t]
           /\ c.pc \in {"close", "expire"} => task'[t] = "ended"
           /\ c.pc = "expire" => Lapsing(t)'
    PROVE  Holders(t)' /\ call'[RunOf(t)].pc = "idle" /\ \A e \in Node : ~About(DeliverOf(e), t)'
<1> DEFINE c == AskOf(d)
<1>1. c \in Calls /\ c.kind = "ask" /\ c.of = d /\ c # RunOf(t) /\ c # StopOf(t) /\ RunOf(t) \in Calls
  BY CallNames
<1>2. /\ Running(t)' /\ Stopping(t)' /\ Delivering(t)'
      /\ \A e \in Node : (About(AskOf(e), t)' => c = AskOf(e)) /\ (About(DeliverOf(e), t)' => c = DeliverOf(e))
  BY <1>1, OthersHold
<1>3. Asking(t)'
  <2>1. \A e \in Node : About(AskOf(e), t)' => e = d
    BY <1>1, <1>2, CallNames
  <2>2. QED
    BY <2>1 DEF Asking
<1>4. \A e \in Node : ~About(DeliverOf(e), t)'
  BY <1>1, <1>2, CallNames
<1>5. call'[RunOf(t)].pc = "idle"
  BY <1>1, CallNames DEF CallsKept, OnlyAbout, About
<1>6. QED
  BY <1>2, <1>3, <1>4, <1>5 DEF Holders

\* The delivery of one node goes on.
LEMMA DelivererGoes ==
    ASSUME Typed, NEW d \in Node, NEW t \in Task, Holders(t), CallsKept(DeliverOf(d), t), task[t] = "ended" => task'[t] = "ended",
           LET c == call'[DeliverOf(d)] IN
           /\ c.pc \in {"store", "refuse", "mark"} => rows'[c.id].state = "claimed"
           /\ c.pc \in {"store", "refuse"} => step'[t] = "running"
           /\ c.pc = "mark" => c.id \in outcomes'[t] \/ Over(t)'
           /\ c.pc = "close" => rows'[c.id].state = "delivered"
           /\ t \notin Relocatable => c.id \in started'[t]
    PROVE  Holders(t)' /\ call'[RunOf(t)].pc = "idle"
<1> DEFINE c == DeliverOf(d)
<1>1. c \in Calls /\ c.kind = "deliver" /\ c.of = d /\ c # RunOf(t) /\ c # StopOf(t) /\ RunOf(t) \in Calls
  BY CallNames
<1>2. /\ Running(t)' /\ Stopping(t)' /\ Asking(t)'
      /\ \A e \in Node : (About(AskOf(e), t)' => c = AskOf(e)) /\ (About(DeliverOf(e), t)' => c = DeliverOf(e))
  BY <1>1, OthersHold
<1>3. Delivering(t)'
  <2>1. \A e \in Node : About(DeliverOf(e), t)' => e = d
    BY <1>1, <1>2, CallNames
  <2>2. QED
    BY <2>1 DEF Delivering
<1>4. call'[RunOf(t)].pc = "idle"
  BY <1>1, CallNames DEF CallsKept, OnlyAbout, About
<1>5. QED
  BY <1>2, <1>3, <1>4 DEF Holders

\* A step with something to find, or that does not run, is in nobody's debt.
LEMMA EndsWell ==
    ASSUME NEW t \in Task, crashes' = crashes, step'[t] # "running" \/ Found(t)',
           call'[RunOf(t)].pc \notin {"place", "execute", "offer"}
    PROVE  Tracked(t)' /\ Caught(t)'
BY DEF Tracked, Caught

\* Whatever is left as it was is left in the stores.
LEMMA StoresStay ==
    ASSUME TypeOK, NEW t \in Task, CallsTyped, UNCHANGED <<world, stores, nodes>>
    PROVE  /\ TypeOK' /\ RowsStay /\ \A i \in OfTask(t)' : i \in OfTask(t) /\ rows'[i] = rows[i]
           /\ \A i \in DOMAIN rows' : rows'[i].task # t => i \in DOMAIN rows /\ rows'[i] = rows[i]
BY DEF TypeOK, CallsTyped, RowsStay, OfTask, world, stores, records, nodes

-------------------------------------------------------------------------------
(* The close of the step of a task that has ended *)

\* The call that closes.
LEMMA CloserIs ==
    ASSUME IInv, NEW t \in Task, NEW p \in {"close", "expire"}, NEW c, At(c, p),
           c \in {RunOf(t), StopOf(t)} \cup {AskOf(d) : d \in Node}, c.kind = "ask" => rows[call[c].id].task = t
    PROVE  /\ c \in Calls /\ c.kind \in {"run", "stop", "ask"} /\ (c.kind \in {"run", "stop"} => c.of = t)
           /\ About(c, t) /\ up /\ Typed /\ TypeOK /\ Rows(t) /\ Holders(t) /\ task[t] = "ended"
           /\ call[c].pc = p /\ (p = "expire" => Lapsing(t))
           /\ (c.kind = "ask" => rows[call[c].id].state = "offered")
           /\ c = RunOf(t) \/ c = StopOf(t) \/ \E d \in Node : c = AskOf(d)
<1>1. Typed /\ TypeOK /\ Rows(t) /\ Holders(t) /\ Running(t) /\ Stopping(t) /\ Asking(t) /\ up /\ call[c].pc = p
  BY DEF IInv, Typed, Holders, At
<1>2. c \in Calls /\ c.kind \in {"run", "stop", "ask"} /\ (c.kind \in {"run", "stop"} => c.of = t)
  BY CallNames
<1>3. About(c, t)
  BY <1>1, <1>2 DEF About
<1>4. c = RunOf(t) \/ c = StopOf(t) \/ \E d \in Node : c = AskOf(d)
  OBVIOUS
<1>5. CASE c = RunOf(t)
  BY <1>1, <1>2, <1>3, <1>4, <1>5, CallNames DEF Running
<1>6. CASE c = StopOf(t)
  BY <1>1, <1>2, <1>3, <1>4, <1>6, CallNames DEF Stopping
<1>7. CASE \E d \in Node : c = AskOf(d)
  BY <1>1, <1>2, <1>3, <1>4, <1>7, CallNames DEF Asking
<1>8. QED
  BY <1>4, <1>5, <1>6, <1>7

\* A holder that leaves everything as it was.
LEMMA LeavesAll ==
    ASSUME IInv, NEW c \in Calls, NEW t \in Task, c.kind \in {"run", "stop", "ask", "deliver"},
           c.kind \in {"run", "stop"} => c.of = t, About(c, t), up, Leave(c, t), UNCHANGED <<world, stores, nodes>>,
           step[t] # "running" \/ Found(t)
    PROVE  IInv'
<1>1. Typed /\ TypeOK /\ Rows(t) /\ Holders(t)
  BY DEF IInv, Typed
<1>2. RowsStay /\ now' = now
  BY SameRowsStay DEF world, stores
<1>3. CallsKept(c, t) /\ ~About(c, t)' /\ call'[c] = Idle
  BY <1>1, <1>2, Returns
<1>4. /\ TypeOK' /\ \A i \in OfTask(t)' : i \in OfTask(t) /\ rows'[i] = rows[i]
      /\ \A i \in DOMAIN rows' : rows'[i].task # t => i \in DOMAIN rows /\ rows'[i] = rows[i]
  BY <1>1, <1>3, StoresStay DEF CallsKept
<1>5. Holders(t)' /\ call'[RunOf(t)].pc = "idle"
  BY <1>1, <1>3, HolderLeft DEF stores
<1> USE DEF world, stores, nodes, records
<1>6. StillRows(t) /\ Rows(t)'
  BY <1>1, RowsUnchanged
<1>7. Tracked(t)' /\ Caught(t)'
  <2>1. step'[t] # "running" \/ Found(t)'
    BY <1>6, DerivedStill
  <2>2. crashes' = crashes
    OBVIOUS
  <2>3. QED
    BY <1>5, <2>1, <2>2, EndsWell
<1>8. \A d \in Node : node'[d] \in {node[d], Empty}
  OBVIOUS
<1>9. QED
  BY <1>1, <1>2, <1>3, <1>4, <1>5, <1>6, <1>7, <1>8, HolderStep

\* The last row of a task, that nobody took, is withdrawn with the step.
LEMMA LastWithdrawn ==
    ASSUME Typed, NEW t \in Task, Rows(t), Found(t), SetState(Latest(t), "withdrawn"), Over(t)',
           rows[Latest(t)].state = "offered",
           UNCHANGED <<released, started, outcomes, node, ran>>
    PROVE  /\ rows' \in Seq(Row) /\ Len(rows') <= MaxRows /\ RowsStay
           /\ Rows(t)' /\ OfTask(t)' = OfTask(t)
           /\ \A i \in DOMAIN rows' : rows'[i].task # t => i \in DOMAIN rows /\ rows'[i] = rows[i]
           /\ \A i \in OfTask(t)' : i = Latest(t) \/ rows'[i] = rows[i]
           /\ rows'[Latest(t)].state = "withdrawn"
<1>1. PICK l \in OfTask(t) : IsLast(t, l) /\ l \notin released
  BY DEF Found
<1>2. Latest(t) = l /\ l \in DOMAIN rows /\ rows[l].task = t /\ TypeOK /\ "withdrawn" \in RowStates
  BY <1>1, LatestIsLast DEF Typed, OfTask, RowStates
<1>3. SetState(l, "withdrawn")
  BY <1>2
<1>4. /\ rows' \in Seq(Row) /\ Len(rows') <= MaxRows /\ DOMAIN rows' = DOMAIN rows /\ RowsStay
      /\ rows'[l].state = "withdrawn" /\ \A j \in DOMAIN rows : j # l => rows'[j] = rows[j]
      /\ OfTask(t)' = OfTask(t) /\ rows'[l].task = t
  BY <1>2, <1>3, StateWrites
<1>5. \A i : IsLast(t, i)' <=> IsLast(t, i)
  BY <1>4 DEF IsLast
<1>6. \A i \in OfTask(t) : i \in DOMAIN rows /\ (i # l => rows'[i] = rows[i])
  BY <1>4 DEF OfTask
<1>7. step'[t] # "pending"
  BY DEF Over
<1>8. Table(t)'
  BY <1>1, <1>4, <1>5, <1>6, <1>7 DEF Rows, Table
<1>9. l \notin started[t]
  BY <1>2 DEF Rows, Records
<1>10. Records(t)'
  BY <1>4, <1>5, <1>6, <1>7, <1>9 DEF Rows, Records
<1>11. \A i \in DOMAIN rows' : rows'[i].task # t => i \in DOMAIN rows /\ rows'[i] = rows[i]
  BY <1>2, <1>4
<1>12. QED
  BY <1>1, <1>2, <1>4, <1>6, <1>8, <1>10, <1>11 DEF Rows

\* A holder closes the step and leaves, and the table stays.
LEMMA ClosesAndLeaves ==
    ASSUME IInv, NEW c \in Calls, NEW t \in Task, c.kind \in {"run", "stop", "ask", "deliver"},
           c.kind \in {"run", "stop"} => c.of = t, About(c, t), up, Leave(c, t),
           NEW v \in Verdicts(t), SetStep(t, v), UNCHANGED <<world, task, placed, rows, records, ran, revoked>>,
           node' \in [Node -> Hand], \A d \in Node : node'[d] \in {node[d], Empty}
    PROVE  IInv'
<1>1. Typed /\ TypeOK /\ Rows(t) /\ Holders(t)
  BY DEF IInv, Typed
<1>2. UNCHANGED <<released, started, outcomes, ran, revoked, now, crashes, up, task>> /\ RowsStay
  BY SameRowsStay DEF world, records
<1>3. v \in {"completed", "failed", "cancelled"}
  BY VerdictsEnd
<1>4. /\ step'[t] = v /\ seen'[t] = now /\ \A u \in Task \ {t} : step'[u] = step[u] /\ seen'[u] = seen[u]
      /\ step' \in [Task -> StepStates] /\ seen' \in [Task -> 0 .. MaxTime]
  BY <1>1, <1>3, StepCloses
<1>5. CallsKept(c, t) /\ ~About(c, t)' /\ call'[c] = Idle
  BY <1>1, <1>2, Returns
<1>6. Holders(t)' /\ call'[RunOf(t)].pc = "idle"
  BY <1>1, <1>2, <1>5, HolderLeft
<1>7. TypeOK'
  BY <1>1, <1>2, <1>4, <1>5 DEF TypeOK, CallsKept, CallsTyped
<1>8. Rows(t)'
  <2>1. None \notin OfTask(t) /\ Empty.order = None
    BY <1>1, NoneIsNothing, RowFacts DEF OfTask, Empty
  <2>2. OfTask(t)' = OfTask(t) /\ \A i : IsLast(t, i)' <=> IsLast(t, i)
    BY <1>2 DEF OfTask, IsLast
  <2>3. Over(t)' /\ step'[t] # "pending"
    BY <1>3, <1>4 DEF Over
  <2>4. Table(t)'
    BY <1>1, <1>2, <2>2, <2>3 DEF Rows, Table
  <2>5. \A d \in Node : node'[d].order \in OfTask(t) => node'[d].order = node[d].order
    BY <2>1
  <2>6. Records(t)'
    BY <1>1, <1>2, <2>2, <2>3, <2>5 DEF Rows, Records
  <2>7. QED
    BY <2>4, <2>6 DEF Rows
<1>9. Tracked(t)' /\ Caught(t)'
  BY <1>2, <1>3, <1>4, <1>6, EndsWell
<1>10. /\ \A i \in OfTask(t)' : i \in OfTask(t) /\ rows'[i] = rows[i]
       /\ \A i \in DOMAIN rows' : i \in DOMAIN rows /\ rows'[i] = rows[i]
  BY <1>2 DEF OfTask
<1>11. QED
  BY <1>1, <1>2, <1>4, <1>5, <1>6, <1>7, <1>8, <1>9, <1>10, HolderStep

\* close_open_step, whoever holds the lock.
LEMMA CloseOpenStepKeeps ==
    ASSUME IInv, NEW t \in Task, NEW c, c \in {RunOf(t), StopOf(t)} \cup {AskOf(d) : d \in Node},
           c.kind = "ask" => rows[call[c].id].task = t, CloseOpenStep(c, t)
    PROVE  IInv'
<1>1. At(c, "close") /\ UNCHANGED <<world, task, placed, records, nodes>>
  BY DEF CloseOpenStep
<1>2. /\ c \in Calls /\ c.kind \in {"run", "stop", "ask"} /\ (c.kind \in {"run", "stop"} => c.of = t)
      /\ About(c, t) /\ up /\ Typed /\ TypeOK /\ Rows(t) /\ Holders(t) /\ task[t] = "ended"
      /\ (c.kind = "ask" => rows[call[c].id].state = "offered")
      /\ c = RunOf(t) \/ c = StopOf(t) \/ \E d \in Node : c = AskOf(d)
  BY <1>1, CloserIs
<1>3. UNCHANGED <<released, started, outcomes, node, ran, revoked, now, crashes, up, task>>
  BY <1>1 DEF world, records, nodes
<1>4. \A d \in Node : node'[d] \in {node[d], Empty}
  BY <1>3
<1>5. CASE step[t] # "running" \/ Held(t)
  <2>1. Leave(c, t) /\ UNCHANGED <<seen, step, rows>>
    BY <1>5 DEF CloseOpenStep
  <2>2. step[t] # "running" \/ Found(t)
    BY <1>2, <1>5, StandingTells DEF Held
  <2>3. UNCHANGED stores
    BY <1>1, <2>1 DEF stores
  <2>4. QED
    BY <1>1, <1>2, <2>1, <2>2, <2>3, LeavesAll
<1>6. CASE step[t] = "running" /\ ~Held(t) /\ Standing(t) = "live"
  <2>1. PICK v \in Verdicts(t) : SetStep(t, v)
    BY <1>6 DEF CloseOpenStep
  <2>2. Leave(c, t) /\ SetState(Latest(t), "withdrawn")
    BY <1>6 DEF CloseOpenStep
  <2>3. v \in {"completed", "failed", "cancelled"}
    BY VerdictsEnd
  <2>4. /\ step'[t] = v /\ seen'[t] = now /\ \A u \in Task \ {t} : step'[u] = step[u] /\ seen'[u] = seen[u]
        /\ step' \in [Task -> StepStates] /\ seen' \in [Task -> 0 .. MaxTime]
    BY <1>2, <2>1, <2>3, StepCloses
  <2>5. Found(t) /\ rows[Latest(t)].state = "offered"
    BY <1>2, <1>6, StandingTells DEF Held
  <2>6. Over(t)'
    BY <2>3, <2>4 DEF Over
  <2>7. /\ rows' \in Seq(Row) /\ Len(rows') <= MaxRows /\ RowsStay
        /\ Rows(t)' /\ OfTask(t)' = OfTask(t)
        /\ \A i \in DOMAIN rows' : rows'[i].task # t => i \in DOMAIN rows /\ rows'[i] = rows[i]
        /\ \A i \in OfTask(t)' : i = Latest(t) \/ rows'[i] = rows[i]
        /\ rows'[Latest(t)].state = "withdrawn"
    BY <1>2, <1>3, <2>2, <2>5, <2>6, LastWithdrawn
  <2>8. CallsKept(c, t) /\ ~About(c, t)' /\ call'[c] = Idle
    BY <1>2, <1>3, <2>2, <2>7, Returns
  <2>9. Holders(t)' /\ call'[RunOf(t)].pc = "idle"
    BY <1>2, <1>3, <2>8, HolderLeft
  <2>10. Tracked(t)' /\ Caught(t)'
    BY <1>3, <2>4, <2>3, <2>9, EndsWell
  <2>11. TypeOK'
    BY <1>1, <1>2, <1>3, <2>4, <2>7, <2>8 DEF TypeOK, CallsKept, CallsTyped
  <2>12. \A i \in OfTask(t)' : rows'[i].state \in {"offered", "claimed"} => i \in OfTask(t) /\ rows'[i] = rows[i]
    BY <2>7
  <2>13. QED
    BY <1>1, <1>2, <1>3, <1>4, <2>4, <2>7, <2>8, <2>9, <2>10, <2>11, <2>12, HolderStep
<1>7. CASE step[t] = "running" /\ Standing(t) = "lapsed" /\ outcomes[t] = {}
  <2>1. Goto(c, "expire") /\ UNCHANGED <<seen, step, lock, rows>>
    BY <1>7 DEF CloseOpenStep, Held
  <2>2. "expire" \in StagesOf(c.kind) \ {"idle", "stopped"}
    BY <1>2, StagesAre
  <2>3. UNCHANGED <<world, stores, nodes>> /\ RowsStay
    BY <1>1, <2>1, SameRowsStay DEF stores
  <2>4. CallsKept(c, t) /\ call'[c].pc = "expire" /\ call'[c].id = call[c].id
    BY <1>2, <1>3, <2>1, <2>2, <2>3, GoesTo
  <2>5. StillRows(t) /\ Rows(t)'
    BY <1>2, <1>3, <2>1, RowsUnchanged
  <2>6. Lapsing(t)' /\ Found(t)'
    BY <1>2, <1>7, <2>5, StandingTells, DerivedStill DEF Lapsing
  <2>7. Holders(t)' /\ call'[RunOf(t)].pc \in {"idle", "expire"}
    <3>1. CASE c = RunOf(t)
      <4>1. Running(t)'
        BY <1>2, <1>3, <2>4, <2>6, <3>1 DEF Running
      <4>2. QED
        BY <1>2, <1>3, <2>4, <3>1, <4>1, OthersHold, CallNames DEF Holders
    <3>2. CASE c = StopOf(t)
      <4>1. Stopping(t)'
        BY <1>2, <1>3, <2>4, <2>6, <3>2 DEF Stopping
      <4>2. call'[RunOf(t)].pc = "idle"
        BY <2>4, <3>2, CallNames DEF CallsKept, OnlyAbout, About
      <4>3. QED
        BY <1>2, <1>3, <2>4, <3>2, <4>1, <4>2, OthersHold, CallNames DEF Holders
    <3>3. CASE \E d \in Node : c = AskOf(d)
      <4>1. PICK d \in Node : c = AskOf(d)
        BY <3>3
      <4>2. c.kind = "ask" /\ rows'[call'[c].id].state = "offered"
        BY <1>2, <2>1, <2>4, <4>1, CallNames
      <4>3. QED
        BY <1>2, <1>3, <2>4, <2>6, <4>1, <4>2, AskerGoes
    <3>4. QED
      BY <1>2, <3>1, <3>2, <3>3
  <2>8. Tracked(t)' /\ Caught(t)'
    BY <1>3, <2>6, <2>7, EndsWell
  <2>9. /\ TypeOK' /\ \A i \in OfTask(t)' : i \in OfTask(t) /\ rows'[i] = rows[i]
        /\ \A i \in DOMAIN rows' : rows'[i].task # t => i \in DOMAIN rows /\ rows'[i] = rows[i]
    BY <1>2, <2>3, <2>4, StoresStay DEF CallsKept
  <2>10. QED
    BY <1>1, <1>2, <1>3, <1>4, <2>1, <2>3, <2>4, <2>5, <2>7, <2>8, <2>9, HolderStep
<1>8. CASE step[t] = "running" /\ ~Held(t) /\ Standing(t) # "live" /\ ~(Standing(t) = "lapsed" /\ outcomes[t] = {})
  <2>1. PICK v \in Verdicts(t) : SetStep(t, v)
    BY <1>8 DEF CloseOpenStep
  <2>2. Leave(c, t) /\ UNCHANGED rows
    BY <1>8 DEF CloseOpenStep
  <2>3. node' \in [Node -> Hand] /\ UNCHANGED <<ran, revoked>>
    BY <1>2, <1>3 DEF TypeOK
  <2>4. QED
    BY <1>1, <1>2, <1>4, <2>1, <2>2, <2>3, ClosesAndLeaves
<1>9. QED
  BY <1>5, <1>6, <1>7, <1>8

\* close_lapsed, whoever holds the lock.
LEMMA CloseLapsedKeeps ==
    ASSUME IInv, NEW t \in Task, NEW c, c \in {RunOf(t), StopOf(t)} \cup {AskOf(d) : d \in Node},
           c.kind = "ask" => rows[call[c].id].task = t, CloseLapsed(c, t)
    PROVE  IInv'
<1>1. At(c, "expire") /\ UNCHANGED <<world, task, placed, records, nodes>> /\ Leave(c, t)
  BY DEF CloseLapsed
<1>2. /\ c \in Calls /\ c.kind \in {"run", "stop", "ask"} /\ (c.kind \in {"run", "stop"} => c.of = t)
      /\ About(c, t) /\ up /\ Typed /\ TypeOK /\ Rows(t) /\ Holders(t) /\ task[t] = "ended" /\ Lapsing(t)
  BY <1>1, CloserIs
<1>3. UNCHANGED <<released, started, outcomes, node, ran, revoked, now, crashes, up, task>>
  BY <1>1 DEF world, records, nodes
<1>4. CASE Alive(rows[Latest(t)], now)
  <2>1. UNCHANGED stores
    BY <1>1, <1>4 DEF CloseLapsed, stores
  <2>2. QED
    BY <1>1, <1>2, <2>1, LeavesAll DEF Lapsing
<1>5. CASE ~Alive(rows[Latest(t)], now)
  <2>1. PICK v \in Verdicts(t) : SetStep(t, v)
    BY <1>5 DEF CloseLapsed
  <2>2. SetState(Latest(t), "expired")
    BY <1>5 DEF CloseLapsed
  <2>3. v \in {"completed", "failed", "cancelled"}
    BY VerdictsEnd
  <2>4. /\ step'[t] = v /\ seen'[t] = now /\ \A u \in Task \ {t} : step'[u] = step[u] /\ seen'[u] = seen[u]
        /\ step' \in [Task -> StepStates] /\ seen' \in [Task -> 0 .. MaxTime]
    BY <1>2, <2>1, <2>3, StepCloses
  <2>5. /\ rows' \in Seq(Row) /\ Len(rows') <= MaxRows /\ RowsStay
        /\ Rows(t)' /\ AllExpired(t)'
        /\ \A i \in DOMAIN rows' : rows'[i].task # t => i \in DOMAIN rows /\ rows'[i] = rows[i]
    BY <1>2, <1>3, <2>2, <2>3, <2>4, LastExpires DEF Lapsing
  <2>6. CallsKept(c, t) /\ ~About(c, t)' /\ call'[c] = Idle
    BY <1>1, <1>2, <1>3, <2>5, Returns
  <2>7. Holders(t)' /\ call'[RunOf(t)].pc = "idle"
    BY <1>2, <1>3, <2>6, HolderLeft
  <2>8. Tracked(t)' /\ Caught(t)'
    BY <1>3, <2>3, <2>4, <2>7, EndsWell
  <2>9. TypeOK'
    BY <1>1, <1>2, <1>3, <2>4, <2>5, <2>6 DEF TypeOK, CallsKept, CallsTyped
  <2>10. \A i \in OfTask(t)' : rows'[i].state \notin {"offered", "claimed"}
    BY <2>5 DEF AllExpired
  <2>11. \A d \in Node : node'[d] \in {node[d], Empty}
    BY <1>3
  <2>12. QED
    BY <1>1, <1>2, <1>3, <2>4, <2>5, <2>6, <2>7, <2>8, <2>9, <2>10, <2>11, HolderStep
<1>6. QED
  BY <1>4, <1>5

\* The close of the step of a task that has ended.
LEMMA CloseKeeps ==
    ASSUME IInv, NEW t \in Task, Close(t)
    PROVE  IInv'
BY CloseOpenStepKeeps, CloseLapsedKeeps DEF Close

-------------------------------------------------------------------------------
(* The steps that hold no lock, and the close of a stop *)

\* A call that holds no lock is no matter of a task it leaves alone.
LEMMA CallsStill ==
    ASSUME NEW c \in Calls, NEW u \in Task, c # StopOf(u), OthersStay(c), ~About(c, u),
           \A o \in Calls : (About(o, u)' <=> About(o, u)),
           task'[u] = task[u], placed'[u] = placed[u], seen[u] <= seen'[u], up' = up, crashes' = crashes
    PROVE  StillCalls(u)
BY CallNames DEF StillCalls, OthersStay

\* The table and the records are as they were.
LEMMA TableStill ==
    ASSUME NEW u \in Task, UNCHANGED <<rows, step, released, started, outcomes, node, ran>>
    PROVE  StillRows(u)
BY DEF StillRows, OfTask

\* Work lives as long as it did.
LEMMA SignsStill ==
    ASSUME Typed, NEW u \in Task, UNCHANGED rows,
           \A d \in Node : call'[RenewOf(d)] = call[RenewOf(d)] \/ call'[RenewOf(d)].pc # "renew"
    PROVE  StillSigned(u)
<1>1. \A i \in OfTask(u) : rows'[i].expires <= rows[i].expires
  BY RowFacts DEF OfTask, Typed
<1>2. QED
  BY <1>1 DEF StillSigned

\* Every task is still.
LEMMA AllStill ==
    ASSUME IInv, Typed', \A u \in Task : Still(u)
    PROVE  IInv'
<1>1. ASSUME NEW u \in Task
      PROVE  Rows(u)' /\ Holders(u)' /\ Ends(u)'
  <2>1. Typed /\ TypeOK' /\ Rows(u) /\ Holders(u) /\ Ends(u) /\ Still(u)
    BY DEF IInv, Typed
  <2>2. QED
    BY <2>1, StillKeeps
<1>2. QED
  BY <1>1 DEF IInv

\* A sign of life is the latest.
LEMMA Signing ==
    ASSUME Typed, NEW t \in Task, Sign(t)
    PROVE  /\ seen' \in [Task -> 0 .. MaxTime] /\ seen'[t] = now /\ seen[t] <= now
           /\ \A u \in Task \ {t} : seen'[u] = seen[u]
           /\ \A u \in Task : seen[u] <= seen'[u] /\ seen'[u] \in {seen[u], now}
<1>1. seen \in [Task -> 0 .. MaxTime] /\ now \in 0 .. MaxTime /\ \A u \in Task : seen[u] <= now
  BY DEF Typed, TypeOK, Named
<1>2. seen' = [seen EXCEPT ![t] = now]
  BY DEF Sign
<1>3. \A u \in Task : seen[u] \in Nat /\ seen[u] <= seen[u]
  BY <1>1
<1>4. QED
  BY <1>1, <1>2, <1>3

\* The stop of the user, which waits for nobody.
LEMMA StopTaskKeeps ==
    ASSUME IInv, NEW t \in Task, StopTask(t)
    PROVE  IInv'
<1> DEFINE c == StopOf(t)
           s == [pc |-> "stopped", id |-> None, at |-> now, envelope |-> None]
<1>1. /\ c \in Calls /\ c.kind = "stop" /\ Typed /\ TypeOK /\ call[c].pc = "idle" /\ up /\ call' = [call EXCEPT ![c] = s]
      /\ task' = [task EXCEPT ![t] = "ended"] /\ Sign(t)
      /\ UNCHANGED <<world, step, placed, rows, records, nodes, lock>>
  BY CallNames, IdleIs DEF StopTask, Enter, SetTask, IInv, Typed
<1>2. UNCHANGED <<released, started, outcomes, node, ran, revoked, now, crashes, up>> /\ RowsStay
  BY <1>1, SameRowsStay DEF world, records, nodes
<1>3. s \in CallState /\ s.pc = "stopped" /\ s.at <= now
  BY <1>1, AssignmentsAssumption DEF CallState, Stages, TypeOK
<1> HIDE DEF s
<1>4. s.pc \in StagesOf(c.kind)
  BY <1>1, <1>3, StagesAre
<1>5. /\ CallsTyped /\ Called' /\ Locks' /\ OthersStay(c) /\ call'[c] = s
      /\ \A o \in Calls, u \in Task : (About(o, u)' <=> About(o, u))
      /\ \A u \in Task : ~About(c, u)
  BY <1>1, <1>2, <1>3, <1>4, LooseMoves
<1>6. /\ seen' \in [Task -> 0 .. MaxTime] /\ \A u \in Task : seen[u] <= seen'[u] /\ seen'[u] \in {seen[u], now}
  BY <1>1, Signing
<1>7. task' \in [Task -> TaskStates] /\ task'[t] = "ended" /\ \A u \in Task \ {t} : task'[u] = task[u]
  BY <1>1 DEF TypeOK, TaskStates
<1>8. TypeOK'
  BY <1>1, <1>2, <1>5, <1>6, <1>7 DEF TypeOK, CallsTyped
<1>9. Named'
  BY <1>1, <1>2, <1>6, <1>8, NamedKept
<1>10. Typed'
  BY <1>5, <1>8, <1>9 DEF Typed
<1>11. \A u \in Task : Still(u)
  <2> TAKE u \in Task
  <2>1. StillRows(u)
    BY <1>1, <1>2, TableStill
  <2>2. StillCalls(u)
    <3>1. CASE u = t
      <4>1. \A o \in Calls : About(o, t) => call'[o] = call[o]
        BY <1>5 DEF OthersStay
      <4>2. QED
        BY <1>1, <1>2, <1>3, <1>5, <1>6, <1>7, <3>1, <4>1 DEF StillCalls
    <3>2. CASE u # t
      <4>1. c # StopOf(u)
        BY <3>2, CallNames
      <4>2. QED
        BY <1>1, <1>2, <1>5, <1>6, <1>7, <3>2, <4>1, CallsStill
    <3>3. QED
      BY <3>1, <3>2
  <2>3. StillSigned(u)
    <3>1. \A d \in Node : call'[RenewOf(d)] = call[RenewOf(d)]
      BY <1>1, <1>5, CallNames DEF OthersStay
    <3>2. QED
      BY <1>1, <3>1, SignsStill
  <2>4. QED
    BY <2>1, <2>2, <2>3 DEF Still
<1>12. QED
  BY <1>10, <1>11, AllStill

\* A row that is out, or that was claimed, is found.
LEMMA StateFound ==
    ASSUME NEW t \in Task, Table(t), NEW i \in OfTask(t), rows[i].state \in {"offered", "claimed"}
    PROVE  Found(t) /\ IsLast(t, i) /\ i \notin released
BY DEF Table, Found

\* A free task whose step runs has something to find, as long as the Core did not crash.
LEMMA FreeFinds ==
    ASSUME IInv, NEW t \in Task, Free(t), crashes = 0, step[t] = "running"
    PROVE  Found(t)
<1>1. \A o \in Calls : ~About(o, t)
  BY NoneIsNothing DEF IInv, Typed, Locks, Free
<1>2. call[RunOf(t)].pc = "idle" /\ \A d \in Node : ~About(DeliverOf(d), t)
  BY <1>1, CallNames DEF About
<1>3. QED
  BY <1>2 DEF IInv, Ends, Tracked

\* The last look of a stop: it takes the lock, or somebody who holds it will see.
LEMMA CloseIfFreeKeeps ==
    ASSUME IInv, NEW t \in Task, CloseIfFree(t)
    PROVE  IInv'
<1> DEFINE c == StopOf(t)
<1>1. /\ c \in Calls /\ c.kind = "stop" /\ c.of = t /\ Typed /\ TypeOK /\ Rows(t) /\ Table(t) /\ Records(t) /\ Holders(t)
      /\ call[c].pc = "stopped" /\ up /\ task[t] = "ended" /\ UNCHANGED <<world, stores, nodes>>
  BY CallNames DEF CloseIfFree, At, IInv, Typed, Holders, Stopping, Rows
<1>2. /\ UNCHANGED <<released, started, outcomes, node, ran, revoked, now, crashes, up, task, seen, step, placed, rows>>
      /\ RowsStay
  BY <1>1, SameRowsStay DEF world, stores, records, nodes
<1>3. \A u \in Task : ~About(c, u)
  BY <1>1 DEF About
<1>4. CASE Free(t)
  <2> DEFINE s == [call[c] EXCEPT !.pc = "close"]
  <2>1. Take(c, t) /\ call' = [call EXCEPT ![c] = s]
    BY <1>4 DEF CloseIfFree, Goto
  <2>2. call[c] \in CallState /\ call[c].at <= now /\ "close" \in Stages
    BY <1>1 DEF TypeOK, Typed, Called, Stages
  <2>3. s \in CallState /\ s.pc = "close" /\ s.at <= now
    BY <2>2 DEF CallState
  <2> HIDE DEF s
  <2>4. s.pc \in StagesOf(c.kind)
    BY <1>1, <2>3, StagesAre
  <2>5. CallsKept(c, t) /\ call'[c] = s /\ About(c, t)'
    BY <1>1, <1>2, <1>3, <2>1, <2>3, <2>4, HolderTakes DEF CallsKept
  <2>6. Stopping(t)'
    BY <1>1, <1>2, <2>3, <2>5 DEF Stopping
  <2>7. Holders(t)'
    BY <1>1, <1>2, <2>5, <2>6, OthersHold, CallNames DEF Holders
  <2>8. StillRows(t) /\ Rows(t)'
    BY <1>1, <1>2, RowsUnchanged
  <2>9. call'[RunOf(t)].pc = "idle" /\ call'[StopOf(t)].pc = "close"
    BY <2>3, <2>5, CallNames DEF CallsKept, OnlyAbout, About
  <2>10. Tracked(t)' /\ Caught(t)'
    <3>1. crashes = 0 /\ step[t] = "running" => Found(t)
      BY <1>4, FreeFinds
    <3>2. QED
      BY <1>2, <2>8, <2>9, <3>1, DerivedStill DEF Tracked, Caught
  <2>11. /\ TypeOK' /\ \A i \in OfTask(t)' : i \in OfTask(t) /\ rows'[i] = rows[i]
         /\ \A i \in DOMAIN rows' : rows'[i].task # t => i \in DOMAIN rows /\ rows'[i] = rows[i]
    BY <1>1, <2>5, StoresStay DEF CallsKept
  <2>12. QED
    BY <1>1, <1>2, <2>5, <2>7, <2>8, <2>10, <2>11, HolderStep
<1>5. CASE ~Free(t)
  <2>1. call' = [call EXCEPT ![c] = Idle] /\ UNCHANGED lock
    BY <1>5 DEF CloseIfFree, Return
  <2>2. "idle" \in StagesOf(c.kind) /\ now \in Nat
    BY <1>1, StagesAre, AssignmentsAssumption DEF TypeOK
  <2>3. /\ CallsTyped /\ Called' /\ Locks' /\ OthersStay(c) /\ call'[c] = Idle
        /\ \A o \in Calls, u \in Task : (About(o, u)' <=> About(o, u))
    <3>1. Idle \in CallState /\ Idle.pc \in StagesOf(c.kind) /\ Idle.at <= now
      BY <2>2, IdleIs
    <3>2. c.kind = "stop" /\ {call[c].pc, Idle.pc} \subseteq {"idle", "stopped"}
      BY <1>1, IdleIs
    <3>3. QED
      BY <1>1, <1>2, <2>1, <3>1, <3>2, LooseMoves
  <2>4. TypeOK'
    BY <1>1, <2>3, StoresStay
  <2>5. Named'
    BY <1>1, <1>2, <2>4, NamedKept
  <2>6. Typed'
    BY <2>3, <2>4, <2>5 DEF Typed
  <2>7. \A d \in Node : call'[RenewOf(d)] = call[RenewOf(d)]
    BY <1>1, <2>3, CallNames DEF OthersStay
  <2>8. ASSUME NEW u \in Task \ {t}
        PROVE  Rows(u)' /\ Holders(u)' /\ Ends(u)'
    <3>1. seen[u] <= seen'[u] /\ c # StopOf(u)
      BY <1>1, <1>2, CallNames DEF TypeOK
    <3>2. Still(u)
      BY <1>1, <1>2, <1>3, <2>3, <2>7, <3>1, TableStill, CallsStill, SignsStill DEF Still
    <3>3. Rows(u) /\ Holders(u) /\ Ends(u)
      BY DEF IInv
    <3>4. QED
      BY <1>1, <2>4, <3>2, <3>3, StillKeeps
  <2>9. StillRows(t) /\ Rows(t)' /\ OfTask(t)' = OfTask(t)
    BY <1>1, <1>2, RowsUnchanged DEF StillRows
  <2>10. /\ call'[RunOf(t)] = call[RunOf(t)] /\ call'[StopOf(t)].pc = "idle"
         /\ \A d \in Node : call'[AskOf(d)] = call[AskOf(d)] /\ call'[DeliverOf(d)] = call[DeliverOf(d)]
         /\ \A d \in Node : (About(AskOf(d), t)' <=> About(AskOf(d), t)) /\ (About(DeliverOf(d), t)' <=> About(DeliverOf(d), t))
    BY <1>1, <2>3, IdleIs, CallNames DEF OthersStay
  <2>11. Running(t)' /\ Stopping(t)' /\ Asking(t)' /\ Delivering(t)'
    <3>1. Running(t) /\ Asking(t) /\ Delivering(t)
      BY <1>1 DEF Holders
    <3>2. Running(t)'
      BY <1>2, <2>9, <2>10, <3>1, DerivedStill DEF Running
    <3>3. Stopping(t)'
      BY <2>10 DEF Stopping
    <3>4. Asking(t)'
      BY <1>2, <2>9, <2>10, <3>1, DerivedStill DEF Asking
    <3>5. Delivering(t)'
      BY <1>2, <2>9, <2>10, <3>1, DerivedStill DEF Delivering
    <3>6. QED
      BY <3>2, <3>3, <3>4, <3>5
  <2>12. Signed(t)' /\ Tracked(t)'
    <3>1. Signed(t) /\ Tracked(t)
      BY DEF IInv, Ends
    <3>2. Signed(t)'
      BY <1>1, <1>2 DEF Signed
    <3>3. Tracked(t)'
      BY <1>2, <2>9, <2>10, <3>1, DerivedStill DEF Tracked
    <3>4. QED
      BY <3>2, <3>3
  <2>13. Caught(t)'
    <3>1. SUFFICES ASSUME t \notin Relocatable, ~Found(t), call[RunOf(t)].pc = "idle"
                   PROVE  \E d \in Node : About(DeliverOf(d), t) /\ rows[call[DeliverOf(d)].id].state = "delivered"
      BY <1>2, <2>9, <2>10, DerivedStill DEF Caught
    <3>2. PICK o \in Calls : lock[t] = o
      BY <1>1, <1>5 DEF Free, TypeOK
    <3>3. About(o, t)
      BY <1>1, <3>2 DEF Typed, Locks
    <3>4. o.kind \in {"ask", "deliver"}
      <4>1. o.kind \in {"run", "stop", "ask", "deliver"}
        BY <3>3 DEF About
      <4>2. o.kind # "run"
        BY <3>1, <3>3, CallIs DEF About
      <4>3. o.kind # "stop"
        BY <1>3, <3>3, CallIs DEF About
      <4>4. QED
        BY <4>1, <4>2, <4>3
    <3>5. call[o].id \in OfTask(t)
      BY <1>1, <3>3, <3>4, AboutRow
    <3>6. o.kind # "ask"
      <4>1. SUFFICES ASSUME o.kind = "ask"
                     PROVE  FALSE
        OBVIOUS
      <4>2. PICK d \in Node : o = AskOf(d)
        BY <4>1, CallIs
      <4>3. rows[call[o].id].state \in {"offered", "claimed"}
        BY <1>1, <3>3, <4>2 DEF Holders, Asking
      <4>4. QED
        BY <1>1, <3>1, <3>5, <4>3, StateFound
    <3>7. PICK d \in Node : o = DeliverOf(d)
      BY <3>4, <3>6, CallIs
    <3>8. call[o].id \in started[t]
      BY <1>1, <3>1, <3>3, <3>7 DEF Holders, Delivering
    <3>9. IsLast(t, call[o].id) /\ call[o].id \notin released /\ rows[call[o].id].state \in {"claimed", "expired", "delivered"}
      BY <1>1, <3>8 DEF Records
    <3>10. rows[call[o].id].state = "delivered"
      BY <3>1, <3>5, <3>9 DEF Found
    <3>11. QED
      BY <3>3, <3>7, <3>10
  <2>14. Rows(t)' /\ Holders(t)' /\ Ends(t)'
    BY <2>9, <2>11, <2>12, <2>13 DEF Holders, Ends
  <2>15. QED
    BY <2>6, <2>8, <2>14 DEF IInv
<1>6. QED
  BY <1>4, <1>5

-------------------------------------------------------------------------------
(* The claim of a node *)

\* The request for work takes the lock of the oldest offer.
LEMMA AskForWorkKeeps ==
    ASSUME IInv, NEW d \in Node, AskForWork(d)
    PROVE  IInv'
<1> DEFINE c == AskOf(d)
<1> PICK i : i = Min(OfferedTo(d))
  OBVIOUS
<1> PICK t : t = rows[i].task
  OBVIOUS
<1>1. Typed /\ TypeOK
  BY DEF IInv, Typed
<1>2. i \in OfferedTo(d)
  <2>1. OfferedTo(d) \in SUBSET Nat /\ OfferedTo(d) # {}
    BY <1>1, RowFacts DEF OfferedTo, AskForWork
  <2>2. QED
    BY <2>1, LeastOfNaturals DEF Min
<1>3. i \in DOMAIN rows /\ i \in Id /\ rows[i].state = "offered" /\ t \in Task /\ i \in OfTask(t)
  BY <1>1, <1>2, RowFacts DEF OfferedTo, OfTask
<1>4. /\ c \in Calls /\ c.kind = "ask" /\ Enter(c, "begin", i, None) /\ Take(c, t) /\ UNCHANGED <<world, stores, nodes>>
      /\ Rows(t) /\ Table(t) /\ Holders(t) /\ up
  BY <1>3, CallNames DEF AskForWork, Enter, IInv, Rows
<1>5. RowsStay /\ now' = now
  BY <1>4, SameRowsStay DEF world, stores
<1>6. "begin" \in StagesOf(c.kind) \ {"idle", "stopped"}
  BY <1>4, StagesAre
<1>7. CallsKept(c, t) /\ call'[c].pc = "begin" /\ call'[c].id = i
  BY <1>1, <1>3, <1>4, <1>5, <1>6, Enters
<1>8. rows' = rows /\ task' = task /\ crashes' = crashes /\ UNCHANGED <<released, started, outcomes, ran, step, node>>
  BY <1>4 DEF stores, world, records, nodes
<1>9. Holders(t)' /\ call'[RunOf(t)].pc = "idle"
  BY <1>1, <1>3, <1>4, <1>7, <1>8, AskerGoes
<1>10. StillRows(t) /\ Rows(t)'
  BY <1>1, <1>3, <1>4, <1>8, RowsUnchanged
<1>11. Found(t)'
  BY <1>3, <1>4, <1>10, StateFound, DerivedStill
<1>12. Tracked(t)' /\ Caught(t)'
  BY <1>3, <1>8, <1>9, <1>11, EndsWell
<1>13. /\ TypeOK' /\ \A j \in OfTask(t)' : j \in OfTask(t) /\ rows'[j] = rows[j]
       /\ \A j \in DOMAIN rows' : rows'[j].task # t => j \in DOMAIN rows /\ rows'[j] = rows[j]
  BY <1>1, <1>3, <1>4, <1>7, StoresStay DEF CallsKept
<1>14. QED
  BY <1>3, <1>4, <1>5, <1>7, <1>8, <1>9, <1>10, <1>12, <1>13, HolderStep DEF stores, nodes

\* The claim of a node that is at a stage of its own.
LEMMA AskerIs ==
    ASSUME IInv, NEW d \in Node, NEW p, p # "idle", At(AskOf(d), p), NEW i, i = call[AskOf(d)].id, NEW t, t = rows[i].task
    PROVE  /\ AskOf(d) \in Calls /\ AskOf(d).kind = "ask" /\ AskOf(d).of = d /\ t \in Task /\ i \in DOMAIN rows /\ i \in OfTask(t)
           /\ About(AskOf(d), t) /\ up /\ call[AskOf(d)].pc = p /\ call[AskOf(d)] \in CallState /\ call[AskOf(d)].at <= now
           /\ Typed /\ TypeOK /\ Rows(t) /\ Table(t) /\ Records(t) /\ Holders(t) /\ Asking(t) /\ Signed(t)
           /\ rows[i].state = IF p = "record" THEN "claimed" ELSE "offered"
           /\ Found(t) /\ IsLast(t, i) /\ i \notin released
           /\ p \in {"sign", "claim", "record"} => step[t] = "running"
<1>1. AskOf(d) \in Calls /\ AskOf(d).kind = "ask" /\ AskOf(d).of = d
  BY CallNames
<1>2. call[AskOf(d)].pc = p /\ up /\ Typed /\ TypeOK
  BY DEF At, IInv, Typed
<1>3. i \in DOMAIN rows /\ t \in Task /\ i \in OfTask(t)
  BY <1>1, <1>2, RowFacts DEF Typed, Called, OfTask
<1>4. About(AskOf(d), t)
  BY <1>1, <1>2 DEF About
<1>5. Rows(t) /\ Table(t) /\ Records(t) /\ Holders(t) /\ Asking(t) /\ Signed(t)
  BY <1>3 DEF IInv, Rows, Holders, Ends
<1>6. /\ rows[i].state = IF p = "record" THEN "claimed" ELSE "offered"
      /\ p \in {"sign", "claim", "record"} => step[t] = "running"
  BY <1>2, <1>4, <1>5 DEF Asking
<1>7. Found(t) /\ IsLast(t, i) /\ i \notin released
  BY <1>3, <1>5, <1>6, StateFound
<1>8. call[AskOf(d)] \in CallState /\ call[AskOf(d)].at <= now
  BY <1>1, <1>2 DEF TypeOK, Typed, Called
<1>9. QED
  BY <1>1, <1>2, <1>3, <1>4, <1>5, <1>6, <1>7, <1>8

\* The first look of a claim (Executor.begin).
LEMMA BeginClaimKeeps ==
    ASSUME IInv, NEW d \in Node, BeginClaim(d)
    PROVE  IInv'
<1> DEFINE c == AskOf(d)
<1> PICK i : i = call[c].id
  OBVIOUS
<1> PICK t : t = rows[i].task
  OBVIOUS
<1>1. At(c, "begin") /\ UNCHANGED <<world, stores, nodes>>
  BY DEF BeginClaim
<1>2. /\ c \in Calls /\ c.kind = "ask" /\ t \in Task /\ i \in OfTask(t) /\ About(c, t) /\ up /\ Typed /\ TypeOK
      /\ Rows(t) /\ Holders(t) /\ Found(t) /\ rows[i].state = "offered" /\ call[c] \in CallState /\ call[c].at <= now
  BY <1>1, AskerIs
<1>3. RowsStay /\ now' = now /\ rows' = rows /\ task' = task /\ crashes' = crashes /\ step' = step
      /\ UNCHANGED <<released, started, outcomes, ran, node>>
  BY <1>1, SameRowsStay DEF world, stores, records, nodes
<1>4. ASSUME CallsKept(c, t), call'[c].id = i, call'[c].pc \in {"close", "sign"},
             call'[c].pc = "close" => task[t] = "ended", call'[c].pc = "sign" => step[t] = "running"
      PROVE  IInv'
  <2>1. Holders(t)' /\ call'[RunOf(t)].pc = "idle"
    BY <1>2, <1>3, <1>4, AskerGoes
  <2>2. StillRows(t) /\ Rows(t)'
    BY <1>2, <1>3, RowsUnchanged
  <2>3. Tracked(t)' /\ Caught(t)'
    BY <1>2, <1>3, <2>1, <2>2, DerivedStill, EndsWell
  <2>4. /\ TypeOK' /\ \A j \in OfTask(t)' : j \in OfTask(t) /\ rows'[j] = rows[j]
        /\ \A j \in DOMAIN rows' : rows'[j].task # t => j \in DOMAIN rows /\ rows'[j] = rows[j]
    BY <1>1, <1>2, <1>4, StoresStay DEF CallsKept
  <2>5. QED
    BY <1>1, <1>2, <1>3, <1>4, <2>1, <2>2, <2>3, <2>4, HolderStep DEF stores, nodes
<1>5. CASE task[t] = "ended"
  <2>1. Goto(c, "close") /\ UNCHANGED lock /\ "close" \in StagesOf(c.kind) \ {"idle", "stopped"}
    BY <1>2, <1>5, StagesAre DEF BeginClaim, Goto
  <2>2. CallsKept(c, t) /\ call'[c].pc = "close" /\ call'[c].id = i
    BY <1>2, <1>3, <2>1, GoesTo
  <2>3. QED
    BY <1>4, <1>5, <2>2
<1>6. CASE task[t] # "ended" /\ step[t] = "running" /\ rows[i].state = "offered" /\ rows[i].expires > now
  <2> DEFINE s == [call[c] EXCEPT !.pc = "sign", !.at = now]
  <2>1. call' = [call EXCEPT ![c] = s] /\ UNCHANGED lock
    BY <1>2, <1>6 DEF BeginClaim
  <2>2. now \in Nat /\ "sign" \in Stages
    BY <1>2, AssignmentsAssumption DEF TypeOK, Stages
  <2>3. s \in CallState /\ s.pc = "sign" /\ s.at = now /\ s.id = i
    BY <1>2, <2>2 DEF CallState
  <2> HIDE DEF s
  <2>4. s.pc \in StagesOf(c.kind) /\ s.at <= now
    BY <1>2, <2>2, <2>3, StagesAre
  <2>5. CallsKept(c, t) /\ call'[c] = s
    BY <1>2, <1>3, <2>1, <2>3, <2>4, HolderGoes DEF CallsKept
  <2>6. QED
    BY <1>4, <1>6, <2>3, <2>5
<1>7. CASE ~(task[t] = "ended" \/ (step[t] = "running" /\ rows[i].state = "offered" /\ rows[i].expires > now))
  <2>1. Leave(c, t)
    BY <1>7 DEF BeginClaim
  <2>2. QED
    BY <1>1, <1>2, <2>1, LeavesAll
<1>8. QED
  BY <1>5, <1>6, <1>7

\* The heartbeat of the claim, later than the instant the claim read.
LEMMA SignClaimKeeps ==
    ASSUME IInv, NEW d \in Node, SignClaim(d)
    PROVE  IInv'
<1> DEFINE c == AskOf(d)
<1> PICK i : i = call[c].id
  OBVIOUS
<1> PICK t : t = rows[i].task
  OBVIOUS
<1>1. At(c, "sign") /\ UNCHANGED <<world, task, step, placed, rows, records, nodes>>
  BY DEF SignClaim
<1>2. /\ c \in Calls /\ c.kind = "ask" /\ t \in Task /\ i \in OfTask(t) /\ About(c, t) /\ up /\ Typed /\ TypeOK
      /\ Rows(t) /\ Holders(t) /\ Found(t) /\ rows[i].state = "offered" /\ call[c].at <= now /\ step[t] = "running"
  BY <1>1, AskerIs
<1>3. RowsStay /\ now' = now /\ crashes' = crashes /\ UNCHANGED <<released, started, outcomes, ran, node>>
  BY <1>1, SameRowsStay DEF world, records, nodes
<1>4. CASE task[t] = "executing"
  <2>1. Sign(t) /\ Goto(c, "claim") /\ UNCHANGED lock /\ "claim" \in StagesOf(c.kind) \ {"idle", "stopped"}
    BY <1>2, <1>4, StagesAre DEF SignClaim
  <2>2. CallsKept(c, t) /\ call'[c].pc = "claim" /\ call'[c].id = i /\ call'[c].at = call[c].at
    BY <1>2, <1>3, <2>1, GoesTo
  <2>3. /\ seen' \in [Task -> 0 .. MaxTime] /\ seen'[t] = now /\ \A u \in Task \ {t} : seen'[u] = seen[u]
    BY <1>2, <2>1, Signing
  <2>4. Holders(t)' /\ call'[RunOf(t)].pc = "idle"
    BY <1>1, <1>2, <1>3, <2>2, <2>3, AskerGoes
  <2>5. StillRows(t) /\ Rows(t)'
    BY <1>1, <1>2, <1>3, RowsUnchanged
  <2>6. Tracked(t)' /\ Caught(t)'
    BY <1>2, <1>3, <2>4, <2>5, DerivedStill, EndsWell
  <2>7. TypeOK'
    BY <1>1, <1>2, <1>3, <2>2, <2>3 DEF TypeOK, CallsKept, CallsTyped, world, nodes
  <2>8. \A j \in OfTask(t)' : j \in OfTask(t) /\ rows'[j] = rows[j]
    BY <1>1 DEF OfTask
  <2>9. QED
    BY <1>1, <1>2, <1>3, <2>2, <2>3, <2>4, <2>5, <2>6, <2>7, <2>8, HolderStep
<1>5. CASE task[t] # "executing"
  <2>1. Leave(c, t) /\ UNCHANGED seen
    BY <1>5 DEF SignClaim
  <2>2. QED
    BY <1>1, <1>2, <2>1, LeavesAll DEF stores
<1>6. QED
  BY <1>4, <1>5

\* The UPDATE of the claim: the new expiry is no later than the heartbeat allows.
LEMMA ClaimRowKeeps ==
    ASSUME IInv, NEW d \in Node, ClaimRow(d)
    PROVE  IInv'
<1> DEFINE c == AskOf(d)
<1> PICK i : i = call[c].id
  OBVIOUS
<1> PICK t : t = rows[i].task
  OBVIOUS
<1> PICK n : n = call[c].at
  OBVIOUS
<1>1. At(c, "claim") /\ UNCHANGED <<world, task, seen, step, placed, records, nodes>>
  BY DEF ClaimRow
<1>2. /\ c \in Calls /\ c.kind = "ask" /\ t \in Task /\ i \in DOMAIN rows /\ i \in OfTask(t) /\ About(c, t) /\ up /\ Typed /\ TypeOK
      /\ Rows(t) /\ Table(t) /\ Records(t) /\ Holders(t) /\ Asking(t) /\ Found(t) /\ rows[i].state = "offered" /\ n <= now
      /\ step[t] = "running" /\ IsLast(t, i) /\ i \notin released /\ call[c] \in CallState /\ call[c].pc = "claim"
  BY <1>1, AskerIs
<1>3. now' = now /\ crashes' = crashes /\ UNCHANGED <<released, started, outcomes, ran, node, revoked, up>>
  BY <1>1 DEF world, records, nodes
<1>4. n \in Nat /\ n <= seen[t] /\ TTL \in Nat /\ seen[t] \in Nat
  <2>1. call[c].at <= seen[t]
    BY <1>2 DEF Asking
  <2>2. call[c].at \in Nat
    BY <1>2 DEF CallState
  <2>3. seen[t] \in Nat /\ TTL \in Nat
    BY <1>2, AssignmentsAssumption DEF TypeOK
  <2>4. QED
    BY <2>1, <2>2, <2>3
<1>5. CASE rows[i].state = "offered" /\ rows[i].expires > n /\ ~Busy(d, n)
  <2> DEFINE r == [rows[i] EXCEPT !.state = "claimed", !.claimed = n, !.expires = n + TTL]
  <2>1. SetRow(i, r) /\ Goto(c, "record") /\ UNCHANGED lock
    BY <1>5 DEF ClaimRow
  <2>2. rows[i] \in Row /\ n + TTL \in Nat
    BY <1>2, <1>4, RowFacts
  <2>3. r \in Row /\ r.task = t /\ r.state = "claimed" /\ r.expires = n + TTL
    BY <1>4, <2>2 DEF Row, RowStates
  <2> HIDE DEF r
  <2>4. /\ rows' \in Seq(Row) /\ Len(rows') <= MaxRows /\ DOMAIN rows' = DOMAIN rows /\ RowsStay
        /\ rows'[i] = r /\ \A j \in DOMAIN rows : j # i => rows'[j] = rows[j]
        /\ OfTask(t)' = OfTask(t)
    BY <1>2, <2>1, <2>3, RowWrites
  <2>5. "record" \in StagesOf(c.kind) \ {"idle", "stopped"}
    BY <1>2, StagesAre
  <2>6. CallsKept(c, t) /\ call'[c].pc = "record" /\ call'[c].id = i
    BY <1>2, <1>3, <2>1, <2>4, <2>5, GoesTo
  <2>7. \A j : IsLast(t, j)' <=> IsLast(t, j)
    BY <2>4 DEF IsLast
  <2>8. \A j \in OfTask(t) : j \in DOMAIN rows /\ (j # i => rows'[j] = rows[j])
    BY <2>4 DEF OfTask
  <2>9. Table(t)'
    BY <1>1, <1>2, <1>3, <2>3, <2>4, <2>7, <2>8 DEF Table, Over
  <2>10. i \notin started[t]
    BY <1>2 DEF Records
  <2>11. Records(t)'
    BY <1>1, <1>2, <1>3, <2>4, <2>7, <2>8, <2>10 DEF Records
  <2>12. Found(t)'
    BY <1>2, <1>3, <2>3, <2>4, <2>7 DEF Found
  <2>13. Holders(t)' /\ call'[RunOf(t)].pc = "idle"
    BY <1>1, <1>2, <1>3, <2>3, <2>4, <2>6, AskerGoes
  <2>14. Tracked(t)' /\ Caught(t)'
    BY <1>2, <1>3, <2>12, <2>13, EndsWell
  <2>15. TypeOK'
    BY <1>1, <1>2, <1>3, <2>4, <2>6 DEF TypeOK, CallsKept, CallsTyped
  <2>16. \A j \in OfTask(t)' : rows'[j].state \in {"offered", "claimed"} =>
            \/ j \in OfTask(t) /\ rows[j].state \in {"offered", "claimed"} /\ rows'[j].expires = rows[j].expires
            \/ rows'[j].expires <= seen'[t] + TTL
    <3>1. rows'[i].expires <= seen'[t] + TTL
      BY <1>1, <1>4, <2>3, <2>4
    <3>2. QED
      BY <2>4, <2>8, <3>1
  <2>17. \A j \in DOMAIN rows' : rows'[j].task # t => j \in DOMAIN rows /\ rows'[j] = rows[j]
    BY <2>3, <2>4
  <2>18. QED
    BY <1>1, <1>2, <1>3, <2>4, <2>6, <2>9, <2>11, <2>13, <2>14, <2>15, <2>16, <2>17, HolderStep DEF Rows
<1>6. CASE ~(rows[i].state = "offered" /\ rows[i].expires > n /\ ~Busy(d, n))
  <2>1. Leave(c, t) /\ UNCHANGED rows
    BY <1>6 DEF ClaimRow
  <2>2. QED
    BY <1>1, <1>2, <2>1, LeavesAll DEF stores
<1>7. QED
  BY <1>5, <1>6

\* The STARTED record, and the order that goes out after it.
LEMMA SendOrderKeeps ==
    ASSUME IInv, NEW d \in Node, SendOrder(d)
    PROVE  IInv'
<1> DEFINE c == AskOf(d)
<1> PICK i : i = call[c].id
  OBVIOUS
<1> PICK t : t = rows[i].task
  OBVIOUS
<1>1. At(c, "record") /\ Leave(c, t) /\ UNCHANGED <<world, task, seen, step, placed, rows, released, outcomes, ran, revoked>>
  BY DEF SendOrder
<1>2. /\ c \in Calls /\ c.kind = "ask" /\ t \in Task /\ i \in DOMAIN rows /\ i \in OfTask(t) /\ About(c, t) /\ up /\ Typed /\ TypeOK
      /\ Rows(t) /\ Table(t) /\ Records(t) /\ Holders(t) /\ Found(t) /\ rows[i].state = "claimed"
      /\ step[t] = "running" /\ IsLast(t, i) /\ i \notin released
  BY <1>1, AskerIs
<1>3. RowsStay /\ now' = now /\ crashes' = crashes /\ up' = up
  BY <1>1, SameRowsStay DEF world
<1>4. CASE NeedsRecord(t) /\ started[t] # {} /\ UNCHANGED <<started, node>>
  <2>1. UNCHANGED <<stores, nodes>>
    BY <1>1, <1>4 DEF stores, records, nodes
  <2>2. QED
    BY <1>1, <1>2, <2>1, LeavesAll
<1>5. CASE /\ NeedsRecord(t) => started[t] = {}
           /\ started' = IF NeedsRecord(t) THEN [started EXCEPT ![t] = {i}] ELSE started
           /\ UNCHANGED node \/ (node[d] = Empty /\ node' = [node EXCEPT ![d].order = i])
  <2>1. i \in Id /\ Empty.envelope = None /\ Empty.order = None
    BY <1>2, RowFacts DEF Empty
  <2>2. started' \in [Task -> SUBSET Id] /\ \A u \in Task \ {t} : started'[u] = started[u]
    BY <1>2, <1>5, <2>1 DEF TypeOK
  <2>3. /\ node' \in [Node -> Hand] /\ \A e \in Node \ {d} : node'[e] = node[e]
        /\ node'[d] = node[d] \/ (node'[d].order = i /\ node'[d].envelope = node[d].envelope)
    <3>1. node \in [Node -> Hand]
      BY <1>2 DEF TypeOK
    <3>2. [node[d] EXCEPT !.order = i] \in Hand
      BY <2>1, <3>1 DEF Hand
    <3>3. [node[d] EXCEPT !.order = i].order = i /\ [node[d] EXCEPT !.order = i].envelope = node[d].envelope
      BY <3>1 DEF Hand
    <3>4. QED
      BY <1>5, <3>1, <3>2, <3>3
  <2>4. CallsKept(c, t) /\ ~About(c, t)' /\ call'[c] = Idle
    BY <1>1, <1>2, <1>3, Returns
  <2>5. TypeOK'
    BY <1>1, <1>2, <1>3, <2>2, <2>3, <2>4 DEF TypeOK, CallsKept, CallsTyped
  <2>6. OfTask(t)' = OfTask(t) /\ \A j : IsLast(t, j)' <=> IsLast(t, j)
    BY <1>1 DEF OfTask, IsLast
  <2>7. Table(t)'
    BY <1>1, <1>2, <2>6 DEF Table, Over
  <2>8. Records(t)'
    <3>1. CASE t \in Relocatable
      <4>1. started'[t] = started[t]
        BY <1>5, <3>1 DEF NeedsRecord
      <4>2. QED
        BY <1>1, <1>2, <2>6, <3>1, <4>1 DEF Records
    <3>2. CASE t \notin Relocatable
      <4>1. started'[t] = {i} /\ started[t] = {}
        BY <1>2, <1>5, <3>2 DEF NeedsRecord, TypeOK
      <4>2. ASSUME NEW e \in Node, node'[e].order \in OfTask(t)
            PROVE  node'[e].order = i
        <5>1. node[e].order \notin OfTask(t)
          BY <1>2, <3>2, <4>1 DEF Records
        <5>2. QED
          BY <2>3, <4>2, <5>1
      <4>3. ran' \cap OfTask(t) = {}
        BY <1>1, <1>2, <3>2, <4>1 DEF Records
      <4>4. QED
        BY <1>1, <1>2, <2>6, <3>2, <4>1, <4>2, <4>3 DEF Records
    <3>3. QED
      BY <3>1, <3>2
  <2>9. Found(t)'
    BY <1>1, <1>2, <2>6 DEF Found
  <2>10. Holders(t)' /\ call'[RunOf(t)].pc = "idle"
    BY <1>1, <1>2, <2>4, HolderLeft
  <2>11. Tracked(t)' /\ Caught(t)'
    BY <1>2, <1>3, <2>9, <2>10, EndsWell
  <2>12. \A e \in Node : node'[e] \in {node[e], Empty} \/ (node'[e].order \in OfTask(t) /\ node'[e].envelope = node[e].envelope)
    BY <1>2, <2>3
  <2>13. \A j \in OfTask(t)' : j \in OfTask(t) /\ rows'[j] = rows[j]
    BY <1>1, <2>6
  <2>14. QED
    BY <1>1, <1>2, <1>3, <2>2, <2>4, <2>5, <2>7, <2>8, <2>10, <2>11, <2>12, <2>13, HolderStep DEF Rows
<1>6. QED
  BY <1>4, <1>5 DEF SendOrder

-------------------------------------------------------------------------------
(* The delivery of a node *)

\* The delivery of a node that is at a stage of its own.
LEMMA DelivererIs ==
    ASSUME IInv, NEW d \in Node, NEW p, p # "idle", At(DeliverOf(d), p), NEW i, i = call[DeliverOf(d)].id, NEW t, t = rows[i].task
    PROVE  /\ DeliverOf(d) \in Calls /\ DeliverOf(d).kind = "deliver" /\ DeliverOf(d).of = d
           /\ t \in Task /\ i \in DOMAIN rows /\ i \in OfTask(t)
           /\ About(DeliverOf(d), t) /\ up /\ call[DeliverOf(d)].pc = p /\ call[DeliverOf(d)] \in CallState
           /\ Typed /\ TypeOK /\ Rows(t) /\ Table(t) /\ Records(t) /\ Holders(t)
           /\ p \in {"store", "refuse", "mark"} => rows[i].state = "claimed" /\ Found(t) /\ IsLast(t, i) /\ i \notin released
           /\ p \in {"store", "refuse"} => step[t] = "running"
           /\ p = "mark" => i \in outcomes[t] \/ Over(t)
           /\ p = "close" => rows[i].state = "delivered"
           /\ t \notin Relocatable => i \in started[t] /\ (Found(t) \/ rows[i].state = "delivered")
           /\ crashes = 0 /\ p # "close" /\ step[t] = "running" => Found(t)
<1>1. DeliverOf(d) \in Calls /\ DeliverOf(d).kind = "deliver" /\ DeliverOf(d).of = d
  BY CallNames
<1>2. call[DeliverOf(d)].pc = p /\ up /\ Typed /\ TypeOK
  BY DEF At, IInv, Typed
<1>3. i \in DOMAIN rows /\ t \in Task /\ i \in OfTask(t)
  BY <1>1, <1>2, RowFacts DEF Typed, Called, OfTask
<1>4. About(DeliverOf(d), t)
  BY <1>1, <1>2 DEF About
<1>5. Rows(t) /\ Table(t) /\ Records(t) /\ Holders(t) /\ Delivering(t) /\ Tracked(t)
  BY <1>3 DEF IInv, Rows, Holders, Ends
<1>6. /\ p \in {"store", "refuse", "mark"} => rows[i].state = "claimed"
      /\ p \in {"store", "refuse"} => step[t] = "running"
      /\ p = "mark" => i \in outcomes[t] \/ Over(t)
      /\ p = "close" => rows[i].state = "delivered"
      /\ t \notin Relocatable => i \in started[t]
  BY <1>2, <1>4, <1>5 DEF Delivering
<1>7. p \in {"store", "refuse", "mark"} => Found(t) /\ IsLast(t, i) /\ i \notin released
  BY <1>3, <1>5, <1>6, StateFound
<1>8. t \notin Relocatable => Found(t) \/ rows[i].state = "delivered"
  <2>1. t \notin Relocatable => IsLast(t, i) /\ i \notin released /\ rows[i].state \in {"claimed", "expired", "delivered"}
    BY <1>5, <1>6 DEF Records
  <2>2. QED
    BY <1>3, <2>1 DEF Found
<1>9. call[DeliverOf(d)] \in CallState
  BY <1>1, <1>2 DEF TypeOK
<1>10. crashes = 0 /\ p # "close" /\ step[t] = "running" => Found(t)
  <2>1. \A o \in Calls : About(o, t) => o = DeliverOf(d)
    BY <1>1, <1>2, <1>3, <1>4 DEF Typed, Locks
  <2>2. call[RunOf(t)].pc = "idle" /\ \A e \in Node : About(DeliverOf(e), t) => call[DeliverOf(e)].pc = p
    BY <1>1, <1>2, <1>3, <2>1, CallNames DEF About
  <2>3. QED
    BY <1>5, <2>2 DEF Tracked
<1>11. QED
  BY <1>1, <1>2, <1>3, <1>4, <1>5, <1>6, <1>7, <1>8, <1>9, <1>10

\* The node hears the answer, or not.
LEMMA AnswerIs ==
    ASSUME TypeOK, NEW d \in Node, Answer(DeliverOf(d))
    PROVE  node' \in [Node -> Hand] /\ \A e \in Node : node'[e] \in {node[e], Empty}
<1>1. node \in [Node -> Hand] /\ Empty \in Hand
  BY DEF TypeOK, Empty, Hand
<1>2. UNCHANGED node \/ node' = [node EXCEPT ![d] = Empty]
  BY CallNames DEF Answer
<1>3. QED
  BY <1>1, <1>2

\* What the nodes let go of is no matter of the records.
LEMMA RecordsKept ==
    ASSUME Typed, NEW t \in Task, Rows(t), UNCHANGED <<rows, step, released, started, outcomes, ran>>,
           \A e \in Node : node'[e] \in {node[e], Empty}
    PROVE  StillRows(t) /\ Rows(t)'
<1>1. Empty.order = None
  BY DEF Empty
<1>2. \A e \in Node : node'[e].order \in {node[e].order, None}
  BY <1>1
<1>3. QED
  BY <1>2, RowsUnchanged

\* The holder is answered and leaves, and the stores are as they were.
LEMMA AnswersAndLeaves ==
    ASSUME IInv, NEW c \in Calls, NEW t \in Task, c.kind = "deliver", About(c, t), up, Leave(c, t),
           UNCHANGED <<world, stores, ran, revoked>>, node' \in [Node -> Hand], \A e \in Node : node'[e] \in {node[e], Empty},
           crashes = 0 \/ t \notin Relocatable => step[t] # "running" \/ Found(t)
    PROVE  IInv'
<1>1. Typed /\ TypeOK /\ Rows(t) /\ Holders(t)
  BY DEF IInv, Typed
<1>2. /\ UNCHANGED <<rows, step, released, started, outcomes, ran, revoked, now, crashes, up, task, seen, placed>>
      /\ RowsStay
  BY SameRowsStay DEF world, stores, records
<1>3. CallsKept(c, t) /\ ~About(c, t)' /\ call'[c] = Idle
  BY <1>1, <1>2, Returns
<1>4. Holders(t)' /\ call'[RunOf(t)].pc = "idle"
  BY <1>1, <1>2, <1>3, HolderLeft
<1>5. TypeOK'
  BY <1>1, <1>2, <1>3 DEF TypeOK, CallsKept, CallsTyped
<1>6. StillRows(t) /\ Rows(t)'
  BY <1>1, <1>2, RecordsKept
<1>7. Tracked(t)' /\ Caught(t)'
  BY <1>2, <1>4, <1>6, DerivedStill DEF Tracked, Caught
<1>8. /\ \A j \in OfTask(t)' : j \in OfTask(t) /\ rows'[j] = rows[j]
      /\ \A j \in DOMAIN rows' : j \in DOMAIN rows /\ rows'[j] = rows[j]
  BY <1>2 DEF OfTask
<1>9. QED
  BY <1>1, <1>2, <1>3, <1>4, <1>5, <1>6, <1>7, <1>8, HolderStep

\* A delivery comes in, for a row the node was given.
LEMMA DeliverWorkKeeps ==
    ASSUME IInv, NEW d \in Node, DeliverWork(d)
    PROVE  IInv'
<1> DEFINE c == DeliverOf(d)
<1> PICK i : i = node[d].order
  OBVIOUS
<1> PICK t : t = rows[i].task
  OBVIOUS
<1> PICK e : e = node[d].envelope
  OBVIOUS
<1>1. Typed /\ TypeOK /\ UNCHANGED <<world, stores, nodes>> /\ node[d].envelope # None
  BY DEF IInv, Typed, DeliverWork
<1>2. i \in DOMAIN rows /\ i \in Id /\ t \in Task /\ i \in OfTask(t) /\ e \in Envelopes \cup {None}
  <2>1. i # None
    BY <1>1 DEF Typed, Named
  <2>2. i \in DOMAIN rows
    BY <1>1, <2>1 DEF Typed, Named
  <2>3. node[d] \in Hand
    BY <1>1 DEF TypeOK
  <2>4. QED
    BY <1>1, <2>2, <2>3, RowFacts DEF OfTask, Hand
<1>3. /\ c \in Calls /\ c.kind = "deliver" /\ Enter(c, "gate", i, e) /\ Take(c, t) /\ up
      /\ Rows(t) /\ Records(t) /\ Holders(t)
  BY <1>2, CallNames DEF DeliverWork, Enter, IInv, Rows
<1>4. RowsStay /\ rows' = rows /\ task' = task /\ UNCHANGED <<now, crashes, released, started, outcomes, ran, step, node>>
  BY <1>1, SameRowsStay DEF world, stores, records, nodes
<1>5. "gate" \in StagesOf(c.kind) \ {"idle", "stopped"}
  BY <1>3, StagesAre
<1>6. CallsKept(c, t) /\ About(c, t)' /\ call'[c].pc = "gate" /\ call'[c].id = i
  <2>1. Typed /\ RowsStay /\ c \in Calls /\ t \in Task /\ UNCHANGED now /\ c.kind \in {"run", "ask", "deliver"}
    BY <1>1, <1>2, <1>3, <1>4
  <2>2. "gate" \in StagesOf(c.kind) \ {"idle", "stopped"} /\ i \in Id \cup {None} /\ e \in Envelopes \cup {None}
    BY <1>2, <1>5
  <2>3. Enter(c, "gate", i, e) /\ Take(c, t) /\ (c = RunOf(t) \/ (c.kind \in {"ask", "deliver"} /\ i \in DOMAIN rows /\ rows[i].task = t))
    BY <1>2, <1>3
  <2> HIDE DEF c
  <2>4. QED
    <3>1. PICK p : p = "gate"
      OBVIOUS
    <3>2. p \in StagesOf(c.kind) \ {"idle", "stopped"} /\ Enter(c, p, i, e)
      BY <2>2, <2>3, <3>1
    <3>3. CallsKept(c, t) /\ About(c, t)' /\ call'[c].pc = p /\ call'[c].id = i
      BY ONLY <2>1, <2>2, <2>3, <3>2, Enters
    <3>4. QED
      BY <3>1, <3>3
<1>7. t \notin Relocatable => i \in started[t]
  BY <1>2, <1>3 DEF Records
<1>8. Holders(t)' /\ call'[RunOf(t)].pc = "idle"
  BY <1>1, <1>2, <1>3, <1>4, <1>6, <1>7, DelivererGoes
<1>9. StillRows(t) /\ Rows(t)'
  BY <1>1, <1>2, <1>3, <1>4, RowsUnchanged
<1>10. Tracked(t)'
  <2>1. Free(t)
    BY <1>3 DEF Take
  <2>2. crashes = 0 /\ step[t] = "running" => Found(t)
    BY <1>2, <2>1, FreeFinds
  <2>3. QED
    BY <1>2, <1>4, <1>8, <1>9, <2>2, DerivedStill DEF Tracked
<1>11. Caught(t)'
  <2>1. t \notin Relocatable => Found(t) \/ rows[i].state = "delivered"
    <3>1. t \notin Relocatable => IsLast(t, i) /\ i \notin released /\ rows[i].state \in {"claimed", "expired", "delivered"}
      BY <1>3, <1>7 DEF Records
    <3>2. QED
      BY <1>2, <3>1 DEF Found
  <2>2. QED
    BY <1>2, <1>4, <1>6, <1>9, <2>1, DerivedStill DEF Caught
<1>12. /\ TypeOK' /\ \A j \in OfTask(t)' : j \in OfTask(t) /\ rows'[j] = rows[j]
       /\ \A j \in DOMAIN rows' : rows'[j].task # t => j \in DOMAIN rows /\ rows'[j] = rows[j]
  BY <1>1, <1>2, <1>6, StoresStay DEF CallsKept
<1>13. QED
  BY <1>1, <1>2, <1>3, <1>4, <1>6, <1>8, <1>9, <1>10, <1>11, <1>12, HolderStep DEF stores, nodes

\* The gate of a delivery.
LEMMA PassGateKeeps ==
    ASSUME IInv, NEW d \in Node, PassGate(d)
    PROVE  IInv'
<1> DEFINE c == DeliverOf(d)
<1> PICK i : i = call[c].id
  OBVIOUS
<1> PICK t : t = rows[i].task
  OBVIOUS
<1>1. At(c, "gate") /\ UNCHANGED <<world, stores, ran, revoked>>
  BY DEF PassGate
<1>2. /\ c \in Calls /\ c.kind = "deliver" /\ t \in Task /\ i \in DOMAIN rows /\ i \in OfTask(t) /\ About(c, t) /\ up
      /\ Typed /\ TypeOK /\ Rows(t) /\ Table(t) /\ Holders(t) /\ call[c] \in CallState
      /\ (t \notin Relocatable => i \in started[t] /\ (Found(t) \/ rows[i].state = "delivered"))
      /\ (crashes = 0 /\ step[t] = "running" => Found(t))
  BY <1>1, DelivererIs
<1>3. /\ UNCHANGED <<rows, step, released, started, outcomes, ran, revoked, now, crashes, up, task, seen, placed>>
      /\ RowsStay
  BY <1>1, SameRowsStay DEF world, stores, records
<1>4. CASE InTime(i) \/ Again(i)
  <2> DEFINE p == IF Again(i) THEN "close" ELSE AfterGate(call[c].envelope)
             s == [call[c] EXCEPT !.at = now, !.pc = p]
  <2>1. call' = [call EXCEPT ![c] = s] /\ UNCHANGED <<node, lock>>
    BY <1>2, <1>4 DEF PassGate
  <2>2. p \in {"close", "refuse", "store"} /\ (p = "close" <=> Again(i))
    BY DEF AfterGate
  <2>3. now \in Nat /\ p \in Stages /\ p \in StagesOf(c.kind) \ {"idle", "stopped"}
    BY <1>2, <2>2, StagesAre, AssignmentsAssumption DEF TypeOK, Stages
  <2> HIDE DEF p
  <2>4. s \in CallState /\ s.pc = p /\ s.at = now /\ s.id = i
    BY <1>2, <2>3 DEF CallState
  <2> HIDE DEF s
  <2>5. s.at <= now
    BY <2>3, <2>4
  <2>6. CallsKept(c, t) /\ call'[c] = s /\ About(c, t)'
    BY <1>2, <1>3, <2>1, <2>3, <2>4, <2>5, HolderGoes DEF CallsKept
  <2>7. /\ p = "close" => rows[i].state = "delivered"
        /\ p # "close" => rows[i].state = "claimed" /\ step[t] = "running"
    BY <1>4, <2>2 DEF InTime, Again
  <2>8. Holders(t)' /\ call'[RunOf(t)].pc = "idle"
    BY <1>2, <1>3, <2>2, <2>4, <2>6, <2>7, DelivererGoes
  <2>9. StillRows(t) /\ Rows(t)'
    BY <1>2, <1>3, <2>1, RowsUnchanged
  <2>10. Tracked(t)' /\ Caught(t)'
    <3>1. CASE p = "close"
      BY <1>2, <1>3, <2>4, <2>6, <2>7, <2>8, <3>1 DEF Tracked, Caught
    <3>2. CASE p # "close"
      <4>1. Found(t)'
        BY <1>2, <2>7, <2>9, <3>2, StateFound, DerivedStill
      <4>2. QED
        BY <1>2, <1>3, <2>8, <4>1, EndsWell
    <3>3. QED
      BY <3>1, <3>2
  <2>11. UNCHANGED nodes
    BY <1>1, <2>1 DEF nodes
  <2>12. /\ TypeOK' /\ \A j \in OfTask(t)' : j \in OfTask(t) /\ rows'[j] = rows[j]
         /\ \A j \in DOMAIN rows' : rows'[j].task # t => j \in DOMAIN rows /\ rows'[j] = rows[j]
    BY <1>1, <1>2, <2>6, <2>11, StoresStay DEF CallsKept
  <2>13. QED
    BY <1>1, <1>2, <1>3, <2>1, <2>6, <2>8, <2>9, <2>10, <2>12, HolderStep
<1>5. CASE ~(InTime(i) \/ Again(i))
  <2>1. Answer(c) /\ Leave(c, t)
    BY <1>5 DEF PassGate
  <2>2. node' \in [Node -> Hand] /\ \A e \in Node : node'[e] \in {node[e], Empty}
    BY <1>2, <2>1, AnswerIs
  <2>3. crashes = 0 \/ t \notin Relocatable => step[t] # "running" \/ Found(t)
    BY <1>2, <1>5 DEF Again
  <2>4. QED
    BY <1>1, <1>2, <2>1, <2>2, <2>3, AnswersAndLeaves
<1>6. QED
  BY <1>4, <1>5

\* The outcome is stored while the row is still the last of the task.
LEMMA StoreOutcomeKeeps ==
    ASSUME IInv, NEW d \in Node, StoreOutcome(d)
    PROVE  IInv'
<1> DEFINE c == DeliverOf(d)
<1> PICK i : i = call[c].id
  OBVIOUS
<1> PICK t : t = rows[i].task
  OBVIOUS
<1>1. /\ At(c, "store") /\ Goto(c, "mark") /\ outcomes' = [outcomes EXCEPT ![t] = @ \cup {i}]
      /\ UNCHANGED <<world, task, seen, step, placed, rows, released, started, nodes, lock>>
  BY DEF StoreOutcome
<1>2. /\ c \in Calls /\ c.kind = "deliver" /\ t \in Task /\ i \in DOMAIN rows /\ i \in OfTask(t) /\ About(c, t) /\ up
      /\ Typed /\ TypeOK /\ Rows(t) /\ Table(t) /\ Records(t) /\ Holders(t) /\ rows[i].state = "claimed" /\ Found(t)
      /\ IsLast(t, i) /\ i \notin released /\ step[t] = "running" /\ (t \notin Relocatable => i \in started[t])
  BY <1>1, DelivererIs
<1>3. RowsStay /\ UNCHANGED <<now, up, crashes, node, ran, revoked>>
  BY <1>1, SameRowsStay DEF world, nodes
<1>4. "mark" \in StagesOf(c.kind) \ {"idle", "stopped"} /\ i \in Id
  BY <1>2, StagesAre, RowFacts
<1>5. CallsKept(c, t) /\ call'[c].pc = "mark" /\ call'[c].id = i
  BY <1>1, <1>2, <1>3, <1>4, GoesTo
<1>6. /\ outcomes' \in [Task -> SUBSET Id] /\ outcomes'[t] = outcomes[t] \cup {i}
      /\ \A u \in Task \ {t} : outcomes'[u] = outcomes[u]
  BY <1>1, <1>2, <1>4 DEF TypeOK
<1>7. TypeOK'
  BY <1>1, <1>2, <1>3, <1>5, <1>6 DEF TypeOK, CallsKept, CallsTyped
<1>8. OfTask(t)' = OfTask(t) /\ \A j : IsLast(t, j)' <=> IsLast(t, j)
  BY <1>1 DEF OfTask, IsLast
<1>9. Table(t)'
  BY <1>1, <1>2, <1>6, <1>8 DEF Table, Over
<1>10. Records(t)'
  BY <1>1, <1>2, <1>3, <1>6, <1>8 DEF Records
<1>11. Found(t)'
  BY <1>1, <1>2, <1>8 DEF Found
<1>12. Holders(t)' /\ call'[RunOf(t)].pc = "idle"
  BY <1>1, <1>2, <1>5, <1>6, DelivererGoes
<1>13. Tracked(t)' /\ Caught(t)'
  BY <1>2, <1>3, <1>11, <1>12, EndsWell
<1>14. \A j \in OfTask(t)' : j \in OfTask(t) /\ rows'[j] = rows[j]
  BY <1>1, <1>8
<1>15. QED
  BY <1>1, <1>2, <1>3, <1>5, <1>6, <1>7, <1>9, <1>10, <1>12, <1>13, <1>14, HolderStep DEF Rows

\* A refusal closes the step before the mark.
LEMMA RefuseThereKeeps ==
    ASSUME IInv, NEW d \in Node, RefuseThere(d)
    PROVE  IInv'
<1> DEFINE c == DeliverOf(d)
<1> PICK i : i = call[c].id
  OBVIOUS
<1> PICK t : t = rows[i].task
  OBVIOUS
<1> PICK v : v = IF task[t] = "ended" THEN "cancelled" ELSE "failed"
  OBVIOUS
<1>1. At(c, "refuse") /\ Goto(c, "mark") /\ SetStep(t, v) /\ UNCHANGED <<world, task, placed, rows, records, nodes, lock>>
  BY DEF RefuseThere
<1>2. /\ c \in Calls /\ c.kind = "deliver" /\ t \in Task /\ i \in DOMAIN rows /\ i \in OfTask(t) /\ About(c, t) /\ up
      /\ Typed /\ TypeOK /\ Rows(t) /\ Holders(t) /\ rows[i].state = "claimed" /\ (t \notin Relocatable => i \in started[t])
  BY <1>1, DelivererIs
<1>3. RowsStay /\ UNCHANGED <<now, up, crashes, node, ran, revoked, released, started, outcomes>>
  BY <1>1, SameRowsStay DEF world, nodes, records
<1>4. "mark" \in StagesOf(c.kind) \ {"idle", "stopped"} /\ v \in {"completed", "failed", "cancelled"}
  BY <1>2, StagesAre
<1>5. CallsKept(c, t) /\ call'[c].pc = "mark" /\ call'[c].id = i
  BY <1>1, <1>2, <1>3, <1>4, GoesTo
<1>6. /\ step'[t] = v /\ seen'[t] = now /\ \A u \in Task \ {t} : step'[u] = step[u] /\ seen'[u] = seen[u]
      /\ step' \in [Task -> StepStates] /\ seen' \in [Task -> 0 .. MaxTime]
  BY <1>1, <1>2, <1>4, StepCloses
<1>7. TypeOK'
  BY <1>1, <1>2, <1>3, <1>5, <1>6 DEF TypeOK, CallsKept, CallsTyped
<1>8. Rows(t)'
  BY <1>1, <1>2, <1>3, <1>4, <1>6, StepWrites
<1>9. Over(t)'
  BY <1>4, <1>6 DEF Over
<1>10. Holders(t)' /\ call'[RunOf(t)].pc = "idle"
  BY <1>1, <1>2, <1>3, <1>5, <1>9, DelivererGoes
<1>11. Tracked(t)' /\ Caught(t)'
  BY <1>2, <1>3, <1>4, <1>6, <1>10, EndsWell
<1>12. \A j \in OfTask(t)' : j \in OfTask(t) /\ rows'[j] = rows[j]
  BY <1>1 DEF OfTask
<1>13. QED
  BY <1>1, <1>2, <1>3, <1>5, <1>6, <1>7, <1>8, <1>10, <1>11, <1>12, HolderStep

\* The UPDATE of the delivery.
LEMMA MarkDeliveredKeeps ==
    ASSUME IInv, NEW d \in Node, MarkDelivered(d)
    PROVE  IInv'
<1> DEFINE c == DeliverOf(d)
<1> PICK i : i = call[c].id
  OBVIOUS
<1> PICK t : t = rows[i].task
  OBVIOUS
<1>1. At(c, "mark") /\ UNCHANGED <<world, task, seen, step, placed, records, ran, revoked>>
  BY DEF MarkDelivered
<1>2. /\ c \in Calls /\ c.kind = "deliver" /\ t \in Task /\ i \in DOMAIN rows /\ i \in OfTask(t) /\ About(c, t) /\ up
      /\ Typed /\ TypeOK /\ Rows(t) /\ Table(t) /\ Records(t) /\ Holders(t) /\ rows[i].state = "claimed" /\ Found(t)
      /\ IsLast(t, i) /\ i \notin released /\ (i \in outcomes[t] \/ Over(t)) /\ (t \notin Relocatable => i \in started[t])
  BY <1>1, DelivererIs
<1>3. UNCHANGED <<now, up, crashes, released, started, outcomes>>
  BY <1>1 DEF world, records
<1>4. CASE rows[i].state = "claimed" /\ rows[i].expires > call[c].at
  <2>1. SetState(i, "delivered") /\ Goto(c, "close") /\ UNCHANGED <<node, lock>>
    BY <1>4 DEF MarkDelivered
  <2>2. /\ rows' \in Seq(Row) /\ Len(rows') <= MaxRows /\ DOMAIN rows' = DOMAIN rows /\ RowsStay
        /\ rows'[i].state = "delivered" /\ rows'[i].task = t /\ \A j \in DOMAIN rows : j # i => rows'[j] = rows[j]
        /\ OfTask(t)' = OfTask(t)
    <3>1. "delivered" \in RowStates
      BY DEF RowStates
    <3>2. QED
      BY <1>2, <2>1, <3>1, StateWrites
  <2>3. "close" \in StagesOf(c.kind) \ {"idle", "stopped"}
    BY <1>2, StagesAre
  <2>4. CallsKept(c, t) /\ About(c, t)' /\ call'[c].pc = "close" /\ call'[c].id = i
    BY <1>2, <1>3, <2>1, <2>2, <2>3, GoesTo
  <2>5. \A j : IsLast(t, j)' <=> IsLast(t, j)
    BY <2>2 DEF IsLast
  <2>6. \A j \in OfTask(t) : j \in DOMAIN rows /\ (j # i => rows'[j] = rows[j])
    BY <2>2 DEF OfTask
  <2>7. Table(t)'
    <3>1. step[t] = "pending" => FALSE
      BY <1>2 DEF Table, AllExpired
    <3>2. QED
      BY <1>1, <1>2, <1>3, <2>2, <2>5, <2>6, <3>1 DEF Table, Over
  <2>8. Records(t)'
    BY <1>1, <1>2, <1>3, <2>1, <2>2, <2>5, <2>6 DEF Records
  <2>9. Holders(t)' /\ call'[RunOf(t)].pc = "idle"
    BY <1>1, <1>2, <1>3, <2>2, <2>4, DelivererGoes
  <2>10. Tracked(t)' /\ Caught(t)'
    BY <1>2, <2>2, <2>4, <2>9 DEF Tracked, Caught
  <2>11. TypeOK'
    BY <1>1, <1>2, <1>3, <2>1, <2>2, <2>4 DEF TypeOK, CallsKept, CallsTyped
  <2>12. \A j \in OfTask(t)' : rows'[j].state \in {"offered", "claimed"} => j \in OfTask(t) /\ rows'[j] = rows[j]
    BY <2>2, <2>6
  <2>13. \A j \in DOMAIN rows' : rows'[j].task # t => j \in DOMAIN rows /\ rows'[j] = rows[j]
    BY <2>2
  <2>14. QED
    BY <1>1, <1>2, <1>3, <2>1, <2>2, <2>4, <2>7, <2>8, <2>9, <2>10, <2>11, <2>12, <2>13, HolderStep DEF Rows
<1>5. CASE ~(rows[i].state = "claimed" /\ rows[i].expires > call[c].at)
  <2>1. Answer(c) /\ Leave(c, t) /\ UNCHANGED rows
    BY <1>5 DEF MarkDelivered
  <2>2. node' \in [Node -> Hand] /\ \A e \in Node : node'[e] \in {node[e], Empty}
    BY <1>2, <2>1, AnswerIs
  <2>3. UNCHANGED stores
    BY <1>1, <2>1 DEF stores
  <2>4. QED
    BY <1>1, <1>2, <2>1, <2>2, <2>3, AnswersAndLeaves
<1>6. QED
  BY <1>4, <1>5

\* The second half of a delivery.
LEMMA CloseDeliveredKeeps ==
    ASSUME IInv, NEW d \in Node, CloseDelivered(d)
    PROVE  IInv'
<1> DEFINE c == DeliverOf(d)
<1> PICK i : i = call[c].id
  OBVIOUS
<1> PICK t : t = rows[i].task
  OBVIOUS
<1>1. /\ At(c, "close") /\ Answer(c) /\ Leave(c, t)
      /\ UNCHANGED <<world, task, placed, rows, records, ran, revoked>>
  BY DEF CloseDelivered
<1>2. c \in Calls /\ c.kind = "deliver" /\ t \in Task /\ About(c, t) /\ up /\ TypeOK
  BY <1>1, DelivererIs
<1>3. node' \in [Node -> Hand] /\ \A e \in Node : node'[e] \in {node[e], Empty}
  BY <1>1, <1>2, AnswerIs
<1>4. CASE step[t] = "running"
  <2>1. PICK v \in Verdicts(t) : SetStep(t, v)
    BY <1>4 DEF CloseDelivered
  <2>2. UNCHANGED <<ran, revoked>>
    BY <1>1
  <2>3. QED
    BY <1>1, <1>2, <1>3, <2>1, <2>2, ClosesAndLeaves
<1>5. CASE step[t] # "running"
  <2>1. UNCHANGED stores
    BY <1>1, <1>5 DEF CloseDelivered, stores
  <2>2. QED
    BY <1>1, <1>2, <1>3, <1>5, <2>1, AnswersAndLeaves
<1>6. QED
  BY <1>4, <1>5

-------------------------------------------------------------------------------
(* The renewal, the revocation and the nodes: no lock *)

\* A call that holds no lock moves, and every task is still.
LEMMA LooseKeeps ==
    ASSUME IInv, NEW c \in Calls, c.kind \in {"renew", "revoke"}, up, UNCHANGED <<world, task, step, placed, records, node, ran, lock>>,
           NEW s \in CallState, s.pc \in StagesOf(c.kind), s.at <= now, s.pc # "idle" /\ c.kind = "renew" => s.id \in DOMAIN rows,
           call' = [call EXCEPT ![c] = s], TypeOK', RowsStay, \A u \in Task : OfTask(u)' = OfTask(u),
           \A i \in DOMAIN rows : rows'[i].state = rows[i].state,
           \A u \in Task : seen[u] <= seen'[u] /\ seen'[u] \in {seen[u], now},
           \A u \in Task : task[u] # "ended" =>
              /\ \A i \in OfTask(u) : rows'[i].expires <= rows[i].expires \/ rows'[i].expires <= seen'[u] + TTL
              /\ s.pc = "renew" /\ rows[s.id].task = u => s.at <= seen'[u]
    PROVE  IInv'
<1>1. Typed /\ TypeOK
  BY DEF IInv, Typed
<1>2. UNCHANGED <<now, up, crashes, task, step, placed, released, started, outcomes, node, ran, lock>>
  BY DEF world, records
<1>3. /\ CallsTyped /\ Called' /\ Locks' /\ OthersStay(c) /\ call'[c] = s
      /\ \A o \in Calls, u \in Task : (About(o, u)' <=> About(o, u))
      /\ \A u \in Task : ~About(c, u)
  BY <1>1, <1>2, LooseMoves
<1>4. Named'
  BY <1>1, <1>2, NamedKept
<1>5. Typed'
  BY <1>3, <1>4 DEF Typed
<1>6. ASSUME NEW u \in Task
      PROVE  Still(u)
  <2>1. StillRows(u)
    <3>1. \A i \in OfTask(u) : i \in DOMAIN rows
      BY DEF OfTask
    <3>2. QED
      BY <1>2, <3>1 DEF StillRows
  <2>2. StillCalls(u)
    <3>1. c # StopOf(u)
      BY CallNames
    <3>2. QED
      BY <1>2, <1>3, <3>1, CallsStill
  <2>3. StillSigned(u)
    <3>1. SUFFICES ASSUME task[u] # "ended"
                   PROVE  \A d \in Node : call'[RenewOf(d)].pc = "renew" /\ rows'[call'[RenewOf(d)].id].task = u =>
                             \/ call'[RenewOf(d)] = call[RenewOf(d)] /\ rows[call[RenewOf(d)].id].task = u
                             \/ call'[RenewOf(d)].at <= seen'[u]
      BY <1>2 DEF StillSigned
    <3>2. TAKE d \in Node
    <3>3. CASE RenewOf(d) = c
      <4>1. c.kind = "renew"
        BY <3>3, CallNames
      <4>2. s.pc # "idle" => rows'[s.id].task = rows[s.id].task
        BY <4>1 DEF RowsStay
      <4>3. QED
        BY <1>3, <3>1, <3>3, <4>2
    <3>4. CASE RenewOf(d) # c
      <4>1. RenewOf(d) \in Calls /\ RenewOf(d).kind = "renew" /\ call'[RenewOf(d)] = call[RenewOf(d)]
        BY <1>3, <3>4, CallNames DEF OthersStay
      <4>2. call[RenewOf(d)].pc # "idle" => rows'[call[RenewOf(d)].id].task = rows[call[RenewOf(d)].id].task
        BY <1>1, <4>1 DEF Typed, Called, RowsStay
      <4>3. QED
        BY <4>1, <4>2
    <3>5. QED
      BY <3>3, <3>4
  <2>4. QED
    BY <2>1, <2>2, <2>3 DEF Still
<1>7. QED
  BY <1>5, <1>6, AllStill

\* The table as it was.
LEMMA SameRows ==
    ASSUME TypeOK, UNCHANGED rows
    PROVE  /\ RowsStay /\ \A u \in Task : OfTask(u)' = OfTask(u)
           /\ \A i \in DOMAIN rows : rows'[i].state = rows[i].state
           /\ \A u \in Task : \A i \in OfTask(u) : rows'[i].expires <= rows[i].expires
BY RowFacts DEF RowsStay, OfTask

\* A renewal comes in.
LEMMA AskForTimeKeeps ==
    ASSUME IInv, NEW d \in Node, AskForTime(d)
    PROVE  IInv'
<1> DEFINE c == RenewOf(d)
<1> PICK i : i = node[d].order
  OBVIOUS
<1> DEFINE s == [pc |-> "sign", id |-> i, at |-> now, envelope |-> None]
<1>1. /\ c \in Calls /\ c.kind = "renew" /\ Typed /\ TypeOK /\ up /\ call' = [call EXCEPT ![c] = s] /\ i # None
      /\ UNCHANGED <<world, stores, nodes, lock>>
  BY CallNames DEF AskForTime, Enter, IInv, Typed
<1>2. UNCHANGED <<now, up, crashes, task, step, placed, rows, seen, records, node, ran, lock>>
  BY <1>1 DEF world, stores, nodes
<1>3. i \in DOMAIN rows /\ i \in Id /\ now \in Nat /\ "sign" \in Stages
  BY <1>1, RowFacts, AssignmentsAssumption DEF Typed, Named, TypeOK, Stages
<1>4. s \in CallState /\ s.pc = "sign" /\ s.id = i /\ s.at = now
  BY <1>3 DEF CallState
<1> HIDE DEF s
<1>5. s.pc \in StagesOf(c.kind) /\ s.at <= now
  BY <1>1, <1>3, <1>4, StagesAre
<1>6. CallsTyped
  BY <1>1, <1>2, <1>4 DEF CallsTyped, TypeOK
<1>7. TypeOK'
  BY <1>1, <1>6, <1>2 DEF TypeOK, CallsTyped, records, nodes
<1>8. \A u \in Task : seen[u] <= seen'[u]
  BY <1>1, <1>2 DEF TypeOK
<1>9. QED
  BY <1>1, <1>2, <1>3, <1>4, <1>5, <1>7, <1>8, SameRows, LooseKeeps

\* A renewal that is at a stage of its own.
LEMMA RenewerIs ==
    ASSUME IInv, NEW d \in Node, NEW p, p # "idle", At(RenewOf(d), p), NEW i, i = call[RenewOf(d)].id, NEW t, t = rows[i].task
    PROVE  /\ RenewOf(d) \in Calls /\ RenewOf(d).kind = "renew" /\ t \in Task /\ i \in DOMAIN rows /\ i \in OfTask(t)
           /\ up /\ Typed /\ TypeOK /\ call[RenewOf(d)] \in CallState /\ call[RenewOf(d)].at <= now /\ call[RenewOf(d)].at \in Nat
           /\ task[t] # "ended" /\ p = "renew" => call[RenewOf(d)].at <= seen[t]
<1>1. RenewOf(d) \in Calls /\ RenewOf(d).kind = "renew"
  BY CallNames
<1>2. call[RenewOf(d)].pc = p /\ up /\ Typed /\ TypeOK
  BY DEF At, IInv, Typed
<1>3. i \in DOMAIN rows /\ t \in Task /\ i \in OfTask(t)
  BY <1>1, <1>2, RowFacts DEF Typed, Called, OfTask
<1>4. call[RenewOf(d)] \in CallState /\ call[RenewOf(d)].at <= now
  BY <1>1, <1>2 DEF TypeOK, Typed, Called
<1>5. call[RenewOf(d)].at \in Nat
  BY <1>4 DEF CallState
<1>6. task[t] # "ended" /\ p = "renew" => call[RenewOf(d)].at <= seen[t]
  BY <1>2, <1>3 DEF IInv, Ends, Signed
<1>7. QED
  BY <1>1, <1>2, <1>3, <1>4, <1>5, <1>6

\* The heartbeat of a renewal, later than the instant the renewal read.
LEMMA SignRenewalKeeps ==
    ASSUME IInv, NEW d \in Node, SignRenewal(d)
    PROVE  IInv'
<1> DEFINE c == RenewOf(d)
<1> PICK i : i = call[c].id
  OBVIOUS
<1> PICK t : t = rows[i].task
  OBVIOUS
<1>1. /\ At(c, "sign") /\ SignUnlessEnded(t)
      /\ UNCHANGED <<world, task, step, placed, rows, records, nodes, lock>>
  BY DEF SignRenewal
<1>2. /\ c \in Calls /\ c.kind = "renew" /\ t \in Task /\ i \in DOMAIN rows /\ up /\ Typed /\ TypeOK
      /\ call[c] \in CallState /\ call[c].at <= now /\ call[c].at \in Nat
  BY <1>1, RenewerIs
<1>3. UNCHANGED <<now, up, crashes, task, step, placed, rows, records, node, ran, revoked, released, started, outcomes, lock>>
  BY <1>1 DEF world, nodes, records
<1>4. /\ \A u \in Task : seen[u] <= seen'[u] /\ seen'[u] \in {seen[u], now}
      /\ seen' \in [Task -> 0 .. MaxTime]
      /\ task[t] = "executing" => seen'[t] = now
  <2>1. CASE task[t] = "executing"
    BY <1>1, <1>2, <2>1, Signing DEF SignUnlessEnded
  <2>2. CASE task[t] # "executing"
    BY <1>1, <1>2, <2>2 DEF SignUnlessEnded, TypeOK
  <2>3. QED
    BY <2>1, <2>2
<1>5. CASE task[t] = "queued"
  <2>1. call' = [call EXCEPT ![c] = Idle]
    BY <1>2, <1>5 DEF SignRenewal, Return
  <2>2. Idle \in CallState /\ Idle.pc = "idle" /\ Idle.pc \in StagesOf(c.kind) /\ Idle.at <= now
    BY <1>2, IdleIs, StagesAre, AssignmentsAssumption DEF TypeOK
  <2>3. CallsTyped
    BY <1>2, <1>3, <2>1, <2>2 DEF CallsTyped, TypeOK
  <2>4. TypeOK'
    BY <1>2, <1>3, <1>4, <2>3 DEF TypeOK, CallsTyped
  <2>5. QED
    BY <1>1, <1>2, <1>3, <1>4, <2>1, <2>2, <2>4, SameRows, LooseKeeps
<1>6. CASE task[t] # "queued"
  <2> DEFINE s == [call[c] EXCEPT !.pc = "renew"]
  <2>1. call' = [call EXCEPT ![c] = s]
    BY <1>2, <1>6 DEF SignRenewal, Goto
  <2>2. s \in CallState /\ s.pc = "renew" /\ s.id = i /\ s.at = call[c].at
    BY <1>2 DEF CallState, Stages
  <2> HIDE DEF s
  <2>3. s.pc \in StagesOf(c.kind) /\ s.at <= now
    BY <1>2, <2>2, StagesAre
  <2>4. CallsTyped
    BY <1>2, <1>3, <2>1, <2>2 DEF CallsTyped, TypeOK
  <2>5. TypeOK'
    BY <1>2, <1>3, <1>4, <2>4 DEF TypeOK, CallsTyped
  <2>6. task[t] # "ended" => s.at <= seen'[t]
    BY <1>2, <1>4, <1>6, <2>2 DEF TypeOK, TaskStates
  <2>7. \A u \in Task : task[u] # "ended" => (s.pc = "renew" /\ rows[s.id].task = u => s.at <= seen'[u])
    BY <2>2, <2>6
  <2>8. QED
    BY <1>1, <1>2, <1>3, <1>4, <2>1, <2>2, <2>3, <2>5, <2>7, SameRows, LooseKeeps
<1>7. QED
  BY <1>5, <1>6

\* The UPDATE of a renewal, which may find the row changed.
LEMMA RenewRowKeeps ==
    ASSUME IInv, NEW d \in Node, RenewRow(d)
    PROVE  IInv'
<1> DEFINE c == RenewOf(d)
<1> PICK i : i = call[c].id
  OBVIOUS
<1> PICK t : t = rows[i].task
  OBVIOUS
<1> PICK n : n = call[c].at
  OBVIOUS
<1>1. /\ At(c, "renew") /\ Return(c)
      /\ UNCHANGED <<world, task, seen, step, placed, records, nodes, lock>>
  BY DEF RenewRow
<1>2. /\ c \in Calls /\ c.kind = "renew" /\ t \in Task /\ i \in DOMAIN rows /\ up /\ Typed /\ TypeOK
      /\ n \in Nat /\ (task[t] # "ended" => n <= seen[t])
  BY <1>1, RenewerIs
<1>3. UNCHANGED <<now, up, crashes, task, seen, step, placed, records, node, ran, revoked, released, started, outcomes, lock>>
  BY <1>1 DEF world, nodes, records
<1>4. call' = [call EXCEPT ![c] = Idle]
  BY <1>1 DEF Return
<1>5. Idle \in CallState /\ Idle.pc = "idle" /\ Idle.pc \in StagesOf(c.kind) /\ Idle.at <= now
  BY <1>2, IdleIs, StagesAre, AssignmentsAssumption DEF TypeOK
<1>6. CallsTyped
  BY <1>2, <1>3, <1>4, <1>5 DEF CallsTyped, TypeOK
<1>7. \A u \in Task : seen[u] <= seen'[u] /\ seen'[u] \in {seen[u], now}
  BY <1>2, <1>3 DEF TypeOK
<1>8. CASE rows[i].state = "claimed" /\ rows[i].expires > n
  <2> DEFINE r == [rows[i] EXCEPT !.expires = Renewed(rows[i], n)]
  <2>1. SetRow(i, r)
    BY <1>8 DEF RenewRow
  <2>2. rows[i] \in Row /\ rows[i].claimed \in Nat /\ Cap \in Nat /\ TTL \in Nat
    BY <1>2, RowFacts, AssignmentsAssumption
  <2>3. Renewed(rows[i], n) \in Nat /\ Renewed(rows[i], n) <= n + TTL
    BY <1>2, <2>2 DEF Renewed, LeastOf
  <2>4. r \in Row /\ r.task = t /\ r.state = rows[i].state /\ r.expires <= n + TTL
    BY <2>2, <2>3 DEF Row
  <2> HIDE DEF r
  <2>5. /\ rows' \in Seq(Row) /\ Len(rows') <= MaxRows /\ DOMAIN rows' = DOMAIN rows /\ RowsStay
        /\ rows'[i] = r /\ \A j \in DOMAIN rows : j # i => rows'[j] = rows[j]
        /\ \A u : OfTask(u)' = OfTask(u)
    BY <1>2, <2>1, <2>4, RowWrites
  <2>6. TypeOK'
    BY <1>2, <1>3, <1>6, <2>5 DEF TypeOK, CallsTyped
  <2>7. \A j \in DOMAIN rows : rows'[j].state = rows[j].state
    BY <2>4, <2>5
  <2>8. ASSUME NEW u \in Task, task[u] # "ended", NEW j \in OfTask(u)
        PROVE  rows'[j].expires <= rows[j].expires \/ rows'[j].expires <= seen'[u] + TTL
    <3>1. j \in DOMAIN rows /\ rows[j].task = u /\ rows[j].expires \in Nat
      BY <1>2, RowFacts DEF OfTask
    <3>2. CASE j # i
      BY <2>5, <3>1, <3>2
    <3>3. CASE j = i
      <4>1. u = t /\ n <= seen[t] /\ seen[t] \in Nat
        BY <1>2, <2>8, <3>1, <3>3 DEF TypeOK
      <4>2. r.expires \in Nat /\ r.expires <= n + TTL
        BY <2>4 DEF Row
      <4>3. r.expires <= seen[t] + TTL
        BY <1>2, <2>2, <4>1, <4>2
      <4>4. QED
        BY <1>3, <2>5, <3>3, <4>1, <4>3
    <3>4. QED
      BY <3>2, <3>3
  <2>9. QED
    BY <1>1, <1>2, <1>3, <1>4, <1>5, <1>7, <2>5, <2>6, <2>7, <2>8, LooseKeeps
<1>9. CASE ~(rows[i].state = "claimed" /\ rows[i].expires > n)
  <2>1. UNCHANGED rows
    BY <1>9 DEF RenewRow
  <2>2. TypeOK'
    BY <1>2, <1>3, <1>6, <2>1 DEF TypeOK, CallsTyped
  <2>3. QED
    BY <1>1, <1>2, <1>3, <1>4, <1>5, <1>7, <2>1, <2>2, SameRows, LooseKeeps
<1>10. QED
  BY <1>8, <1>9

\* The first write of a revocation.
LEMMA RevokeNodeKeeps ==
    ASSUME IInv, NEW d \in Node, RevokeNode(d)
    PROVE  IInv'
<1> DEFINE c == RevokeOf(d)
           s == [pc |-> "cut", id |-> None, at |-> now, envelope |-> None]
<1>1. /\ c \in Calls /\ c.kind = "revoke" /\ Typed /\ TypeOK /\ up /\ call' = [call EXCEPT ![c] = s]
      /\ revoked' = revoked \cup {d} /\ UNCHANGED <<world, stores, node, ran, lock>>
  BY CallNames DEF RevokeNode, Enter, IInv, Typed
<1>2. UNCHANGED <<now, up, crashes, task, step, placed, rows, seen, records, released, started, outcomes, node, ran, lock>>
  BY <1>1 DEF world, stores, records
<1>3. now \in Nat /\ "cut" \in Stages
  BY <1>1, AssignmentsAssumption DEF TypeOK, Stages
<1>4. s \in CallState /\ s.pc = "cut" /\ s.at = now
  BY <1>3 DEF CallState
<1> HIDE DEF s
<1>5. s.pc \in StagesOf(c.kind) /\ s.at <= now
  BY <1>1, <1>3, <1>4, StagesAre
<1>6. CallsTyped
  BY <1>1, <1>2, <1>4 DEF CallsTyped, TypeOK
<1>7. TypeOK'
  BY <1>1, <1>6, <1>2 DEF TypeOK, CallsTyped
<1>8. \A u \in Task : seen[u] <= seen'[u]
  BY <1>1, <1>2 DEF TypeOK
<1>9. QED
  BY <1>1, <1>2, <1>4, <1>5, <1>7, <1>8, SameRows, LooseKeeps

\* The second write of a revocation: no row lives longer for it.
LEMMA CutShortKeeps ==
    ASSUME IInv, NEW d \in Node, CutShort(d)
    PROVE  IInv'
<1> DEFINE c == RevokeOf(d)
<1>1. /\ c \in Calls /\ c.kind = "revoke" /\ Typed /\ TypeOK /\ up /\ call' = [call EXCEPT ![c] = Idle]
      /\ UNCHANGED <<world, task, seen, step, placed, records, nodes, lock>>
  BY CallNames DEF CutShort, At, Return, IInv, Typed
<1>2. UNCHANGED <<now, up, crashes, task, step, placed, seen, records, released, started, outcomes, node, ran, revoked, lock>>
  BY <1>1 DEF world, records, nodes
<1>3. Idle \in CallState /\ Idle.pc = "idle" /\ Idle.pc \in StagesOf(c.kind) /\ Idle.at <= now
  BY <1>1, IdleIs, StagesAre, AssignmentsAssumption DEF TypeOK
<1>4. CallsTyped
  BY <1>1, <1>2, <1>3 DEF CallsTyped, TypeOK
<1>5. /\ rows \in Seq(Row) /\ Len(rows) \in Nat /\ DOMAIN rows = 1 .. Len(rows) /\ Len(rows) <= MaxRows /\ now \in Nat
      /\ \A i \in DOMAIN rows : rows[i] \in Row /\ rows[i].expires \in Nat
  BY <1>1, RowFacts, AssignmentsAssumption DEF TypeOK
<1> DEFINE cut(i) == IF rows[i].device = d /\ Alive(rows[i], now) THEN [rows[i] EXCEPT !.expires = now] ELSE rows[i]
<1>6. rows' = [i \in DOMAIN rows |-> cut(i)]
  BY DEF CutShort
<1>7. \A i \in DOMAIN rows : cut(i) \in Row /\ cut(i).task = rows[i].task /\ cut(i).state = rows[i].state /\ cut(i).expires <= rows[i].expires
  <2> TAKE i \in DOMAIN rows
  <2>1. CASE rows[i].device = d /\ Alive(rows[i], now)
    <3>1. cut(i) = [rows[i] EXCEPT !.expires = now]
      BY <2>1
    <3>2. now <= rows[i].expires
      BY <1>5, <2>1 DEF Alive
    <3>3. QED
      BY <1>5, <3>1, <3>2 DEF Row
  <2>2. CASE ~(rows[i].device = d /\ Alive(rows[i], now))
    BY <1>5, <2>2
  <2>3. QED
    BY <2>1, <2>2
<1> HIDE DEF cut
<1>8. rows' \in Seq(Row) /\ Len(rows') = Len(rows) /\ DOMAIN rows' = DOMAIN rows /\ \A i \in DOMAIN rows : rows'[i] = cut(i)
  BY <1>5, <1>6, <1>7
<1>9. RowsStay /\ \A u \in Task : OfTask(u)' = OfTask(u)
  BY <1>7, <1>8 DEF RowsStay, OfTask
<1>10. TypeOK'
  BY <1>1, <1>2, <1>4, <1>5, <1>8 DEF TypeOK, CallsTyped
<1>11. \A u \in Task : seen[u] <= seen'[u] /\ seen'[u] \in {seen[u], now}
  BY <1>1, <1>2 DEF TypeOK
<1>12. /\ \A i \in DOMAIN rows : rows'[i].state = rows[i].state
       /\ \A u \in Task : \A i \in OfTask(u) : rows'[i].expires <= rows[i].expires
  BY <1>7, <1>8 DEF OfTask
<1>13. UNCHANGED <<world, task, step, placed, records, node, ran, lock>>
  BY <1>1, <1>2
<1>14. QED
  BY <1>1, <1>3, <1>9, <1>10, <1>11, <1>12, <1>13, LooseKeeps

\* The nodes move, or time does: every task is still.
LEMMA OutsideKeeps ==
    ASSUME IInv, UNCHANGED <<up, crashes, stores, lock, call>>, TypeOK', Named', now <= now',
           \A u \in Task, d \in Node : node'[d].order \in OfTask(u) => node'[d].order = node[d].order,
           ran' \subseteq ran \cup {node[d].order : d \in Node}
    PROVE  IInv'
<1>1. Typed /\ TypeOK /\ now \in Nat /\ now' \in Nat
  BY AssignmentsAssumption DEF IInv, Typed, TypeOK
<1>2. UNCHANGED <<up, crashes, task, seen, step, placed, rows, released, started, outcomes, lock, call>>
  BY DEF stores, records
<1>3. Called'
  <2> SUFFICES ASSUME NEW o \in Calls
               PROVE  /\ call'[o].pc \in StagesOf(o.kind)
                      /\ call'[o].at <= now'
                      /\ o.kind \in {"ask", "deliver", "renew"} /\ call'[o].pc # "idle" => call'[o].id \in DOMAIN rows'
    BY DEF Called
  <2>1. call[o].at \in Nat
    BY <1>1 DEF TypeOK, CallState
  <2>2. QED
    BY <1>1, <1>2, <2>1 DEF Typed, Called
<1>4. \A o \in Calls, u \in Task : (About(o, u)' <=> About(o, u))
  BY <1>2 DEF About
<1>5. Locks'
  BY <1>1, <1>2, <1>4 DEF Typed, Locks
<1>6. Typed'
  BY <1>3, <1>5 DEF Typed
<1>7. \A u \in Task : seen[u] <= seen'[u]
  BY <1>1, <1>2 DEF TypeOK
<1>8. ASSUME NEW u \in Task
      PROVE  Still(u)
  <2>1. StillRows(u)
    BY <1>2 DEF StillRows, OfTask
  <2>2. StillCalls(u)
    BY <1>2, <1>4, <1>7 DEF StillCalls
  <2>3. StillSigned(u)
    BY <1>1, <1>2, SignsStill
  <2>4. QED
    BY <2>1, <2>2, <2>3 DEF Still
<1>9. QED
  BY <1>6, <1>8, AllStill

\* A node acts, however late.
LEMMA NodeActsKeeps ==
    ASSUME IInv, NEW d \in Node, NodeActs(d)
    PROVE  IInv'
<1>1. /\ Typed /\ TypeOK /\ node[d].order # None /\ UNCHANGED <<world, stores, revoked, lock, call>>
  BY DEF IInv, Typed, NodeActs
<1>2. UNCHANGED <<now, up, crashes, task, seen, step, placed, rows, released, started, outcomes>>
  BY <1>1 DEF world, stores, records
<1>3. PICK e \in Envelopes : /\ node' = [node EXCEPT ![d].envelope = e]
                             /\ ran' = IF e = "result" THEN ran \cup {node[d].order} ELSE ran
  BY DEF NodeActs
<1>4. /\ node' \in [Node -> Hand] /\ \A g \in Node \ {d} : node'[g] = node[g]
      /\ node'[d].order = node[d].order
  <2>1. node \in [Node -> Hand]
    BY <1>1 DEF TypeOK
  <2>2. [node[d] EXCEPT !.envelope = e] \in Hand /\ [node[d] EXCEPT !.envelope = e].order = node[d].order
    BY <2>1 DEF Hand
  <2>3. QED
    BY <1>3, <2>1, <2>2
<1>5. node[d].order \in DOMAIN rows /\ DOMAIN rows \subseteq Id
  BY <1>1, RowFacts DEF Typed, Named
<1>6. ran' \subseteq ran \cup {node[d].order}
  BY <1>3
<1>7. TypeOK'
  BY <1>1, <1>2, <1>4, <1>5, <1>6 DEF TypeOK
<1>8. Named'
  <2>1. ran' \cup released' \subseteq DOMAIN rows'
    BY <1>1, <1>2, <1>5, <1>6 DEF Typed, Named
  <2>2. \A g \in Node : /\ node'[g].order # None => node'[g].order \in DOMAIN rows'
                        /\ node'[g].envelope # None => node'[g].order # None
    BY <1>1, <1>2, <1>4 DEF Typed, Named
  <2>3. QED
    BY <1>1, <1>2, <2>1, <2>2 DEF Typed, Named
<1>9. now <= now'
  BY <1>1, <1>2, AssignmentsAssumption DEF TypeOK
<1>10. UNCHANGED <<up, crashes, stores, lock, call>>
  BY <1>1, <1>2
<1>11. /\ \A u \in Task, g \in Node : node'[g].order \in OfTask(u) => node'[g].order = node[g].order
       /\ ran' \subseteq ran \cup {node[g].order : g \in Node}
  BY <1>4, <1>6
<1>12. QED
  BY <1>7, <1>8, <1>9, <1>10, <1>11, OutsideKeeps

\* A node forgets.
LEMMA NodeCrashesKeeps ==
    ASSUME IInv, NEW d \in Node, NodeCrashes(d)
    PROVE  IInv'
<1>1. Typed /\ TypeOK /\ node' = [node EXCEPT ![d] = Empty] /\ UNCHANGED <<world, stores, ran, revoked, lock, call>>
  BY DEF IInv, Typed, NodeCrashes
<1>2. UNCHANGED <<now, up, crashes, task, seen, step, placed, rows, released, started, outcomes>>
  BY <1>1 DEF world, stores, records
<1>3. Empty \in Hand /\ Empty.order = None /\ Empty.envelope = None
  BY DEF Empty, Hand
<1>4. node' \in [Node -> Hand] /\ \A g \in Node : node'[g] \in {node[g], Empty}
  BY <1>1, <1>3 DEF TypeOK
<1>5. TypeOK'
  BY <1>1, <1>2, <1>4 DEF TypeOK
<1>6. Named'
  <2>1. \A g \in Node : /\ node'[g].order # None => node'[g].order \in DOMAIN rows'
                        /\ node'[g].envelope # None => node'[g].order # None
    BY <1>1, <1>2, <1>3, <1>4 DEF Typed, Named
  <2>2. QED
    BY <1>1, <1>2, <2>1 DEF Typed, Named
<1>7. now <= now'
  BY <1>1, <1>2, AssignmentsAssumption DEF TypeOK
<1>8. \A u \in Task, g \in Node : node'[g].order \in OfTask(u) => node'[g].order = node[g].order
  <2>1. \A u \in Task : None \notin OfTask(u)
    BY <1>1, NoneIsNothing, RowFacts DEF OfTask
  <2>2. QED
    BY <1>3, <1>4, <2>1
<1>9. UNCHANGED <<up, crashes, stores, lock, call>> /\ ran' \subseteq ran \cup {node[g].order : g \in Node}
  BY <1>1, <1>2
<1>10. QED
  BY <1>5, <1>6, <1>7, <1>8, <1>9, OutsideKeeps

\* Time passes.
LEMMA TickKeeps ==
    ASSUME IInv, Tick
    PROVE  IInv'
<1>1. Typed /\ TypeOK /\ now < MaxTime /\ now' = now + 1 /\ UNCHANGED <<up, crashes, stores, nodes, lock, call>>
  BY DEF IInv, Typed, Tick
<1>2. UNCHANGED <<task, seen, step, placed, rows, released, started, outcomes, node, ran, revoked>>
  BY <1>1 DEF stores, records, nodes
<1>3. now \in Nat /\ MaxTime \in Nat /\ now' \in 0 .. MaxTime /\ now <= now' /\ \A u \in Task : seen[u] \in Nat
  BY <1>1, AssignmentsAssumption DEF TypeOK
<1>4. TypeOK'
  BY <1>1, <1>2, <1>3 DEF TypeOK
<1>5. Named'
  <2>1. \A u \in Task : seen[u] <= now'
    BY <1>1, <1>3 DEF Typed, Named
  <2>2. QED
    BY <1>1, <1>2, <2>1 DEF Typed, Named
<1>6. QED
  BY <1>1, <1>2, <1>3, <1>4, <1>5, OutsideKeeps

-------------------------------------------------------------------------------
(* A crash of the Core and its next start *)

\* When nothing is served every lock is free, and a task is nobody's.
LEMMA NobodyServes ==
    ASSUME \A c \in Calls : call[c] = Idle, NEW t \in Task
    PROVE  Running(t) /\ Stopping(t) /\ Asking(t) /\ Delivering(t) /\ Holders(t)
<1>1. /\ call[RunOf(t)].pc = "idle" /\ call[StopOf(t)].pc = "idle"
      /\ \A d \in Node : call[AskOf(d)].pc = "idle" /\ call[DeliverOf(d)].pc = "idle"
  BY CallNames, IdleIs
<1>2. Running(t) /\ Stopping(t)
  BY <1>1 DEF Running, Stopping
<1>3. \A d \in Node : ~About(AskOf(d), t) /\ ~About(DeliverOf(d), t)
  BY <1>1 DEF About
<1>4. Asking(t) /\ Delivering(t)
  BY <1>3 DEF Asking, Delivering
<1>5. QED
  BY <1>2, <1>4 DEF Holders

\* The Core stops: the calls and their locks are gone, the stores stay.
LEMMA CrashKeeps ==
    ASSUME IInv, Crash
    PROVE  IInv'
<1>1. /\ Typed /\ TypeOK /\ up' = FALSE /\ crashes' = crashes + 1 /\ crashes < MaxCrashes
      /\ lock' = [t \in Task |-> None] /\ call' = [c \in Calls |-> Idle] /\ UNCHANGED <<now, stores, nodes>>
  BY DEF IInv, Typed, Crash
<1>2. UNCHANGED <<task, seen, step, placed, rows, released, started, outcomes, node, ran, revoked>>
  BY <1>1 DEF stores, records, nodes
<1>3. crashes' \in 0 .. MaxCrashes /\ crashes' # 0 /\ now \in Nat
  BY <1>1, AssignmentsAssumption DEF TypeOK
<1>4. \A c \in Calls : call'[c] = Idle /\ call'[c].pc = "idle" /\ call'[c].at = 0
  BY <1>1, IdleIs
<1>5. TypeOK'
  BY <1>1, <1>2, <1>3, IdleIs DEF TypeOK
<1>6. Called'
  BY <1>1, <1>3, <1>4 DEF Called, StagesOf
<1>7. Named'
  BY <1>1, <1>2, <1>4 DEF Typed, Named
<1>8. Locks'
  <2>1. \A c \in Calls, t \in Task : ~About(c, t)'
    BY <1>4 DEF About
  <2>2. \A c \in Calls, t \in Task : lock'[t] # c
    BY <1>1, NoneIsNothing
  <2>3. QED
    BY <2>1, <2>2 DEF Locks
<1>9. ASSUME NEW u \in Task
      PROVE  Rows(u)' /\ Holders(u)' /\ Ends(u)'
  <2>1. Rows(u) /\ Signed(u)
    BY DEF IInv, Ends
  <2>2. Rows(u)'
    BY <1>1, <1>2, <2>1, RowsUnchanged
  <2>3. /\ call'[RunOf(u)].pc = "idle" /\ call'[StopOf(u)].pc = "idle"
        /\ \A d \in Node : call'[AskOf(d)].pc = "idle" /\ call'[DeliverOf(d)].pc = "idle" /\ call'[RenewOf(d)].pc = "idle"
    BY <1>4, CallNames
  <2>4. Running(u)' /\ Stopping(u)'
    BY <2>3 DEF Running, Stopping
  <2>5. \A d \in Node : ~About(AskOf(d), u)' /\ ~About(DeliverOf(d), u)'
    BY <2>3 DEF About
  <2>6. Holders(u)'
    BY <2>4, <2>5 DEF Holders, Asking, Delivering
  <2>7. Signed(u)'
    BY <1>2, <2>1, <2>3 DEF Signed, OfTask
  <2>8. Tracked(u)' /\ Caught(u)'
    BY <1>1, <1>3 DEF Tracked, Caught
  <2>9. QED
    BY <2>2, <2>6, <2>7, <2>8 DEF Ends
<1>10. QED
  BY <1>5, <1>6, <1>7, <1>8, <1>9 DEF IInv, Typed

\* The tasks that have ended when the Core starts, and those whose step it closes.
EndedAtStart == {t \in Task : task[t] = "ended" \/ Orphan(t)}
ClosedAtStart == {t \in EndedAtStart : step[t] = "running" /\ ~Held(t)}

\* What a start does to the row of an assignment.
Reset(i) ==
    LET t == rows[i].task IN
    IF t \in ClosedAtStart /\ i = Latest(t)
    THEN CASE Standing(t) = "live" -> [rows[i] EXCEPT !.state = "withdrawn"]
           [] Standing(t) = "lapsed" /\ outcomes[t] = {} -> [rows[i] EXCEPT !.state = "expired"]
           [] OTHER -> rows[i]
    ELSE rows[i]

\* A start withdraws or expires the last row of a step it closes, and no other.
LEMMA ResetIs ==
    ASSUME TypeOK, NEW i \in DOMAIN rows
    PROVE  /\ Reset(i) \in Row /\ Reset(i).task = rows[i].task /\ Reset(i).expires = rows[i].expires
           /\ \/ Reset(i) = rows[i]
              \/ /\ rows[i].task \in ClosedAtStart /\ i = Latest(rows[i].task)
                 /\ \/ Standing(rows[i].task) = "live" /\ Reset(i).state = "withdrawn"
                    \/ Standing(rows[i].task) = "lapsed" /\ Reset(i).state = "expired"
<1>1. rows[i] \in Row
  BY RowFacts
<1>2. \A s \in RowStates : /\ [rows[i] EXCEPT !.state = s] \in Row /\ [rows[i] EXCEPT !.state = s].state = s
                           /\ [rows[i] EXCEPT !.state = s].task = rows[i].task
                           /\ [rows[i] EXCEPT !.state = s].expires = rows[i].expires
  BY <1>1 DEF Row
<1>3. "withdrawn" \in RowStates /\ "expired" \in RowStates
  BY DEF RowStates
<1>4. CASE ~(rows[i].task \in ClosedAtStart /\ i = Latest(rows[i].task))
  <2>1. Reset(i) = rows[i]
    BY <1>4 DEF Reset
  <2>2. QED
    BY <1>1, <2>1
<1>5. CASE rows[i].task \in ClosedAtStart /\ i = Latest(rows[i].task)
  <2>1. CASE Standing(rows[i].task) = "live"
    <3>1. Reset(i) = [rows[i] EXCEPT !.state = "withdrawn"]
      BY <1>5, <2>1 DEF Reset
    <3>2. QED
      BY <1>2, <1>3, <1>5, <2>1, <3>1
  <2>2. CASE Standing(rows[i].task) = "lapsed" /\ outcomes[rows[i].task] = {}
    <3>1. Reset(i) = [rows[i] EXCEPT !.state = "expired"]
      BY <1>5, <2>2 DEF Reset
    <3>2. QED
      BY <1>2, <1>3, <1>5, <2>2, <3>1
  <2>3. CASE Standing(rows[i].task) # "live" /\ ~(Standing(rows[i].task) = "lapsed" /\ outcomes[rows[i].task] = {})
    <3>1. Reset(i) = rows[i]
      BY <1>5, <2>3 DEF Reset
    <3>2. QED
      BY <1>1, <3>1
  <2>4. QED
    BY <2>1, <2>2, <2>3
<1>6. QED
  BY <1>4, <1>5

\* The start, row by row.
LEMMA StartUpIs ==
    ASSUME StartUp
    PROVE  /\ ~up /\ up' = TRUE
           /\ task' = [t \in Task |-> IF t \in EndedAtStart THEN "ended" ELSE task[t]]
           /\ seen' = [t \in Task |-> IF Orphan(t) \/ t \in ClosedAtStart THEN now ELSE seen[t]]
           /\ rows' = [i \in DOMAIN rows |-> Reset(i)]
           /\ \E f \in [ClosedAtStart -> StepStates] :
                 /\ \A t \in ClosedAtStart : f[t] \in Verdicts(t)
                 /\ step' = [t \in Task |-> IF t \in ClosedAtStart THEN f[t] ELSE step[t]]
           /\ UNCHANGED <<now, crashes, placed, records, nodes, lock, call>>
BY DEF StartUp, EndedAtStart, ClosedAtStart, Reset

\* The start of the Core.
LEMMA StartUpKeeps ==
    ASSUME IInv, StartUp
    PROVE  IInv'
<1>1. /\ Typed /\ TypeOK /\ ~up /\ up' = TRUE /\ UNCHANGED <<now, crashes, placed, records, nodes, lock, call>>
      /\ task' = [t \in Task |-> IF t \in EndedAtStart THEN "ended" ELSE task[t]]
      /\ seen' = [t \in Task |-> IF Orphan(t) \/ t \in ClosedAtStart THEN now ELSE seen[t]]
      /\ rows' = [i \in DOMAIN rows |-> Reset(i)]
  BY StartUpIs DEF IInv, Typed
<1>2. UNCHANGED <<released, started, outcomes, node, ran, revoked>>
  BY <1>1 DEF records, nodes
<1>3. PICK f \in [ClosedAtStart -> StepStates] :
                 /\ \A t \in ClosedAtStart : f[t] \in Verdicts(t)
                 /\ step' = [t \in Task |-> IF t \in ClosedAtStart THEN f[t] ELSE step[t]]
  BY StartUpIs
<1>4. /\ step' \in [Task -> StepStates]
      /\ \A t \in Task : IF t \in ClosedAtStart THEN step'[t] \in {"completed", "failed", "cancelled"} ELSE step'[t] = step[t]
  <2>1. \A t \in ClosedAtStart : f[t] \in {"completed", "failed", "cancelled"}
    BY <1>3, VerdictsEnd
  <2>2. step \in [Task -> StepStates]
    BY <1>1 DEF TypeOK
  <2>3. QED
    BY <1>3, <2>1, <2>2 DEF StepStates
<1>5. /\ rows \in Seq(Row) /\ Len(rows) \in Nat /\ DOMAIN rows = 1 .. Len(rows) /\ Len(rows) <= MaxRows /\ now \in Nat
  BY <1>1, RowFacts, AssignmentsAssumption DEF TypeOK
<1>6. \A i \in DOMAIN rows : /\ Reset(i) \in Row /\ Reset(i).task = rows[i].task /\ Reset(i).expires = rows[i].expires
                             /\ \/ Reset(i) = rows[i]
                                \/ /\ rows[i].task \in ClosedAtStart /\ i = Latest(rows[i].task)
                                   /\ \/ Standing(rows[i].task) = "live" /\ Reset(i).state = "withdrawn"
                                      \/ Standing(rows[i].task) = "lapsed" /\ Reset(i).state = "expired"
  BY <1>1, ResetIs
<1>7. rows' \in Seq(Row) /\ Len(rows') = Len(rows) /\ DOMAIN rows' = DOMAIN rows /\ \A i \in DOMAIN rows : rows'[i] = Reset(i)
  BY <1>1, <1>5, <1>6
<1>8. RowsStay /\ \A u \in Task : OfTask(u)' = OfTask(u) /\ \A i : IsLast(u, i)' <=> IsLast(u, i)
  BY <1>6, <1>7 DEF RowsStay, OfTask, IsLast
<1>9. /\ task' \in [Task -> TaskStates] /\ seen' \in [Task -> 0 .. MaxTime]
      /\ \A u \in Task : seen'[u] <= now
  BY <1>1, <1>5 DEF TypeOK, TaskStates, Typed, Named
<1>10. TypeOK'
  BY <1>1, <1>2, <1>4, <1>5, <1>7, <1>9 DEF TypeOK
<1>11. \A c \in Calls : call'[c] = Idle /\ call'[c].pc = "idle" /\ call[c].pc = "idle" /\ call'[c].at = 0
  BY <1>1, IdleIs DEF Typed, Named
<1>12. Called' /\ Named'
  <2>1. Called'
    BY <1>1, <1>5, <1>11 DEF Called, StagesOf
  <2>2. Named'
    BY <1>1, <1>2, <1>8, <1>9 DEF Typed, Named, RowsStay
  <2>3. QED
    BY <2>1, <2>2
<1>13. Locks'
  <2>1. \A c \in Calls, t \in Task : ~About(c, t)' /\ ~About(c, t)
    BY <1>11 DEF About
  <2>2. QED
    BY <1>1, <2>1 DEF Typed, Locks
<1>14. ASSUME NEW u \in Task
       PROVE  Rows(u)' /\ Holders(u)' /\ Ends(u)'
  <2>1. Rows(u) /\ Table(u) /\ Records(u) /\ Signed(u) /\ Tracked(u)
    BY DEF IInv, Ends, Rows
  <2>2. \A i \in OfTask(u) : i \in DOMAIN rows /\ rows[i].task = u /\ rows'[i] = Reset(i) /\ rows'[i].expires = rows[i].expires
    BY <1>6, <1>7 DEF OfTask
  <2>3. /\ call'[RunOf(u)].pc = "idle" /\ call'[StopOf(u)].pc = "idle" /\ call[RunOf(u)].pc = "idle"
        /\ \A d \in Node : /\ call'[AskOf(d)].pc = "idle" /\ call'[DeliverOf(d)].pc = "idle"
                           /\ call[DeliverOf(d)].pc = "idle" /\ call'[RenewOf(d)].pc = "idle"
    BY <1>11, CallNames
  <2>4. Running(u)' /\ Stopping(u)'
    BY <2>3 DEF Running, Stopping
  <2>5. \A d \in Node : ~About(AskOf(d), u)' /\ ~About(DeliverOf(d), u)' /\ ~About(DeliverOf(d), u)
    BY <2>3 DEF About
  <2>6. Holders(u)'
    BY <2>4, <2>5 DEF Holders, Asking, Delivering
  <2>7. CASE u \notin ClosedAtStart
    <3>1. \A i \in OfTask(u) : rows'[i] = rows[i]
      BY <1>6, <2>2, <2>7
    <3>2. step'[u] = step[u]
      BY <1>4, <2>7
    <3>3. StillRows(u)
      BY <1>2, <1>8, <3>1, <3>2 DEF StillRows
    <3>4. Rows(u)'
      BY <1>1, <2>1, <3>3, RowsStill
    <3>5. Signed(u)'
      <4>1. SUFFICES ASSUME task'[u] # "ended"
                     PROVE  \A i \in OfTask(u) : rows[i].state \in {"offered", "claimed"} => rows[i].expires <= seen[u] + TTL
        BY <1>1, <1>8, <2>3, <2>7, <3>1 DEF Signed, EndedAtStart
      <4>2. task[u] # "ended"
        BY <1>1, <4>1
      <4>3. QED
        BY <2>1, <4>2 DEF Signed
    <3>6. Tracked(u)'
      BY <1>1, <2>1, <2>3, <2>5, <3>2, <3>3, DerivedStill DEF Tracked
    <3>7. Caught(u)'
      <4>1. SUFFICES ASSUME task'[u] = "ended", step[u] = "running", ~Found(u)
                     PROVE  FALSE
        BY <3>2, <3>3, DerivedStill DEF Caught
      <4>2. u \in EndedAtStart
        BY <1>1, <4>1 DEF EndedAtStart
      <4>3. Held(u)
        BY <2>7, <4>1, <4>2 DEF ClosedAtStart
      <4>4. QED
        BY <1>1, <4>1, <4>3, StandingTells DEF Held
    <3>8. QED
      BY <2>6, <3>4, <3>5, <3>6, <3>7 DEF Ends
  <2>8. CASE u \in ClosedAtStart
    <3>1. Over(u)' /\ step'[u] \notin {"pending", "running"} /\ task'[u] = "ended" /\ ~Held(u)
      BY <1>1, <1>4, <2>8 DEF Over, ClosedAtStart, EndedAtStart
    <3>2. /\ Standing(u) = "live" => rows[Latest(u)].state = "offered" /\ IsLast(u, Latest(u)) /\ Latest(u) \notin released
          /\ Standing(u) = "lapsed" => IsLast(u, Latest(u)) /\ Latest(u) \notin released
      BY <1>1, <3>1, StandingTells DEF Held
    <3>3. \A i \in OfTask(u) : \/ rows'[i] = rows[i]
                               \/ Standing(u) = "live" /\ i = Latest(u) /\ rows'[i].state = "withdrawn"
                               \/ Standing(u) = "lapsed" /\ i = Latest(u) /\ rows'[i].state = "expired"
      BY <1>6, <2>2
    <3>4. Table(u)'
      BY <1>2, <1>8, <2>1, <3>1, <3>2, <3>3 DEF Table
    <3>5. Records(u)'
      BY <1>2, <1>8, <2>1, <3>1, <3>2, <3>3 DEF Records
    <3>6. Ends(u)'
      BY <2>3, <3>1 DEF Ends, Signed, Tracked, Caught
    <3>7. QED
      BY <2>6, <3>4, <3>5, <3>6 DEF Rows
  <2>9. QED
    BY <2>7, <2>8
<1>15. QED
  BY <1>10, <1>12, <1>13, <1>14 DEF IInv, Typed

-------------------------------------------------------------------------------
(* The invariant *)

\* The first state.
LEMMA StartsSo ==
    ASSUME Init
    PROVE  IInv
<1>1. /\ now = 0 /\ up = TRUE /\ task = [t \in Task |-> "queued"] /\ seen = [t \in Task |-> 0] /\ step = [t \in Task |-> "pending"]
      /\ placed = [t \in Task |-> None] /\ rows = <<>> /\ released = {} /\ started = [t \in Task |-> {}]
      /\ outcomes = [t \in Task |-> {}] /\ revoked = {} /\ node = [d \in Node |-> Empty] /\ ran = {}
      /\ lock = [t \in Task |-> None] /\ call = [c \in Calls |-> Idle] /\ crashes = 0
  BY DEF Init, Serving
<1>2. \A c \in Calls : call[c] = Idle /\ call[c].pc = "idle" /\ call[c].at = 0
  BY <1>1, IdleIs
<1>3. rows \in Seq(Row) /\ Len(rows) = 0 /\ DOMAIN rows = {}
  BY <1>1
<1>4. Empty \in Hand /\ Empty.order = None /\ Empty.envelope = None
  BY DEF Empty, Hand
<1>5. TypeOK
  <2>1. now \in 0 .. MaxTime /\ crashes \in 0 .. MaxCrashes /\ Len(rows) <= MaxRows /\ seen \in [Task -> 0 .. MaxTime]
    BY <1>1, <1>3, AssignmentsAssumption
  <2>2. task \in [Task -> TaskStates] /\ step \in [Task -> StepStates]
    BY <1>1 DEF TaskStates, StepStates
  <2>3. call \in [Calls -> CallState] /\ node \in [Node -> Hand]
    BY <1>1, <1>4, IdleIs
  <2>4. QED
    BY <1>1, <1>3, <2>1, <2>2, <2>3 DEF TypeOK
<1>6. Called /\ Named
  BY <1>1, <1>2, <1>4 DEF Called, Named, StagesOf
<1>7. Locks
  <2>1. \A c \in Calls, t \in Task : ~About(c, t) /\ lock[t] # c
    BY <1>1, <1>2, NoneIsNothing DEF About
  <2>2. QED
    BY <2>1 DEF Locks
<1>8. ASSUME NEW t \in Task
      PROVE  Rows(t) /\ Holders(t) /\ Ends(t)
  <2>1. OfTask(t) = {} /\ step[t] = "pending" /\ started[t] = {} /\ outcomes[t] = {}
    BY <1>1, <1>3 DEF OfTask
  <2>2. Rows(t)
    BY <2>1 DEF Rows, Table, Records, AllExpired
  <2>3. Holders(t)
    BY <1>2, NobodyServes
  <2>4. /\ call[RunOf(t)].pc = "idle" /\ \A d \in Node : call[RenewOf(d)].pc = "idle"
    BY <1>2, CallNames
  <2>5. Ends(t)
    BY <2>1, <2>4 DEF Ends, Signed, Tracked, Caught
  <2>6. QED
    BY <2>2, <2>3, <2>5
<1>9. QED
  BY <1>5, <1>6, <1>7, <1>8 DEF IInv, Typed

\* The steps of a run together.
LEMMA RunActionsKeep ==
    ASSUME IInv, NEW t \in Task, Run(t)
    PROVE  IInv'
BY RunStartsKeeps, RunWalksKeeps, RunPlacesKeeps, RunExecutesKeeps, RunOffersKeeps, RunLapsesKeeps, RunReleasesKeeps,
   RunFinishesKeeps, RunLeavesKeeps DEF Run

\* The steps of the nodes and of the calls they make together.
LEMMA NodeActionsKeep ==
    ASSUME IInv, NEW d \in Node,
           Claim(d) \/ Deliver(d) \/ Renew(d) \/ Revoke(d) \/ NodeActs(d) \/ NodeCrashes(d)
    PROVE  IInv'
<1>1. CASE Claim(d)
  BY <1>1, AskForWorkKeeps, BeginClaimKeeps, SignClaimKeeps, ClaimRowKeeps, SendOrderKeeps DEF Claim
<1>2. CASE Deliver(d)
  BY <1>2, DeliverWorkKeeps, PassGateKeeps, StoreOutcomeKeeps, RefuseThereKeeps, MarkDeliveredKeeps, CloseDeliveredKeeps DEF Deliver
<1>3. CASE Renew(d)
  BY <1>3, AskForTimeKeeps, SignRenewalKeeps, RenewRowKeeps DEF Renew
<1>4. CASE Revoke(d)
  BY <1>4, RevokeNodeKeeps, CutShortKeeps DEF Revoke
<1>5. QED
  BY <1>1, <1>2, <1>3, <1>4, NodeActsKeeps, NodeCrashesKeeps

\* A step that changes nothing.
LEMMA StutterKeeps ==
    ASSUME IInv, UNCHANGED vars
    PROVE  IInv'
<1>1. /\ Typed /\ TypeOK /\ UNCHANGED <<up, crashes, stores, lock, call, now, task, seen, step, placed, rows, released, started, outcomes,
                                       node, ran, revoked>>
  BY DEF IInv, Typed, vars, world, stores, records, nodes
<1>2. TypeOK'
  BY <1>1 DEF TypeOK
<1>3. Named'
  BY <1>1 DEF Typed, Named
<1>4. now <= now'
  BY <1>1, AssignmentsAssumption DEF TypeOK
<1>5. QED
  BY <1>1, <1>2, <1>3, <1>4, OutsideKeeps

\* Every step keeps the inductive invariant.
LEMMA Inductive ==
    ASSUME IInv, [Next]_vars
    PROVE  IInv'
<1>1. ASSUME NEW t \in Task, Run(t) \/ StopTask(t) \/ CloseIfFree(t) \/ Close(t)
      PROVE  IInv'
  BY <1>1, RunActionsKeep, StopTaskKeeps, CloseIfFreeKeeps, CloseKeeps
<1>2. ASSUME NEW d \in Node, Claim(d) \/ Deliver(d) \/ Renew(d) \/ Revoke(d) \/ NodeActs(d) \/ NodeCrashes(d)
      PROVE  IInv'
  BY <1>2, NodeActionsKeep
<1>3. CASE Tick \/ Crash \/ StartUp
  BY <1>3, TickKeeps, CrashKeeps, StartUpKeeps
<1>4. CASE UNCHANGED vars
  BY <1>4, StutterKeeps
<1>5. QED
  BY <1>1, <1>2, <1>3, <1>4 DEF Next

\* The inductive invariant holds in every state of every behaviour: what the table, the records and the
\* trail say of a task, and what the call that holds its lock has made sure of.
THEOREM InvariantHolds == Spec => []IInv
<1>1. Init => IInv
  BY StartsSo
<1>2. IInv /\ [Next]_vars => IInv'
  BY Inductive
<1>3. QED
  BY <1>1, <1>2, PTL DEF Spec

-------------------------------------------------------------------------------
(* What follows from it *)

\* Every variable keeps its type, whatever the calls, the nodes and the crashes do.
THEOREM TypesHold == Spec => []TypeOK
<1>1. IInv => TypeOK
  BY DEF IInv, Typed
<1>2. QED
  BY <1>1, InvariantHolds, PTL

\* A set whose members are all the last row of a task has one member at most.
LEMMA OneAtMost ==
    ASSUME TypeOK, NEW t \in Task, NEW S \in SUBSET OfTask(t), \A i \in S : IsLast(t, i)
    PROVE  Cardinality(S) <= 1
<1>1. CASE S = {}
  BY <1>1, FS_EmptySet
<1>2. CASE S # {}
  <2>1. PICK i \in S : TRUE
    BY <1>2
  <2>2. \A j \in S : j = i
    BY <2>1, LatestIsLast
  <2>3. S = {i}
    BY <2>1, <2>2
  <2>4. Cardinality(S) = 1
    BY <2>3, FS_Singleton
  <2>5. QED
    BY <2>4
<1>3. QED
  BY <1>1, <1>2

\* A step is one piece of work for any number of tasks, nodes and crashes: a tool that cannot be
\* repeated acts once, under the only row that has a STARTED record (Executor.begin, and the unique
\* index of the claim), and one outcome is stored (Executor.deliver), never of released work.
THEOREM DoneOnceHolds == Spec => []DoneOnce
<1>1. ASSUME IInv, NEW t \in Task
      PROVE  /\ t \notin Relocatable => Cardinality(ran \cap OfTask(t)) <= 1
             /\ Cardinality(outcomes[t]) <= 1
             /\ outcomes[t] \cap released = {}
             /\ outcomes[t] # {} => step[t] # "pending"
  <2>1. TypeOK /\ Records(t)
    BY <1>1 DEF IInv, Typed, Rows
  <2>2. t \notin Relocatable => \A i \in ran \cap OfTask(t) : IsLast(t, i)
    BY <2>1 DEF Records
  <2>3. outcomes[t] \subseteq OfTask(t) /\ \A i \in outcomes[t] : IsLast(t, i)
    BY <2>1 DEF Records
  <2>4. t \notin Relocatable => Cardinality(ran \cap OfTask(t)) <= 1
    BY <2>1, <2>2, OneAtMost
  <2>5. Cardinality(outcomes[t]) <= 1
    BY <2>1, <2>3, OneAtMost
  <2>6. QED
    BY <2>1, <2>4, <2>5 DEF Records
<1>2. IInv => DoneOnce
  BY <1>1 DEF DoneOnce, ActsOnce, OneOutcome
<1>3. QED
  BY <1>2, InvariantHolds, PTL

\* A row says delivered only when its outcome is stored or its step is closed, through every crash and
\* revocation between the writes of a delivery (Executor.deliver: the outcome, then the mark).
THEOREM DeliveredIsKeptHolds == Spec => []DeliveredIsKept
<1>1. ASSUME IInv, NEW i \in DOMAIN rows, rows[i].state = "delivered"
      PROVE  i \in outcomes[rows[i].task] \/ step[rows[i].task] \notin {"pending", "running"}
  <2>1. rows[i].task \in Task /\ i \in OfTask(rows[i].task)
    BY <1>1, RowFacts DEF IInv, Typed, OfTask
  <2>2. Table(rows[i].task)
    BY <1>1, <2>1 DEF IInv, Rows
  <2>3. QED
    BY <1>1, <2>1, <2>2 DEF Table, Over
<1>2. IInv => DeliveredIsKept
  BY <1>1 DEF DeliveredIsKept
<1>3. QED
  BY <1>2, InvariantHolds, PTL

\* A step left running in a task that has ended has an assignment the next claim, delivery, run or
\* start-up finds (close_open_step, close_if_free): whoever holds the lock of a task without one ends
\* by closing its step, with the exception the property names.
THEOREM OpenStepIsFoundHolds == Spec => []OpenStepIsFound
<1>1. ASSUME IInv, NEW t \in Task, up, task[t] = "ended", step[t] = "running", Free(t), call[StopOf(t)] = Idle,
             t \in Relocatable => crashes = 0
      PROVE  Standing(t) \in {"live", "lapsed"}
  <2>1. TypeOK
    BY <1>1 DEF IInv, Typed
  <2>2. \A o \in Calls : ~About(o, t)
    BY <1>1, NoneIsNothing DEF IInv, Typed, Locks, Free
  <2>3. /\ call[RunOf(t)].pc = "idle" /\ call[StopOf(t)].pc = "idle" /\ \A d \in Node : ~About(DeliverOf(d), t)
    BY <1>1, <2>2, CallNames, IdleIs DEF About
  <2>4. Found(t)
    <3>1. CASE crashes = 0
      BY <1>1, <3>1, FreeFinds
    <3>2. CASE crashes # 0
      BY <1>1, <2>3, <3>2 DEF IInv, Ends, Caught
    <3>3. QED
      BY <3>1, <3>2
  <2>5. QED
    BY <2>1, <2>4, StandingTells
<1>2. IInv => OpenStepIsFound
  BY <1>1 DEF OpenStepIsFound
<1>3. QED
  BY <1>2, InvariantHolds, PTL

\* While the Core is down, and when it starts, only the start touches the tasks.
LEMMA DownOnlyStarts ==
    ASSUME [Next]_vars, ~up
    PROVE  task' = task \/ StartUp
<1> USE DEF stores, At, Enter
<1>1. ASSUME NEW t \in Task, Run(t) \/ StopTask(t) \/ CloseIfFree(t) \/ Close(t)
      PROVE  FALSE
  BY <1>1 DEF Run, RunStarts, RunWalks, RunPlaces, RunExecutes, RunOffers, RunLapses, RunReleases, RunFinishes, RunLeaves, StopTask,
              CloseIfFree, Close, CloseOpenStep, CloseLapsed
<1>2. ASSUME NEW d \in Node, Claim(d) \/ Deliver(d)
      PROVE  FALSE
  BY <1>2 DEF Claim, AskForWork, BeginClaim, SignClaim, ClaimRow, SendOrder, Deliver, DeliverWork, PassGate, StoreOutcome, RefuseThere,
              MarkDelivered, CloseDelivered
<1>3. ASSUME NEW d \in Node, Renew(d) \/ Revoke(d)
      PROVE  FALSE
  BY <1>3 DEF Renew, AskForTime, SignRenewal, RenewRow, Revoke, RevokeNode, CutShort
<1>4. ASSUME NEW d \in Node, NodeActs(d) \/ NodeCrashes(d)
      PROVE  task' = task
  BY <1>4 DEF NodeActs, NodeCrashes
<1>5. Tick \/ Crash => task' = task
  BY DEF Tick, Crash
<1>6. UNCHANGED vars => task' = task
  BY DEF vars
<1>7. QED
  BY <1>1, <1>2, <1>3, <1>4, <1>5, <1>6 DEF Next

\* recover() never fails as an orphan a task whose work is still out: the heartbeats of the claim and of
\* the renewal are later than the instants the rows were written from, and TTL < OrphanAfter.
THEOREM NoOrphanHasWorkHolds == Spec => NoOrphanHasWork
<1> DEFINE Spared == \A t \in Task : ~up /\ task[t] = "executing" /\ task'[t] = "ended" => \A i \in OfTask(t) : ~Alive(rows[i], now)
<1>1. ASSUME IInv, [Next]_vars
      PROVE  Spared
  <2>1. SUFFICES ASSUME NEW t \in Task, ~up, task[t] = "executing", task'[t] = "ended", NEW i \in OfTask(t), Alive(rows[i], now)
                 PROVE  FALSE
    OBVIOUS
  <2>2. StartUp
    BY <1>1, <2>1, DownOnlyStarts
  <2>3. Orphan(t)
    BY <2>1, <2>2, StartUpIs DEF EndedAtStart
  <2>4. TypeOK /\ Signed(t)
    BY <1>1 DEF IInv, Typed, Ends
  <2>5. rows[i].state \in {"offered", "claimed"} /\ rows[i].expires > now
    BY <2>1 DEF Alive
  <2>6. rows[i].expires <= seen[t] + TTL
    BY <2>1, <2>4, <2>5 DEF Signed
  <2>7. rows[i].expires \in Nat
    BY <2>4, RowFacts DEF OfTask
  <2>8. seen[t] \in Nat /\ now \in Nat /\ TTL \in Nat /\ OrphanAfter \in Nat /\ TTL < OrphanAfter
    BY <2>4, AssignmentsAssumption DEF TypeOK
  <2>9. QED
    BY <2>3, <2>5, <2>6, <2>7, <2>8 DEF Orphan
<1>2. IInv /\ [Next]_vars => [Spared]_vars
  BY <1>1
<1>3. QED
  BY <1>2, InvariantHolds, PTL DEF Spec, NoOrphanHasWork
================================================================================
