---------------------------- MODULE DevicesProofs ----------------------------
(***************************************************************************)
(* What holds of the birth of nodes and of their announcements for every   *)
(* set of processes, folders, codes, ids, tools and requests, and for any  *)
(* number of starts, announcements, revocations and failures.              *)
(***************************************************************************)
EXTENDS Devices, TLAPS

-------------------------------------------------------------------------------
(* The inductive invariant *)

\* The stages a request goes through, by what it asks.
StagesOf(what) ==
    {"sent"} \cup Answers \cup
        (IF what \in Roles THEN {"timely", "late", "spent", "born"} ELSE {})
        \cup (IF what \in {"whoami", "announce", "heartbeat"} THEN {"let"} ELSE {})
        \cup (IF what = "announce" THEN {"read", "written", "stale"} ELSE {})
        \cup (IF what = "revoke" THEN {"marked"} ELSE {})

\* Each request is at a stage of its own, and one that was answered has somebody who waits for it.
Staged ==
    \A q \in Req :
        /\ ~Free(q) => serving[q].stage \in StagesOf(serving[q].what)
        /\ serving[q].from = None => serving[q].stage \notin Answers
        /\ Free(q) => serving[q].from = None
        /\ ~Free(q) /\ serving[q].what \in Roles => serving[q].code \in Code /\ codes[serving[q].code].offered

\* A process waits for one request, of the kind it made, in the name of its node.
AskedBy(pc) ==
    CASE pc = "joining" -> "worker"
      [] pc \in {"refreshing", "rereading"} -> "whoami"
      [] pc \in {"announcing", "reannouncing"} -> "announce"
      [] OTHER -> "heartbeat"
Waited ==
    /\ \A q \in Req : serving[q].from # None =>
          LET p == serving[q].from IN
          /\ procs[p].pc \in Waiting /\ serving[q].what = AskedBy(procs[p].pc)
          /\ procs[p].pc # "joining" => serving[q].node = procs[p].node
          /\ procs[p].pc = "announcing" /\ serving[q].stage \in {"sent", "let", "read"} =>
                serving[q].rev = procs[p].rev
    /\ \A q, r \in Req : q # r /\ serving[q].from # None => serving[q].from # serving[r].from

\* Who carries the identity of a node: the request that gives birth to it, the process that writes
\* it down, the folder that keeps it.
Bears(q) == serving[q].what \in Roles /\ serving[q].stage \in {"spent", "born", "ok"}
Writes(p) == procs[p].pc = "writing"
Carried ==
    /\ \A c \in Code : codes[c].by # None => codes[c].offered
    /\ \A q \in Req : Bears(q) => /\ serving[q].node \in Node /\ codes[serving[q].code].by = serving[q].node
                                /\ (Born(serving[q].node) <=> serving[q].stage # "spent")
    /\ \A p \in Proc : Writes(p) => procs[p].node \in Node /\ Born(procs[p].node)
    /\ \A p \in Proc : procs[p].pc \notin Stopped => procs[p].home \in Home
    /\ \A h \in Home : files[h] # None => Born(files[h])
    /\ \A n \in Node : Born(n) => \E c \in Code : codes[c].by = n /\ codes[c].role = rows[n].role
CarriedOnce ==
    /\ \A c, d \in Code : codes[c].by = codes[d].by /\ codes[c].by # None => c = d
    /\ \A q, r \in Req : Bears(q) /\ Bears(r) /\ serving[q].node = serving[r].node => q = r
    /\ \A p, r \in Proc : Writes(p) /\ Writes(r) /\ procs[p].node = procs[r].node => p = r
    /\ \A g, h \in Home : files[g] = files[h] /\ files[g] # None => g = h
    /\ \A q \in Req, p \in Proc : Bears(q) /\ Writes(p) => serving[q].node # procs[p].node
    /\ \A q \in Req, h \in Home : Bears(q) => files[h] # serving[q].node
    /\ \A p \in Proc, h \in Home : Writes(p) => files[h] # procs[p].node

\* Whoever speaks as a node speaks from the folder that keeps it.
Kept(n) == \E h \in Home : files[h] = n
SpokenFor ==
    /\ \A p \in Proc : Speaks(p) => files[procs[p].home] = procs[p].node
    /\ \A q \in Req : ~Free(q) /\ serving[q].what \in {"whoami", "announce", "heartbeat"} => Kept(serving[q].node)
    /\ \A n \in Node : rows[n].seen \/ Revision(n) > 1 => Kept(n)

\* What a request knows of the row of its node: an announcement expects a revision that was there,
\* and the row it read is the one of that revision unless its write is bound to miss.
RequestKnows(r, row) ==
    /\ r.stage = "born" => row.halves[1] = r.tools
    /\ r.what = "announce" /\ r.stage \in {"sent", "let", "read"} => r.rev <= Len(row.halves)
    /\ r.stage = "read" /\ r.rev = Len(row.halves) => r.read = row.halves[r.rev]
    /\ r.stage = "written" => r.rev \in 2 .. Len(row.halves) /\ row.halves[r.rev] = r.tools /\ row.halves[r.rev - 1] = r.read
    /\ r.what = "announce" /\ r.stage \in {"stale", "conflict"} => r.rev < Len(row.halves)
    /\ r.what \in {"whoami", "announce"} /\ r.stage = "ok" => r.rev <= Len(row.halves)
    /\ r.stage = "marked" => row.revoked
Knows ==
    /\ \A q \in Req : RequestKnows(serving[q], rows[serving[q].node])
    /\ \A p \in Proc : Speaks(p) => procs[p].rev <= Revision(procs[p].node)

\* What is behind the reading of a process that nobody announces beside.
Unwritten(q) == serving[q].what = "announce" /\ serving[q].stage \in {"sent", "let", "read"}
Alone(p) == Speaks(p) /\ ~procs[p].beside /\ ~procs[p].blind
Behind(p, rev) ==
    \A q \in Req : Unwritten(q) /\ serving[q].node = procs[p].node /\ serving[q].from # p => serving[q].rev < rev
OwnOf(p) == {q \in Req : serving[q].from = p}
Fresh(p) ==
    LET n == procs[p].node IN
    /\ procs[p].pc = "refreshing" => \A q \in OwnOf(p) : serving[q].stage = "ok" => Behind(p, serving[q].rev + 1)
    /\ procs[p].pc \in {"saying", "announcing"} => Behind(p, procs[p].rev + 1)
    /\ procs[p].pc = "announcing" =>
          \A q \in OwnOf(p) : serving[q].stage \in {"stale", "conflict"} => Behind(p, Revision(n))
    /\ procs[p].pc \in {"again", "rereading"} => Behind(p, Revision(n))
    /\ procs[p].pc = "rereading" => \A q \in OwnOf(p) : serving[q].stage = "ok" => serving[q].rev = Revision(n)
    /\ procs[p].pc = "sayingAgain" => procs[p].rev = Revision(n) /\ Behind(p, Revision(n))
    /\ procs[p].pc = "reannouncing" =>
          \A q \in OwnOf(p) : /\ serving[q].stage \notin {"stale", "conflict"}
                              /\ Unwritten(q) => serving[q].rev = Revision(n) /\ Behind(p, Revision(n))
Reads == \A p \in Proc : Alone(p) => Fresh(p)

\* A process that does not speak as a node yet has no revision.
Unread == \A p \in Proc : procs[p].pc \in {"joining", "writing"} => procs[p].rev = 0

Identity == Staged /\ Waited /\ Carried /\ CarriedOnce /\ SpokenFor
IInv == TypeOK /\ Identity /\ Knows /\ AuditTellsTheRow /\ Reads /\ TwinMeansTwo /\ Unread

-------------------------------------------------------------------------------
(* The Core serves a request *)

\* What serving a request leaves as it is: everything of the others, and who asked what.
Serves(q) ==
    LET r == serving[q]
        s == serving'[q]
    IN  /\ serving' \in [Req -> Request] /\ \A o \in Req \ {q} : serving'[o] = serving[o]
        /\ UNCHANGED <<procs, files>>
        /\ ~Free(q)
        /\ \/ s = NoRequest
           \/ /\ s.what = r.what /\ s.from = r.from /\ s.code = r.code /\ s.tools = r.tools
              /\ s.stage \in StagesOf(r.what) /\ (r.from = None => s.stage \notin Answers)

\* A request that goes on to a stage of its own.
Steps(q, stage) ==
    /\ Serves(q)
    /\ serving'[q].stage = stage /\ serving'[q].node = serving[q].node
    /\ serving'[q].rev = serving[q].rev /\ serving'[q].read = serving[q].read
    /\ serving'[q].what = serving[q].what

\* A request that is answered; one whose client is gone is over.
Replies(q, answer) == Steps(q, answer) \/ (Serves(q) /\ serving'[q] = NoRequest)

\* Every stage a request may reach is a stage.
LEMMA StagesAreNames == \A what \in Asks : StagesOf(what) \subseteq Stages \ {"none"}
BY DEF StagesOf, Stages, Answers, Asks, Roles

\* A free place is one, too.
LEMMA NoRequestIsARequest == NoRequest \in Request /\ NoRequest.stage = "none"
BY DEF NoRequest, Request, Asks, Stages

\* A request that goes on to the next stage keeps who asked and what.
LEMMA GoesOn ==
    ASSUME TypeOK, NEW q \in Req, ~Free(q), NEW stage \in StagesOf(serving[q].what), stage \notin Answers,
           Goes(q, stage), UNCHANGED <<procs, files>>
    PROVE  Steps(q, stage)
<1>1. serving \in [Req -> Request] /\ serving[q].what \in Asks
  BY DEF TypeOK, Request
<1>2. stage \in Stages
  BY <1>1, StagesAreNames
<1>3. [serving[q] EXCEPT !.stage = stage] \in Request
  BY <1>1, <1>2 DEF Request
<1>4. serving' = [serving EXCEPT ![q] = [serving[q] EXCEPT !.stage = stage]]
  BY DEF Goes
<1>5. QED
  BY <1>1, <1>3, <1>4 DEF Steps, Serves, Request

\* A request that is answered waits for whoever asked, or is gone.
LEMMA IsAnswered ==
    ASSUME TypeOK, NEW q \in Req, ~Free(q), NEW answer \in Answers,
           Answer(q, answer), UNCHANGED <<procs, files>>
    PROVE  Replies(q, answer)
<1>1. serving \in [Req -> Request] /\ serving[q].what \in Asks /\ serving[q] \in Request
  BY DEF TypeOK, Request
<1>2. answer \in StagesOf(serving[q].what) /\ answer \in Stages
  BY DEF StagesOf, Stages
<1>3. CASE serving[q].from = None
  <2>1. serving' = [serving EXCEPT ![q] = NoRequest]
    BY <1>3 DEF Answer, Reply
  <2>2. QED
    BY <1>1, <2>1, NoRequestIsARequest DEF Replies, Serves
<1>4. CASE serving[q].from # None
  <2>1. serving' = [serving EXCEPT ![q] = [serving[q] EXCEPT !.stage = answer]]
    BY <1>4 DEF Answer, Reply
  <2>2. [serving[q] EXCEPT !.stage = answer] \in Request
    BY <1>1, <1>2 DEF Request
  <2>3. QED
    BY <1>1, <1>2, <1>4, <2>1, <2>2 DEF Replies, Steps, Serves, Request
<1>5. QED
  BY <1>3, <1>4

\* The stage of a request says what it asks.
LEMMA StageTells ==
    ASSUME Staged, NEW q \in Req
    PROVE  LET r == serving[q] IN
           /\ r.stage \in {"timely", "late", "spent", "born"} => r.what \in Roles
           /\ r.stage = "let" => r.what \in {"whoami", "announce", "heartbeat"}
           /\ r.stage \in {"read", "written", "stale"} => r.what = "announce"
           /\ r.stage = "marked" => r.what = "revoke"
<1>1. ~Free(q) => serving[q].stage \in StagesOf(serving[q].what)
  BY DEF Staged
<1>2. QED
  BY <1>1 DEF Free, StagesOf, Answers, Roles

\* Each step of a request, from one stage to the next.
LEMMA BirthSteps ==
    ASSUME TypeOK, Staged, NEW q \in Req
    PROVE  /\ ReadClock(q) => serving[q].stage = "sent" /\ serving[q].what \in Roles /\ (Steps(q, "timely") \/ Steps(q, "late"))
           /\ NotSpent(q) => serving[q].what \in Roles /\ serving[q].stage \in {"timely", "late"} /\ Replies(q, "refused")
           /\ Insert(q) => serving[q].stage = "spent" /\ Steps(q, "born")
           /\ TellBirth(q) => serving[q].stage = "born" /\ Replies(q, "ok")
<1>1. {"timely", "late", "born"} \subseteq StagesOf("worker") /\ {"timely", "late", "born"} \subseteq StagesOf("companion")
      /\ {"timely", "late", "born", "sent", "spent"} \cap (Answers \cup {"none"}) = {}
      /\ {"refused", "ok"} \subseteq Answers
  BY DEF StagesOf, Answers, Roles
<1>2. serving[q].what \in Roles <=> serving[q].what \in {"worker", "companion"}
  BY DEF Roles
<1>3. ASSUME ReadClock(q)
      PROVE  serving[q].stage = "sent" /\ serving[q].what \in Roles /\ (Steps(q, "timely") \/ Steps(q, "late"))
  <2>1. ~Free(q) /\ serving[q].what \in Roles /\ UNCHANGED <<procs, files>> /\ (Goes(q, "timely") \/ Goes(q, "late"))
    BY <1>3 DEF ReadClock, Free
  <2>2. QED
    BY <1>1, <1>2, <1>3, <2>1, GoesOn DEF ReadClock
<1>4. ASSUME NotSpent(q)
      PROVE  serving[q].what \in Roles /\ serving[q].stage \in {"timely", "late"} /\ Replies(q, "refused")
  <2>1. ~Free(q) /\ UNCHANGED <<procs, files>> /\ Answer(q, "refused") /\ serving[q].stage \in {"timely", "late"}
    BY <1>4 DEF NotSpent, Free
  <2>2. QED
    BY <1>1, <2>1, IsAnswered, StageTells
<1>5. ASSUME Insert(q)
      PROVE  serving[q].stage = "spent" /\ Steps(q, "born")
  <2>1. ~Free(q) /\ UNCHANGED <<procs, files>> /\ Goes(q, "born") /\ serving[q].stage = "spent"
    BY <1>5 DEF Insert, Free
  <2>2. serving[q].what \in Roles
    BY <2>1, StageTells
  <2>3. QED
    BY <1>1, <1>2, <2>1, <2>2, GoesOn
<1>6. ASSUME TellBirth(q)
      PROVE  serving[q].stage = "born" /\ Replies(q, "ok")
  <2>1. ~Free(q) /\ UNCHANGED <<procs, files>> /\ Answer(q, "ok") /\ serving[q].stage = "born"
    BY <1>6 DEF TellBirth, Free
  <2>2. QED
    BY <1>1, <2>1, IsAnswered
<1>7. QED
  BY <1>3, <1>4, <1>5, <1>6

\* A code is spent on a node that nothing names yet.
LEMMA SpendSteps ==
    ASSUME TypeOK, Staged, NEW q \in Req, NEW n \in Node, Spend(q, n)
    PROVE  /\ Serves(q) /\ serving[q].what \in Roles /\ serving[q].stage \in {"timely", "late"}
           /\ serving'[q].what = serving[q].what /\ serving'[q].stage = "spent" /\ serving'[q].node = n
           /\ serving'[q].code = serving[q].code /\ serving'[q].tools = serving[q].tools
           /\ serving[q].code \in Code /\ codes[serving[q].code].by = None
           /\ codes[serving[q].code].role = serving[q].what /\ codes[serving[q].code].offered
<1>1. serving \in [Req -> Request] /\ serving[q] \in Request
  BY DEF TypeOK
<1>2. serving[q].stage \in {"timely", "late"} /\ ~Free(q) /\ serving[q].what \in Roles
  BY StageTells DEF Spend, Free
<1>3. serving[q].code \in Code /\ codes[serving[q].code].offered
  BY <1>2 DEF Staged
<1>4. [serving[q] EXCEPT !.stage = "spent", !.node = n] \in Request
  BY <1>1 DEF Request, Stages
<1>5. serving' = [serving EXCEPT ![q] = [serving[q] EXCEPT !.stage = "spent", !.node = n]]
  BY <1>1 DEF Spend, Request
<1>6. "spent" \in StagesOf(serving[q].what) /\ "spent" \notin Answers
  BY <1>2 DEF StagesOf, Answers
<1>7. codes[serving[q].code].by = None /\ codes[serving[q].code].role = serving[q].what
  BY DEF Spend, Spendable
<1>8. QED
  BY <1>1, <1>2, <1>3, <1>4, <1>5, <1>6, <1>7 DEF Serves, Spend, Request

\* The steps of the requests a node makes.
LEMMA NodeSteps ==
    ASSUME TypeOK, Staged, NEW q \in Req
    PROVE  /\ Admit(q) => serving[q].stage = "sent" /\ (Replies(q, "unauthorized") \/ Steps(q, "let"))
           /\ Heartbeat(q) => serving[q].stage = "let" /\ serving[q].what = "heartbeat" /\ Replies(q, "ok")
           /\ NotWritten(q) => serving[q].stage = "read" /\ (Replies(q, "unauthorized") \/ (~AtItsRevision(q) /\ Steps(q, "stale")))
           /\ TellConflict(q) => serving[q].stage = "stale" /\ Replies(q, "conflict")
           /\ TellChange(q) => serving[q].stage = "written" /\ Replies(q, "ok")
<1>1. {"unauthorized", "ok", "conflict"} \subseteq Answers /\ {"sent", "let", "read", "stale", "written"} \cap (Answers \cup {"none"}) = {}
  BY DEF Answers
<1>2. \A what \in {"whoami", "announce", "heartbeat"} : "let" \in StagesOf(what)
  BY DEF StagesOf
<1>3. "stale" \in StagesOf("announce")
  BY DEF StagesOf
<1>4. ASSUME Admit(q)
      PROVE  serving[q].stage = "sent" /\ (Replies(q, "unauthorized") \/ Steps(q, "let"))
  <2>1. /\ serving[q].stage = "sent" /\ ~Free(q) /\ UNCHANGED <<procs, files>>
        /\ "let" \in StagesOf(serving[q].what) /\ (Answer(q, "unauthorized") \/ Goes(q, "let"))
    BY <1>2, <1>4 DEF Admit, Free
  <2>2. QED
    BY <1>1, <2>1, IsAnswered, GoesOn
<1>5. ASSUME Heartbeat(q)
      PROVE  serving[q].stage = "let" /\ serving[q].what = "heartbeat" /\ Replies(q, "ok")
  <2>1. serving[q].stage = "let" /\ serving[q].what = "heartbeat" /\ ~Free(q) /\ UNCHANGED <<procs, files>> /\ Answer(q, "ok")
    BY <1>5 DEF Heartbeat, Free
  <2>2. QED
    BY <1>1, <2>1, IsAnswered
<1>6. ASSUME NotWritten(q)
      PROVE  serving[q].stage = "read" /\ (Replies(q, "unauthorized") \/ (~AtItsRevision(q) /\ Steps(q, "stale")))
  <2>1. /\ serving[q].stage = "read" /\ ~Free(q) /\ UNCHANGED <<procs, files>>
        /\ "stale" \in StagesOf(serving[q].what)
        /\ Answer(q, "unauthorized") \/ (~AtItsRevision(q) /\ Goes(q, "stale"))
    BY <1>3, <1>6 DEF NotWritten, Free
  <2>2. QED
    BY <1>1, <2>1, IsAnswered, GoesOn
<1>7. ASSUME TellConflict(q)
      PROVE  serving[q].stage = "stale" /\ Replies(q, "conflict")
  <2>1. serving[q].stage = "stale" /\ ~Free(q) /\ UNCHANGED <<procs, files>> /\ Answer(q, "conflict")
    BY <1>7 DEF TellConflict, Free
  <2>2. QED
    BY <1>1, <2>1, IsAnswered
<1>8. ASSUME TellChange(q)
      PROVE  serving[q].stage = "written" /\ Replies(q, "ok")
  <2>1. serving[q].stage = "written" /\ ~Free(q) /\ UNCHANGED <<procs, files>> /\ Answer(q, "ok")
    BY <1>8 DEF TellChange, Free
  <2>2. QED
    BY <1>1, <2>1, IsAnswered
<1>9. QED
  BY <1>4, <1>5, <1>6, <1>7, <1>8

\* The steps of a revocation.
LEMMA RevokeSteps ==
    ASSUME TypeOK, Staged, NEW q \in Req
    PROVE  /\ Mark(q) => /\ serving[q].stage = "sent" /\ serving[q].what = "revoke"
                         /\ (Replies(q, "ok") /\ rows[serving[q].node].revoked) \/ Steps(q, "marked")
           /\ TellRevoked(q) => serving[q].stage = "marked" /\ Replies(q, "ok")
           /\ Breaks(q) => Replies(q, "broken")
<1>1. {"broken", "ok"} \subseteq Answers /\ {"sent", "marked"} \cap (Answers \cup {"none"}) = {} /\ "marked" \in StagesOf("revoke")
  BY DEF Answers, StagesOf
<1>2. ASSUME Mark(q)
      PROVE  /\ serving[q].stage = "sent" /\ serving[q].what = "revoke"
             /\ (Replies(q, "ok") /\ rows[serving[q].node].revoked) \/ Steps(q, "marked")
  <2>1. /\ serving[q].stage = "sent" /\ serving[q].what = "revoke" /\ ~Free(q) /\ UNCHANGED <<procs, files>>
        /\ (Answer(q, "ok") /\ rows[serving[q].node].revoked) \/ Goes(q, "marked")
    BY <1>2 DEF Mark, Free
  <2>2. QED
    BY <1>1, <2>1, IsAnswered, GoesOn
<1>3. ASSUME TellRevoked(q)
      PROVE  serving[q].stage = "marked" /\ Replies(q, "ok")
  <2>1. serving[q].stage = "marked" /\ ~Free(q) /\ UNCHANGED <<procs, files>> /\ Answer(q, "ok")
    BY <1>3 DEF TellRevoked, Free
  <2>2. QED
    BY <1>1, <2>1, IsAnswered
<1>4. ASSUME Breaks(q)
      PROVE  Replies(q, "broken")
  <2>1. ~Free(q) /\ UNCHANGED <<procs, files>> /\ Answer(q, "broken")
    BY <1>4 DEF Breaks, Free
  <2>2. QED
    BY <1>1, <2>1, IsAnswered
<1>5. QED
  BY <1>2, <1>3, <1>4

\* The steps that write more of the request than its stage: what the row said, and the revision.
LEMMA ReadingSteps ==
    ASSUME TypeOK, Staged, NEW q \in Req
    PROVE  LET r == serving[q]
               s == serving'[q]
           IN
           /\ Whoami(q) => /\ r.stage = "let" /\ r.what = "whoami"
                           /\ \/ Replies(q, "unauthorized")
                              \/ /\ Serves(q) /\ s.what = "whoami" /\ s.stage = "ok" /\ s.node = r.node
                                 /\ s.rev = Revision(r.node)
                              \/ Serves(q) /\ s = NoRequest
           /\ ReadRow(q) => /\ r.stage = "let" /\ r.what = "announce"
                            /\ Serves(q) /\ s.what = "announce" /\ s.stage = "read" /\ s.node = r.node /\ s.rev = r.rev
                            /\ s.read = Declared(r.node)
           /\ Write(q) => /\ r.stage = "read" /\ r.what = "announce" /\ r.rev = Revision(r.node)
                          /\ Serves(q) /\ s.what = "announce" /\ s.stage = "written" /\ s.node = r.node
                          /\ s.rev = r.rev + 1 /\ s.read = r.read /\ s.tools = r.tools
<1>1. serving \in [Req -> Request] /\ serving[q] \in Request
  BY DEF TypeOK
<1>2. ~Free(q) /\ serving[q].what # "revoke" /\ serving[q].what \notin Roles => serving[q].node \in Node /\ Born(serving[q].node)
  BY <1>1 DEF TypeOK, Request, Asks
<1>3. \A n \in Node : Born(n) => Revision(n) \in Nat \ {0} /\ Declared(n) \in SUBSET Tool
  <2> TAKE n \in Node
  <2>1. rows[n].halves \in Seq(SUBSET Tool)
    BY DEF TypeOK
  <2>2. QED
    BY <2>1 DEF Born, Revision, Declared
<1>4. ASSUME Whoami(q)
      PROVE  /\ serving[q].stage = "let" /\ serving[q].what = "whoami"
             /\ \/ Replies(q, "unauthorized")
                \/ /\ Serves(q) /\ serving'[q].what = "whoami" /\ serving'[q].stage = "ok" /\ serving'[q].node = serving[q].node
                   /\ serving'[q].rev = Revision(serving[q].node)
                \/ Serves(q) /\ serving'[q] = NoRequest
  <2>1. serving[q].stage = "let" /\ serving[q].what = "whoami" /\ ~Free(q) /\ UNCHANGED <<procs, files>>
    BY <1>4 DEF Whoami, Free
  <2>2. serving[q].node \in Node /\ Revision(serving[q].node) \in Nat
    BY <1>2, <1>3, <2>1 DEF Roles
  <2>3. CASE Answer(q, "unauthorized")
    BY <2>1, <2>3, IsAnswered DEF Answers
  <2>4. CASE serving' = [serving EXCEPT ![q] = ReplyWith(q, Revision(serving[q].node))]
    <3>1. ReplyWith(q, Revision(serving[q].node)) \in Request
      BY <1>1, <2>2, NoRequestIsARequest DEF ReplyWith, Request, Stages, Answers
    <3>2. "ok" \in StagesOf("whoami")
      BY DEF StagesOf, Answers
    <3>3. serving'[q] = ReplyWith(q, Revision(serving[q].node)) /\ serving' \in [Req -> Request]
          /\ \A o \in Req \ {q} : serving'[o] = serving[o]
      BY <1>1, <2>4, <3>1
    <3>4. CASE serving[q].from = None
      BY <2>1, <3>3, <3>4 DEF Serves, ReplyWith
    <3>5. CASE serving[q].from # None
      BY <1>1, <2>1, <3>2, <3>3, <3>5 DEF Serves, ReplyWith, Request
    <3>6. QED
      BY <3>4, <3>5
  <2>5. QED
    BY <1>4, <2>1, <2>3, <2>4 DEF Whoami
<1>5. ASSUME ReadRow(q)
      PROVE  LET r == serving[q]
                 s == serving'[q]
             IN  /\ r.stage = "let" /\ r.what = "announce"
                 /\ Serves(q) /\ s.what = "announce" /\ s.stage = "read" /\ s.node = r.node /\ s.rev = r.rev
                 /\ s.read = Declared(r.node)
  <2>1. serving[q].stage = "let" /\ serving[q].what = "announce" /\ ~Free(q) /\ UNCHANGED <<procs, files>>
    BY <1>5 DEF ReadRow, Free
  <2>2. Declared(serving[q].node) \in SUBSET Tool
    BY <1>2, <1>3, <2>1 DEF Roles
  <2>3. [serving[q] EXCEPT !.stage = "read", !.read = Declared(serving[q].node)] \in Request
    BY <1>1, <2>2 DEF Request, Stages
  <2>4. serving' = [serving EXCEPT ![q] = [serving[q] EXCEPT !.stage = "read", !.read = Declared(serving[q].node)]]
    BY <1>1, <1>5 DEF ReadRow, Request
  <2>5. "read" \in StagesOf("announce") /\ "read" \notin Answers
    BY DEF StagesOf, Answers
  <2>6. QED
    BY <1>1, <2>1, <2>3, <2>4, <2>5 DEF Serves, Request
<1>6. ASSUME Write(q)
      PROVE  LET r == serving[q]
                 s == serving'[q]
             IN  /\ r.stage = "read" /\ r.what = "announce" /\ r.rev = Revision(r.node)
                 /\ Serves(q) /\ s.what = "announce" /\ s.stage = "written" /\ s.node = r.node
                 /\ s.rev = r.rev + 1 /\ s.read = r.read /\ s.tools = r.tools
  <2>1. /\ serving[q].stage = "read" /\ serving[q].what = "announce" /\ ~Free(q) /\ UNCHANGED <<procs, files>>
        /\ serving[q].rev = Revision(serving[q].node)
    BY <1>6 DEF Write, Free, AtItsRevision
  <2>2. [serving[q] EXCEPT !.stage = "written", !.rev = @ + 1] \in Request
    <3>1. serving[q].rev + 1 \in Nat
      BY <1>1 DEF Request
    <3>2. QED
      BY <1>1, <3>1 DEF Request, Stages
  <2>3. serving' = [serving EXCEPT ![q] = [serving[q] EXCEPT !.stage = "written", !.rev = @ + 1]]
    BY <1>1, <1>6 DEF Write, Request
  <2>4. "written" \in StagesOf("announce") /\ "written" \notin Answers
    BY DEF StagesOf, Answers
  <2>5. QED
    BY <1>1, <2>1, <2>2, <2>3, <2>4 DEF Serves, Request
<1>7. QED
  BY <1>4, <1>5, <1>6

-------------------------------------------------------------------------------
(* What serving a request keeps of the requests and of the identities *)

\* An announcement that is still to be written was so before, at the same revision.
SameUnwritten(q) ==
    Unwritten(q)' => Unwritten(q) /\ serving'[q].rev = serving[q].rev /\ serving'[q].node = serving[q].node

CodesStay == \A c \in Code : (codes[c].offered => codes'[c].offered)

\* Serving one request leaves every request at a stage of its own, waited for by one process at most.
LEMMA ServesKeepsRequests ==
    ASSUME TypeOK, Staged, Waited, NEW q \in Req, Serves(q), CodesStay, SameUnwritten(q),
           serving'[q] # NoRequest /\ serving[q].from # None => serving'[q].node = serving[q].node \/ serving[q].what \in Roles
    PROVE  Staged' /\ Waited'
<1>1. serving'[q] # NoRequest => ~Free(q)' /\ ~Free(q)
  BY DEF Serves, Free, StagesOf, Answers, Roles
<1>2. serving'[q] = NoRequest => Free(q)' /\ serving'[q].from = None /\ serving'[q].stage \notin Answers
  BY DEF NoRequest, Free, Answers
<1>3. \A o \in Req \ {q} : serving'[o] = serving[o]
  BY DEF Serves
<1>4. serving'[q] # NoRequest => /\ serving'[q].what = serving[q].what /\ serving'[q].from = serving[q].from
                                 /\ serving'[q].code = serving[q].code
                                 /\ serving'[q].stage \in StagesOf(serving[q].what)
                                 /\ (serving[q].from = None => serving'[q].stage \notin Answers)
  BY DEF Serves
<1>5. procs' = procs
  BY DEF Serves
<1>6. Staged'
  <2>1. ASSUME NEW o \in Req
        PROVE  /\ (~Free(o))' => serving'[o].stage \in StagesOf(serving'[o].what)
               /\ serving'[o].from = None => serving'[o].stage \notin Answers
               /\ Free(o)' => serving'[o].from = None
               /\ (~Free(o))' /\ serving'[o].what \in Roles => serving'[o].code \in Code /\ codes'[serving'[o].code].offered
    <3>1. CASE o = q
      BY <1>1, <1>2, <1>4, <3>1 DEF Staged, CodesStay
    <3>2. CASE o # q
      BY <1>3, <3>2 DEF Staged, CodesStay, Free
    <3>3. QED
      BY <3>1, <3>2
  <2>2. QED
    BY <2>1 DEF Staged
<1>7. Waited'
  <2>1. ASSUME NEW o \in Req, serving'[o].from # None
        PROVE  LET p == serving'[o].from IN
               /\ procs[p].pc \in Waiting /\ serving'[o].what = AskedBy(procs[p].pc)
               /\ procs[p].pc # "joining" => serving'[o].node = procs[p].node
               /\ procs[p].pc = "announcing" /\ serving'[o].stage \in {"sent", "let", "read"} => serving'[o].rev = procs[p].rev
    <3>1. CASE o # q
      BY <1>3, <2>1, <3>1 DEF Waited
    <3>2. CASE o = q
      <4>1. serving'[q] # NoRequest /\ serving[q].from # None /\ serving'[q].from = serving[q].from
        BY <1>2, <1>4, <2>1, <3>2
      <4>2. /\ procs[serving[q].from].pc \in Waiting /\ serving[q].what = AskedBy(procs[serving[q].from].pc)
            /\ procs[serving[q].from].pc # "joining" => serving[q].node = procs[serving[q].from].node
            /\ procs[serving[q].from].pc = "announcing" /\ serving[q].stage \in {"sent", "let", "read"}
                  => serving[q].rev = procs[serving[q].from].rev
        BY <4>1 DEF Waited
      <4>3. procs[serving[q].from].pc # "joining" => serving[q].what \notin Roles
        BY <4>2 DEF AskedBy, Waiting, Roles
      <4>4. procs[serving[q].from].pc = "announcing" => serving[q].what = "announce"
        BY <4>2 DEF AskedBy
      <4>5. QED
        BY <1>4, <3>2, <4>1, <4>2, <4>3, <4>4 DEF SameUnwritten, Unwritten
    <3>3. QED
      BY <3>1, <3>2
  <2>2. ASSUME NEW o \in Req, NEW r \in Req, o # r, serving'[o].from # None
        PROVE  serving'[o].from # serving'[r].from
    <3>1. \A a \in Req : serving'[a].from # None => serving'[a].from = serving[a].from
      BY <1>2, <1>3, <1>4
    <3>2. serving[o].from # serving[r].from /\ serving'[o].from = serving[o].from
      BY <2>2, <3>1 DEF Waited
    <3>3. QED
      BY <2>2, <3>1, <3>2
  <2>3. QED
    BY <1>5, <2>1, <2>2 DEF Waited
<1>8. QED
  BY <1>6, <1>7

USE DEF Born, Free, Bears, Writes

\* What most steps leave of the identities: nobody new carries one, and no code or row is new.
IdentitiesStay ==
    /\ \A c \in Code : /\ codes'[c].by = codes[c].by /\ (codes[c].offered => codes'[c].offered)
                       /\ codes[c].by # None => codes'[c].role = codes[c].role
    /\ \A n \in Node : (Born(n)' <=> Born(n)) /\ rows'[n].role = rows[n].role
    /\ \A o \in Req : Bears(o)' => /\ Bears(o) /\ serving'[o].node = serving[o].node /\ serving'[o].code = serving[o].code
                                   /\ (serving'[o].stage = "spent" <=> serving[o].stage = "spent")
    /\ \A p \in Proc : /\ Writes(p)' => Writes(p) /\ procs'[p].node = procs[p].node
                       /\ procs'[p].pc \notin Stopped => procs'[p].home \in Home
    /\ files' = files

\* A step of that kind leaves every identity in the one place it was in.
LEMMA IdentitiesKept ==
    ASSUME TypeOK, Staged, Carried, CarriedOnce, IdentitiesStay
    PROVE  Carried' /\ CarriedOnce'
<1>1. \A c \in Code : /\ codes'[c].by = codes[c].by /\ (codes[c].offered => codes'[c].offered)
                      /\ codes[c].by # None => codes'[c].role = codes[c].role
  BY DEF IdentitiesStay
<1>2. \A n \in Node : (Born(n)' <=> Born(n)) /\ rows'[n].role = rows[n].role
  BY DEF IdentitiesStay
<1>3. \A o \in Req : Bears(o)' => /\ Bears(o) /\ serving'[o].node = serving[o].node /\ serving'[o].code = serving[o].code
                                   /\ (serving'[o].stage = "spent" <=> serving[o].stage = "spent")
  BY DEF IdentitiesStay
<1>4. \A p \in Proc : /\ Writes(p)' => Writes(p) /\ procs'[p].node = procs[p].node
                      /\ procs'[p].pc \notin Stopped => procs'[p].home \in Home
  BY DEF IdentitiesStay
<1>5. files' = files
  BY DEF IdentitiesStay
<1>6. ASSUME NEW o \in Req, Bears(o)'
      PROVE  /\ serving'[o].node \in Node /\ codes'[serving'[o].code].by = serving'[o].node
             /\ (Born(serving[o].node)' <=> serving'[o].stage # "spent")
  <2>1. serving[o].node \in Node /\ serving[o].code \in Code /\ codes[serving[o].code].by = serving[o].node
        /\ (Born(serving[o].node) <=> serving[o].stage # "spent")
    <3>1. Bears(o) /\ ~Free(o)
      BY <1>3, <1>6 DEF Bears, Free
    <3>2. QED
      BY <3>1 DEF Carried, Staged, Bears
  <2>2. QED
    BY <1>1, <1>2, <1>3, <1>6, <2>1
<1>7. \A n \in Node : Born(n)' => \E c \in Code : codes'[c].by = n /\ codes'[c].role = rows'[n].role
  <2> TAKE n \in Node
  <2> HAVE Born(n)'
  <2>1. PICK c \in Code : codes[c].by = n /\ codes[c].role = rows[n].role
    BY <1>2 DEF Carried
  <2>2. codes[c].by # None
    BY <2>1, NoneIsNothing
  <2>3. QED
    BY <1>1, <1>2, <2>1, <2>2
<1>8. \A h \in Home : files[h] # None => Born(files[h])'
  <2> TAKE h \in Home
  <2>1. files[h] # None => files[h] \in Node /\ Born(files[h]) /\ files'[h] = files[h]
    BY <1>5 DEF Carried, TypeOK
  <2>2. QED
    BY <1>2, <2>1
<1>9. Carried'
  <2>1. \A p \in Proc : Writes(p)' => procs'[p].node \in Node /\ Born(procs[p].node)'
    BY <1>2, <1>4 DEF Carried
  <2>2. \A c \in Code : codes'[c].by # None => codes'[c].offered
    BY <1>1 DEF Carried
  <2>3. QED
    BY <1>4, <1>5, <1>6, <1>7, <1>8, <2>1, <2>2 DEF Carried
<1>10. CarriedOnce'
  <2>1. \A c, d \in Code : codes'[c].by = codes'[d].by /\ codes'[c].by # None => c = d
    BY <1>1 DEF CarriedOnce
  <2>2. \A o, r \in Req : Bears(o)' /\ Bears(r)' /\ serving'[o].node = serving'[r].node => o = r
    BY <1>3 DEF CarriedOnce
  <2>3. \A p, r \in Proc : Writes(p)' /\ Writes(r)' /\ procs'[p].node = procs'[r].node => p = r
    BY <1>4 DEF CarriedOnce
  <2>4. \A o \in Req, p \in Proc : Bears(o)' /\ Writes(p)' => serving'[o].node # procs'[p].node
    BY <1>3, <1>4 DEF CarriedOnce
  <2>5. \A o \in Req, h \in Home : Bears(o)' => files[h] # serving'[o].node
    BY <1>3 DEF CarriedOnce
  <2>6. \A p \in Proc, h \in Home : Writes(p)' => files[h] # procs'[p].node
    BY <1>4 DEF CarriedOnce
  <2>7. \A g, h \in Home : files[g] = files[h] /\ files[g] # None => g = h
    BY DEF CarriedOnce
  <2>8. QED
    BY <1>5, <2>1, <2>2, <2>3, <2>4, <2>5, <2>6, <2>7 DEF CarriedOnce
<1>11. QED
  BY <1>9, <1>10

\* The folder of a node stays where it is, and so does what its processes and requests know of it.
LEMMA SpokenForKept ==
    ASSUME TypeOK, SpokenFor,
           \A h \in Home : files[h] # None => files'[h] = files[h],
           \A n \in Node : rows'[n].seen \/ Revision(n)' > 1 => rows[n].seen \/ Revision(n) > 1 \/ Kept(n),
           \A p \in Proc : Speaks(p)' => \/ (Speaks(p) /\ procs'[p].home = procs[p].home /\ procs'[p].node = procs[p].node)
                                         \/ files'[procs'[p].home] = procs'[p].node,
           \A p \in Proc : Speaks(p) => procs[p].home \in Home /\ procs[p].node # None,
           \A o \in Req : (~Free(o))' /\ serving'[o].what \in {"whoami", "announce", "heartbeat"} =>
              \/ (~Free(o) /\ serving[o].what \in {"whoami", "announce", "heartbeat"} /\ serving'[o].node = serving[o].node)
              \/ Kept(serving'[o].node),
           \A o \in Req : (~Free(o))' /\ serving'[o].what \in {"whoami", "announce", "heartbeat"} => serving'[o].node # None
    PROVE  SpokenFor'
<1>1. \A n : n # None /\ Kept(n) => Kept(n)'
  BY DEF Kept
<1>2. \A n \in Node : n # None
  BY NoneIsNothing
<1>3. \A p \in Proc : Speaks(p)' => files'[procs'[p].home] = procs'[p].node
  BY DEF SpokenFor
<1>4. \A o \in Req : (~Free(o))' /\ serving'[o].what \in {"whoami", "announce", "heartbeat"} => Kept(serving[o].node)'
  BY <1>1 DEF SpokenFor, Kept
<1>5. \A n \in Node : rows'[n].seen \/ Revision(n)' > 1 => Kept(n)'
  BY <1>1, <1>2 DEF SpokenFor
<1>6. QED
  BY <1>3, <1>4, <1>5 DEF SpokenFor, Kept, Revision, Speaks

-------------------------------------------------------------------------------
(* Rows only grow *)

\* What no step takes back from the row of a node: its announcements and its revocation.
Grows(row, next) ==
    /\ Len(row.halves) <= Len(next.halves)
    /\ \A i \in 1 .. Len(row.halves) : next.halves[i] = row.halves[i]
    /\ row.revoked => next.revoked
RowsGrow == \A n \in Node : Grows(rows[n], rows'[n])

\* What the types say of a row.
LEMMA RowFacts ==
    ASSUME TypeOK, NEW n \in Node
    PROVE  /\ rows[n].halves \in Seq(SUBSET Tool) /\ Revision(n) \in Nat /\ Revision(n) = Len(rows[n].halves)
           /\ Born(n) <=> Revision(n) > 0
           /\ \A i \in 1 .. Revision(n) : rows[n].halves[i] \in SUBSET Tool
<1>1. rows[n].halves \in Seq(SUBSET Tool)
  BY DEF TypeOK
<1>2. QED
  BY <1>1 DEF Revision

\* The node of a request that was let in is one that was born.
LEMMA NodeOfRequest ==
    ASSUME TypeOK, Staged, Carried, NEW q \in Req, ~Free(q), serving[q].stage # "spent",
           serving[q].what \notin Roles \/ Bears(q)
    PROVE  serving[q].node \in Node /\ Born(serving[q].node)
<1>1. CASE Bears(q)
  BY <1>1 DEF Carried
<1>2. CASE serving[q].what \notin Roles
  BY <1>2 DEF TypeOK, Request
<1>3. QED
  BY <1>1, <1>2

\* What a request knows of a row is not undone by a row that grows.
LEMMA WhatIsKnownStays ==
    ASSUME NEW r \in Request, NEW row, NEW next, row.halves \in Seq(SUBSET Tool), next.halves \in Seq(SUBSET Tool),
           row.halves # <<>>, Grows(row, next), RequestKnows(r, row), r.stage = "read" => r.what = "announce"
    PROVE  RequestKnows(r, next)
<1>1. Len(row.halves) \in Nat /\ Len(next.halves) \in Nat /\ Len(row.halves) > 0 /\ r.rev \in Nat
  BY DEF Request
<1>2. Len(row.halves) <= Len(next.halves) /\ (row.revoked => next.revoked)
  BY DEF Grows
<1>3. \A i \in 1 .. Len(row.halves) : next.halves[i] = row.halves[i]
  BY DEF Grows
<1>4. r.stage = "born" => next.halves[1] = r.tools
  BY <1>1, <1>3 DEF RequestKnows
<1>5. r.what = "announce" /\ r.stage \in {"sent", "let", "read"} => r.rev <= Len(next.halves)
  BY <1>1, <1>2 DEF RequestKnows
<1>6. r.stage = "written" => r.rev \in 2 .. Len(next.halves) /\ next.halves[r.rev] = r.tools /\ next.halves[r.rev - 1] = r.read
  <2> HAVE r.stage = "written"
  <2>1. r.rev \in 2 .. Len(row.halves) /\ row.halves[r.rev] = r.tools /\ row.halves[r.rev - 1] = r.read
    BY DEF RequestKnows
  <2>2. r.rev \in 1 .. Len(row.halves) /\ r.rev - 1 \in 1 .. Len(row.halves) /\ r.rev \in 2 .. Len(next.halves)
    BY <1>1, <1>2, <2>1
  <2>3. QED
    BY <1>3, <2>1, <2>2
<1>7. r.what = "announce" /\ r.stage \in {"stale", "conflict"} => r.rev < Len(next.halves)
  BY <1>1, <1>2 DEF RequestKnows
<1>8. r.what \in {"whoami", "announce"} /\ r.stage = "ok" => r.rev <= Len(next.halves)
  BY <1>1, <1>2 DEF RequestKnows
<1>9. r.stage = "marked" => next.revoked
  BY <1>2 DEF RequestKnows
<1>10. r.stage = "read" /\ r.rev = Len(next.halves) => r.read = next.halves[r.rev]
  <2> HAVE r.stage = "read" /\ r.rev = Len(next.halves)
  <2>1. r.rev = Len(row.halves) /\ r.read = row.halves[r.rev]
    BY <1>1, <1>2 DEF RequestKnows
  <2>2. QED
    BY <1>1, <1>3, <2>1
<1>11. QED
  BY <1>4, <1>5, <1>6, <1>7, <1>8, <1>9, <1>10 DEF RequestKnows

\* The order of the revisions.
LEMMA AtMost == \A a, b, c \in Nat : a <= b /\ b <= c => a <= c
OBVIOUS

\* The requests and the processes know no less when one request changes and rows grow.
LEMMA KnowsKept ==
    ASSUME TypeOK, Staged, Carried, Knows, TypeOK', RowsGrow,
           \A o \in Req : serving'[o] = serving[o] \/ RequestKnows(serving'[o], rows'[serving'[o].node]),
           \A p \in Proc : Speaks(p)' => \/ (Speaks(p) /\ procs'[p].node = procs[p].node /\ procs'[p].rev = procs[p].rev)
                                         \/ procs'[p].rev <= Len(rows'[procs'[p].node].halves)
                                         \/ procs'[p].rev = 0
    PROVE  Knows'
<1>1. ASSUME NEW o \in Req
      PROVE  RequestKnows(serving[o], rows'[serving[o].node])
  <2>1. CASE serving[o].what \in Roles /\ ~Bears(o)
    <3>1. serving[o].stage \notin {"born", "read", "written", "marked"} /\ serving[o].what \notin {"announce", "whoami"}
      BY <2>1, StageTells DEF Roles
    <3>2. QED
      BY <3>1 DEF RequestKnows
  <2>2. CASE Free(o)
    BY <2>2 DEF RequestKnows
  <2>3. CASE serving[o].stage = "spent"
    <3>1. serving[o].what \in Roles
      BY <2>3, StageTells
    <3>2. QED
      BY <2>3, <3>1 DEF RequestKnows, Roles
  <2>4. CASE ~Free(o) /\ serving[o].stage # "spent" /\ (serving[o].what \notin Roles \/ Bears(o))
    <3>1. serving[o].node \in Node /\ Born(serving[o].node) /\ serving[o] \in Request
      BY <2>4, NodeOfRequest DEF TypeOK
    <3>2. Grows(rows[serving[o].node], rows'[serving[o].node]) /\ rows[serving[o].node].halves \in Seq(SUBSET Tool)
          /\ rows'[serving[o].node].halves \in Seq(SUBSET Tool) /\ rows[serving[o].node].halves # <<>>
      BY <3>1 DEF RowsGrow, TypeOK
    <3>3. RequestKnows(serving[o], rows[serving[o].node]) /\ (serving[o].stage = "read" => serving[o].what = "announce")
      BY StageTells DEF Knows
    <3>4. QED
      BY <3>1, <3>2, <3>3, WhatIsKnownStays
  <2>5. QED
    BY <2>1, <2>2, <2>3, <2>4
<1>2. \A o \in Req : RequestKnows(serving'[o], rows'[serving'[o].node])
  BY <1>1
<1>3. ASSUME NEW p \in Proc, Speaks(p)'
      PROVE  procs'[p].rev <= Len(rows'[procs'[p].node].halves)
  <2>1. procs'[p].node \in Node /\ rows'[procs'[p].node].halves \in Seq(SUBSET Tool)
    BY <1>3 DEF TypeOK, ProcRecord
  <2>2. CASE procs'[p].rev = 0
    BY <2>1, <2>2
  <2>3. CASE Speaks(p) /\ procs'[p].node = procs[p].node /\ procs'[p].rev = procs[p].rev
    <3>1. procs[p].rev <= Len(rows[procs[p].node].halves) /\ procs[p].rev \in Nat
      BY <2>3 DEF Knows, Revision, TypeOK, ProcRecord
    <3>2. Len(rows[procs[p].node].halves) <= Len(rows'[procs[p].node].halves)
      BY <2>1, <2>3 DEF RowsGrow, Grows
    <3>3. rows[procs[p].node].halves \in Seq(SUBSET Tool)
      BY <2>1, <2>3 DEF TypeOK
    <3>4. Len(rows[procs[p].node].halves) \in Nat /\ Len(rows'[procs[p].node].halves) \in Nat
      BY <2>1, <2>3, <3>3
    <3>5. procs[p].rev <= Len(rows'[procs[p].node].halves)
      BY <3>1, <3>2, <3>4, AtMost, Zenon
    <3>6. QED
      BY <2>3, <3>5
  <2>4. QED
    BY <1>3, <2>2, <2>3
<1>4. QED
  BY <1>2, <1>3 DEF Knows, Revision, Speaks

-------------------------------------------------------------------------------
(* What the audit says of the rows *)

\* What an announcement changed is never rewritten.
LEMMA ChangeStays ==
    ASSUME TypeOK, TypeOK', RowsGrow, NEW n \in Node, NEW r \in 1 .. Revision(n)
    PROVE  /\ Change(n, r)' = Change(n, r) /\ r \in 1 .. Revision(n)'
           /\ Change(n, r).node = n /\ Change(n, r).of = r
<1>1. rows[n].halves \in Seq(SUBSET Tool) /\ rows'[n].halves \in Seq(SUBSET Tool) /\ Grows(rows[n], rows'[n])
  BY DEF TypeOK, RowsGrow
<1>2. Len(rows[n].halves) \in Nat /\ Len(rows'[n].halves) \in Nat /\ r \in 1 .. Len(rows[n].halves)
  BY <1>1 DEF Revision
<1>3. rows'[n].halves[r] = rows[n].halves[r] /\ (r # 1 => rows'[n].halves[r - 1] = rows[n].halves[r - 1])
      /\ r \in 1 .. Len(rows'[n].halves)
  <2>1. Len(rows[n].halves) <= Len(rows'[n].halves) /\ \A i \in 1 .. Len(rows[n].halves) : rows'[n].halves[i] = rows[n].halves[i]
    BY <1>1 DEF Grows
  <2>2. r # 1 => r - 1 \in 1 .. Len(rows[n].halves)
    BY <1>2
  <2>3. r \in 1 .. Len(rows'[n].halves)
    BY <1>2, <2>1
  <2>4. QED
    BY <1>2, <2>1, <2>2, <2>3
<1>4. QED
  BY <1>3 DEF Change, Event, Revision

\* Some request of the Core still owes the event of a write.
Owed(n, k) == \E o \in Req : <<n, k>> \in Owes(o)

\* A debt is paid by the event, or by the cut that a failure makes, or by nothing when nothing changed.
Paid(n, k) ==
    \/ Owed(n, k)' \/ <<n, k>> \in cut'
    \/ k = 0 /\ Said("revoked", n) \in audit'
    \/ k > 0 /\ Change(n, k)' \in audit'
    \/ k > 1 /\ Change(n, k)'.added = {} /\ Change(n, k)'.removed = {}

\* The audit goes on telling the rows when what is said is true, what was owed is paid, and what is
\* written is owed.
LEMMA AuditKept ==
    ASSUME TypeOK, TypeOK', AuditTellsTheRow, RowsGrow, NEW news, audit' = audit \cup news, cut \subseteq cut',
           \A e \in news : e.of > 0 => e.of <= Revision(e.node)' /\ e = Change(e.node, e.of)',
           \A n \in Node : Said("revoked", n) \in news => rows'[n].revoked,
           \A n \in Node, k \in Nat : Owed(n, k) => Paid(n, k),
           \A n \in Node : \A r \in Nat : r > Revision(n) /\ r <= Revision(n)' => Owed(n, r)',
           \A n \in Node : rows'[n].revoked => rows[n].revoked \/ Owed(n, 0)'
    PROVE  AuditTellsTheRow'
<1> USE DEF Owed
<1>1. ASSUME NEW n \in Node
      PROVE  /\ \A e \in audit' : e.node = n /\ e.of > 0 => e.of <= Revision(n)' /\ e = Change(n, e.of)'
             /\ \A r \in 1..Revision(n)' : r = 1 \/ Change(n, r)'.added # {} \/ Change(n, r)'.removed # {} => Told(Change(n, r))'
             /\ rows'[n].revoked => Told(Said("revoked", n))'
             /\ Said("revoked", n) \in audit' => rows'[n].revoked
  <2>1. Revision(n) \in Nat /\ Revision(n)' \in Nat /\ Revision(n) <= Revision(n)'
    BY DEF Revision, RowsGrow, Grows, TypeOK
  <2>2. \A e \in audit' : e.node = n /\ e.of > 0 => e.of <= Revision(n)' /\ e = Change(n, e.of)'
    <3> TAKE e \in audit'
    <3> HAVE e.node = n /\ e.of > 0
    <3>1. CASE e \in news
      BY <3>1
    <3>2. CASE e \in audit
      <4>1. e.of \in Nat /\ e.of <= Revision(n) /\ e = Change(n, e.of)
        BY <3>2 DEF AuditTellsTheRow, TypeOK
      <4>2. e.of \in 1 .. Revision(n)
        BY <2>1, <4>1
      <4>3. QED
        BY <2>1, <4>1, <4>2, ChangeStays
    <3>3. QED
      BY <3>1, <3>2
  <2>3. ASSUME NEW r \in 1..Revision(n)', r = 1 \/ Change(n, r)'.added # {} \/ Change(n, r)'.removed # {}
        PROVE  Told(Change(n, r))'
    <3>1. r \in Nat /\ r > 0 /\ Change(n, r)'.node = n /\ Change(n, r)'.of = r
      BY <2>1 DEF Change, Event
    <3>2. CASE r > Revision(n)
      BY <2>1, <3>1, <3>2 DEF Told
    <3>3. CASE r <= Revision(n)
      <4>1. r \in 1 .. Revision(n) /\ Change(n, r)' = Change(n, r) /\ Change(n, r).node = n /\ Change(n, r).of = r
        BY <2>1, <3>1, <3>3, ChangeStays
      <4>2. Told(Change(n, r))
        BY <2>3, <4>1 DEF AuditTellsTheRow
      <4>3. Change(n, r) \in audit \/ <<n, r>> \in cut \/ Paid(n, r)
        BY <3>1, <4>1, <4>2 DEF Told
      <4>4. CASE Change(n, r) \in audit \/ <<n, r>> \in cut
        BY <3>1, <4>1, <4>4 DEF Told
      <4>5. CASE Paid(n, r)
        BY <2>3, <3>1, <4>1, <4>5 DEF Told, Paid
      <4>6. QED
        BY <4>3, <4>4, <4>5
    <3>4. QED
      BY <2>1, <3>1, <3>2, <3>3
  <2>4. rows'[n].revoked => Told(Said("revoked", n))'
    <3> HAVE rows'[n].revoked
    <3>1. Said("revoked", n).node = n /\ Said("revoked", n).of = 0
      BY DEF Said, Event
    <3>2. CASE Owed(n, 0)'
      BY <3>1, <3>2 DEF Told
    <3>3. CASE rows[n].revoked
      <4>1. Told(Said("revoked", n))
        BY <3>3 DEF AuditTellsTheRow
      <4>2. Said("revoked", n) \in audit \/ <<n, 0>> \in cut \/ Paid(n, 0)
        BY <3>1, <4>1 DEF Told
      <4>3. QED
        BY <3>1, <4>2 DEF Told, Paid
    <3>4. QED
      BY <3>2, <3>3
  <2>5. Said("revoked", n) \in audit' => rows'[n].revoked
    BY DEF AuditTellsTheRow, RowsGrow, Grows
  <2>6. QED
    BY <2>2, <2>3, <2>4, <2>5
<1>2. QED
  BY <1>1 DEF AuditTellsTheRow, Told, Change, Revision, Owes

-------------------------------------------------------------------------------
(* What is behind the reading of a process while the Core serves a request *)

\* The revision of a node moves when it is born, or when the one announcement at its revision is written.
MovesAtItsRevision(q) ==
    \A n \in Node : Revision(n)' = Revision(n) \/ ~Born(n)
        \/ (Unwritten(q) /\ ~Unwritten(q)' /\ serving[q].node = n /\ serving[q].rev = Revision(n))

\* What an answer says: whoami the revision of the row, a conflict that the announcement came late.
AnswersTrue(q) ==
    LET r == serving[q]
        s == serving'[q]
    IN  /\ s.what = "whoami" /\ s.stage = "ok" => s.rev = Revision(r.node) /\ s.node = r.node
        /\ s.stage = "stale" => Unwritten(q) /\ r.rev # Revision(r.node)
        /\ s.what = "announce" /\ s.stage = "conflict" => r.stage = "stale"

\* A process that nobody announces beside stays ahead of what is behind its reading.
LEMMA ReadsServed ==
    ASSUME TypeOK, TypeOK', Staged, Waited, Waited', Knows, Reads, RowsGrow, NEW q \in Req, Serves(q), SameUnwritten(q),
           MovesAtItsRevision(q), AnswersTrue(q)
    PROVE  Reads'
<1>1. procs' = procs /\ \A o \in Req \ {q} : serving'[o] = serving[o]
  BY DEF Serves
<1>2. \A p \in Proc, o \in Req : serving'[o].from = p => serving[o].from = p /\ serving'[o].what = serving[o].what
  BY <1>1, NoneIsNothing DEF Serves, NoRequest
<1>3. \A o \in Req : Unwritten(o)' => Unwritten(o) /\ serving'[o].rev = serving[o].rev /\ serving'[o].node = serving[o].node
                                       /\ serving'[o].from = serving[o].from
  <2> TAKE o \in Req
  <2>1. CASE o = q
    BY <2>1 DEF SameUnwritten, Serves, NoRequest, Unwritten
  <2>2. CASE o # q
    BY <1>1, <2>2 DEF Unwritten
  <2>3. QED
    BY <2>1, <2>2
<1>4. \A p \in Proc : Alone(p)' <=> Alone(p)
  BY <1>1 DEF Alone, Speaks
<1> SUFFICES ASSUME NEW p \in Proc, Alone(p), Fresh(p)
             PROVE  Fresh(p)'
  BY <1>4 DEF Reads
<1>0. procs[p] \in ProcRecord /\ Speaks(p) /\ procs[p].node \in Node
  BY DEF Alone, TypeOK, ProcRecord
<1> PICK n \in Node : n = procs[p].node
  BY <1>0
<1>5. /\ n = procs[p].node /\ Born(n) /\ Revision(n) \in Nat /\ Revision(n)' \in Nat /\ Revision(n) <= Revision(n)'
      /\ procs[p].rev \in Nat /\ Speaks(p) /\ procs'[p] = procs[p]
  <2>1. Born(n)
    BY <1>0 DEF TypeOK
  <2>2. rows[n].halves \in Seq(SUBSET Tool) /\ rows'[n].halves \in Seq(SUBSET Tool) /\ Grows(rows[n], rows'[n])
    BY DEF TypeOK, RowsGrow
  <2>3. Revision(n) = Len(rows[n].halves) /\ Revision(n)' = Len(rows'[n].halves)
    BY DEF Revision
  <2>4. QED
    BY <1>1, <1>0, <2>1, <2>2, <2>3 DEF Grows, ProcRecord
<1>6. \A o \in Req : serving[o].rev \in Nat /\ serving'[o].rev \in Nat
  BY DEF TypeOK, Request
<1> DEFINE After(x) == \A o \in Req : Unwritten(o)' /\ serving'[o].node = n /\ serving'[o].from # p => serving'[o].rev < x
<1>7. ASSUME NEW x \in Int, NEW y \in Int, x <= y, Behind(p, x)
      PROVE  After(y)
  BY <1>3, <1>5, <1>6, <1>7 DEF Behind
<1>8. Behind(p, Revision(n)) /\ (serving[q].from = p => ~Unwritten(q)) => Revision(n)' = Revision(n)
  <2> HAVE Behind(p, Revision(n)) /\ (serving[q].from = p => ~Unwritten(q))
  <2>1. ~(Unwritten(q) /\ serving[q].node = n /\ serving[q].rev = Revision(n))
    BY <1>5, <1>6 DEF Behind
  <2>2. QED
    BY <1>5, <2>1 DEF MovesAtItsRevision
<1>9. \A o \in Req : Unwritten(o) /\ serving[o].node = n => serving[o].rev <= Revision(n)
  BY <1>5 DEF Knows, RequestKnows, Unwritten, Revision
<1>10. procs[p].pc \notin Stopped \cup {"joining", "writing"}
  BY <1>5 DEF Speaks
<1>11. \A o \in OwnOf(p)' :
          /\ o \in Req /\ o \in OwnOf(p)
          /\ serving[o].from = p /\ serving'[o].what = AskedBy(procs[p].pc) /\ serving[o].what = AskedBy(procs[p].pc)
          /\ procs[p].pc \in Waiting /\ serving'[o].node = n /\ serving[o].node = n
          /\ (procs[p].pc = "announcing" /\ Unwritten(o) => serving[o].rev = procs[p].rev)
  <2> TAKE o \in OwnOf(p)'
  <2>1. o \in Req /\ serving'[o].from = p /\ serving[o].from = p /\ serving'[o].what = serving[o].what /\ p # None
    BY <1>2, NoneIsNothing DEF OwnOf
  <2>2. procs[p].pc \in Waiting /\ serving[o].what = AskedBy(procs[p].pc) /\ serving[o].node = n
        /\ (procs[p].pc = "announcing" /\ serving[o].stage \in {"sent", "let", "read"} => serving[o].rev = procs[p].rev)
    BY <1>5, <1>10, <2>1 DEF Waited
  <2>3. serving'[o].node = n
    BY <1>1, <1>5, <1>10, <2>1 DEF Waited
  <2>4. QED
    BY <2>1, <2>2, <2>3 DEF OwnOf, Unwritten
<1> PICK m \in Nat : m = Revision(n)'
  BY <1>5
<1> HIDE DEF After
<1>12. procs[p].pc = "refreshing" => \A o \in OwnOf(p)' : serving'[o].stage = "ok" => After(serving'[o].rev + 1)
  <2> HAVE procs[p].pc = "refreshing"
  <2> TAKE o \in OwnOf(p)'
  <2> HAVE serving'[o].stage = "ok"
  <2>1. serving[o].what = "whoami" /\ serving'[o].what = "whoami" /\ serving[o].node = n /\ o \in OwnOf(p) /\ o \in Req
    BY <1>11 DEF AskedBy
  <2>2. CASE o # q
    <3>1. Behind(p, serving[o].rev + 1) /\ serving'[o].rev = serving[o].rev
      BY <1>1, <2>1, <2>2 DEF Fresh
    <3>2. QED
      BY <1>6, <1>7, <2>1, <3>1
  <2>3. CASE o = q
    <3>1. serving'[o].rev = Revision(n)
      BY <2>1, <2>3 DEF AnswersTrue
    <3>2. \A r \in Req : Unwritten(r) /\ serving[r].node = n => serving[r].rev < Revision(n) + 1
      BY <1>5, <1>6, <1>9
    <3>3. Behind(p, Revision(n) + 1)
      BY <1>5, <3>2 DEF Behind
    <3>4. QED
      BY <1>5, <1>7, <3>1, <3>3
  <2>4. QED
    BY <2>2, <2>3
<1>13. procs[p].pc \in {"saying", "announcing"} => After(procs[p].rev + 1)
  <2>1. procs[p].rev + 1 \in Int /\ procs[p].rev + 1 <= procs[p].rev + 1
    BY <1>5
  <2>2. procs[p].pc \in {"saying", "announcing"} => Behind(p, procs[p].rev + 1)
    BY DEF Fresh
  <2>3. QED
    BY <1>7, <2>1, <2>2
<1>14. procs[p].pc = "announcing" => \A o \in OwnOf(p)' : serving'[o].stage \in {"stale", "conflict"} => After(m)
  <2> HAVE procs[p].pc = "announcing"
  <2> TAKE o \in OwnOf(p)'
  <2> HAVE serving'[o].stage \in {"stale", "conflict"}
  <2>1. /\ serving[o].what = "announce" /\ serving'[o].what = "announce" /\ serving[o].node = n /\ o \in OwnOf(p) /\ o \in Req
        /\ (Unwritten(o) => serving[o].rev = procs[p].rev)
    BY <1>11 DEF AskedBy
  <2>2. CASE serving[o].stage \in {"stale", "conflict"}
    <3>1. Behind(p, Revision(n))
      BY <1>5, <2>1, <2>2 DEF Fresh
    <3>2. QED
      BY <1>5, <1>7, <3>1
  <2>3. CASE o = q /\ Unwritten(q) /\ serving[q].rev # Revision(n)
    <3>1. Behind(p, procs[p].rev + 1)
      BY DEF Fresh
    <3>2. procs[p].rev + 1 <= Revision(n)'
      BY <1>5, <1>6, <1>9, <2>1, <2>3
    <3>3. QED
      BY <1>5, <1>7, <3>1, <3>2
  <2>4. QED
    BY <1>1, <2>1, <2>2, <2>3 DEF AnswersTrue
<1>15. procs[p].pc \in {"again", "rereading"} => After(m)
  BY <1>5, <1>7 DEF Fresh
<1>16. procs[p].pc = "rereading" => \A o \in OwnOf(p)' : serving'[o].stage = "ok" => serving'[o].rev = Revision(n)'
  <2> HAVE procs[p].pc = "rereading"
  <2> TAKE o \in OwnOf(p)'
  <2> HAVE serving'[o].stage = "ok"
  <2>1. serving[o].what = "whoami" /\ serving'[o].what = "whoami" /\ serving[o].node = n /\ o \in OwnOf(p) /\ o \in Req
    BY <1>11 DEF AskedBy
  <2>2. serving[q].from = p => ~Unwritten(q)
    BY <1>5, <1>10, NoneIsNothing DEF Waited, AskedBy, Unwritten
  <2>3. Revision(n)' = Revision(n)
    BY <1>5, <1>8, <2>2 DEF Fresh
  <2>4. CASE o # q
    BY <1>1, <1>5, <2>1, <2>3, <2>4 DEF Fresh
  <2>5. CASE o = q
    BY <2>1, <2>3, <2>5 DEF AnswersTrue
  <2>6. QED
    BY <2>4, <2>5
<1>17. procs[p].pc = "sayingAgain" => procs[p].rev = Revision(n)' /\ After(m)
  <2> HAVE procs[p].pc = "sayingAgain"
  <2>1. serving[q].from # p
    BY NoneIsNothing DEF Waited, Waiting
  <2>2. Revision(n)' = Revision(n) /\ Behind(p, Revision(n)) /\ procs[p].rev = Revision(n)
    BY <1>5, <1>8, <2>1 DEF Fresh
  <2>3. QED
    BY <1>5, <1>7, <2>2
<1>18. procs[p].pc = "reannouncing" =>
          \A o \in OwnOf(p)' : /\ serving'[o].stage \notin {"stale", "conflict"}
                               /\ Unwritten(o)' => serving'[o].rev = Revision(n)' /\ After(m)
  <2> HAVE procs[p].pc = "reannouncing"
  <2> TAKE o \in OwnOf(p)'
  <2>1. serving[o].what = "announce" /\ serving'[o].what = "announce" /\ serving[o].node = n /\ o \in OwnOf(p) /\ o \in Req
        /\ serving[o].from = p
    BY <1>11 DEF AskedBy
  <2>2. /\ serving[o].stage \notin {"stale", "conflict"}
        /\ Unwritten(o) => serving[o].rev = Revision(n) /\ Behind(p, Revision(n))
    BY <1>5, <2>1 DEF Fresh
  <2>3. serving'[o].stage \notin {"stale", "conflict"}
    BY <1>1, <2>1, <2>2 DEF AnswersTrue
  <2>4. ASSUME Unwritten(o)'
        PROVE  serving'[o].rev = Revision(n)' /\ After(m)
    <3>1. serving[o].rev = Revision(n) /\ Behind(p, Revision(n)) /\ serving'[o].rev = serving[o].rev
      BY <1>3, <2>1, <2>2, <2>4
    <3>2. serving[q].from = p => o = q
      BY <2>1, NoneIsNothing DEF Waited
    <3>3. Revision(n)' = Revision(n)
      <4>1. CASE serving[q].from # p
        BY <1>8, <3>1, <4>1
      <4>2. CASE o = q
        BY <1>5, <2>4, <4>2 DEF MovesAtItsRevision
      <4>3. QED
        BY <3>2, <4>1, <4>2
    <3>4. QED
      BY <1>5, <1>7, <3>1, <3>3
  <2>5. QED
    BY <2>3, <2>4
<1>19. \A x : After(x) => \A o \in Req : Unwritten(o)' /\ serving'[o].node = procs'[p].node /\ serving'[o].from # p => serving'[o].rev < x
  BY <1>5 DEF After
<1>20. m = Len(rows'[procs'[p].node].halves) /\ procs'[p].pc = procs[p].pc /\ procs'[p].rev = procs[p].rev
  BY <1>1, <1>5 DEF Revision
<1> HIDE DEF After
<1>30. procs[p].pc = "refreshing" => \A o \in OwnOf(p)' : serving'[o].stage = "ok" =>
          \A r \in Req : Unwritten(r)' /\ serving'[r].node = procs'[p].node /\ serving'[r].from # p => serving'[r].rev < serving'[o].rev + 1
  BY <1>5, <1>12 DEF After
<1>31. procs[p].pc \in {"saying", "announcing"} =>
          \A r \in Req : Unwritten(r)' /\ serving'[r].node = procs'[p].node /\ serving'[r].from # p => serving'[r].rev < procs'[p].rev + 1
  BY <1>5, <1>13 DEF After
<1>21. CASE procs[p].pc \in {"refreshing", "saying"}
  BY <1>30, <1>31, <1>20, <1>21 DEF Fresh, Behind, OwnOf, Unwritten
<1>22. CASE procs[p].pc = "announcing"
  BY <1>14, <1>19, <1>20, <1>22, <1>31 DEF Fresh, Behind, OwnOf, Unwritten, Revision
<1>23. CASE procs[p].pc \in {"again", "rereading"}
  BY <1>15, <1>16, <1>19, <1>20, <1>23, <1>5 DEF Fresh, Behind, OwnOf, Unwritten, Revision
<1>24. CASE procs[p].pc = "sayingAgain"
  BY <1>17, <1>19, <1>20, <1>24, <1>5 DEF Fresh, Behind, OwnOf, Unwritten, Revision
<1>25. CASE procs[p].pc = "reannouncing"
  BY <1>18, <1>19, <1>20, <1>25, <1>5 DEF Fresh, Behind, OwnOf, Unwritten, Revision
<1>26. QED
  BY <1>20, <1>21, <1>22, <1>23, <1>24, <1>25 DEF Fresh

-------------------------------------------------------------------------------
(* A step of a request that leaves the rows and the codes as they are *)

AllTypes ==
    /\ codes' \in [Code -> [role : Roles, offered : BOOLEAN, late : BOOLEAN, by : Node \cup {None}]]
    /\ rows' \in [Node -> [role : Roles, halves : Seq(SUBSET Tool), revoked : BOOLEAN, seen : BOOLEAN]]
    /\ audit' \subseteq [what : EventTypes, node : Node, of : Nat, added : SUBSET Tool, removed : SUBSET Tool]
    /\ cut' \subseteq Node \X Nat
    /\ left' \in [Bounded -> Nat]

\* The types, while the Core serves a request.
LEMMA TypesServed ==
    ASSUME TypeOK, AllTypes, RowsGrow, NEW q \in Req, Serves(q),
           serving'[q] # NoRequest /\ serving[q].what \notin Roles => serving'[q].node = serving[q].node
    PROVE  TypeOK'
<1>1. \A n \in Node : Born(n) => rows'[n].halves # <<>>
  <2> TAKE n \in Node
  <2>1. rows[n].halves \in Seq(SUBSET Tool) /\ rows'[n].halves \in Seq(SUBSET Tool) /\ Len(rows[n].halves) <= Len(rows'[n].halves)
    BY DEF TypeOK, AllTypes, RowsGrow, Grows
  <2>2. QED
    BY <2>1
<1>2. ASSUME NEW o \in Req, serving'[o].what \notin Roles, serving'[o].stage # "none"
      PROVE  serving'[o].node # None /\ rows'[serving'[o].node].halves # <<>>
  <2>1. serving[o].what \notin Roles /\ ~Free(o) /\ serving'[o].node = serving[o].node
    BY <1>2, NoRequestIsARequest DEF Serves
  <2>2. serving[o].node \in Node /\ Born(serving[o].node)
    BY <2>1 DEF TypeOK, Request
  <2>3. QED
    BY <1>1, <2>1, <2>2, NoneIsNothing
<1>3. ASSUME NEW p \in Proc, Speaks(p)'
      PROVE  procs'[p].node # None /\ rows'[procs'[p].node].halves # <<>>
  <2>1. Speaks(p) /\ procs'[p] = procs[p] /\ procs[p].node \in Node /\ Born(procs[p].node)
    BY <1>3 DEF Serves, Speaks, TypeOK, ProcRecord
  <2>2. QED
    BY <1>1, <2>1, NoneIsNothing
<1>4. procs' = procs /\ files' = files /\ serving' \in [Req -> Request]
  BY DEF Serves
<1>5. procs \in [Proc -> ProcRecord] /\ files \in [Home -> Node \cup {None}]
  BY DEF TypeOK
<1>6. QED
  BY <1>2, <1>3, <1>4, <1>5 DEF TypeOK, AllTypes

Quiet(q) ==
    /\ Serves(q) /\ UNCHANGED <<codes, rows>>
    /\ serving'[q] # NoRequest => serving'[q].node = serving[q].node
    /\ SameUnwritten(q) /\ AnswersTrue(q)
    /\ Bears(q)' => Bears(q) /\ (serving'[q].stage = "spent" <=> serving[q].stage = "spent")
    /\ RequestKnows(serving'[q], rows[serving'[q].node])

\* The invariant, without what the audit tells.
Rest == TypeOK /\ Identity /\ Knows /\ Reads /\ TwinMeansTwo

\* Serving a request keeps the invariant, when it keeps who carries an identity and writes at most one row.
LEMMA ServedKeeps ==
    ASSUME Rest, NEW q \in Req, Serves(q), AllTypes, RowsGrow, CodesStay, SameUnwritten(q), AnswersTrue(q), MovesAtItsRevision(q),
           serving'[q] # NoRequest => serving'[q].node = serving[q].node \/ serving[q].what \in Roles,
           RequestKnows(serving'[q], rows'[serving'[q].node]),
           \A n \in Node : rows'[n].seen \/ Revision(n)' > 1 => rows[n].seen \/ Revision(n) > 1 \/ Kept(n),
           Carried', CarriedOnce'
    PROVE  Rest'
<1>1. TypeOK /\ Staged /\ Waited /\ Carried /\ CarriedOnce /\ SpokenFor /\ Knows /\ Reads /\ TwinMeansTwo
  BY DEF Rest, Identity
<1>2. procs' = procs /\ files' = files /\ \A o \in Req \ {q} : serving'[o] = serving[o]
  BY DEF Serves
<1>3. TypeOK'
  BY <1>1, TypesServed
<1>4. Staged' /\ Waited'
  BY <1>1, ServesKeepsRequests
<1>5. SpokenFor'
  <2>1. \A p \in Proc : Speaks(p)' => (Speaks(p) /\ procs'[p].home = procs[p].home /\ procs'[p].node = procs[p].node)
    BY <1>2 DEF Speaks
  <2>2. \A p \in Proc : Speaks(p) => procs[p].home \in Home /\ procs[p].node # None
    BY <1>1 DEF Carried, Speaks, TypeOK
  <2>3. \A o \in Req : (~Free(o))' /\ serving'[o].what \in {"whoami", "announce", "heartbeat"} =>
              (~Free(o) /\ serving[o].what \in {"whoami", "announce", "heartbeat"} /\ serving'[o].node = serving[o].node)
    <3> TAKE o \in Req
    <3>1. CASE o = q
      BY <3>1, NoRequestIsARequest DEF Serves, Roles
    <3>2. CASE o # q
      BY <1>2, <3>2
    <3>3. QED
      BY <3>1, <3>2
  <2>4. \A o \in Req : (~Free(o))' /\ serving'[o].what \in {"whoami", "announce", "heartbeat"} => serving'[o].node # None
    BY <1>3 DEF TypeOK, Roles
  <2>5. QED
    BY <1>1, <1>2, <2>1, <2>2, <2>3, <2>4, SpokenForKept
<1>6. Knows'
  <2>1. \A o \in Req : serving'[o] = serving[o] \/ RequestKnows(serving'[o], rows'[serving'[o].node])
    BY <1>2
  <2>2. \A p \in Proc : Speaks(p)' => (Speaks(p) /\ procs'[p].node = procs[p].node /\ procs'[p].rev = procs[p].rev)
    BY <1>2 DEF Speaks
  <2>3. QED
    BY <1>1, <1>3, <2>1, <2>2, KnowsKept
<1>7. Reads'
  BY <1>1, <1>3, <1>4, ReadsServed
<1>8. TwinMeansTwo'
  BY <1>1, <1>2 DEF TwinMeansTwo
<1>9. QED
  BY <1>3, <1>4, <1>5, <1>6, <1>7, <1>8 DEF Rest, Identity

\* Nobody carries an identity anew.
LEMMA ServedIdentitiesStay ==
    ASSUME Rest, NEW q \in Req, Serves(q), codes' = codes, \A n \in Node : (Born(n)' <=> Born(n)) /\ rows'[n].role = rows[n].role,
           serving'[q] # NoRequest => serving'[q].node = serving[q].node,
           Bears(q)' => Bears(q) /\ (serving'[q].stage = "spent" <=> serving[q].stage = "spent")
    PROVE  Carried' /\ CarriedOnce' /\ CodesStay
<1>1. TypeOK /\ Staged /\ Carried /\ CarriedOnce
  BY DEF Rest, Identity
<1>2. procs' = procs /\ files' = files /\ \A o \in Req \ {q} : serving'[o] = serving[o]
  BY DEF Serves
<1>3. \A o \in Req : Bears(o)' => /\ Bears(o) /\ serving'[o].node = serving[o].node /\ serving'[o].code = serving[o].code
                                 /\ (serving'[o].stage = "spent" <=> serving[o].stage = "spent")
  <2> TAKE o \in Req
  <2>1. CASE o = q
    BY <2>1, NoRequestIsARequest DEF Serves
  <2>2. CASE o # q
    BY <1>2, <2>2
  <2>3. QED
    BY <2>1, <2>2
<1>4. \A p \in Proc : procs'[p].pc \notin Stopped => procs'[p].home \in Home
  BY <1>1, <1>2 DEF Carried
<1>5. IdentitiesStay
  BY <1>2, <1>3, <1>4 DEF IdentitiesStay
<1>6. QED
  BY <1>1, <1>5, IdentitiesKept DEF CodesStay

\* A step that writes no row and no code keeps the invariant.
LEMMA QuietKeeps ==
    ASSUME Rest, NEW q \in Req, Quiet(q), AllTypes
    PROVE  Rest' /\ RowsGrow
<1>1. Serves(q) /\ codes' = codes /\ rows' = rows /\ SameUnwritten(q) /\ AnswersTrue(q)
      /\ (serving'[q] # NoRequest => serving'[q].node = serving[q].node)
      /\ (Bears(q)' => Bears(q) /\ (serving'[q].stage = "spent" <=> serving[q].stage = "spent"))
      /\ RequestKnows(serving'[q], rows'[serving'[q].node])
  BY DEF Quiet
<1>2. RowsGrow
  BY <1>1 DEF RowsGrow, Grows, Rest, TypeOK, AllTypes
<1>3. Carried' /\ CarriedOnce' /\ CodesStay
  BY <1>1, ServedIdentitiesStay
<1>4. MovesAtItsRevision(q) /\ \A n \in Node : rows'[n].seen \/ Revision(n)' > 1 => rows[n].seen \/ Revision(n) > 1 \/ Kept(n)
  BY <1>1 DEF MovesAtItsRevision, Revision
<1>5. QED
  BY <1>1, <1>2, <1>3, <1>4, ServedKeeps

\* A refusal leaves nothing to be known.
LEMMA RefusalsAreQuiet ==
    ASSUME NEW q \in Req, NEW answer \in {"refused", "unauthorized", "broken"}, Replies(q, answer), UNCHANGED <<codes, rows>>
    PROVE  Quiet(q)
<1>1. Serves(q) /\ ((serving'[q].stage = answer /\ serving'[q].node = serving[q].node) \/ serving'[q] = NoRequest)
  BY DEF Replies, Steps
<1>2. serving'[q].stage \in {"refused", "unauthorized", "broken", "none"}
  BY <1>1, NoRequestIsARequest
<1>3. QED
  BY <1>1, <1>2 DEF Quiet, SameUnwritten, AnswersTrue, Unwritten, RequestKnows

\* A request that goes on keeps what it knows: one that is over knows nothing.
LEMMA StepsAreQuiet ==
    ASSUME Rest, NEW q \in Req, NEW stage, UNCHANGED <<codes, rows>>,
           \/ Replies(q, stage) /\ \/ stage = "ok" /\ serving[q].stage \in {"born", "written", "marked"}
                                   \/ stage = "conflict" /\ serving[q].stage = "stale"
           \/ Steps(q, stage) /\ \/ stage \in {"timely", "late"} /\ serving[q].what \in Roles
                                 \/ stage = "let" /\ serving[q].stage = "sent"
                                 \/ stage = "stale" /\ serving[q].stage = "read" /\ serving[q].rev # Revision(serving[q].node)
    PROVE  Quiet(q)
<1>1. TypeOK /\ Staged /\ Carried /\ Knows /\ RequestKnows(serving[q], rows[serving[q].node])
  BY DEF Rest, Identity, Knows
<1>2. /\ serving[q].stage \in {"timely", "late", "spent", "born"} => serving[q].what \in Roles
      /\ serving[q].stage \in {"read", "written", "stale"} => serving[q].what = "announce"
      /\ serving[q].stage = "marked" => serving[q].what = "revoke"
  BY <1>1, StageTells
<1>3. CASE serving'[q] = NoRequest
  BY <1>3, NoRequestIsARequest DEF Quiet, SameUnwritten, AnswersTrue, Unwritten, RequestKnows, Replies, Steps
<1>4. CASE Steps(q, stage)
  <2>1. /\ Serves(q) /\ serving'[q].stage = stage /\ serving'[q].node = serving[q].node /\ serving'[q].rev = serving[q].rev
        /\ serving'[q].read = serving[q].read /\ serving'[q].what = serving[q].what
    BY <1>4 DEF Steps
  <2>2. CASE stage = "ok" /\ serving[q].stage \in {"born", "written", "marked"}
    <3>1. serving[q].stage = "written" => serving[q].rev <= Len(rows[serving[q].node].halves)
      <4> HAVE serving[q].stage = "written"
      <4>1. serving[q].node \in Node /\ serving[q].rev \in 2 .. Len(rows[serving[q].node].halves)
        BY <1>1, <1>2 DEF RequestKnows, TypeOK, Request, Roles
      <4>2. rows[serving[q].node].halves \in Seq(SUBSET Tool)
        BY <1>1, <4>1 DEF TypeOK
      <4>3. QED
        BY <4>1, <4>2
    <3>2. QED
      BY <1>2, <2>1, <2>2, <3>1 DEF Quiet, SameUnwritten, AnswersTrue, Unwritten, RequestKnows, Roles
  <2>3. CASE stage = "conflict" /\ serving[q].stage = "stale"
    BY <1>1, <1>2, <2>1, <2>3 DEF Quiet, SameUnwritten, AnswersTrue, Unwritten, RequestKnows, Roles
  <2>4. CASE stage \in {"timely", "late"} /\ serving[q].what \in Roles
    BY <1>1, <1>2, <2>1, <2>4 DEF Quiet, SameUnwritten, AnswersTrue, Unwritten, RequestKnows, Roles
  <2>5. CASE stage = "let" /\ serving[q].stage = "sent"
    BY <1>1, <1>2, <2>1, <2>5 DEF Quiet, SameUnwritten, AnswersTrue, Unwritten, RequestKnows, Roles
  <2>6. CASE stage = "stale" /\ serving[q].stage = "read" /\ serving[q].rev # Revision(serving[q].node)
    <3>1. serving[q].node \in Node /\ serving[q].what = "announce" /\ serving[q].rev \in Nat
      BY <1>1, <1>2, <2>6 DEF TypeOK, Request, Roles
    <3>2. Len(rows[serving[q].node].halves) \in Nat /\ Revision(serving[q].node) = Len(rows[serving[q].node].halves)
      BY <1>1, <3>1 DEF TypeOK, Revision
    <3>3. serving[q].rev < Len(rows[serving[q].node].halves)
      BY <1>1, <2>6, <3>1, <3>2 DEF RequestKnows
    <3>4. QED
      BY <2>1, <2>6, <3>1, <3>3 DEF Quiet, SameUnwritten, AnswersTrue, Unwritten, RequestKnows, Roles
  <2>7. QED
    BY <1>4, <2>2, <2>3, <2>4, <2>5, <2>6, <1>3
<1>5. QED
  BY <1>3, <1>4 DEF Replies

\* The readings of a row are such steps.
LEMMA ReadingsAreQuiet ==
    ASSUME Rest, NEW q \in Req, Whoami(q) \/ ReadRow(q)
    PROVE  Quiet(q)
<1>1. TypeOK /\ Staged /\ Carried /\ Knows /\ RequestKnows(serving[q], rows[serving[q].node])
  BY DEF Rest, Identity, Knows
<1>2. ASSUME serving[q].stage = "let"
      PROVE  serving[q].node \in Node /\ Revision(serving[q].node) \in Nat
  <2>1. serving[q].what \notin Roles /\ ~Free(q)
    BY <1>1, <1>2, StageTells DEF Roles
  <2>2. serving[q].node \in Node
    BY <1>1, <2>1 DEF TypeOK, Request
  <2>3. QED
    BY <1>1, <2>2 DEF TypeOK, Revision
<1>3. CASE Whoami(q)
  <2>1. /\ serving[q].stage = "let" /\ serving[q].what = "whoami" /\ UNCHANGED <<codes, rows>>
        /\ \/ Replies(q, "unauthorized")
           \/ (/\ Serves(q) /\ serving'[q].what = "whoami" /\ serving'[q].stage = "ok" /\ serving'[q].node = serving[q].node
               /\ serving'[q].rev = Revision(serving[q].node))
           \/ (Serves(q) /\ serving'[q] = NoRequest)
    BY <1>1, <1>3, ReadingSteps DEF Whoami
  <2>2. CASE Replies(q, "unauthorized")
    BY <2>1, <2>2, RefusalsAreQuiet
  <2>3. CASE Serves(q) /\ serving'[q] = NoRequest
    BY <2>1, <2>3, NoRequestIsARequest DEF Quiet, SameUnwritten, AnswersTrue, Unwritten, RequestKnows
  <2>4. CASE /\ Serves(q) /\ serving'[q].what = "whoami" /\ serving'[q].stage = "ok" /\ serving'[q].node = serving[q].node
             /\ serving'[q].rev = Revision(serving[q].node)
    <3>1. serving'[q].rev <= Len(rows[serving'[q].node].halves)
      BY <1>2, <2>1, <2>4 DEF Revision
    <3>2. QED
      BY <2>1, <2>4, <3>1 DEF Quiet, SameUnwritten, AnswersTrue, Unwritten, RequestKnows, Roles
  <2>5. QED
    BY <2>1, <2>2, <2>3, <2>4
<1>4. CASE ReadRow(q)
  <2>1. /\ serving[q].stage = "let" /\ serving[q].what = "announce" /\ UNCHANGED <<codes, rows>>
        /\ Serves(q) /\ serving'[q].what = "announce" /\ serving'[q].stage = "read" /\ serving'[q].node = serving[q].node
        /\ serving'[q].rev = serving[q].rev /\ serving'[q].read = Declared(serving[q].node)
    BY <1>1, <1>4, ReadingSteps DEF ReadRow
  <2>2. serving[q].rev <= Len(rows[serving[q].node].halves)
    BY <1>1, <2>1 DEF RequestKnows
  <2>3. RequestKnows(serving'[q], rows[serving'[q].node])
    BY <2>1, <2>2 DEF RequestKnows, Declared, Revision
  <2>4. QED
    BY <2>1, <2>3 DEF Quiet, SameUnwritten, AnswersTrue, Unwritten, Roles
<1>5. QED
  BY <1>3, <1>4

\* Each step of a request but those that write a row or a code.
Tells(q) ==
    \/ ReadClock(q) \/ NotSpent(q) \/ TellBirth(q) \/ Admit(q) \/ Whoami(q) \/ ReadRow(q) \/ NotWritten(q)
    \/ TellConflict(q) \/ TellChange(q) \/ TellRevoked(q) \/ Breaks(q)

\* So is every step but the four that write.
LEMMA TellsIsQuiet ==
    ASSUME Rest, NEW q \in Req, Tells(q)
    PROVE  Quiet(q)
<1>1. TypeOK /\ Staged
  BY DEF Rest, Identity
<1>2. CASE ReadClock(q)
  BY <1>1, <1>2, BirthSteps, StepsAreQuiet DEF ReadClock
<1>3. CASE NotSpent(q)
  BY <1>1, <1>3, BirthSteps, RefusalsAreQuiet DEF NotSpent
<1>4. CASE TellBirth(q)
  BY <1>1, <1>4, BirthSteps, StepsAreQuiet DEF TellBirth
<1>5. CASE Admit(q)
  BY <1>1, <1>5, NodeSteps, StepsAreQuiet, RefusalsAreQuiet DEF Admit
<1>6. CASE Whoami(q) \/ ReadRow(q)
  BY <1>6, ReadingsAreQuiet
<1>7. CASE NotWritten(q)
  <2>1. /\ serving[q].stage = "read" /\ UNCHANGED <<codes, rows>>
        /\ Replies(q, "unauthorized") \/ (~AtItsRevision(q) /\ Steps(q, "stale"))
    BY <1>1, <1>7, NodeSteps DEF NotWritten
  <2>2. CASE Replies(q, "unauthorized")
    BY <2>1, <2>2, RefusalsAreQuiet
  <2>3. CASE ~AtItsRevision(q) /\ Steps(q, "stale")
    <3>1. serving[q].rev # Revision(serving[q].node)
      BY <2>3 DEF AtItsRevision
    <3>2. QED
      BY <2>1, <2>3, <3>1, StepsAreQuiet
  <2>4. QED
    BY <2>1, <2>2, <2>3
<1>8. CASE TellConflict(q)
  BY <1>1, <1>8, NodeSteps, StepsAreQuiet DEF TellConflict
<1>9. CASE TellChange(q)
  BY <1>1, <1>9, NodeSteps, StepsAreQuiet DEF TellChange
<1>10. CASE TellRevoked(q)
  BY <1>1, <1>10, RevokeSteps, StepsAreQuiet DEF TellRevoked
<1>11. CASE Breaks(q)
  BY <1>1, <1>11, RevokeSteps, RefusalsAreQuiet DEF Breaks
<1>12. QED
  BY <1>2, <1>3, <1>4, <1>5, <1>6, <1>7, <1>8, <1>9, <1>10, <1>11 DEF Tells

\* The audit grows by events that are true of the rows, and each debt is paid.
LEMMA TellingKeeps ==
    ASSUME Rest, AuditTellsTheRow, NEW q \in Req, Quiet(q), AllTypes,
           NEW news, audit' = audit \cup news, cut \subseteq cut',
           \A e \in news : e.of > 0 => e.of <= Revision(e.node) /\ e = Change(e.node, e.of),
           \A n \in Node : Said("revoked", n) \in news => rows[n].revoked,
           \A n \in Node, k \in Nat : <<n, k>> \in Owes(q) =>
              \/ <<n, k>> \in cut'
              \/ (k = 0 /\ Said("revoked", n) \in audit')
              \/ (k > 0 /\ Change(n, k) \in audit')
              \/ (k > 1 /\ Change(n, k).added = {} /\ Change(n, k).removed = {})
    PROVE  Rest' /\ AuditTellsTheRow'
<1>1. Rest' /\ RowsGrow /\ rows' = rows /\ \A o \in Req \ {q} : serving'[o] = serving[o]
  BY QuietKeeps DEF Quiet, Serves
<1>2. \A n, k : Revision(n)' = Revision(n) /\ Change(n, k)' = Change(n, k)
  BY <1>1 DEF Revision, Change
<1>3. \A e \in news : e.of > 0 => e.of <= Revision(e.node)' /\ e = Change(e.node, e.of)'
  BY <1>2
<1>4. ASSUME NEW n \in Node, NEW k \in Nat, Owed(n, k)
      PROVE  Paid(n, k)
  <2>1. PICK o \in Req : <<n, k>> \in Owes(o)
    BY <1>4 DEF Owed
  <2>2. CASE o # q
    <3>1. Owes(o)' = Owes(o)
      BY <1>1, <2>2 DEF Owes
    <3>2. QED
      BY <2>1, <3>1 DEF Owed, Paid
  <2>3. CASE o = q
    BY <1>2, <2>1, <2>3 DEF Paid
  <2>4. QED
    BY <2>2, <2>3
<1>5. \A n \in Node : \A r \in Nat : r > Revision(n) /\ r <= Revision(n)' => Owed(n, r)'
  BY <1>1, <1>2 DEF Rest, TypeOK, Revision
<1>6. TypeOK /\ TypeOK'
  BY <1>1 DEF Rest
<1>7. \A n \in Node : Said("revoked", n) \in news => rows'[n].revoked
  BY <1>1
<1>8. \A n \in Node : rows'[n].revoked => rows[n].revoked \/ Owed(n, 0)'
  BY <1>1
<1>9. QED
  BY <1>1, <1>3, <1>4, <1>5, <1>6, <1>7, <1>8, AuditKept

\* What is said of a node is an event the audit can hold.
LEMMA SayingIsAnEvent ==
    /\ \A what \in EventTypes, n \in Node :
          Said(what, n) \in [what : EventTypes, node : Node, of : Nat, added : SUBSET Tool, removed : SUBSET Tool]
          /\ Said(what, n).of = 0 /\ Said(what, n).node = n
          /\ \A m : Said("revoked", m) = Said(what, n) => what = "revoked" /\ m = n
    /\ \A what \in EventTypes, n \in Node, k \in Nat, added, removed \in SUBSET Tool :
          Event(what, n, k, added, removed) \in [what : EventTypes, node : Node, of : Nat, added : SUBSET Tool, removed : SUBSET Tool]
BY DEF Said, Event

\* What a bound has left is a number.
LEMMA BudgetsAreTyped == \A k \in Bounded : TypeOK /\ Spends(k) => left' \in [Bounded -> Nat]
BY DEF Spends, TypeOK

\* What is said of a node, and what is owed, while nothing is written.
LEMMA TellsTrue ==
    ASSUME Rest, AuditTellsTheRow, NEW q \in Req, Tells(q)
    PROVE  Rest' /\ AuditTellsTheRow'
<1>1. TypeOK /\ Staged /\ Carried /\ Knows /\ RequestKnows(serving[q], rows[serving[q].node]) /\ Quiet(q)
  BY TellsIsQuiet DEF Rest, Identity, Knows
<1>2. codes' = codes /\ rows' = rows /\ serving[q] \in Request
  BY <1>1 DEF Quiet, TypeOK
<1>3. serving[q].stage \notin {"none", "spent"} /\ (serving[q].what \notin Roles \/ Bears(q)) => serving[q].node \in Node /\ Born(serving[q].node)
  BY <1>1, NodeOfRequest
<1>4. /\ serving[q].stage \in {"timely", "late", "spent", "born"} => serving[q].what \in Roles
      /\ serving[q].stage = "let" => serving[q].what \in {"whoami", "announce", "heartbeat"}
      /\ serving[q].stage \in {"read", "written", "stale"} => serving[q].what = "announce"
      /\ serving[q].stage = "marked" => serving[q].what = "revoke"
  BY <1>1, StageTells
<1>5. /\ serving[q].stage \notin {"born", "written", "marked"} => Owes(q) = {}
      /\ serving[q].stage = "born" => Owes(q) = {<<serving[q].node, 1>>}
      /\ serving[q].stage = "written" => Owes(q) = {<<serving[q].node, serving[q].rev>>}
      /\ serving[q].stage = "marked" => Owes(q) = {<<serving[q].node, 0>>}
  BY DEF Owes
\* Nothing is said.
<1>6. CASE audit' = audit /\ cut' = cut /\ left' = left /\ Owes(q) = {}
  <2>1. AllTypes
    BY <1>1, <1>2, <1>6 DEF AllTypes, TypeOK
  <2>2. audit' = audit \cup {} /\ cut \subseteq cut'
    BY <1>6
  <2>3. QED
    BY <1>1, <1>6, <2>1, <2>2, TellingKeeps
\* An event that says nothing of a row.
<1>7. ASSUME NEW n \in Node, NEW what \in {"rejected", "conflict"}, Owes(q) = {},
             audit' = audit \cup {Said(what, n)}, cut' = cut, left' = left
      PROVE  Rest' /\ AuditTellsTheRow'
  <2>1. what \in EventTypes /\ what # "revoked"
    BY <1>7 DEF EventTypes
  <2>2. AllTypes
    BY <1>1, <1>2, <1>7, <2>1, SayingIsAnEvent DEF AllTypes, TypeOK
  <2>3. \A e \in {Said(what, n)} : ~(e.of > 0)
    BY <2>1, SayingIsAnEvent
  <2>4. \A m \in Node : Said("revoked", m) \notin {Said(what, n)}
    BY <2>1, SayingIsAnEvent
  <2>5. QED
    BY <1>1, <1>7, <2>2, <2>3, <2>4, TellingKeeps
<1>8. CASE ReadClock(q) \/ Whoami(q) \/ ReadRow(q) \/ NotWritten(q)
  BY <1>5, <1>6, <1>8 DEF ReadClock, Whoami, ReadRow, NotWritten
<1>9. CASE NotSpent(q)
  <2>1. Owes(q) = {} /\ cut' = cut /\ left' = left
    BY <1>5, <1>9 DEF NotSpent
  <2>2. CASE audit' = audit
    BY <1>6, <2>1, <2>2
  <2>3. CASE audit' = audit \cup {Said("rejected", codes[serving[q].code].by)} /\ codes[serving[q].code].by # None
    <3>1. serving[q].code \in Code
      BY <1>1, <1>4, <1>9 DEF NotSpent, Staged
    <3>2. codes[serving[q].code].by \in Node
      BY <1>1, <2>3, <3>1 DEF TypeOK
    <3>3. QED
      BY <1>7, <2>1, <2>3, <3>2
  <2>4. QED
    BY <1>9, <2>2, <2>3 DEF NotSpent
<1>10. CASE Admit(q)
  <2>1. serving[q].stage = "sent" /\ Owes(q) = {} /\ cut' = cut /\ left' = left /\ serving[q].node \in Node
    BY <1>3, <1>5, <1>10 DEF Admit, Roles
  <2>2. audit' = audit \/ audit' = audit \cup {Said("rejected", serving[q].node)}
    BY <1>10 DEF Admit
  <2>3. QED
    BY <1>6, <1>7, <2>1, <2>2
<1>11. CASE TellConflict(q)
  BY <1>3, <1>4, <1>5, <1>7, <1>11 DEF TellConflict, Roles
<1>12. CASE TellBirth(q)
  <2> DEFINE n == serving[q].node
             e == Event("enrolled", n, 1, serving[q].tools, {})
  <2>1. /\ serving[q].stage = "born" /\ n \in Node /\ Born(n) /\ Owes(q) = {<<n, 1>>} /\ cut' = cut /\ left' = left
        /\ audit' = audit \cup {e} /\ rows[n].halves[1] = serving[q].tools /\ serving[q].tools \in SUBSET Tool
    BY <1>1, <1>2, <1>3, <1>4, <1>5, <1>12 DEF TellBirth, RequestKnows, Request
  <2>2. e = Change(n, 1) /\ 1 <= Revision(n) /\ e.node = n /\ e.of = 1 /\ \A m : Said("revoked", m) # e
    <3>1. 1 <= Revision(n)
      BY <1>1, <2>1, RowFacts
    <3>2. serving[q].tools \ {} = serving[q].tools /\ {} \ serving[q].tools = {}
      OBVIOUS
    <3>3. e = Change(n, 1)
      BY <2>1, <3>2 DEF Change
    <3>4. QED
      BY <3>1, <3>3 DEF Event, Said
  <2>3. AllTypes
    <3>1. e \in [what : EventTypes, node : Node, of : Nat, added : SUBSET Tool, removed : SUBSET Tool]
      BY <2>1 DEF Event, EventTypes
    <3> HIDE DEF e
    <3>2. QED
      BY <1>1, <1>2, <2>1, <3>1 DEF AllTypes, TypeOK
  <2> HIDE DEF e
  <2>4. \A f \in {e} : f.of > 0 => f.of <= Revision(f.node) /\ f = Change(f.node, f.of)
    BY <2>2
  <2>5. \A m \in Node : Said("revoked", m) \in {e} => rows[m].revoked
    BY <2>2
  <2>6. \A m \in Node, k \in Nat : <<m, k>> \in Owes(q) => (k > 0 /\ Change(m, k) \in audit')
    BY <2>1, <2>2
  <2>7. cut \subseteq cut'
    BY <2>1
  <2>8. QED
    BY <1>1, <2>1, <2>3, <2>4, <2>5, <2>6, <2>7, TellingKeeps
<1>13. CASE TellChange(q)
  <2> DEFINE n == serving[q].node
             k == serving[q].rev
             e == Event("announced", n, k, serving[q].tools \ serving[q].read, serving[q].read \ serving[q].tools)
  <2>1. /\ serving[q].stage = "written" /\ n \in Node /\ Born(n) /\ Owes(q) = {<<n, k>>} /\ cut' = cut /\ left' = left
        /\ serving[q].tools \in SUBSET Tool /\ serving[q].read \in SUBSET Tool /\ k \in Nat
        /\ k \in 2 .. Len(rows[n].halves) /\ rows[n].halves[k] = serving[q].tools /\ rows[n].halves[k - 1] = serving[q].read
    BY <1>1, <1>2, <1>3, <1>4, <1>5, <1>13 DEF TellChange, RequestKnows, Request, Roles
  <2>2. e = Change(n, k) /\ k <= Revision(n) /\ k > 1 /\ e.node = n /\ e.of = k /\ \A m : Said("revoked", m) # e
    <3>1. k <= Revision(n) /\ k > 1
      BY <1>1, <2>1, RowFacts
    <3>2. k # 1
      BY <3>1, <2>1
    <3>3. e = Change(n, k)
      BY <2>1, <3>2 DEF Change
    <3>4. QED
      BY <3>1, <3>3 DEF Event, Said
  <2>3. cut \subseteq cut'
    BY <2>1
  <2>4. CASE serving[q].read = serving[q].tools
    <3>1. audit' = audit
      BY <1>13, <2>4 DEF TellChange
    <3>2. AllTypes
      BY <1>1, <1>2, <2>1, <3>1 DEF AllTypes, TypeOK
    <3>3. Change(n, k).added = {} /\ Change(n, k).removed = {}
      BY <2>2, <2>4 DEF Event
    <3>4. \A m \in Node, j \in Nat : <<m, j>> \in Owes(q) => (j > 1 /\ Change(m, j).added = {} /\ Change(m, j).removed = {})
      BY <2>1, <2>2, <3>3
    <3>5. audit' = audit \cup {}
      BY <3>1
    <3>6. QED
      BY <1>1, <2>3, <3>2, <3>4, <3>5, TellingKeeps
  <2>5. CASE serving[q].read # serving[q].tools
    <3>1. audit' = audit \cup {e}
      BY <1>13, <2>5 DEF TellChange
    <3>2. e \in [what : EventTypes, node : Node, of : Nat, added : SUBSET Tool, removed : SUBSET Tool]
      BY <2>1 DEF Event, EventTypes
    <3> HIDE DEF e
    <3>3. AllTypes
      BY <1>1, <1>2, <2>1, <3>1, <3>2 DEF AllTypes, TypeOK
    <3>4. \A f \in {e} : f.of > 0 => f.of <= Revision(f.node) /\ f = Change(f.node, f.of)
      BY <2>2
    <3>5. \A m \in Node : Said("revoked", m) \in {e} => rows[m].revoked
      BY <2>2
    <3>6. \A m \in Node, j \in Nat : <<m, j>> \in Owes(q) => (j > 0 /\ Change(m, j) \in audit')
      BY <2>1, <2>2, <3>1
    <3>7. QED
      BY <1>1, <2>3, <3>1, <3>3, <3>4, <3>5, <3>6, TellingKeeps
  <2>6. QED
    BY <2>4, <2>5
<1>14. CASE TellRevoked(q)
  <2> DEFINE n == serving[q].node
  <2>1. /\ serving[q].stage = "marked" /\ n \in Node /\ Owes(q) = {<<n, 0>>} /\ cut' = cut /\ left' = left
        /\ audit' = audit \cup {Said("revoked", n)} /\ rows[n].revoked
    BY <1>1, <1>3, <1>4, <1>5, <1>14 DEF TellRevoked, RequestKnows, Roles
  <2>2. "revoked" \in EventTypes
    BY DEF EventTypes
  <2>3. AllTypes
    BY <1>1, <1>2, <2>1, <2>2, SayingIsAnEvent DEF AllTypes, TypeOK
  <2>4. \A f \in {Said("revoked", n)} : ~(f.of > 0)
    BY <2>1, <2>2, SayingIsAnEvent
  <2>5. \A m \in Node : Said("revoked", m) \in {Said("revoked", n)} => rows[m].revoked
    BY <2>1, <2>2, SayingIsAnEvent
  <2>6. \A m \in Node, k \in Nat : <<m, k>> \in Owes(q) => (k = 0 /\ Said("revoked", m) \in audit')
    BY <2>1
  <2>7. cut \subseteq cut'
    BY <2>1
  <2>8. QED
    BY <1>1, <2>1, <2>3, <2>4, <2>5, <2>6, <2>7, TellingKeeps
<1>15. CASE Breaks(q)
  <2>1. audit' = audit \cup {} /\ cut' = cut \cup Owes(q) /\ Spends("faults")
    BY <1>15 DEF Breaks
  <2>2. left' \in [Bounded -> Nat]
    BY <1>1, <2>1, BudgetsAreTyped DEF Bounded
  <2>3. Owes(q) \subseteq Node \X Nat
    BY <1>2, <1>3, <1>4, <1>5 DEF Request, Roles
  <2>4. AllTypes
    BY <1>1, <1>2, <2>1, <2>2, <2>3 DEF AllTypes, TypeOK
  <2>5. cut \subseteq cut' /\ \A m \in Node, k \in Nat : <<m, k>> \in Owes(q) => <<m, k>> \in cut'
    BY <2>1
  <2>6. audit' = audit \cup {} /\ (\A e \in {} : e.of > 0 => e.of <= Revision(e.node) /\ e = Change(e.node, e.of))
        /\ (\A n \in Node : Said("revoked", n) \in {} => rows[n].revoked)
    BY <2>1
  <2>7. QED
    BY <1>1, <2>4, <2>5, <2>6, TellingKeeps
<1>16. QED
  BY <1>8, <1>9, <1>10, <1>11, <1>12, <1>13, <1>14, <1>15 DEF Tells

-------------------------------------------------------------------------------
(* The steps of a request that write a row or a code *)

\* A debt stays as long as the request that owes does.
LEMMA DebtsStay ==
    ASSUME NEW q \in Req, \A o \in Req \ {q} : serving'[o] = serving[o], Owes(q) = {}
    PROVE  \A n, k : Owed(n, k) => Owed(n, k)' /\ Paid(n, k)
<1> SUFFICES ASSUME NEW n, NEW k, Owed(n, k)
             PROVE  Owed(n, k)' /\ Paid(n, k)
  OBVIOUS
<1>1. PICK o \in Req : <<n, k>> \in Owes(o)
  BY DEF Owed
<1>2. o # q /\ Owes(o)' = Owes(o)
  BY <1>1 DEF Owes
<1>3. QED
  BY <1>1, <1>2 DEF Owed, Paid

\* Nothing is said.
LEMMA SilenceKeeps ==
    ASSUME TypeOK, TypeOK', AuditTellsTheRow, RowsGrow, audit' = audit, cut \subseteq cut',
           \A n \in Node, k \in Nat : Owed(n, k) => Paid(n, k),
           \A n \in Node : \A r \in Nat : r > Revision(n) /\ r <= Revision(n)' => Owed(n, r)',
           \A n \in Node : rows'[n].revoked => rows[n].revoked \/ Owed(n, 0)'
    PROVE  AuditTellsTheRow'
<1> PICK news : news = {}
  OBVIOUS
<1>1. audit' = audit \cup news
  OBVIOUS
<1>2. (\A e \in news : e.of > 0 => e.of <= Revision(e.node)' /\ e = Change(e.node, e.of)')
      /\ \A m \in Node : Said("revoked", m) \in news => rows'[m].revoked
  OBVIOUS
<1>3. QED
  BY <1>1, <1>2, AuditKept

\* What the steps that only write leave to be told.
LEMMA WritingTells ==
    ASSUME TypeOK, TypeOK', AuditTellsTheRow, RowsGrow, audit' = audit, cut' = cut,
           NEW q \in Req, Serves(q), Owes(q) = {},
           \A n \in Node : \A r \in Nat : r > Revision(n) /\ r <= Revision(n)' => <<n, r>> \in Owes(q)',
           \A n \in Node : rows'[n].revoked => rows[n].revoked \/ <<n, 0>> \in Owes(q)'
    PROVE  AuditTellsTheRow'
<1>1. \A m \in Node, k \in Nat : Owed(m, k) => Paid(m, k)
  BY DebtsStay DEF Serves
<1>2. \A m \in Node : \A r \in Nat : r > Revision(m) /\ r <= Revision(m)' => Owed(m, r)'
  BY DEF Owed
<1>3. cut \subseteq cut' /\ \A m \in Node : rows'[m].revoked => rows[m].revoked \/ Owed(m, 0)'
  BY DEF Owed
<1>4. QED
  BY <1>1, <1>2, <1>3, SilenceKeeps

\* The same, where no announcement is written.
LEMMA MarkingTells ==
    ASSUME TypeOK, TypeOK', AuditTellsTheRow, RowsGrow, audit' = audit, cut' = cut,
           NEW q \in Req, Serves(q), Owes(q) = {},
           \A n \in Node : rows'[n].halves = rows[n].halves,
           \A n \in Node : rows'[n].revoked => rows[n].revoked \/ <<n, 0>> \in Owes(q)'
    PROVE  AuditTellsTheRow'
<1>1. \A n \in Node : Revision(n)' = Revision(n) /\ Revision(n) \in Nat
  BY DEF Revision, TypeOK
<1>2. \A n \in Node : \A r \in Nat : ~(r > Revision(n) /\ r <= Revision(n)')
  BY <1>1
<1>3. QED
  BY <1>2, WritingTells

\* What it means to append.
LEMMA AppendFacts ==
    ASSUME NEW S, NEW h \in Seq(S), NEW t \in S
    PROVE  /\ Append(h, t) \in Seq(S) /\ Len(h) \in Nat /\ Len(Append(h, t)) = Len(h) + 1
           /\ Append(h, t)[Len(h) + 1] = t /\ (\A i \in 1 .. Len(h) : Append(h, t)[i] = h[i])
           /\ (h # <<>> => Len(h) > 0) /\ Append(h, t) # <<>>
OBVIOUS

\* What it means to append a declared half.
LEMMA HalvesAppended ==
    ASSUME NEW h \in Seq(SUBSET Tool), NEW t \in SUBSET Tool
    PROVE  /\ Append(h, t) \in Seq(SUBSET Tool) /\ Len(h) \in Nat /\ Len(Append(h, t)) = Len(h) + 1
           /\ Append(h, t)[Len(h) + 1] = t /\ (\A i \in 1 .. Len(h) : Append(h, t)[i] = h[i]) /\ Append(h, t) # <<>>
<1> DEFINE T == SUBSET Tool
<1>1. h \in Seq(T) /\ t \in T
  OBVIOUS
<1> HIDE DEF T
<1>2. /\ Append(h, t) \in Seq(T) /\ Len(h) \in Nat /\ Len(Append(h, t)) = Len(h) + 1
      /\ Append(h, t)[Len(h) + 1] = t /\ (\A i \in 1 .. Len(h) : Append(h, t)[i] = h[i]) /\ Append(h, t) # <<>>
  BY <1>1, AppendFacts
<1>3. QED
  BY <1>2 DEF T

\* A heartbeat marks the node as seen, which its folder already keeps.
LEMMA HeartbeatKeeps ==
    ASSUME Rest, AuditTellsTheRow, NEW q \in Req, Heartbeat(q)
    PROVE  Rest' /\ AuditTellsTheRow'
<1>1. TypeOK /\ Staged /\ Carried /\ SpokenFor
  BY DEF Rest, Identity
<1>2. serving[q].stage = "let" /\ serving[q].what = "heartbeat" /\ Replies(q, "ok") /\ ~Free(q) /\ Owes(q) = {}
  BY <1>1, NodeSteps DEF Owes, Heartbeat
<1> PICK n \in Node : n = serving[q].node
  BY <1>1, <1>2 DEF TypeOK, Request, Roles
<1>3. Born(n) /\ Kept(n)
  BY <1>1, <1>2 DEF TypeOK, SpokenFor, Roles
<1>4. /\ rows \in [Node -> [role : Roles, halves : Seq(SUBSET Tool), revoked : BOOLEAN, seen : BOOLEAN]]
      /\ rows' = [rows EXCEPT ![n] = [rows[n] EXCEPT !.seen = TRUE]] /\ UNCHANGED <<codes, audit, procs, files, cut, left>>
  BY <1>1 DEF Heartbeat, TypeOK
<1>5. \A m \in Node : /\ rows'[m].halves = rows[m].halves /\ rows'[m].revoked = rows[m].revoked /\ rows'[m].role = rows[m].role
                      /\ (rows'[m].seen => rows[m].seen \/ m = n)
  BY <1>4
<1>6. AllTypes
  BY <1>1, <1>4 DEF AllTypes, TypeOK
<1>7. RowsGrow
  BY <1>1, <1>5 DEF RowsGrow, Grows, TypeOK
<1>8. MovesAtItsRevision(q)
  BY <1>5 DEF MovesAtItsRevision, Revision
<1>9. \A m \in Node : rows'[m].seen \/ Revision(m)' > 1 => rows[m].seen \/ Revision(m) > 1 \/ Kept(m)
  BY <1>3, <1>5 DEF Revision
<1>10. /\ Serves(q) /\ SameUnwritten(q) /\ AnswersTrue(q)
       /\ (serving'[q] # NoRequest => serving'[q].node = serving[q].node)
       /\ (Bears(q)' => Bears(q) /\ (serving'[q].stage = "spent" <=> serving[q].stage = "spent"))
       /\ RequestKnows(serving'[q], rows'[serving'[q].node])
  <2>1. CASE serving'[q] = NoRequest
    BY <1>2, <2>1, NoRequestIsARequest DEF Replies, Steps, SameUnwritten, AnswersTrue, Unwritten, RequestKnows
  <2>2. CASE Steps(q, "ok")
    BY <1>2, <2>2 DEF Steps, SameUnwritten, AnswersTrue, Unwritten, RequestKnows, Roles
  <2>3. QED
    BY <1>2, <2>1, <2>2 DEF Replies
<1>11. Rest'
  <2>1. Carried' /\ CarriedOnce' /\ CodesStay
    BY <1>4, <1>5, <1>10, ServedIdentitiesStay
  <2>2. QED
    BY <1>6, <1>7, <1>8, <1>9, <1>10, <2>1, ServedKeeps
<1>12. AuditTellsTheRow'
  <2>1. TypeOK' /\ audit' = audit /\ cut' = cut /\ \A m \in Node : rows'[m].revoked => rows[m].revoked
    BY <1>4, <1>5, <1>11 DEF Rest
  <2>2. QED
    BY <1>1, <1>2, <1>5, <1>7, <1>10, <2>1, MarkingTells
<1>13. QED
  BY <1>11, <1>12


\* A revocation is marked before it is told.
LEMMA MarkKeeps ==
    ASSUME Rest, AuditTellsTheRow, NEW q \in Req, Mark(q)
    PROVE  Rest' /\ AuditTellsTheRow'
<1>1. TypeOK /\ Staged /\ Carried /\ SpokenFor
  BY DEF Rest, Identity
<1>2. serving[q].stage = "sent" /\ serving[q].what = "revoke" /\ ~Free(q) /\ Owes(q) = {}
      /\ ((Replies(q, "ok") /\ rows[serving[q].node].revoked) \/ Steps(q, "marked"))
  BY <1>1, RevokeSteps DEF Owes, Mark
<1> PICK n \in Node : n = serving[q].node
  BY <1>1, <1>2 DEF TypeOK, Request, Roles
<1>4. /\ rows \in [Node -> [role : Roles, halves : Seq(SUBSET Tool), revoked : BOOLEAN, seen : BOOLEAN]]
      /\ rows' = [rows EXCEPT ![n] = [rows[n] EXCEPT !.revoked = TRUE]] /\ UNCHANGED <<codes, audit, procs, files, cut, left>>
  BY <1>1 DEF Mark, TypeOK
<1>5. \A m \in Node : /\ rows'[m].halves = rows[m].halves /\ rows'[m].seen = rows[m].seen /\ rows'[m].role = rows[m].role
                      /\ (rows[m].revoked => rows'[m].revoked) /\ (rows'[m].revoked => rows[m].revoked \/ m = n)
  BY <1>4
<1>6. AllTypes
  BY <1>1, <1>4 DEF AllTypes, TypeOK
<1>7. RowsGrow
  BY <1>1, <1>5 DEF RowsGrow, Grows, TypeOK
<1>8. MovesAtItsRevision(q)
  BY <1>5 DEF MovesAtItsRevision, Revision
<1>9. \A m \in Node : rows'[m].seen \/ Revision(m)' > 1 => rows[m].seen \/ Revision(m) > 1 \/ Kept(m)
  BY <1>5 DEF Revision
<1>10. /\ Serves(q) /\ SameUnwritten(q) /\ AnswersTrue(q)
       /\ (serving'[q] # NoRequest => serving'[q].node = serving[q].node)
       /\ (Bears(q)' => Bears(q) /\ (serving'[q].stage = "spent" <=> serving[q].stage = "spent"))
       /\ RequestKnows(serving'[q], rows'[serving'[q].node])
       /\ (~rows[n].revoked => <<n, 0>> \in Owes(q)')
  <2>1. CASE serving'[q] = NoRequest /\ Serves(q) /\ rows[n].revoked
    BY <1>2, <2>1, NoRequestIsARequest DEF SameUnwritten, AnswersTrue, Unwritten, RequestKnows
  <2>2. CASE Steps(q, "ok") /\ rows[n].revoked
    BY <1>2, <2>2 DEF Steps, SameUnwritten, AnswersTrue, Unwritten, RequestKnows, Roles
  <2>3. CASE Steps(q, "marked")
    <3>1. rows'[n].revoked
      BY <1>4
    <3>2. QED
      BY <1>2, <2>3, <3>1 DEF Steps, SameUnwritten, AnswersTrue, Unwritten, RequestKnows, Roles, Owes
  <2>4. QED
    BY <1>2, <2>1, <2>2, <2>3 DEF Replies
<1>11. Rest'
  <2>1. Carried' /\ CarriedOnce' /\ CodesStay
    BY <1>4, <1>5, <1>10, ServedIdentitiesStay
  <2>2. QED
    BY <1>6, <1>7, <1>8, <1>9, <1>10, <2>1, ServedKeeps
<1>12. AuditTellsTheRow'
  <2>1. \A m \in Node : rows'[m].revoked => rows[m].revoked \/ <<m, 0>> \in Owes(q)'
    BY <1>5, <1>10
  <2>2. QED
    BY <1>1, <1>2, <1>4, <1>5, <1>7, <1>10, <1>11, <2>1, MarkingTells DEF Rest
<1>13. QED
  BY <1>11, <1>12

\* An announcement is written at the revision it expects, over the half it read.
LEMMA WriteKeeps ==
    ASSUME Rest, AuditTellsTheRow, NEW q \in Req, Write(q)
    PROVE  Rest' /\ AuditTellsTheRow'
<1>1. TypeOK /\ Staged /\ Carried /\ SpokenFor /\ Knows
  BY DEF Rest, Identity
<1>2. /\ serving[q].stage = "read" /\ serving[q].what = "announce" /\ ~Free(q) /\ Owes(q) = {}
      /\ serving[q].rev = Revision(serving[q].node)
      /\ Serves(q) /\ serving'[q].what = "announce" /\ serving'[q].stage = "written" /\ serving'[q].node = serving[q].node
      /\ serving'[q].rev = serving[q].rev + 1 /\ serving'[q].read = serving[q].read /\ serving'[q].tools = serving[q].tools
  BY <1>1, ReadingSteps DEF Owes, Write
<1> PICK n \in Node : n = serving[q].node
  BY <1>1, <1>2 DEF TypeOK, Request, Roles
<1>h. PICK h \in Seq(SUBSET Tool) : h = rows[n].halves
  BY <1>1 DEF TypeOK
<1>t. PICK t \in SUBSET Tool : t = serving[q].tools
  BY <1>1 DEF TypeOK, Request
<1>3. Born(n) /\ Kept(n) /\ h # <<>> /\ Revision(n) = Len(h) /\ serving[q].rev = Len(h) /\ serving[q].read = h[Len(h)]
  BY <1>1, <1>2, <1>h DEF TypeOK, SpokenFor, Roles, Knows, RequestKnows, Revision
<1>4. /\ rows \in [Node -> [role : Roles, halves : Seq(SUBSET Tool), revoked : BOOLEAN, seen : BOOLEAN]]
      /\ rows' = [rows EXCEPT ![n] = [rows[n] EXCEPT !.halves = Append(h, t)]] /\ UNCHANGED <<codes, audit, procs, files, cut, left>>
  BY <1>1, <1>h, <1>t DEF Write, TypeOK
<1>k. PICK k \in Nat \ {0} : k = Len(h)
  BY <1>3, <1>h
<1>w. PICK w : /\ w \in Seq(SUBSET Tool) /\ w = Append(h, t) /\ Len(w) = k + 1 /\ w[k + 1] = t /\ w # <<>>
               /\ (\A i \in 1 .. k : w[i] = h[i])
  <2>1. /\ Append(h, t) \in Seq(SUBSET Tool) /\ Len(h) \in Nat /\ Len(Append(h, t)) = Len(h) + 1
        /\ Append(h, t)[Len(h) + 1] = t /\ (\A i \in 1 .. Len(h) : Append(h, t)[i] = h[i]) /\ Append(h, t) # <<>>
    BY <1>h, <1>t, HalvesAppended, ZenonT(40)
  <2>2. QED
    BY <1>k, <2>1
<1>6. /\ \A m \in Node : /\ rows'[m].seen = rows[m].seen /\ rows'[m].role = rows[m].role /\ rows'[m].revoked = rows[m].revoked
                         /\ (m # n => rows'[m].halves = rows[m].halves)
      /\ rows'[n].halves = w
  BY <1>4, <1>w
<1>7. AllTypes
  <2>1. rows' \in [Node -> [role : Roles, halves : Seq(SUBSET Tool), revoked : BOOLEAN, seen : BOOLEAN]]
    BY <1>4, <1>w, ZenonT(40)
  <2>2. QED
    BY <1>1, <1>4, <2>1 DEF AllTypes, TypeOK
<1>8. RowsGrow
  <2> SUFFICES ASSUME NEW m \in Node PROVE Grows(rows[m], rows'[m])
    BY DEF RowsGrow
  <2>1. CASE m = n
    <3>1. k <= k + 1
      BY <1>k
    <3>2. rows[m].halves = h /\ rows'[m].halves = w /\ rows'[m].revoked = rows[m].revoked
      BY <1>6, <1>h, <2>1
    <3>3. QED
      BY <1>k, <1>w, <3>1, <3>2 DEF Grows
  <2>2. CASE m # n
    BY <1>1, <1>6, <2>2 DEF Grows, TypeOK
  <2>3. QED
    BY <2>1, <2>2
<1>9. MovesAtItsRevision(q)
  BY <1>2, <1>3, <1>6 DEF MovesAtItsRevision, Revision, Unwritten
<1>10. \A m \in Node : rows'[m].seen \/ Revision(m)' > 1 => rows[m].seen \/ Revision(m) > 1 \/ Kept(m)
  BY <1>3, <1>6 DEF Revision
<1>11. /\ SameUnwritten(q) /\ AnswersTrue(q)
       /\ (serving'[q] # NoRequest => serving'[q].node = serving[q].node)
       /\ (Bears(q)' => Bears(q) /\ (serving'[q].stage = "spent" <=> serving[q].stage = "spent"))
  BY <1>2 DEF SameUnwritten, AnswersTrue, Unwritten, Roles
<1>12. RequestKnows(serving'[q], rows'[serving'[q].node])
  <2>1. k + 1 \in 2 .. Len(w) /\ w[k + 1] = t /\ k + 1 - 1 = k /\ w[k] = h[k]
    BY <1>k, <1>w
  <2>2. QED
    BY <1>2, <1>3, <1>t, <1>k, <1>6, <2>1 DEF RequestKnows, Roles
<1>13. Rest'
  <2>1. \A m \in Node : (Born(m)' <=> Born(m)) /\ rows'[m].role = rows[m].role
    BY <1>3, <1>h, <1>w, <1>6
  <2>2. Carried' /\ CarriedOnce' /\ CodesStay
    BY <1>2, <1>4, <1>11, <2>1, ServedIdentitiesStay
  <2>3. QED
    BY <1>2, <1>7, <1>8, <1>9, <1>10, <1>11, <1>12, <2>2, ServedKeeps
<1>14. AuditTellsTheRow'
  <2>1. \A m \in Node : \A r \in Nat : r > Revision(m) /\ r <= Revision(m)' => <<m, r>> \in Owes(q)'
    <3> TAKE m \in Node
    <3> TAKE r \in Nat
    <3> HAVE r > Revision(m) /\ r <= Revision(m)'
    <3>1. m = n
      BY <1>1, <1>6 DEF TypeOK, Revision
    <3>2. r = k + 1
      <4>1. Revision(m) = k /\ Revision(m)' = k + 1
        BY <1>3, <1>k, <1>w, <1>6, <3>1 DEF Revision
      <4>2. r > k /\ r <= k + 1
        BY <4>1
      <4>3. QED
        BY <1>k, <4>2
    <3>3. QED
      BY <1>2, <1>3, <1>k, <3>1, <3>2 DEF Owes
  <2>2. QED
    BY <1>1, <1>2, <1>4, <1>6, <1>8, <1>13, <2>1, WritingTells DEF Rest
<1>15. QED
  BY <1>13, <1>14

\* A code is spent for an id nobody had.
LEMMA SpendKeeps ==
    ASSUME Rest, AuditTellsTheRow, NEW q \in Req, NEW n \in Node, Spend(q, n)
    PROVE  Rest' /\ AuditTellsTheRow'
<1>1. TypeOK /\ Staged /\ Carried /\ CarriedOnce
  BY DEF Rest, Identity
<1>2. /\ Serves(q) /\ serving[q].what \in Roles /\ serving[q].stage \in {"timely", "late"}
      /\ serving'[q].what = serving[q].what /\ serving'[q].stage = "spent" /\ serving'[q].node = n
      /\ serving'[q].code = serving[q].code
  BY <1>1, SpendSteps
<1>3. PICK c \in Code : c = serving[q].code /\ codes[c].by = None /\ codes[c].offered
  BY <1>1, SpendSteps
<1>4. /\ codes' = [codes EXCEPT ![c] = [codes[c] EXCEPT !.by = n]] /\ UNCHANGED <<rows, audit, procs, files, cut, left>>
      /\ codes \in [Code -> [role : Roles, offered : BOOLEAN, late : BOOLEAN, by : Node \cup {None}]]
  BY <1>1, <1>3 DEF Spend, TypeOK
<1>5. ~Born(n) /\ \A d \in Code : codes[d].by # n
  BY DEF Spend, Minted
<1>6. /\ codes'[c].by = n /\ \A d \in Code : /\ codes'[d].role = codes[d].role /\ codes'[d].offered = codes[d].offered
                                             /\ (d # c => codes'[d].by = codes[d].by)
      /\ n # None
  BY <1>4, NoneIsNothing
<1>7. \A o \in Req \ {q} : serving'[o] = serving[o]
  BY <1>2 DEF Serves
<1>8. \A o \in Req : Bears(o) => serving[o].node # n /\ serving[o].node # None /\ serving[o].code \in Code /\ serving[o].code # c
  <2> TAKE o \in Req
  <2> HAVE Bears(o)
  <2>1. serving[o].code \in Code /\ codes[serving[o].code].by = serving[o].node /\ serving[o].node \in Node
    BY <1>1 DEF Carried, Staged
  <2>2. QED
    BY <1>3, <1>5, <2>1, NoneIsNothing
<1>9. ~Bears(q)
  BY <1>2
<1>10. Carried'
  <2>1. \A d \in Code : codes'[d].by # None => codes'[d].offered
    BY <1>1, <1>3, <1>6 DEF Carried
  <2>2. \A o \in Req : Bears(o)' => /\ serving'[o].node \in Node /\ codes'[serving'[o].code].by = serving'[o].node
                                  /\ (rows'[serving'[o].node].halves # <<>> <=> serving'[o].stage # "spent")
    <3> TAKE o \in Req
    <3>1. CASE o = q
      BY <1>2, <1>3, <1>4, <1>5, <1>6, <3>1
    <3>2. CASE o # q
      BY <1>1, <1>4, <1>6, <1>7, <1>8, <3>2 DEF Carried
    <3>3. QED
      BY <3>1, <3>2
  <2>3. \A m \in Node : rows'[m].halves # <<>> => \E d \in Code : codes'[d].by = m /\ codes'[d].role = rows'[m].role
    <3> TAKE m \in Node
    <3> HAVE rows'[m].halves # <<>>
    <3>1. PICK d \in Code : codes[d].by = m /\ codes[d].role = rows[m].role
      BY <1>1, <1>4 DEF Carried
    <3>2. d # c
      BY <1>3, <3>1, NoneIsNothing
    <3>3. QED
      BY <1>4, <1>6, <3>1, <3>2
  <2>4. QED
    BY <1>1, <1>4, <2>1, <2>2, <2>3 DEF Carried
<1>11. CarriedOnce'
  <2>1. \A d, e \in Code : codes'[d].by = codes'[e].by /\ codes'[d].by # None => d = e
    BY <1>1, <1>5, <1>6 DEF CarriedOnce
  <2>2. \A o, r \in Req : Bears(o)' /\ Bears(r)' /\ serving'[o].node = serving'[r].node => o = r
    BY <1>1, <1>2, <1>7, <1>8 DEF CarriedOnce
  <2>3. \A p \in Proc : Writes(p) => procs[p].node # n
    BY <1>1, <1>5 DEF Carried
  <2>4. \A h \in Home : files[h] # n
    BY <1>1, <1>5, <1>6 DEF Carried
  <2>5. \A o \in Req, p \in Proc : Bears(o)' /\ Writes(p) => serving'[o].node # procs[p].node
    BY <1>1, <1>2, <1>7, <2>3 DEF CarriedOnce
  <2>6. \A o \in Req, h \in Home : Bears(o)' => files[h] # serving'[o].node
    BY <1>1, <1>2, <1>7, <2>4 DEF CarriedOnce
  <2>7. QED
    BY <1>1, <1>4, <2>1, <2>2, <2>5, <2>6 DEF CarriedOnce
<1>12. AllTypes
  BY <1>1, <1>4 DEF AllTypes, TypeOK
<1>13. RowsGrow /\ CodesStay /\ MovesAtItsRevision(q)
  BY <1>1, <1>4, <1>6 DEF RowsGrow, Grows, CodesStay, MovesAtItsRevision, Revision, TypeOK
<1>14. SameUnwritten(q) /\ AnswersTrue(q) /\ RequestKnows(serving'[q], rows'[serving'[q].node])
  BY <1>2 DEF SameUnwritten, AnswersTrue, Unwritten, RequestKnows, Roles
<1>15. \A m \in Node : rows'[m].seen \/ Revision(m)' > 1 => rows[m].seen \/ Revision(m) > 1 \/ Kept(m)
  BY <1>4 DEF Revision
<1>16. Rest'
  BY <1>2, <1>10, <1>11, <1>12, <1>13, <1>14, <1>15, ServedKeeps
<1>17. AuditTellsTheRow'
  <2>1. Owes(q) = {} /\ TypeOK'
    BY <1>2, <1>16 DEF Owes, Rest
  <2>2. QED
    BY <1>1, <1>2, <1>4, <1>13, <2>1, MarkingTells
<1>18. QED
  BY <1>16, <1>17

\* The row is born of the code that was spent for it.
LEMMA InsertKeeps ==
    ASSUME Rest, AuditTellsTheRow, NEW q \in Req, Insert(q)
    PROVE  Rest' /\ AuditTellsTheRow'
<1>1. TypeOK /\ Staged /\ Carried /\ CarriedOnce /\ SpokenFor
  BY DEF Rest, Identity
<1>2. /\ Serves(q) /\ serving[q].stage = "spent" /\ serving'[q].stage = "born" /\ serving'[q].node = serving[q].node
      /\ serving'[q].what = serving[q].what /\ serving'[q].code = serving[q].code /\ serving'[q].tools = serving[q].tools
      /\ serving[q].what \in Roles /\ Owes(q) = {}
  BY <1>1, BirthSteps, StageTells, NoRequestIsARequest DEF Steps, Serves, Owes
<1>3. PICK n \in Node : n = serving[q].node /\ ~Born(n)
  BY <1>1, <1>2 DEF Carried
<1>4. PICK c \in Code : c = serving[q].code /\ codes[c].by = n
  BY <1>1, <1>2, <1>3 DEF Carried, Staged
<1>5. PICK t \in SUBSET Tool : t = serving[q].tools
  BY <1>1 DEF TypeOK, Request
<1>6. /\ rows \in [Node -> [role : Roles, halves : Seq(SUBSET Tool), revoked : BOOLEAN, seen : BOOLEAN]]
      /\ rows' = [rows EXCEPT ![n] = [rows[n] EXCEPT !.halves = <<t>>, !.role = codes[c].role]]
      /\ UNCHANGED <<codes, audit, procs, files, cut, left>>
  BY <1>1, <1>3, <1>4, <1>5 DEF Insert, TypeOK
<1>7. /\ \A m \in Node : /\ rows'[m].seen = rows[m].seen /\ rows'[m].revoked = rows[m].revoked
                         /\ (m # n => rows'[m].halves = rows[m].halves /\ rows'[m].role = rows[m].role)
      /\ rows'[n].halves = <<t>> /\ rows'[n].role = codes[c].role
  BY <1>6
<1>8. <<t>> \in Seq(SUBSET Tool) /\ Len(<<t>>) = 1 /\ <<t>>[1] = t /\ <<t>> # <<>> /\ codes[c].role \in Roles
  BY <1>1, <1>4, <1>5 DEF TypeOK
<1>9. \A o \in Req \ {q} : serving'[o] = serving[o]
  BY <1>2 DEF Serves
<1>10. \A m \in Node : Born(m) => m # n /\ rows'[m].halves # <<>>
  BY <1>3, <1>7
<1>11. Carried'
  <2>1. \A o \in Req : Bears(o)' => /\ serving'[o].node \in Node /\ codes'[serving'[o].code].by = serving'[o].node
                                  /\ (rows'[serving'[o].node].halves # <<>> <=> serving'[o].stage # "spent")
    <3> TAKE o \in Req
    <3>1. CASE o = q
      BY <1>2, <1>3, <1>4, <1>6, <1>7, <1>8, <3>1
    <3>2. CASE o # q
      BY <1>1, <1>2, <1>3, <1>6, <1>7, <1>9, <3>2 DEF Carried, CarriedOnce
    <3>3. QED
      BY <3>1, <3>2
  <2>2. \A m \in Node : rows'[m].halves # <<>> => \E d \in Code : codes'[d].by = m /\ codes'[d].role = rows'[m].role
    <3> TAKE m \in Node
    <3> HAVE rows'[m].halves # <<>>
    <3>1. CASE m = n
      BY <1>4, <1>6, <1>7, <3>1
    <3>2. CASE m # n
      <4>1. PICK d \in Code : codes[d].by = m /\ codes[d].role = rows[m].role
        BY <1>1, <1>7, <3>2 DEF Carried
      <4>2. QED
        BY <1>6, <1>7, <3>2, <4>1
    <3>3. QED
      BY <3>1, <3>2
  <2>3. \A p \in Proc : Writes(p) => procs[p].node \in Node /\ rows'[procs[p].node].halves # <<>>
    BY <1>1, <1>10 DEF Carried
  <2>4. \A h \in Home : files[h] # None => rows'[files[h]].halves # <<>>
    BY <1>1, <1>10 DEF Carried, TypeOK
  <2>5. QED
    BY <1>1, <1>6, <2>1, <2>2, <2>3, <2>4 DEF Carried
<1>12. CarriedOnce'
  <2>1. \A o \in Req : Bears(o)' => Bears(o) /\ serving'[o].node = serving[o].node
    BY <1>2, <1>9
  <2>2. \A o, r \in Req : Bears(o)' /\ Bears(r)' /\ serving'[o].node = serving'[r].node => o = r
    BY <1>1, <2>1 DEF CarriedOnce
  <2>3. \A o \in Req, p \in Proc : Bears(o)' /\ Writes(p) => serving'[o].node # procs[p].node
    BY <1>1, <2>1 DEF CarriedOnce
  <2>4. \A o \in Req, h \in Home : Bears(o)' => files[h] # serving'[o].node
    BY <1>1, <2>1 DEF CarriedOnce
  <2>5. QED
    BY <1>1, <1>6, <2>2, <2>3, <2>4 DEF CarriedOnce
<1>13. AllTypes
  <2>1. rows' \in [Node -> [role : Roles, halves : Seq(SUBSET Tool), revoked : BOOLEAN, seen : BOOLEAN]]
    BY <1>6, <1>8
  <2>2. QED
    BY <1>1, <1>6, <2>1 DEF AllTypes, TypeOK
<1>14. RowsGrow
  <2> SUFFICES ASSUME NEW m \in Node PROVE Grows(rows[m], rows'[m])
    BY DEF RowsGrow
  <2>1. CASE m = n
    BY <1>3, <1>7, <1>8, <2>1 DEF Grows
  <2>2. CASE m # n
    BY <1>1, <1>7, <2>2 DEF Grows, TypeOK
  <2>3. QED
    BY <2>1, <2>2
<1>15. CodesStay /\ MovesAtItsRevision(q)
  BY <1>3, <1>6, <1>7 DEF CodesStay, MovesAtItsRevision, Revision
<1>16. SameUnwritten(q) /\ AnswersTrue(q) /\ RequestKnows(serving'[q], rows'[serving'[q].node])
  BY <1>2, <1>3, <1>5, <1>7, <1>8 DEF SameUnwritten, AnswersTrue, Unwritten, RequestKnows, Roles
<1>17. \A m \in Node : rows'[m].seen \/ Revision(m)' > 1 => rows[m].seen \/ Revision(m) > 1 \/ Kept(m)
  <2> TAKE m \in Node
  <2> HAVE rows'[m].seen \/ Revision(m)' > 1
  <2>1. CASE m = n
    <3>1. Revision(m)' = 1 /\ rows'[m].seen = rows[m].seen
      BY <1>7, <1>8, <2>1 DEF Revision
    <3>2. ~(Revision(m)' > 1)
      BY <3>1
    <3>3. QED
      BY <3>1, <3>2
  <2>2. CASE m # n
    BY <1>7, <2>2 DEF Revision
  <2>3. QED
    BY <2>1, <2>2
<1>18. Rest'
  BY <1>2, <1>11, <1>12, <1>13, <1>14, <1>15, <1>16, <1>17, ServedKeeps
<1>19. AuditTellsTheRow'
  <2>1. \A m \in Node : \A r \in Nat : r > Revision(m) /\ r <= Revision(m)' => <<m, r>> \in Owes(q)'
    <3> TAKE m \in Node
    <3> TAKE r \in Nat
    <3> HAVE r > Revision(m) /\ r <= Revision(m)'
    <3>1. m = n
      BY <1>1, <1>7 DEF TypeOK, Revision
    <3>2. r = 1
      <4>1. Revision(m) = 0 /\ Revision(m)' = 1
        BY <1>3, <1>7, <1>8, <3>1 DEF Revision
      <4>2. QED
        BY <4>1
    <3>3. QED
      BY <1>2, <1>3, <3>1, <3>2 DEF Owes
  <2>2. QED
    BY <1>1, <1>2, <1>6, <1>7, <1>14, <1>18, <2>1, WritingTells DEF Rest
<1>20. QED
  BY <1>18, <1>19

\* Whatever the Core serves keeps the invariant.
LEMMA ServeKeeps ==
    ASSUME Rest, AuditTellsTheRow, NEW q \in Req, Serve(q)
    PROVE  Rest' /\ AuditTellsTheRow'
<1>1. CASE Tells(q)
  BY <1>1, TellsTrue
<1>2. CASE Heartbeat(q)
  BY <1>2, HeartbeatKeeps
<1>3. CASE Mark(q)
  BY <1>3, MarkKeeps
<1>4. CASE Write(q)
  BY <1>4, WriteKeeps
<1>5. CASE Insert(q)
  BY <1>5, InsertKeeps
<1>6. CASE \E n \in Node : Spend(q, n)
  BY <1>6, SpendKeeps
<1>7. QED
  BY <1>1, <1>2, <1>3, <1>4, <1>5, <1>6 DEF Serve, Tells

-------------------------------------------------------------------------------
(* The steps of the processes and of the user *)

\* They write nothing about a row, and what the Core owes stays owed.
LEMMA NothingTold ==
    ASSUME TypeOK, TypeOK', AuditTellsTheRow, audit' = audit, cut \subseteq cut',
           \A n \in Node : rows'[n].halves = rows[n].halves /\ rows'[n].revoked = rows[n].revoked,
           \A o \in Req : Owes(o) \subseteq Owes(o)' \cup cut'
    PROVE  AuditTellsTheRow'
<1>1. \A n, k : Owed(n, k) => Paid(n, k)
  BY DEF Owed, Paid
<1>2. \A n \in Node : Revision(n)' = Revision(n) /\ Revision(n) \in Nat
  BY DEF Revision, TypeOK
<1>3. \A n \in Node : \A r \in Nat : r > Revision(n) /\ r <= Revision(n)' => Owed(n, r)'
  BY <1>2
<1>4. RowsGrow
  BY DEF RowsGrow, Grows, TypeOK
<1>5. \A m \in Node, k \in Nat : Owed(m, k) => Paid(m, k)
  BY <1>1
<1>6. \A m \in Node : rows'[m].revoked => rows[m].revoked \/ Owed(m, 0)'
  OBVIOUS
<1>7. QED
  BY <1>3, <1>4, <1>5, <1>6, SilenceKeeps

\* A process that does nothing stays as fresh as it was, unless somebody announces as its node.
LEMMA FreshStays ==
    ASSUME NEW r \in Proc, Fresh(r), rows' = rows,
           procs'[r].pc = procs[r].pc /\ procs'[r].node = procs[r].node /\ procs'[r].rev = procs[r].rev,
           \A o \in Req : serving'[o].from = r => serving'[o] = serving[o],
           \A o \in Req : Unwritten(o)' /\ serving'[o].node = procs[r].node =>
              /\ Unwritten(o) /\ serving[o].node = serving'[o].node /\ serving[o].rev = serving'[o].rev
              /\ (serving'[o].from # r => serving[o].from # r)
    PROVE  Fresh(r)'
<1>1. \A x : Behind(r, x) => \A o \in Req : Unwritten(o)' /\ serving'[o].node = procs'[r].node /\ serving'[o].from # r => serving'[o].rev < x
  BY DEF Behind
<1>2. \A o \in Req : serving'[o].from = r => /\ o \in OwnOf(r) /\ serving'[o] = serving[o]
  BY DEF OwnOf
<1>3. CASE procs[r].pc \in {"refreshing", "saying"}
  BY <1>1, <1>2, <1>3 DEF Fresh, Behind, OwnOf, Unwritten
<1>4. CASE procs[r].pc = "announcing"
  BY <1>1, <1>2, <1>4 DEF Fresh, Behind, OwnOf, Unwritten, Revision
<1>5. CASE procs[r].pc \in {"again", "rereading"}
  BY <1>1, <1>2, <1>5 DEF Fresh, Behind, OwnOf, Unwritten, Revision
<1>6. CASE procs[r].pc = "sayingAgain"
  BY <1>1, <1>2, <1>6 DEF Fresh, Behind, OwnOf, Unwritten, Revision
<1>7. CASE procs[r].pc = "reannouncing"
  BY <1>1, <1>2, <1>7 DEF Fresh, Behind, OwnOf, Unwritten, Revision
<1>8. QED
  BY <1>3, <1>4, <1>5, <1>6, <1>7 DEF Fresh

\* What a process leaves of the requests when it waits no more: its answer is gone, and what the Core
\* still serves for it is nobody's.
LeavesRequests(p) ==
    /\ serving' \in [Req -> Request]
    /\ \A o \in Req :
          \/ (serving'[o] = serving[o] /\ serving[o].from # p)
          \/ (serving'[o] = NoRequest /\ serving[o].from = p /\ serving[o].stage \in Answers)
          \/ (serving'[o] = [serving[o] EXCEPT !.from = None] /\ serving[o].from = p /\ serving[o].stage \notin Answers \cup {"none"})

\* What is left of each request.
LEMMA LeavingMeans ==
    ASSUME TypeOK, NEW p \in Proc, LeavesRequests(p), NEW o \in Req
    PROVE  /\ serving'[o].from # p
           /\ (serving'[o].from # None => serving'[o] = serving[o])
           /\ Owes(o)' = Owes(o)
           /\ (serving'[o].stage # "none" =>
                 /\ serving'[o].what = serving[o].what /\ serving'[o].stage = serving[o].stage /\ serving'[o].node = serving[o].node
                 /\ serving'[o].code = serving[o].code /\ serving'[o].tools = serving[o].tools /\ serving'[o].read = serving[o].read
                 /\ serving'[o].rev = serving[o].rev)
           /\ (serving[o].from # p => serving'[o] = serving[o])
           /\ (serving'[o].from = None => serving'[o].stage \notin Answers \/ serving'[o] = serving[o])
           /\ (serving'[o].stage = "none" => serving'[o].from = None \/ serving'[o] = serving[o])
<1>1. serving[o] \in Request /\ p # None
  BY NoneIsNothing DEF TypeOK
<1>2. CASE serving'[o] = serving[o] /\ serving[o].from # p
  BY <1>2 DEF Owes
<1>3. CASE serving'[o] = NoRequest /\ serving[o].from = p /\ serving[o].stage \in Answers
  BY <1>1, <1>3 DEF NoRequest, Answers, Owes
<1>4. CASE serving'[o] = [serving[o] EXCEPT !.from = None] /\ serving[o].from = p /\ serving[o].stage \notin Answers \cup {"none"}
  <2>1. /\ serving'[o].what = serving[o].what /\ serving'[o].stage = serving[o].stage /\ serving'[o].node = serving[o].node
        /\ serving'[o].code = serving[o].code /\ serving'[o].tools = serving[o].tools /\ serving'[o].read = serving[o].read
        /\ serving'[o].rev = serving[o].rev /\ serving'[o].from = None
    BY <1>1, <1>4 DEF Request
  <2>2. QED
    BY <1>1, <1>4, <2>1 DEF Owes
<1>5. QED
  BY <1>2, <1>3, <1>4 DEF LeavesRequests

\* A process that waits no more keeps the invariant when its new state is a good one.
LEMMA LeavingKeeps ==
    ASSUME Rest, AuditTellsTheRow, NEW p \in Proc, LeavesRequests(p), UNCHANGED <<codes, rows, audit, cut>>,
           left' \in [Bounded -> Nat], procs' \in [Proc -> ProcRecord], \A r \in Proc \ {p} : procs'[r] = procs[r],
           procs'[p].pc \notin Waiting,
           files' \in [Home -> Node \cup {None}], \A h \in Home : files[h] # None => files'[h] = files[h],
           Carried', CarriedOnce',
           Speaks(p)' => /\ procs'[p].node \in Node /\ Born(procs'[p].node) /\ files'[procs'[p].home] = procs'[p].node
                         /\ (procs'[p].rev = 0 \/ procs'[p].rev <= Len(rows[procs'[p].node].halves)),
           procs'[p].pc \in {"saying", "again", "sayingAgain"} /\ Alone(p)' => Fresh(p)',
           procs'[p].pc = "twin" => procs'[p].beside \/ procs'[p].blind
    PROVE  Rest' /\ AuditTellsTheRow'
<1>1. TypeOK /\ Staged /\ Waited /\ Carried /\ CarriedOnce /\ SpokenFor /\ Knows /\ Reads /\ TwinMeansTwo
  BY DEF Rest, Identity
<1>2. \A o \in Req :
         /\ serving'[o].from # p /\ (serving'[o].from # None => serving'[o] = serving[o])
         /\ (serving'[o].stage # "none" =>
               /\ serving'[o].what = serving[o].what /\ serving'[o].stage = serving[o].stage /\ serving'[o].node = serving[o].node
               /\ serving'[o].code = serving[o].code /\ serving'[o].rev = serving[o].rev)
  BY <1>1, LeavingMeans
<1>3. serving' \in [Req -> Request]
  BY DEF LeavesRequests
<1>4. TypeOK'
  <2>1. \A o \in Req : serving'[o].what \notin Roles /\ (~Free(o))' => serving'[o].node # None /\ rows'[serving'[o].node].halves # <<>>
    <3> TAKE o \in Req
    <3> HAVE serving'[o].what \notin Roles /\ (~Free(o))'
    <3>1. serving[o].what \notin Roles /\ ~Free(o) /\ serving'[o].node = serving[o].node
      BY <1>2
    <3>2. serving[o].node # None /\ Born(serving[o].node)
      BY <1>1, <3>1 DEF TypeOK
    <3>3. QED
      BY <3>1, <3>2
  <2>2. \A r \in Proc : Speaks(r)' => procs'[r].node # None /\ rows'[procs'[r].node].halves # <<>>
    <3> TAKE r \in Proc
    <3>1. CASE r = p
      BY <3>1, NoneIsNothing
    <3>2. CASE r # p
      BY <1>1, <3>2 DEF TypeOK, Speaks
    <3>3. QED
      BY <3>1, <3>2
  <2>3. QED
    BY <1>1, <1>3, <2>1, <2>2 DEF TypeOK
<1>5. Staged'
  <2>1. ASSUME NEW o \in Req
        PROVE  /\ (~Free(o))' => serving'[o].stage \in StagesOf(serving'[o].what)
               /\ serving'[o].from = None => serving'[o].stage \notin Answers
               /\ Free(o)' => serving'[o].from = None
               /\ (~Free(o))' /\ serving'[o].what \in Roles => serving'[o].code \in Code /\ codes'[serving'[o].code].offered
    <3>1. (serving'[o].from = None => serving'[o].stage \notin Answers \/ serving'[o] = serving[o])
          /\ (serving'[o].stage = "none" => serving'[o].from = None \/ serving'[o] = serving[o])
      BY <1>1, LeavingMeans
    <3>2. QED
      BY <1>1, <1>2, <3>1 DEF Staged
  <2>2. QED
    BY <2>1 DEF Staged
<1>6. Waited'
  <2>1. \A o \in Req : serving'[o].from # None => serving'[o].from # p /\ serving'[o] = serving[o] /\ procs'[serving[o].from] = procs[serving[o].from]
    BY <1>1, <1>2, <1>3 DEF TypeOK, Request
  <2>2. \A o \in Req : serving'[o].from # None =>
          /\ procs'[serving'[o].from].pc \in Waiting /\ serving'[o].what = AskedBy(procs'[serving'[o].from].pc)
          /\ procs'[serving'[o].from].pc # "joining" => serving'[o].node = procs'[serving'[o].from].node
          /\ procs'[serving'[o].from].pc = "announcing" /\ serving'[o].stage \in {"sent", "let", "read"} =>
                serving'[o].rev = procs'[serving'[o].from].rev
    BY <1>1, <2>1 DEF Waited
  <2>3. \A o, r \in Req : o # r /\ serving'[o].from # None => serving'[o].from # serving'[r].from
    BY <1>1, <1>2 DEF Waited
  <2>4. QED
    BY <2>2, <2>3 DEF Waited
<1>7. SpokenFor'
  <2>1. \A n \in Node : rows'[n].seen \/ Revision(n)' > 1 => rows[n].seen \/ Revision(n) > 1 \/ Kept(n)
    BY DEF Revision
  <2>2. \A r \in Proc : Speaks(r)' => \/ (Speaks(r) /\ procs'[r].home = procs[r].home /\ procs'[r].node = procs[r].node)
                                     \/ files'[procs'[r].home] = procs'[r].node
    BY DEF Speaks
  <2>3. \A r \in Proc : Speaks(r) => procs[r].home \in Home /\ procs[r].node # None
    BY <1>1 DEF Carried, Speaks, TypeOK
  <2>4. \A o \in Req : (~Free(o))' /\ serving'[o].what \in {"whoami", "announce", "heartbeat"} =>
              (~Free(o) /\ serving[o].what \in {"whoami", "announce", "heartbeat"} /\ serving'[o].node = serving[o].node)
    BY <1>2
  <2>5. \A o \in Req : (~Free(o))' /\ serving'[o].what \in {"whoami", "announce", "heartbeat"} => serving'[o].node # None
    BY <1>4 DEF TypeOK, Roles
  <2>6. QED
    BY <1>1, <2>1, <2>2, <2>3, <2>4, <2>5, SpokenForKept
<1>8. Knows'
  <2>1. \A o \in Req : RequestKnows(serving'[o], rows'[serving'[o].node])
    <3> TAKE o \in Req
    <3>1. RequestKnows(serving[o], rows[serving[o].node])
      BY <1>1 DEF Knows
    <3>2. serving'[o].stage # "none" => serving'[o].tools = serving[o].tools /\ serving'[o].read = serving[o].read
      BY <1>1, LeavingMeans
    <3>3. CASE serving'[o].stage = "none"
      BY <3>3 DEF RequestKnows
    <3>4. CASE serving'[o].stage # "none"
      BY <1>2, <3>1, <3>2, <3>4 DEF RequestKnows
    <3>5. QED
      BY <3>3, <3>4
  <2>2. \A r \in Proc : Speaks(r)' => \/ (Speaks(r) /\ procs'[r].node = procs[r].node /\ procs'[r].rev = procs[r].rev)
                                     \/ procs'[r].rev <= Len(rows'[procs'[r].node].halves)
                                     \/ procs'[r].rev = 0
    <3> TAKE r \in Proc
    <3>1. CASE r = p
      BY <3>1
    <3>2. CASE r # p
      BY <3>2 DEF Speaks
    <3>3. QED
      BY <3>1, <3>2
  <2>3. RowsGrow
    BY <1>1 DEF RowsGrow, Grows, TypeOK
  <2>4. QED
    BY <1>1, <1>4, <2>1, <2>2, <2>3, KnowsKept
<1>9. Reads'
  <2> SUFFICES ASSUME NEW r \in Proc, Alone(r)' PROVE Fresh(r)'
    BY DEF Reads
  <2>1. CASE r # p
    <3>1. Alone(r) /\ Fresh(r)
      BY <1>1, <2>1 DEF Alone, Speaks, Reads
    <3>2. \A o \in Req : Unwritten(o)' /\ serving'[o].node = procs[r].node =>
              /\ Unwritten(o) /\ serving[o].node = serving'[o].node /\ serving[o].rev = serving'[o].rev
              /\ (serving'[o].from # r => serving[o].from # r)
      <4> TAKE o \in Req
      <4> HAVE Unwritten(o)' /\ serving'[o].node = procs[r].node
      <4>1. serving[o].from # p => serving'[o] = serving[o]
        BY <1>1, LeavingMeans
      <4>2. serving'[o].stage # "none"
        BY DEF Unwritten
      <4>3. QED
        BY <1>2, <2>1, <4>1, <4>2 DEF Unwritten
    <3>3. \A o \in Req : serving'[o].from = r => serving'[o] = serving[o]
      BY <1>2, NoneIsNothing
    <3>4. QED
      BY <2>1, <3>1, <3>2, <3>3, FreshStays
  <2>2. CASE r = p /\ procs'[p].pc \notin {"saying", "again", "sayingAgain"}
    BY <2>2 DEF Fresh, Waiting
  <2>3. QED
    BY <2>1, <2>2
<1>10. TwinMeansTwo'
  BY <1>1 DEF TwinMeansTwo
<1>11. AuditTellsTheRow'
  <2>1. \A o \in Req : Owes(o) \subseteq Owes(o)' \cup cut'
    BY <1>1, LeavingMeans
  <2>2. QED
    BY <1>1, <1>4, <2>1, NothingTold
<1>12. QED
  BY <1>4, <1>5, <1>6, <1>7, <1>8, <1>9, <1>10, <1>11 DEF Rest, Identity

\* Hearing the answer leaves no request.
LEMMA HearsMeans ==
    ASSUME TypeOK, Waited, NEW p \in Proc, NEW q \in Req, Hears(p, q)
    PROVE  /\ LeavesRequests(p) /\ procs[p].pc \in Waiting /\ serving[q].what = AskedBy(procs[p].pc)
           /\ (procs[p].pc # "joining" => serving[q].node = procs[p].node)
           /\ q \in OwnOf(p) /\ serving[q].stage \in Answers
<1>1. serving[q].from = p /\ serving[q].stage \in Answers /\ serving' = [serving EXCEPT ![q] = NoRequest] /\ p # None
  BY NoneIsNothing DEF Hears
<1>2. \A o \in Req \ {q} : serving'[o] = serving[o] /\ serving[o].from # p
  BY <1>1 DEF Waited, TypeOK
<1>3. serving' \in [Req -> Request] /\ serving'[q] = NoRequest
  BY <1>1, NoRequestIsARequest DEF TypeOK
<1>4. LeavesRequests(p)
  BY <1>1, <1>2, <1>3 DEF LeavesRequests
<1>5. QED
  BY <1>1, <1>4 DEF Waited, OwnOf

\* Giving up leaves what the Core still serves to nobody.
LEMMA AbandonedMeans ==
    ASSUME TypeOK, Staged, NEW p \in Proc, serving' = Abandoned(p)
    PROVE  LeavesRequests(p)
<1>1. \A o \in Req : serving[o] \in Request /\ [serving[o] EXCEPT !.from = None] \in Request /\ NoRequest \in Request
  BY NoRequestIsARequest DEF TypeOK, Request
<1>2. \A o \in Req : serving[o].from = p => serving[o].stage # "none"
  BY NoneIsNothing DEF Staged
<1>3. \A o \in Req : serving'[o] = IF serving[o].from # p THEN serving[o]
                                  ELSE IF serving[o].stage \in Answers THEN NoRequest
                                  ELSE [serving[o] EXCEPT !.from = None]
  BY DEF Abandoned
<1>4. serving' \in [Req -> Request]
  BY <1>1 DEF Abandoned
<1>5. QED
  BY <1>2, <1>3, <1>4 DEF LeavesRequests

\* A process that waits for nothing has nothing to leave.
LEMMA NothingAsked ==
    ASSUME TypeOK, Waited, NEW p \in Proc, procs[p].pc \notin Waiting, serving' = serving
    PROVE  LeavesRequests(p)
BY NoneIsNothing DEF Waited, LeavesRequests, TypeOK

\* It takes no identity with it.
LEMMA LeavingIdentities ==
    ASSUME Rest, NEW p \in Proc, LeavesRequests(p), UNCHANGED <<codes, rows, files>>,
           \A r \in Proc \ {p} : procs'[r] = procs[r], procs'[p].pc # "writing",
           procs'[p].pc \notin Stopped => procs'[p].home \in Home
    PROVE  Carried' /\ CarriedOnce'
<1>1. TypeOK /\ Staged /\ Carried /\ CarriedOnce
  BY DEF Rest, Identity
<1>2. \A o \in Req : Bears(o)' => /\ Bears(o) /\ serving'[o].node = serving[o].node /\ serving'[o].code = serving[o].code
                                 /\ (serving'[o].stage = "spent" <=> serving[o].stage = "spent")
  BY <1>1, LeavingMeans
<1>3. \A r \in Proc : procs'[r].pc \notin Stopped => procs'[r].home \in Home
  BY <1>1 DEF Carried
<1>4. IdentitiesStay
  BY <1>2, <1>3 DEF IdentitiesStay
<1>5. QED
  BY <1>1, <1>4, IdentitiesKept

\* A process that goes on speaking as its node, or stops.
LEMMA SpeakerKeeps ==
    ASSUME Rest, AuditTellsTheRow, NEW p \in Proc, LeavesRequests(p), UNCHANGED <<codes, rows, audit, files, cut>>,
           left' \in [Bounded -> Nat], NEW s \in ProcRecord, procs' = [procs EXCEPT ![p] = s],
           s.pc \notin Waiting \cup {"writing", "joining"},
           \/ s.pc \in Stopped
           \/ /\ Speaks(p) /\ s.home = procs[p].home /\ s.node = procs[p].node
              /\ (s.rev = procs[p].rev \/ s.rev <= Len(rows[procs[p].node].halves)),
           s.pc \in {"saying", "again", "sayingAgain"} /\ Alone(p)' => Fresh(p)',
           s.pc = "twin" => s.beside \/ s.blind
    PROVE  Rest' /\ AuditTellsTheRow'
<1>1. TypeOK /\ Staged /\ Waited /\ Carried /\ CarriedOnce /\ SpokenFor /\ Knows
  BY DEF Rest, Identity
<1>2. procs'[p] = s /\ procs' \in [Proc -> ProcRecord] /\ \A r \in Proc \ {p} : procs'[r] = procs[r]
  BY <1>1 DEF TypeOK
<1>3. s.pc \notin Stopped => s.home \in Home
  BY <1>1 DEF Carried, Speaks
<1>4. Carried' /\ CarriedOnce'
  BY <1>2, <1>3, LeavingIdentities
<1>5. Speaks(p)' => /\ procs'[p].node \in Node /\ Born(procs'[p].node) /\ files'[procs'[p].home] = procs'[p].node
                    /\ (procs'[p].rev = 0 \/ procs'[p].rev <= Len(rows[procs'[p].node].halves))
  <2> HAVE Speaks(p)'
  <2>1. Speaks(p) /\ s.home = procs[p].home /\ s.node = procs[p].node /\ (s.rev = procs[p].rev \/ s.rev <= Len(rows[procs[p].node].halves))
    BY <1>2 DEF Speaks
  <2>2. procs[p].node \in Node /\ Born(procs[p].node) /\ procs[p] \in ProcRecord
    BY <1>1, <2>1 DEF TypeOK, ProcRecord
  <2>3. procs[p].rev <= Len(rows[procs[p].node].halves) /\ files[procs[p].home] = procs[p].node
    BY <1>1, <2>1 DEF Knows, SpokenFor, Revision
  <2>4. QED
    BY <1>2, <2>1, <2>2, <2>3
<1>6. files' \in [Home -> Node \cup {None}] /\ \A h \in Home : files[h] # None => files'[h] = files[h]
  BY <1>1 DEF TypeOK
<1>7. procs'[p].pc \in {"saying", "again", "sayingAgain"} /\ Alone(p)' => Fresh(p)'
  BY <1>2
<1>8. QED
  BY <1>2, <1>4, <1>5, <1>6, <1>7, LeavingKeeps

\* The answers leave nothing of the process still to be written.
LEMMA BehindStays ==
    ASSUME TypeOK, Waited, NEW p \in Proc, NEW q \in Req, Hears(p, q), procs'[p].node = procs[p].node,
           NEW x, Behind(p, x)
    PROVE  \A o \in Req : Unwritten(o)' /\ serving'[o].node = procs'[p].node /\ serving'[o].from # p => serving'[o].rev < x
<1> TAKE o \in Req
<1> HAVE Unwritten(o)' /\ serving'[o].node = procs'[p].node /\ serving'[o].from # p
<1>1. o # q
  BY NoRequestIsARequest DEF Hears, Unwritten, TypeOK
<1>2. serving'[o] = serving[o]
  BY <1>1 DEF Hears
<1>3. QED
  BY <1>2 DEF Behind, Unwritten

\* The answer to a heartbeat.
LEMMA ReportedKeeps ==
    ASSUME Rest, AuditTellsTheRow, NEW p \in Proc, NEW q \in Req, Reported(p, q)
    PROVE  Rest' /\ AuditTellsTheRow'
<1>1. TypeOK /\ Waited /\ Hears(p, q) /\ procs[p].pc = "reporting" /\ procs[p] \in ProcRecord
  BY DEF Rest, Identity, Reported, TypeOK
<1>2. LeavesRequests(p)
  BY <1>1, HearsMeans
<1>3. Speaks(p)
  BY <1>1 DEF Speaks, Stopped
<1> DEFINE s == [procs[p] EXCEPT !.pc = IF serving[q].stage = "unauthorized" THEN "revoked" ELSE "up"]
<1>4. s \in ProcRecord /\ s.home = procs[p].home /\ s.node = procs[p].node /\ s.rev = procs[p].rev /\ s.pc \in {"revoked", "up"}
  BY <1>1 DEF ProcRecord, ProcStates, Stopped
<1>5. procs' = [procs EXCEPT ![p] = s] /\ UNCHANGED <<codes, rows, audit, files, cut, left>> /\ left' \in [Bounded -> Nat]
  BY <1>1 DEF Reported, TypeOK
<1>6. s.pc \notin Waiting \cup {"writing", "joining"} /\ s.pc \notin {"saying", "again", "sayingAgain", "twin"}
  BY <1>4 DEF Waiting
<1> HIDE DEF s
<1>7. QED
  BY <1>2, <1>3, <1>4, <1>5, <1>6, SpeakerKeeps

\* The window is closed.
LEMMA DieKeeps ==
    ASSUME Rest, AuditTellsTheRow, NEW p \in Proc, Die(p)
    PROVE  Rest' /\ AuditTellsTheRow'
<1>1. TypeOK /\ Staged /\ serving' = Abandoned(p) /\ left' \in [Bounded -> Nat]
  BY DEF Rest, Identity, Die, TypeOK
<1>2. LeavesRequests(p)
  BY <1>1, AbandonedMeans
<1>3. NoProcess \in ProcRecord /\ NoProcess.pc \in Stopped /\ NoProcess.pc \notin Waiting \cup {"writing", "joining"}
      /\ NoProcess.pc \notin {"saying", "again", "sayingAgain", "twin"}
  BY DEF NoProcess, ProcRecord, ProcStates, Stopped, Waiting
<1>4. procs' = [procs EXCEPT ![p] = NoProcess] /\ UNCHANGED <<codes, rows, audit, files, cut>>
  BY DEF Die
<1>5. QED
  BY <1>1, <1>2, <1>3, <1>4, SpeakerKeeps

\* The answer does not come.
LEMMA TimesOutKeeps ==
    ASSUME Rest, AuditTellsTheRow, NEW p \in Proc, TimesOut(p)
    PROVE  Rest' /\ AuditTellsTheRow'
<1>1. TypeOK /\ Staged /\ serving' = Abandoned(p) /\ procs[p] \in ProcRecord /\ procs[p].pc \in Waiting
  BY DEF Rest, Identity, TimesOut, TypeOK
<1>2. LeavesRequests(p)
  BY <1>1, AbandonedMeans
<1>3. left' \in [Bounded -> Nat]
  BY <1>1, BudgetsAreTyped DEF TimesOut, Bounded, TypeOK
<1> DEFINE s == [procs[p] EXCEPT !.pc = AfterSilence(procs[p].pc)]
<1>4. AfterSilence(procs[p].pc) \in {"failed", "up", "coming"} /\ (procs[p].pc = "joining" => AfterSilence(procs[p].pc) = "failed")
  BY DEF AfterSilence
<1>5. s \in ProcRecord /\ s.home = procs[p].home /\ s.node = procs[p].node /\ s.rev = procs[p].rev /\ s.pc = AfterSilence(procs[p].pc)
  BY <1>1, <1>4 DEF ProcRecord, ProcStates, Stopped
<1>6. procs' = [procs EXCEPT ![p] = s] /\ UNCHANGED <<codes, rows, audit, files, cut>>
  BY <1>1 DEF TimesOut
<1>7. s.pc \notin Waiting \cup {"writing", "joining"} /\ s.pc \notin {"saying", "again", "sayingAgain", "twin"}
  BY <1>4, <1>5 DEF Waiting
<1>8. s.pc \in Stopped \/ Speaks(p)
  BY <1>1, <1>4, <1>5 DEF Speaks, Waiting, Stopped
<1> HIDE DEF s
<1>9. QED
  BY <1>2, <1>3, <1>5, <1>6, <1>7, <1>8, SpeakerKeeps

\* The answer to a reading: it is the revision the process announces at next.
LEMMA HeardWhoKeeps ==
    ASSUME Rest, AuditTellsTheRow, NEW p \in Proc, NEW q \in Req, HeardWho(p, q)
    PROVE  Rest' /\ AuditTellsTheRow'
<1>1. TypeOK /\ Waited /\ Knows /\ Reads /\ Hears(p, q) /\ procs[p].pc \in {"refreshing", "rereading"} /\ procs[p] \in ProcRecord
  BY DEF Rest, Identity, HeardWho, TypeOK
<1>2. /\ LeavesRequests(p) /\ serving[q].what = AskedBy(procs[p].pc) /\ serving[q].node = procs[p].node
      /\ q \in OwnOf(p)
  BY <1>1, HearsMeans
<1>3. Speaks(p) /\ serving[q].what = "whoami" /\ procs[p].node \in Node /\ serving[q].rev \in Nat
  BY <1>1, <1>2 DEF Speaks, Stopped, AskedBy, TypeOK, ProcRecord, Request
<1>4. UNCHANGED <<codes, rows, audit, files, cut>> /\ left' \in [Bounded -> Nat]
  BY <1>1 DEF HeardWho, TypeOK
<1> DEFINE next == IF procs[p].pc = "refreshing" THEN "saying" ELSE "sayingAgain"
<1>5. next \in {"saying", "sayingAgain"} /\ next \in ProcStates /\ next \notin Stopped \cup Waiting \cup {"writing", "joining"}
      /\ (next = "saying" <=> procs[p].pc = "refreshing")
  BY DEF ProcStates, Stopped, Waiting
<1>6. CASE serving[q].stage = "unauthorized"
  <2> DEFINE s == [procs[p] EXCEPT !.pc = "revoked"]
  <2>1. s \in ProcRecord /\ s.pc = "revoked" /\ s.pc \in Stopped
    BY <1>1 DEF ProcRecord, ProcStates, Stopped
  <2>2. procs' = [procs EXCEPT ![p] = s]
    BY <1>1, <1>6 DEF HeardWho
  <2>3. s.pc \notin Waiting \cup {"writing", "joining"} /\ s.pc \notin {"saying", "again", "sayingAgain", "twin"}
    BY <2>1 DEF Waiting
  <2> HIDE DEF s
  <2>4. QED
    BY <1>2, <1>3, <1>4, <2>1, <2>2, <2>3, SpeakerKeeps
<1>7. CASE serving[q].stage = "ok"
  <2> DEFINE s == [procs[p] EXCEPT !.pc = next, !.rev = serving[q].rev]
  <2>1. s \in ProcRecord /\ s.pc = next /\ s.rev = serving[q].rev /\ s.home = procs[p].home /\ s.node = procs[p].node
        /\ s.beside = procs[p].beside /\ s.blind = procs[p].blind
    BY <1>1, <1>3, <1>5 DEF ProcRecord
  <2>2. procs' = [procs EXCEPT ![p] = s] /\ procs'[p] = s
    BY <1>1, <1>7 DEF HeardWho, TypeOK
  <2> HIDE DEF s
  <2>3. s.rev <= Len(rows[procs[p].node].halves)
    BY <1>1, <1>2, <1>3, <1>7, <2>1 DEF Knows, RequestKnows
  <2>4. ASSUME Alone(p)'
        PROVE  Fresh(p)'
    <3>1. Alone(p) /\ Fresh(p)
      BY <1>1, <1>3, <2>1, <2>2, <2>4 DEF Alone, Reads
    <3>2. CASE procs[p].pc = "refreshing"
      <4>1. Behind(p, s.rev + 1)
        BY <1>2, <1>7, <2>1, <3>1, <3>2 DEF Fresh
      <4>2. \A o \in Req : Unwritten(o)' /\ serving'[o].node = procs'[p].node /\ serving'[o].from # p => serving'[o].rev < s.rev + 1
        BY <1>1, <2>1, <2>2, <4>1, BehindStays
      <4>3. s.pc = "saying"
        BY <1>5, <2>1, <3>2
      <4>4. QED
        BY <2>2, <4>2, <4>3 DEF Fresh, Behind, Unwritten
    <3>3. CASE procs[p].pc = "rereading"
      <4>1. Behind(p, Revision(procs[p].node)) /\ s.rev = Revision(procs[p].node)
        BY <1>2, <1>7, <2>1, <3>1, <3>3 DEF Fresh
      <4>2. \A o \in Req : Unwritten(o)' /\ serving'[o].node = procs'[p].node /\ serving'[o].from # p => serving'[o].rev < s.rev
        BY <1>1, <2>1, <2>2, <4>1, BehindStays
      <4>3. s.pc = "sayingAgain"
        BY <1>5, <2>1, <3>3
      <4>4. s.rev = Len(rows'[s.node].halves)
        BY <1>4, <2>1, <4>1 DEF Revision
      <4>5. QED
        BY <2>2, <4>2, <4>3, <4>4 DEF Fresh, Behind, Unwritten, Revision
    <3>4. QED
      BY <1>1, <3>2, <3>3
  <2>5. s.pc \notin Waiting \cup {"writing", "joining"} /\ s.pc # "twin" /\ s.pc \notin Stopped
    BY <1>5, <2>1
  <2>6. QED
    BY <1>2, <1>3, <1>4, <2>1, <2>2, <2>3, <2>4, <2>5, SpeakerKeeps
<1>8. CASE serving[q].stage \notin {"unauthorized", "ok"}
  <2> DEFINE s == [procs[p] EXCEPT !.pc = next, !.blind = TRUE]
  <2>1. s \in ProcRecord /\ s.pc = next /\ s.rev = procs[p].rev /\ s.home = procs[p].home /\ s.node = procs[p].node /\ s.blind = TRUE
    BY <1>1, <1>3, <1>5 DEF ProcRecord
  <2>2. procs' = [procs EXCEPT ![p] = s] /\ procs'[p] = s
    BY <1>1, <1>8 DEF HeardWho, TypeOK
  <2> HIDE DEF s
  <2>3. ~Alone(p)'
    BY <2>1, <2>2 DEF Alone
  <2>4. s.pc \notin Waiting \cup {"writing", "joining"} /\ s.pc # "twin"
    BY <1>5, <2>1
  <2>5. QED
    BY <1>2, <1>3, <1>4, <2>1, <2>2, <2>3, <2>4, SpeakerKeeps
<1>9. QED
  BY <1>6, <1>7, <1>8

\* The answer to an announcement: the second refusal in a row is a twin.
LEMMA HeardSayKeeps ==
    ASSUME Rest, AuditTellsTheRow, NEW p \in Proc, NEW q \in Req, HeardSay(p, q)
    PROVE  Rest' /\ AuditTellsTheRow'
<1>1. TypeOK /\ Waited /\ Knows /\ Reads /\ Hears(p, q) /\ procs[p].pc \in {"announcing", "reannouncing"} /\ procs[p] \in ProcRecord
  BY DEF Rest, Identity, HeardSay, TypeOK
<1>2. /\ LeavesRequests(p) /\ serving[q].what = AskedBy(procs[p].pc) /\ serving[q].node = procs[p].node
      /\ q \in OwnOf(p)
  BY <1>1, HearsMeans
<1>3. Speaks(p) /\ serving[q].what = "announce" /\ procs[p].node \in Node /\ serving[q].rev \in Nat
  BY <1>1, <1>2 DEF Speaks, Stopped, AskedBy, TypeOK, ProcRecord, Request
<1>4. UNCHANGED <<codes, rows, audit, files, cut>> /\ left' \in [Bounded -> Nat]
  BY <1>1 DEF HeardSay, TypeOK
<1>5. CASE serving[q].stage = "conflict"
  <2> DEFINE s == [procs[p] EXCEPT !.pc = AfterConflict(procs[p].pc)]
  <2>1. AfterConflict(procs[p].pc) \in {"again", "twin"} /\ (AfterConflict(procs[p].pc) = "again" <=> procs[p].pc = "announcing")
    BY DEF AfterConflict
  <2>2. s \in ProcRecord /\ s.pc = AfterConflict(procs[p].pc) /\ s.home = procs[p].home /\ s.node = procs[p].node /\ s.rev = procs[p].rev
        /\ s.beside = procs[p].beside /\ s.blind = procs[p].blind
    BY <1>1, <2>1 DEF ProcRecord, ProcStates, Stopped
  <2>3. procs' = [procs EXCEPT ![p] = s] /\ procs'[p] = s
    BY <1>1, <1>5 DEF HeardSay, TypeOK
  <2> HIDE DEF s
  <2>4. s.pc = "twin" => s.beside \/ s.blind
    BY <1>1, <1>2, <1>3, <1>5, <2>1, <2>2 DEF Reads, Alone, Fresh
  <2>5. ASSUME Alone(p)', s.pc = "again"
        PROVE  Fresh(p)'
    <3>1. Alone(p) /\ Fresh(p) /\ procs[p].pc = "announcing"
      BY <1>1, <1>3, <2>1, <2>2, <2>3, <2>5 DEF Alone, Reads
    <3>2. Behind(p, Revision(procs[p].node))
      BY <1>2, <1>5, <3>1 DEF Fresh
    <3>3. \A o \in Req : Unwritten(o)' /\ serving'[o].node = procs'[p].node /\ serving'[o].from # p => serving'[o].rev < Revision(procs[p].node)
      BY <1>1, <2>2, <2>3, <3>2, BehindStays
    <3>4. Revision(procs[p].node) = Len(rows'[s.node].halves)
      BY <1>4, <2>2 DEF Revision
    <3>5. QED
      BY <2>3, <2>5, <3>3, <3>4 DEF Fresh, Behind, Unwritten, Revision
  <2>6. s.pc \notin Waiting \cup {"writing", "joining"} /\ s.pc \notin {"saying", "sayingAgain"}
    BY <2>1, <2>2 DEF Waiting
  <2>7. QED
    BY <1>2, <1>3, <1>4, <2>2, <2>3, <2>4, <2>5, <2>6, SpeakerKeeps
<1>6. ASSUME NEW s \in ProcRecord, procs' = [procs EXCEPT ![p] = s], s.pc \in {"revoked", "up"}, s.home = procs[p].home, s.node = procs[p].node,
             s.rev = procs[p].rev \/ s.rev <= Len(rows[procs[p].node].halves)
      PROVE  Rest' /\ AuditTellsTheRow'
  <2>1. s.pc \notin Waiting \cup {"writing", "joining"} /\ s.pc \notin {"saying", "again", "sayingAgain", "twin"}
    BY <1>6 DEF Waiting
  <2>2. QED
    BY <1>2, <1>3, <1>4, <1>6, <2>1, SpeakerKeeps
<1>7. "revoked" \in ProcStates /\ "up" \in ProcStates
  BY DEF ProcStates, Stopped
<1>8. CASE serving[q].stage = "unauthorized"
  <2> DEFINE s == [procs[p] EXCEPT !.pc = "revoked"]
  <2>1. s \in ProcRecord /\ s.pc = "revoked" /\ s.home = procs[p].home /\ s.node = procs[p].node /\ s.rev = procs[p].rev
    BY <1>1, <1>7 DEF ProcRecord
  <2>2. procs' = [procs EXCEPT ![p] = s]
    BY <1>1, <1>8 DEF HeardSay
  <2> HIDE DEF s
  <2>3. QED
    BY <1>6, <2>1, <2>2
<1>9. CASE serving[q].stage = "ok"
  <2> DEFINE s == [procs[p] EXCEPT !.pc = "up", !.rev = serving[q].rev]
  <2>1. s \in ProcRecord /\ s.pc = "up" /\ s.home = procs[p].home /\ s.node = procs[p].node /\ s.rev = serving[q].rev
    BY <1>1, <1>3, <1>7 DEF ProcRecord
  <2>2. procs' = [procs EXCEPT ![p] = s]
    BY <1>1, <1>9 DEF HeardSay
  <2> HIDE DEF s
  <2>3. s.rev <= Len(rows[procs[p].node].halves)
    BY <1>1, <1>2, <1>3, <1>9, <2>1 DEF Knows, RequestKnows
  <2>4. QED
    BY <1>6, <2>1, <2>2, <2>3
<1>10. CASE serving[q].stage \notin {"unauthorized", "ok", "conflict"}
  <2> DEFINE s == [procs[p] EXCEPT !.pc = "up"]
  <2>1. s \in ProcRecord /\ s.pc = "up" /\ s.home = procs[p].home /\ s.node = procs[p].node /\ s.rev = procs[p].rev
    BY <1>1, <1>7 DEF ProcRecord
  <2>2. procs' = [procs EXCEPT ![p] = s]
    BY <1>1, <1>10 DEF HeardSay
  <2> HIDE DEF s
  <2>3. QED
    BY <1>6, <2>1, <2>2
<1>11. QED
  BY <1>5, <1>8, <1>9, <1>10

\* A process comes up from the folder that keeps its node.
LEMMA StartKnownKeeps ==
    ASSUME Rest, AuditTellsTheRow, NEW p \in Proc, NEW h \in Home, StartKnown(p, h)
    PROVE  Rest' /\ AuditTellsTheRow'
<1>1. TypeOK /\ Waited /\ Carried
  BY DEF Rest, Identity
<1>2. procs[p].pc \in Stopped /\ files[h] # None /\ UNCHANGED <<codes, rows, audit, serving, files, cut>> /\ procs' = [procs EXCEPT ![p] = Starts(p, h, "coming")]
  BY DEF StartKnown
<1>3. LeavesRequests(p)
  BY <1>1, <1>2, NothingAsked DEF Stopped, Waiting
<1>4. left' \in [Bounded -> Nat]
  BY <1>1, BudgetsAreTyped DEF StartKnown, Bounded
<1>5. files[h] \in Node /\ Born(files[h])
  BY <1>1, <1>2 DEF TypeOK, Carried
<1> DEFINE s == Starts(p, h, "coming")
<1>6. s \in ProcRecord /\ s.pc = "coming" /\ s.home = h /\ s.node = files[h] /\ s.rev = 0
  BY <1>5 DEF Starts, NoProcess, ProcRecord, ProcStates
<1>7. procs' \in [Proc -> ProcRecord] /\ procs'[p] = s /\ \A r \in Proc \ {p} : procs'[r] = procs[r]
  BY <1>1, <1>2, <1>6 DEF TypeOK
<1> HIDE DEF s
<1>8. Carried' /\ CarriedOnce'
  BY <1>2, <1>3, <1>6, <1>7, LeavingIdentities
<1>9. files' \in [Home -> Node \cup {None}] /\ procs'[p].pc \notin Waiting /\ procs'[p].pc \notin {"saying", "again", "sayingAgain", "twin"}
  BY <1>1, <1>2, <1>6, <1>7 DEF TypeOK, Waiting
<1>10. QED
  BY <1>2, <1>3, <1>4, <1>5, <1>6, <1>7, <1>8, <1>9, LeavingKeeps

\* The identity passes from the answer to the process that will write it down.
LEMMA JoinedKeeps ==
    ASSUME Rest, AuditTellsTheRow, NEW p \in Proc, NEW q \in Req, Joined(p, q)
    PROVE  Rest' /\ AuditTellsTheRow'
<1>1. TypeOK /\ Staged /\ Waited /\ Carried /\ CarriedOnce /\ Hears(p, q) /\ procs[p].pc = "joining" /\ procs[p] \in ProcRecord
  BY DEF Rest, Identity, Joined, TypeOK
<1>2. LeavesRequests(p) /\ serving[q].what = "worker" /\ procs[p].home \in Home
  BY <1>1, HearsMeans DEF AskedBy, Carried, Stopped
<1>3. UNCHANGED <<codes, rows, audit, files, cut>> /\ left' \in [Bounded -> Nat]
  BY <1>1 DEF Joined, TypeOK
<1>4. CASE serving[q].stage # "ok"
  <2> DEFINE s == [procs[p] EXCEPT !.pc = "failed"]
  <2>1. s \in ProcRecord /\ s.pc = "failed" /\ s.pc \in Stopped
    BY <1>1 DEF ProcRecord, ProcStates, Stopped
  <2>2. procs' = [procs EXCEPT ![p] = s]
    BY <1>4 DEF Joined, Enrols
  <2>3. s.pc \notin Waiting \cup {"writing", "joining"} /\ s.pc \notin {"saying", "again", "sayingAgain", "twin"}
    BY <2>1 DEF Waiting
  <2> HIDE DEF s
  <2>4. QED
    BY <1>2, <1>3, <2>1, <2>2, <2>3, SpeakerKeeps
<1>5. CASE serving[q].stage = "ok"
  <2> DEFINE n == serving[q].node
             s == [procs[p] EXCEPT !.pc = "writing", !.node = n]
  <2>1. Bears(q) /\ n \in Node /\ Born(n)
    BY <1>1, <1>2, <1>5 DEF Carried, Roles
  <2>2. s \in ProcRecord /\ s.pc = "writing" /\ s.home = procs[p].home /\ s.node = n
    BY <1>1, <2>1 DEF ProcRecord, ProcStates
  <2>3. procs' = [procs EXCEPT ![p] = s]
    BY <1>5 DEF Joined, Enrols
  <2>4. procs' \in [Proc -> ProcRecord] /\ procs'[p] = s /\ \A r \in Proc \ {p} : procs'[r] = procs[r]
    BY <1>1, <2>2, <2>3 DEF TypeOK
  <2> HIDE DEF s
  <2>5. \A o \in Req : Bears(o)' => o # q /\ Bears(o) /\ serving'[o] = serving[o]
    <3> TAKE o \in Req
    <3> HAVE Bears(o)'
    <3>1. o # q
      BY <1>1, NoRequestIsARequest DEF Hears, TypeOK
    <3>2. serving'[o] = serving[o]
      BY <1>1, <3>1 DEF Hears
    <3>3. QED
      BY <3>1, <3>2
  <2>6. \A r \in Proc : Writes(r)' => (r = p /\ procs'[r].node = n) \/ (r # p /\ Writes(r) /\ procs'[r].node = procs[r].node)
    BY <2>2, <2>4
  <2>7. Carried'
    <3>1. \A o \in Req : Bears(o)' => /\ serving'[o].node \in Node /\ codes'[serving'[o].code].by = serving'[o].node
                                    /\ (rows'[serving'[o].node].halves # <<>> <=> serving'[o].stage # "spent")
      BY <1>1, <1>3, <2>5 DEF Carried
    <3>2. \A r \in Proc : Writes(r)' => procs'[r].node \in Node /\ rows'[procs'[r].node].halves # <<>>
      BY <1>1, <1>3, <2>1, <2>6 DEF Carried
    <3>3. \A r \in Proc : procs'[r].pc \notin Stopped => procs'[r].home \in Home
      BY <1>1, <1>2, <2>2, <2>4 DEF Carried
    <3>4. QED
      BY <1>1, <1>3, <3>1, <3>2, <3>3 DEF Carried
  <2>8. CarriedOnce'
    <3>1. \A c, d \in Code : codes'[c].by = codes'[d].by /\ codes'[c].by # None => c = d
      BY <1>1, <1>3 DEF CarriedOnce
    <3>2. \A o, r \in Req : Bears(o)' /\ Bears(r)' /\ serving'[o].node = serving'[r].node => o = r
      BY <1>1, <2>5 DEF CarriedOnce
    <3>3. \A r, t \in Proc : Writes(r)' /\ Writes(t)' /\ procs'[r].node = procs'[t].node => r = t
      <4>1. \A r \in Proc : Writes(r) => procs[r].node # n
        BY <1>1, <2>1 DEF CarriedOnce
      <4>2. QED
        BY <1>1, <2>6, <4>1 DEF CarriedOnce
    <3>4. \A o \in Req, r \in Proc : Bears(o)' /\ Writes(r)' => serving'[o].node # procs'[r].node
      <4>1. \A o \in Req : Bears(o) /\ o # q => serving[o].node # n
        BY <1>1, <2>1 DEF CarriedOnce
      <4>2. QED
        BY <1>1, <2>5, <2>6, <4>1 DEF CarriedOnce
    <3>5. \A o \in Req, h \in Home : Bears(o)' => files'[h] # serving'[o].node
      BY <1>1, <1>3, <2>5 DEF CarriedOnce
    <3>6. \A r \in Proc, h \in Home : Writes(r)' => files'[h] # procs'[r].node
      <4>1. \A h \in Home : files[h] # n
        BY <1>1, <2>1 DEF CarriedOnce
      <4>2. QED
        BY <1>1, <1>3, <2>6, <4>1 DEF CarriedOnce
    <3>7. QED
      BY <1>1, <1>3, <3>1, <3>2, <3>3, <3>4, <3>5, <3>6 DEF CarriedOnce
  <2>9. ~Speaks(p)' /\ procs'[p].pc \notin Waiting /\ procs'[p].pc \notin {"saying", "again", "sayingAgain", "twin"}
    BY <2>2, <2>4 DEF Speaks, Waiting
  <2>10. files' \in [Home -> Node \cup {None}]
    BY <1>1, <1>3 DEF TypeOK
  <2>11. QED
    BY <1>2, <1>3, <2>4, <2>7, <2>8, <2>9, <2>10, LeavingKeeps
<1>6. QED
  BY <1>4, <1>5

\* The identity passes from the process to the folder, if no other was written there first.
LEMMA WriteFileKeeps ==
    ASSUME Rest, AuditTellsTheRow, Unread, NEW p \in Proc, WriteFile(p)
    PROVE  Rest' /\ AuditTellsTheRow'
<1>1. TypeOK /\ Staged /\ Waited /\ Carried /\ CarriedOnce /\ procs[p].pc = "writing" /\ procs[p] \in ProcRecord
  BY DEF Rest, Identity, WriteFile, TypeOK
<1>2. UNCHANGED <<codes, rows, audit, serving, cut, left>> /\ left' \in [Bounded -> Nat] /\ procs[p].rev = 0
  BY <1>1 DEF WriteFile, TypeOK, Unread
<1>3. LeavesRequests(p)
  BY <1>1, <1>2, NothingAsked DEF Waiting
<1> PICK h \in Home : h = procs[p].home
  BY <1>1 DEF Carried, Stopped
<1> PICK n \in Node : n = procs[p].node
  BY <1>1 DEF Carried
<1>4. Writes(p) /\ Born(n) /\ n # None
  BY <1>1, NoneIsNothing DEF Carried
<1>5. CASE files[h] # None
  <2> DEFINE s == [procs[p] EXCEPT !.pc = "failed"]
  <2>1. s \in ProcRecord /\ s.pc = "failed" /\ s.pc \in Stopped
    BY <1>1 DEF ProcRecord, ProcStates, Stopped
  <2>2. procs' = [procs EXCEPT ![p] = s] /\ files' = files
    BY <1>5 DEF WriteFile, Creates
  <2>3. s.pc \notin Waiting \cup {"writing", "joining"} /\ s.pc \notin {"saying", "again", "sayingAgain", "twin"}
    BY <2>1 DEF Waiting
  <2> HIDE DEF s
  <2>4. QED
    BY <1>2, <1>3, <2>1, <2>2, <2>3, SpeakerKeeps
<1>6. CASE files[h] = None
  <2> DEFINE s == [procs[p] EXCEPT !.pc = "coming"]
  <2>1. s \in ProcRecord /\ s.pc = "coming" /\ s.home = h /\ s.node = n /\ s.rev = 0
    BY <1>1, <1>2 DEF ProcRecord, ProcStates
  <2>2. procs' = [procs EXCEPT ![p] = s] /\ files' = [files EXCEPT ![h] = n]
    BY <1>6 DEF WriteFile, Creates
  <2>3. procs' \in [Proc -> ProcRecord] /\ procs'[p] = s /\ \A r \in Proc \ {p} : procs'[r] = procs[r]
    BY <1>1, <2>1, <2>2 DEF TypeOK
  <2>4. /\ files' \in [Home -> Node \cup {None}] /\ files'[h] = n /\ (\A g \in Home \ {h} : files'[g] = files[g])
        /\ (\A g \in Home : files[g] # None => files'[g] = files[g]) /\ \A g \in Home : files[g] # n
    BY <1>1, <1>4, <1>6, <2>2 DEF TypeOK, CarriedOnce
  <2> HIDE DEF s
  <2>5. \A r \in Proc : Writes(r)' => r # p /\ Writes(r) /\ procs'[r] = procs[r] /\ procs[r].node # n
    BY <1>1, <1>4, <2>1, <2>3 DEF CarriedOnce
  <2>6. \A o \in Req : Bears(o) => serving[o].node # n
    BY <1>1, <1>4 DEF CarriedOnce
  <2>7. Carried'
    <3>1. \A r \in Proc : Writes(r)' => procs'[r].node \in Node /\ rows'[procs'[r].node].halves # <<>>
      BY <1>1, <1>2, <2>5 DEF Carried
    <3>2. \A r \in Proc : procs'[r].pc \notin Stopped => procs'[r].home \in Home
      BY <1>1, <2>1, <2>3 DEF Carried
    <3>3. \A g \in Home : files'[g] # None => rows'[files'[g]].halves # <<>>
      BY <1>1, <1>2, <1>4, <2>4 DEF Carried
    <3>4. QED
      BY <1>1, <1>2, <3>1, <3>2, <3>3 DEF Carried
  <2>8. CarriedOnce'
    <3>1. \A r, t \in Proc : Writes(r)' /\ Writes(t)' /\ procs'[r].node = procs'[t].node => r = t
      BY <1>1, <2>5 DEF CarriedOnce
    <3>2. \A g, k \in Home : files'[g] = files'[k] /\ files'[g] # None => g = k
      BY <1>1, <2>4 DEF CarriedOnce
    <3>3. \A o \in Req, r \in Proc : Bears(o) /\ Writes(r)' => serving[o].node # procs'[r].node
      BY <1>1, <2>5 DEF CarriedOnce
    <3>4. \A o \in Req, g \in Home : Bears(o) => files'[g] # serving[o].node
      BY <1>1, <2>4, <2>6 DEF CarriedOnce
    <3>5. \A r \in Proc, g \in Home : Writes(r)' => files'[g] # procs'[r].node
      BY <1>1, <2>4, <2>5 DEF CarriedOnce
    <3>6. QED
      BY <1>1, <1>2, <3>1, <3>2, <3>3, <3>4, <3>5 DEF CarriedOnce
  <2>9. procs'[p].pc \notin Waiting /\ procs'[p].pc \notin {"saying", "again", "sayingAgain", "twin"}
    BY <2>1, <2>3 DEF Waiting
  <2>10. QED
    BY <1>2, <1>3, <1>4, <2>1, <2>3, <2>4, <2>7, <2>8, <2>9, LeavingKeeps
<1>7. QED
  BY <1>5, <1>6

-------------------------------------------------------------------------------
(* A request is posted *)

\* r is posted in the free place q: by the process p, which waited for none, or by the user.
Posts(q, r) ==
    /\ Free(q) /\ r \in Request /\ r.stage = "sent"
    /\ serving' = [serving EXCEPT ![q] = r]
    /\ UNCHANGED <<codes, rows, audit, files, cut>>
    /\ left' \in [Bounded -> Nat] /\ procs' \in [Proc -> ProcRecord]
PostedBy(p, r) ==
    /\ procs[p].pc \notin Waiting /\ procs'[p].pc \in Waiting
    /\ r.from = p /\ r.what = AskedBy(procs'[p].pc)
    /\ procs'[p].pc # "joining" => r.node = procs'[p].node
    /\ procs'[p].pc = "announcing" => r.rev = procs'[p].rev
    /\ \A t \in Proc \ {p} : /\ procs'[t].pc = procs[t].pc /\ procs'[t].home = procs[t].home
                             /\ procs'[t].node = procs[t].node /\ procs'[t].rev = procs[t].rev
                             /\ procs'[t].blind = procs[t].blind /\ (procs[t].beside => procs'[t].beside)

\* What posting leaves of the requests.
LEMMA PostMeans ==
    ASSUME TypeOK, NEW q \in Req, NEW r, Posts(q, r)
    PROVE  /\ serving' \in [Req -> Request] /\ serving'[q] = r /\ (\A o \in Req \ {q} : serving'[o] = serving[o])
           /\ Owes(q) = {}
BY DEF Posts, TypeOK, Owes

\* Nobody gets two answers, or the answer of another.
LEMMA WaitedPosted ==
    ASSUME TypeOK, Waited, NEW q \in Req, NEW r, Posts(q, r),
           (r.from = None /\ procs' = procs) \/ \E p \in Proc : PostedBy(p, r)
    PROVE  Waited'
<1>1. serving' \in [Req -> Request] /\ serving'[q] = r /\ \A o \in Req \ {q} : serving'[o] = serving[o]
  BY PostMeans
<1>2. r.stage = "sent" /\ r \in Request
  BY DEF Posts
<1>3. CASE r.from = None /\ procs' = procs
  <2>1. \A o \in Req : serving'[o].from # None => o # q /\ serving'[o] = serving[o]
    BY <1>1, <1>3
  <2>2. QED
    BY <1>1, <1>3, <2>1 DEF Waited
<1>4. ASSUME NEW p \in Proc, PostedBy(p, r)
      PROVE  Waited'
  <2>1. \A o \in Req : serving[o].from # p
    BY <1>4, NoneIsNothing DEF Waited, PostedBy
  <2>2. \A o \in Req \ {q} : serving'[o].from # None =>
            /\ serving'[o] = serving[o] /\ serving[o].from \in Proc \ {p}
            /\ procs'[serving[o].from].pc = procs[serving[o].from].pc /\ procs'[serving[o].from].node = procs[serving[o].from].node
            /\ procs'[serving[o].from].rev = procs[serving[o].from].rev
    BY <1>1, <1>4, <2>1 DEF PostedBy, TypeOK, Request
  <2>3. ASSUME NEW o \in Req, serving'[o].from # None
        PROVE  /\ procs'[serving'[o].from].pc \in Waiting /\ serving'[o].what = AskedBy(procs'[serving'[o].from].pc)
               /\ (procs'[serving'[o].from].pc # "joining" => serving'[o].node = procs'[serving'[o].from].node)
               /\ (procs'[serving'[o].from].pc = "announcing" /\ serving'[o].stage \in {"sent", "let", "read"} =>
                     serving'[o].rev = procs'[serving'[o].from].rev)
    <3>1. CASE o = q
      BY <1>1, <1>4, <3>1 DEF PostedBy
    <3>2. CASE o # q
      BY <2>2, <2>3, <3>2 DEF Waited
    <3>3. QED
      BY <3>1, <3>2
  <2>4. \A o, t \in Req : o # t /\ serving'[o].from # None => serving'[o].from # serving'[t].from
    BY <1>1, <1>4, <2>1 DEF Waited, PostedBy
  <2>5. QED
    BY <2>3, <2>4 DEF Waited
<1>5. QED
  BY <1>3, <1>4

\* An announcement of another process leaves nobody alone; other requests leave everyone as fresh as they were.
LEMMA ReadsPosted ==
    ASSUME TypeOK, Reads, Waited, NEW q \in Req, NEW r, Posts(q, r),
           \/ r.from = None /\ procs' = procs /\ r.what # "announce"
           \/ \E p \in Proc : /\ PostedBy(p, r) /\ (Alone(p)' => Fresh(p)')
                              /\ r.what = "announce" => \A t \in Proc \ {p} : procs[t].node = r.node => procs'[t].beside
    PROVE  Reads'
<1> SUFFICES ASSUME NEW t \in Proc, Alone(t)'
             PROVE  Fresh(t)'
  BY DEF Reads
<1>1. serving' \in [Req -> Request] /\ serving'[q] = r /\ (\A o \in Req \ {q} : serving'[o] = serving[o]) /\ rows' = rows
  BY PostMeans DEF Posts
<1>2. ASSUME procs'[t].pc = procs[t].pc, procs'[t].node = procs[t].node, procs'[t].rev = procs[t].rev,
             procs'[t].blind = procs[t].blind, procs[t].beside => procs'[t].beside, r.from # t,
             r.what = "announce" => r.node # procs[t].node
      PROVE  Fresh(t)'
  <2>1. Fresh(t)
    BY <1>2 DEF Reads, Alone, Speaks
  <2>2. \A o \in Req : serving'[o].from = t => serving'[o] = serving[o]
    BY <1>1, <1>2
  <2>3. \A o \in Req : Unwritten(o)' /\ serving'[o].node = procs[t].node => o # q /\ serving'[o] = serving[o]
    BY <1>1, <1>2 DEF Unwritten
  <2>4. QED
    BY <1>1, <1>2, <2>1, <2>2, <2>3, FreshStays DEF Unwritten
<1>3. CASE r.from = None /\ procs' = procs /\ r.what # "announce"
  BY <1>2, <1>3, NoneIsNothing
<1>4. ASSUME NEW p \in Proc, PostedBy(p, r), Alone(p)' => Fresh(p)',
             r.what = "announce" => \A u \in Proc \ {p} : procs[u].node = r.node => procs'[u].beside
      PROVE  Fresh(t)'
  <2>1. CASE t = p
    BY <1>4, <2>1
  <2>2. CASE t # p
    BY <1>2, <1>4, <2>2 DEF PostedBy, Alone
  <2>3. QED
    BY <2>1, <2>2
<1>5. QED
  BY <1>3, <1>4

\* Posting a request keeps the invariant when what it names is there.
LEMMA PostingKeeps ==
    ASSUME Rest, AuditTellsTheRow, NEW q \in Req, NEW r, Posts(q, r),
           r.what \notin Roles => r.node # None /\ Born(r.node),
           r.what \in Roles => r.code \in Code /\ codes[r.code].offered,
           r.what \in {"whoami", "announce", "heartbeat"} => Kept(r.node),
           r.what = "announce" => r.rev <= Len(rows[r.node].halves),
           \A t \in Proc : /\ Speaks(t)' => /\ Speaks(t) /\ procs'[t].home = procs[t].home /\ procs'[t].node = procs[t].node
                                            /\ procs'[t].rev = procs[t].rev
                           /\ Writes(t)' => Writes(t) /\ procs'[t].node = procs[t].node
                           /\ procs'[t].pc \notin Stopped => procs'[t].home \in Home,
           Waited', Reads', TwinMeansTwo'
    PROVE  Rest' /\ AuditTellsTheRow'
<1>1. TypeOK /\ Staged /\ Waited /\ Carried /\ CarriedOnce /\ SpokenFor /\ Knows
  BY DEF Rest, Identity
<1>2. serving' \in [Req -> Request] /\ serving'[q] = r /\ (\A o \in Req \ {q} : serving'[o] = serving[o]) /\ Owes(q) = {}
  BY <1>1, PostMeans
<1>3. UNCHANGED <<codes, rows, audit, files, cut>> /\ left' \in [Bounded -> Nat] /\ procs' \in [Proc -> ProcRecord]
      /\ r \in Request /\ r.stage = "sent"
  BY DEF Posts
<1>4. TypeOK'
  <2>1. \A o \in Req : serving'[o].what \notin Roles /\ (~Free(o))' => serving'[o].node # None /\ rows'[serving'[o].node].halves # <<>>
    BY <1>1, <1>2, <1>3, ZenonT(40) DEF TypeOK
  <2>2. \A t \in Proc : Speaks(t)' => procs'[t].node # None /\ rows'[procs'[t].node].halves # <<>>
    BY <1>1, <1>3 DEF TypeOK
  <2>3. QED
    BY <1>1, <1>2, <1>3, <2>1, <2>2 DEF TypeOK
<1>5. Staged'
  <2>1. ASSUME NEW o \in Req
        PROVE  /\ (~Free(o))' => serving'[o].stage \in StagesOf(serving'[o].what)
               /\ serving'[o].from = None => serving'[o].stage \notin Answers
               /\ Free(o)' => serving'[o].from = None
               /\ (~Free(o))' /\ serving'[o].what \in Roles => serving'[o].code \in Code /\ codes'[serving'[o].code].offered
    <3>1. CASE o = q
      BY <1>2, <1>3, <3>1 DEF StagesOf, Answers
    <3>2. CASE o # q
      BY <1>1, <1>2, <1>3, <3>2 DEF Staged
    <3>3. QED
      BY <3>1, <3>2
  <2>2. QED
    BY <2>1 DEF Staged
<1>6. Carried' /\ CarriedOnce'
  <2>1. \A o \in Req : Bears(o)' => o # q /\ Bears(o) /\ serving'[o] = serving[o]
    BY <1>2, <1>3
  <2>2. IdentitiesStay
    BY <1>3, <2>1 DEF IdentitiesStay
  <2>3. QED
    BY <1>1, <2>2, IdentitiesKept
<1>7. SpokenFor'
  <2>1. \A n \in Node : rows'[n].seen \/ Revision(n)' > 1 => rows[n].seen \/ Revision(n) > 1 \/ Kept(n)
    BY <1>3 DEF Revision
  <2>2. \A t \in Proc : Speaks(t) => procs[t].home \in Home /\ procs[t].node # None
    BY <1>1 DEF Carried, Speaks, TypeOK
  <2>3. \A o \in Req : (~Free(o))' /\ serving'[o].what \in {"whoami", "announce", "heartbeat"} =>
              \/ (~Free(o) /\ serving[o].what \in {"whoami", "announce", "heartbeat"} /\ serving'[o].node = serving[o].node)
              \/ Kept(serving'[o].node)
    BY <1>2
  <2>4. \A o \in Req : (~Free(o))' /\ serving'[o].what \in {"whoami", "announce", "heartbeat"} => serving'[o].node # None
    BY <1>4 DEF TypeOK, Roles
  <2>5. \A h \in Home : files[h] # None => files'[h] = files[h]
    BY <1>3
  <2>6. QED
    BY <1>1, <2>1, <2>2, <2>3, <2>4, <2>5, SpokenForKept
<1>8. Knows'
  <2>1. RequestKnows(serving'[q], rows'[serving'[q].node])
    BY <1>2, <1>3 DEF RequestKnows
  <2>2. RowsGrow
    BY <1>1, <1>3 DEF RowsGrow, Grows, TypeOK
  <2>3. \A o \in Req : serving'[o] = serving[o] \/ RequestKnows(serving'[o], rows'[serving'[o].node])
    BY <1>2, <2>1
  <2>4. QED
    BY <1>1, <1>4, <2>2, <2>3, KnowsKept
<1>9. AuditTellsTheRow'
  <2>1. \A o \in Req : Owes(o) \subseteq Owes(o)' \cup cut'
    BY <1>2 DEF Owes
  <2>2. QED
    BY <1>1, <1>3, <1>4, <2>1, NothingTold
<1>10. QED
  BY <1>4, <1>5, <1>6, <1>7, <1>8, <1>9 DEF Rest, Identity

\* A browser presents a code; nobody waits for the answer.
LEMMA PasteKeeps ==
    ASSUME Rest, AuditTellsTheRow, NEW c \in Code, NEW q \in Req, Paste(c, q)
    PROVE  Rest' /\ AuditTellsTheRow'
<1>1. TypeOK /\ Waited /\ Reads /\ TwinMeansTwo /\ Carried
  BY DEF Rest, Identity
<1> DEFINE r == [Asking(None, "companion", None) EXCEPT !.code = c]
<1>2. r \in Request /\ r.stage = "sent" /\ r.from = None /\ r.what = "companion" /\ r.code = c
  BY DEF Asking, NoRequest, Request, Stages, Asks, Roles
<1>3. serving' = [serving EXCEPT ![q] = r] /\ UNCHANGED <<codes, rows, audit, procs, files, cut>> /\ Free(q) /\ codes[c].offered
  BY DEF Paste
<1> HIDE DEF r
<1>4. Posts(q, r)
  BY <1>1, <1>2, <1>3, BudgetsAreTyped DEF Posts, Paste, Bounded, TypeOK
<1>5. Waited' /\ Reads'
  BY <1>1, <1>2, <1>3, <1>4, WaitedPosted, ReadsPosted
<1>6. TwinMeansTwo'
  BY <1>1, <1>3 DEF TwinMeansTwo
<1>7. \A t \in Proc : /\ Speaks(t)' => Speaks(t) /\ procs'[t] = procs[t]
                      /\ Writes(t)' => Writes(t) /\ procs'[t] = procs[t]
                      /\ procs'[t].pc \notin Stopped => procs'[t].home \in Home
  BY <1>1, <1>3 DEF Speaks, Carried
<1>8. QED
  BY <1>2, <1>3, <1>4, <1>5, <1>6, <1>7, PostingKeeps DEF Roles

\* The user asks for the revocation of a node that has a row.
LEMMA AskRevokeKeeps ==
    ASSUME Rest, AuditTellsTheRow, NEW n \in Node, NEW q \in Req, AskRevoke(n, q)
    PROVE  Rest' /\ AuditTellsTheRow'
<1>1. TypeOK /\ Waited /\ Reads /\ TwinMeansTwo /\ Carried
  BY DEF Rest, Identity
<1> DEFINE r == Asking(None, "revoke", n)
<1>2. r \in Request /\ r.stage = "sent" /\ r.from = None /\ r.what = "revoke" /\ r.node = n /\ n # None
  BY NoneIsNothing DEF Asking, NoRequest, Request, Stages, Asks
<1>3. serving' = [serving EXCEPT ![q] = r] /\ UNCHANGED <<codes, rows, audit, procs, files, cut>> /\ Free(q) /\ Born(n)
  BY DEF AskRevoke
<1> HIDE DEF r
<1>4. Posts(q, r)
  BY <1>1, <1>2, <1>3, BudgetsAreTyped DEF Posts, AskRevoke, Bounded, TypeOK
<1>5. Waited' /\ Reads'
  BY <1>1, <1>2, <1>3, <1>4, WaitedPosted, ReadsPosted
<1>6. TwinMeansTwo'
  BY <1>1, <1>3 DEF TwinMeansTwo
<1>7. \A t \in Proc : /\ Speaks(t)' => Speaks(t) /\ procs'[t] = procs[t]
                      /\ Writes(t)' => Writes(t) /\ procs'[t] = procs[t]
                      /\ procs'[t].pc \notin Stopped => procs'[t].home \in Home
  BY <1>1, <1>3 DEF Speaks, Carried
<1>8. QED
  BY <1>2, <1>3, <1>4, <1>5, <1>6, <1>7, PostingKeeps DEF Roles

\* A new machine presents its code.
LEMMA StartJoinKeeps ==
    ASSUME Rest, AuditTellsTheRow, NEW p \in Proc, NEW h \in Home, NEW c \in Code, NEW q \in Req, NEW tools \in SUBSET Tool,
           StartJoin(p, h, c, q, tools)
    PROVE  Rest' /\ AuditTellsTheRow'
<1>1. TypeOK /\ Waited /\ Reads /\ TwinMeansTwo /\ Carried /\ procs[p].pc \in Stopped
  BY DEF Rest, Identity, StartJoin
<1> DEFINE r == [Asking(p, "worker", None) EXCEPT !.code = c, !.tools = tools]
          s == Starts(p, h, "joining")
<1>2. r \in Request /\ r.stage = "sent" /\ r.from = p /\ r.what = "worker" /\ r.code = c
  BY DEF Asking, NoRequest, Request, Stages, Asks, Roles
<1>3. s \in ProcRecord /\ s.pc = "joining" /\ s.home = h
  BY <1>1 DEF Starts, NoProcess, ProcRecord, ProcStates, Waiting, TypeOK
<1>4. serving' = [serving EXCEPT ![q] = r] /\ UNCHANGED <<codes, rows, audit, files, cut>> /\ Free(q) /\ codes[c].offered
      /\ procs' = [procs EXCEPT ![p] = s]
  BY DEF StartJoin
<1> HIDE DEF r, s
<1>5. procs' \in [Proc -> ProcRecord] /\ procs'[p] = s /\ \A t \in Proc \ {p} : procs'[t] = procs[t]
  BY <1>1, <1>3, <1>4 DEF TypeOK
<1>6. Posts(q, r)
  BY <1>1, <1>2, <1>4, <1>5, BudgetsAreTyped DEF Posts, StartJoin, Bounded
<1>7. PostedBy(p, r)
  BY <1>1, <1>2, <1>3, <1>5 DEF PostedBy, Waiting, Stopped, AskedBy
<1>8. ~Alone(p)' /\ r.what # "announce"
  BY <1>2, <1>3, <1>5 DEF Alone, Speaks
<1>9. Waited' /\ Reads'
  BY <1>1, <1>6, <1>7, <1>8, WaitedPosted, ReadsPosted
<1>10. TwinMeansTwo'
  BY <1>1, <1>3, <1>5 DEF TwinMeansTwo
<1>11. \A t \in Proc : /\ Speaks(t)' => Speaks(t) /\ procs'[t] = procs[t]
                       /\ Writes(t)' => Writes(t) /\ procs'[t] = procs[t]
                       /\ procs'[t].pc \notin Stopped => procs'[t].home \in Home
  BY <1>1, <1>3, <1>5 DEF Speaks, Carried
<1>12. QED
  BY <1>2, <1>4, <1>6, <1>9, <1>10, <1>11, PostingKeeps DEF Roles

\* What a process that speaks may name: its node, which has a row and a folder.
LEMMA SpeakerIsKept ==
    ASSUME Rest, NEW p \in Proc, Speaks(p)
    PROVE  /\ procs[p] \in ProcRecord /\ procs[p].node \in Node /\ procs[p].node # None /\ Born(procs[p].node) /\ Kept(procs[p].node)
           /\ procs[p].home \in Home /\ procs[p].rev \in Nat /\ procs[p].rev <= Revision(procs[p].node)
<1>1. TypeOK /\ Carried /\ SpokenFor /\ Knows
  BY DEF Rest, Identity
<1>2. procs[p] \in ProcRecord /\ procs[p].node # None /\ Born(procs[p].node)
  BY <1>1 DEF TypeOK
<1>3. procs[p].home \in Home /\ files[procs[p].home] = procs[p].node
  BY <1>1 DEF Carried, SpokenFor, Speaks
<1>4. QED
  BY <1>1, <1>2, <1>3 DEF Knows, Kept, ProcRecord

\* The state s of a process that posts a request in the name of its node.
LEMMA SpeakerPosts ==
    ASSUME Rest, AuditTellsTheRow, NEW p \in Proc, NEW q \in Req, NEW r, Posts(q, r), PostedBy(p, r), Speaks(p), Speaks(p)',
           procs'[p].home = procs[p].home, procs'[p].node = procs[p].node, procs'[p].rev = procs[p].rev,
           procs'[p].pc # "joining", r.what # "announce" \/ r.rev = procs[p].rev,
           Alone(p)' => Fresh(p)',
           r.what = "announce" => \A t \in Proc \ {p} : procs[t].node = r.node => procs'[t].beside
    PROVE  Rest' /\ AuditTellsTheRow'
<1>1. TypeOK /\ Waited /\ Reads /\ TwinMeansTwo /\ Carried
  BY DEF Rest, Identity
<1>2. r.node = procs[p].node /\ r.what \notin Roles /\ r.what \in Asks
  BY DEF PostedBy, AskedBy, Roles, Asks, Waiting
<1>3. r.node # None /\ Born(r.node) /\ Kept(r.node) /\ procs[p].home \in Home
      /\ (r.what = "announce" => r.rev <= Len(rows[r.node].halves))
  BY <1>2, SpeakerIsKept DEF Revision
<1>4. Waited'
  BY <1>1, WaitedPosted
<1>5. Reads'
  BY <1>1, ReadsPosted
<1>6. TwinMeansTwo'
  BY <1>1 DEF TwinMeansTwo, PostedBy, Waiting
<1>7. \A t \in Proc : /\ Speaks(t)' => /\ Speaks(t) /\ procs'[t].home = procs[t].home /\ procs'[t].node = procs[t].node
                                       /\ procs'[t].rev = procs[t].rev
                      /\ Writes(t)' => Writes(t) /\ procs'[t].node = procs[t].node
                      /\ procs'[t].pc \notin Stopped => procs'[t].home \in Home
  <2> TAKE t \in Proc
  <2>1. CASE t = p
    BY <1>3, <2>1 DEF Speaks
  <2>2. CASE t # p
    BY <1>1, <2>2 DEF Speaks, Carried, PostedBy
  <2>3. QED
    BY <2>1, <2>2
<1>8. QED
  BY <1>2, <1>3, <1>4, <1>5, <1>6, <1>7, PostingKeeps

\* A heartbeat is posted.
LEMMA ReportKeeps ==
    ASSUME Rest, AuditTellsTheRow, NEW p \in Proc, NEW q \in Req, Report(p, q)
    PROVE  Rest' /\ AuditTellsTheRow'
<1>1. TypeOK /\ procs[p].pc = "up" /\ Speaks(p)
  BY DEF Rest, Report, Speaks, Stopped
<1>2. procs[p] \in ProcRecord /\ procs[p].node \in Node /\ p # None
  BY <1>1, SpeakerIsKept, NoneIsNothing
<1> DEFINE r == Asking(p, "heartbeat", procs[p].node)
          s == [procs[p] EXCEPT !.pc = "reporting"]
<1>3. r \in Request /\ r.stage = "sent" /\ r.from = p /\ r.what = "heartbeat" /\ r.node = procs[p].node
  BY <1>2 DEF Asking, NoRequest, Request, Stages, Asks
<1>4. s \in ProcRecord /\ s.pc = "reporting" /\ s.home = procs[p].home /\ s.node = procs[p].node /\ s.rev = procs[p].rev
  BY <1>2 DEF ProcRecord, ProcStates, Waiting
<1>5. serving' = [serving EXCEPT ![q] = r] /\ procs' = [procs EXCEPT ![p] = s] /\ UNCHANGED <<codes, rows, audit, files, cut, left>> /\ Free(q)
  BY DEF Report
<1> HIDE DEF r, s
<1>6. procs' \in [Proc -> ProcRecord] /\ procs'[p] = s /\ \A t \in Proc \ {p} : procs'[t] = procs[t]
  BY <1>1, <1>4, <1>5 DEF TypeOK
<1>7. Posts(q, r)
  BY <1>1, <1>3, <1>5, <1>6 DEF Posts, TypeOK
<1>8. PostedBy(p, r)
  BY <1>1, <1>3, <1>4, <1>6 DEF PostedBy, Waiting, AskedBy
<1>9. Fresh(p)' /\ Speaks(p)'
  BY <1>4, <1>6 DEF Fresh, Speaks, Stopped
<1>10. QED
  BY <1>1, <1>3, <1>4, <1>6, <1>7, <1>8, <1>9, SpeakerPosts

\* A process that waits for nothing has no request; the one it posts is its only one.
LEMMA OwnPosted ==
    ASSUME TypeOK, Waited, NEW p \in Proc, NEW q \in Req, NEW r, Posts(q, r), PostedBy(p, r)
    PROVE  \A o \in Req : serving'[o].from = p => serving'[o] = r
<1>1. \A o \in Req : serving[o].from # p
  BY NoneIsNothing DEF Waited, PostedBy
<1>2. QED
  BY <1>1, PostMeans

\* What was behind it stays so.
LEMMA BehindPosted ==
    ASSUME TypeOK, Waited, NEW p \in Proc, NEW q \in Req, NEW r, Posts(q, r), PostedBy(p, r), NEW x, Behind(p, x), procs'[p].node = procs[p].node
    PROVE  \A o \in Req : Unwritten(o)' /\ serving'[o].node = procs'[p].node /\ serving'[o].from # p => serving'[o].rev < x
<1> TAKE o \in Req
<1> HAVE Unwritten(o)' /\ serving'[o].node = procs'[p].node /\ serving'[o].from # p
<1>1. o # q
  BY PostMeans DEF PostedBy
<1>2. serving'[o] = serving[o]
  BY <1>1, PostMeans
<1>3. QED
  BY <1>2 DEF Behind, Unwritten

\* A reading is posted: coming up begins anew, or the second reading follows a refusal.
LEMMA AskWhoKeeps ==
    ASSUME Rest, AuditTellsTheRow, NEW p \in Proc, NEW q \in Req, AskWho(p, q)
    PROVE  Rest' /\ AuditTellsTheRow'
<1>1. TypeOK /\ Waited /\ Reads /\ procs[p].pc \in {"coming", "again"} /\ Speaks(p)
  BY DEF Rest, Identity, AskWho, Speaks, Stopped
<1>2. procs[p] \in ProcRecord /\ procs[p].node \in Node
  BY <1>1, SpeakerIsKept
<1> DEFINE r == Asking(p, "whoami", procs[p].node)
          s == IF procs[p].pc = "coming" THEN [procs[p] EXCEPT !.pc = "refreshing", !.beside = FALSE, !.blind = FALSE]
               ELSE [procs[p] EXCEPT !.pc = "rereading"]
<1>3. r \in Request /\ r.stage = "sent" /\ r.from = p /\ r.what = "whoami" /\ r.node = procs[p].node
  BY <1>2 DEF Asking, NoRequest, Request, Stages, Asks
<1>4. /\ s \in ProcRecord /\ s.home = procs[p].home /\ s.node = procs[p].node /\ s.rev = procs[p].rev
      /\ (s.pc = "refreshing" \/ (s.pc = "rereading" /\ procs[p].pc = "again" /\ s.beside = procs[p].beside /\ s.blind = procs[p].blind))
  BY <1>1, <1>2 DEF ProcRecord, ProcStates, Waiting
<1>5. serving' = [serving EXCEPT ![q] = r] /\ procs' = [procs EXCEPT ![p] = s] /\ UNCHANGED <<codes, rows, audit, files, cut, left>> /\ Free(q)
  BY <1>1 DEF AskWho, TypeOK
<1> HIDE DEF r, s
<1>6. procs' \in [Proc -> ProcRecord] /\ procs'[p] = s /\ \A t \in Proc \ {p} : procs'[t] = procs[t]
  BY <1>1, <1>4, <1>5 DEF TypeOK
<1>7. Posts(q, r)
  BY <1>1, <1>3, <1>5, <1>6 DEF Posts, TypeOK
<1>8. PostedBy(p, r)
  BY <1>1, <1>3, <1>4, <1>6 DEF PostedBy, Waiting, AskedBy
<1>9. Speaks(p)' /\ s.pc \in {"refreshing", "rereading"}
  BY <1>4, <1>6 DEF Speaks, Stopped
<1>10. \A o \in Req : serving'[o].from = p => serving'[o] = r
  BY <1>1, <1>7, <1>8, OwnPosted
<1>11. ASSUME Alone(p)'
       PROVE  Fresh(p)'
  <2>1. CASE s.pc = "refreshing"
    BY <1>3, <1>6, <1>10, <2>1 DEF Fresh, OwnOf
  <2>2. CASE s.pc = "rereading"
    <3>1. Behind(p, Revision(procs[p].node))
      BY <1>1, <1>4, <1>6, <1>11, <2>2 DEF Alone, Reads, Fresh
    <3>2. \A o \in Req : Unwritten(o)' /\ serving'[o].node = procs'[p].node /\ serving'[o].from # p => serving'[o].rev < Revision(procs[p].node)
      BY <1>1, <1>4, <1>6, <1>7, <1>8, <3>1, BehindPosted
    <3>3. Revision(procs[p].node) = Len(rows'[s.node].halves)
      BY <1>4, <1>5 DEF Revision
    <3>4. QED
      BY <1>3, <1>6, <1>10, <2>2, <3>2, <3>3 DEF Fresh, OwnOf, Behind, Unwritten, Revision
  <2>3. QED
    BY <1>9, <2>1, <2>2
<1>12. QED
  BY <1>1, <1>3, <1>4, <1>6, <1>7, <1>8, <1>9, <1>11, SpeakerPosts

\* An announcement is posted, and every other process of the node knows it is not alone.
LEMMA SayKeeps ==
    ASSUME Rest, AuditTellsTheRow, NEW p \in Proc, NEW q \in Req, NEW tools \in SUBSET Tool, Say(p, q, tools)
    PROVE  Rest' /\ AuditTellsTheRow'
<1>1. TypeOK /\ Waited /\ Reads /\ procs[p].pc \in {"saying", "sayingAgain"} /\ Speaks(p)
  BY DEF Rest, Identity, Say, Speaks, Stopped
<1>2. procs[p] \in ProcRecord /\ procs[p].node \in Node /\ procs[p].rev \in Nat
  BY <1>1, SpeakerIsKept
<1> DEFINE r == [Asking(p, "announce", procs[p].node) EXCEPT !.tools = tools, !.rev = procs[p].rev]
          s == [procs[p] EXCEPT !.pc = IF procs[p].pc = "saying" THEN "announcing" ELSE "reannouncing"]
          Beside(t) == [procs[t] EXCEPT !.beside = procs[t].beside \/ procs[t].node = procs[p].node]
<1>3. r \in Request /\ r.stage = "sent" /\ r.from = p /\ r.what = "announce" /\ r.node = procs[p].node /\ r.rev = procs[p].rev
  BY <1>2 DEF Asking, NoRequest, Request, Stages, Asks
<1>4. /\ s \in ProcRecord /\ s.home = procs[p].home /\ s.node = procs[p].node /\ s.rev = procs[p].rev
      /\ s.beside = procs[p].beside /\ s.blind = procs[p].blind
      /\ s.pc \in {"announcing", "reannouncing"} /\ (s.pc = "announcing" <=> procs[p].pc = "saying")
  BY <1>1, <1>2 DEF ProcRecord, ProcStates, Waiting
<1>5. \A t \in Proc : /\ Beside(t) \in ProcRecord /\ Beside(t).pc = procs[t].pc /\ Beside(t).home = procs[t].home
                      /\ Beside(t).node = procs[t].node /\ Beside(t).rev = procs[t].rev /\ Beside(t).blind = procs[t].blind
                      /\ (procs[t].beside \/ procs[t].node = procs[p].node => Beside(t).beside)
  <2> TAKE t \in Proc
  <2>1. procs[t] \in ProcRecord
    BY <1>1 DEF TypeOK
  <2>2. (procs[t].beside \/ procs[t].node = procs[p].node) \in BOOLEAN
    BY <2>1 DEF ProcRecord
  <2>3. QED
    BY <2>1, <2>2 DEF ProcRecord
<1>6. serving' = [serving EXCEPT ![q] = r] /\ procs' = [t \in Proc |-> IF t = p THEN s ELSE Beside(t)]
      /\ UNCHANGED <<codes, rows, audit, files, cut>> /\ Free(q)
  BY DEF Say
<1> HIDE DEF r, s, Beside
<1>7. procs' \in [Proc -> ProcRecord] /\ procs'[p] = s /\ \A t \in Proc \ {p} : procs'[t] = Beside(t)
  BY <1>4, <1>5, <1>6
<1>8. left' \in [Bounded -> Nat]
  BY <1>1, BudgetsAreTyped DEF Say, Bounded
<1>9. Posts(q, r)
  BY <1>3, <1>6, <1>7, <1>8 DEF Posts
<1>10. PostedBy(p, r)
  BY <1>1, <1>3, <1>4, <1>5, <1>7 DEF PostedBy, Waiting, AskedBy
<1>11. Speaks(p)'
  BY <1>4, <1>7 DEF Speaks, Stopped
<1>12. \A o \in Req : serving'[o].from = p => serving'[o] = r
  BY <1>1, <1>9, <1>10, OwnPosted
<1>13. ASSUME Alone(p)'
       PROVE  Fresh(p)'
  <2>1. Fresh(p)
    BY <1>1, <1>4, <1>7, <1>13 DEF Alone, Reads
  <2>2. CASE s.pc = "announcing"
    <3>1. Behind(p, procs[p].rev + 1)
      BY <1>4, <2>1, <2>2 DEF Fresh
    <3>2. \A o \in Req : Unwritten(o)' /\ serving'[o].node = procs'[p].node /\ serving'[o].from # p => serving'[o].rev < procs[p].rev + 1
      BY <1>1, <1>4, <1>7, <1>9, <1>10, <3>1, BehindPosted
    <3>3. QED
      BY <1>3, <1>4, <1>7, <1>12, <2>2, <3>2 DEF Fresh, OwnOf, Behind, Unwritten
  <2>3. CASE s.pc = "reannouncing"
    <3>1. Behind(p, procs[p].rev) /\ procs[p].rev = Len(rows[procs[p].node].halves)
      BY <1>1, <1>4, <2>1, <2>3 DEF Fresh, Revision
    <3>2. \A o \in Req : Unwritten(o)' /\ serving'[o].node = procs'[p].node /\ serving'[o].from # p => serving'[o].rev < procs[p].rev
      BY <1>1, <1>4, <1>7, <1>9, <1>10, <3>1, BehindPosted
    <3>3. procs[p].rev = Len(rows'[s.node].halves)
      BY <1>4, <1>6, <3>1
    <3>4. QED
      BY <1>3, <1>7, <1>12, <2>3, <3>2, <3>3 DEF Fresh, OwnOf, Behind, Unwritten, Revision
  <2>4. QED
    BY <1>4, <2>2, <2>3
<1>14. \A t \in Proc \ {p} : procs[t].node = r.node => procs'[t].beside
  BY <1>3, <1>5, <1>7
<1>15. QED
  BY <1>1, <1>3, <1>4, <1>7, <1>9, <1>10, <1>11, <1>13, <1>14, SpeakerPosts

-------------------------------------------------------------------------------
(* The codes, the crash, and every step *)

\* Nothing but a code or the budgets changes.
LEMMA CodesKeep ==
    ASSUME Rest, AuditTellsTheRow, UNCHANGED <<rows, audit, serving, procs, files, cut>>, left' \in [Bounded -> Nat],
           codes' \in [Code -> [role : Roles, offered : BOOLEAN, late : BOOLEAN, by : Node \cup {None}]],
           \A c \in Code : /\ codes'[c].by = codes[c].by /\ (codes[c].offered => codes'[c].offered)
                           /\ codes[c].by # None => codes'[c].role = codes[c].role
    PROVE  Rest' /\ AuditTellsTheRow'
<1>1. TypeOK /\ Staged /\ Waited /\ Carried /\ CarriedOnce /\ SpokenFor /\ Knows /\ Reads /\ TwinMeansTwo
  BY DEF Rest, Identity
<1>2. TypeOK'
  BY <1>1 DEF TypeOK, Speaks
<1>3. Staged'
  BY <1>1 DEF Staged
<1>4. Waited'
  BY <1>1 DEF Waited
<1>5. Carried' /\ CarriedOnce'
  <2>1. IdentitiesStay
    BY <1>1 DEF IdentitiesStay, Carried
  <2>2. QED
    BY <1>1, <2>1, IdentitiesKept
<1>6. SpokenFor'
  BY <1>1 DEF SpokenFor, Speaks, Kept, Revision
<1>7. Knows'
  BY <1>1 DEF Knows, Speaks, Revision
<1>8. Reads'
  <2> SUFFICES ASSUME NEW r \in Proc, Alone(r)'
               PROVE  Fresh(r)'
    BY DEF Reads
  <2>1. Fresh(r)
    BY <1>1 DEF Reads, Alone, Speaks
  <2>2. QED
    BY <2>1, FreshStays DEF Unwritten
<1>9. TwinMeansTwo'
  BY <1>1 DEF TwinMeansTwo
<1>10. AuditTellsTheRow'
  <2>1. \A o \in Req : Owes(o) \subseteq Owes(o)' \cup cut'
    BY DEF Owes
  <2>2. QED
    BY <1>1, <1>2, <2>1, NothingTold
<1>11. QED
  BY <1>2, <1>3, <1>4, <1>5, <1>6, <1>7, <1>8, <1>9, <1>10 DEF Rest, Identity

\* The user mints a code, which nobody has spent.
LEMMA IssueKeeps ==
    ASSUME Rest, AuditTellsTheRow, NEW c \in Code, NEW role \in Roles, Issue(c, role)
    PROVE  Rest' /\ AuditTellsTheRow'
<1>1. TypeOK /\ Carried
  BY DEF Rest, Identity
<1>2. codes[c].by = None
  BY <1>1 DEF Issue, Carried
<1>3. codes' = [codes EXCEPT ![c] = [codes[c] EXCEPT !.offered = TRUE, !.role = role]]
      /\ codes \in [Code -> [role : Roles, offered : BOOLEAN, late : BOOLEAN, by : Node \cup {None}]]
  BY <1>1 DEF Issue, TypeOK
<1>4. [codes[c] EXCEPT !.offered = TRUE, !.role = role] \in [role : Roles, offered : BOOLEAN, late : BOOLEAN, by : Node \cup {None}]
  BY <1>3
<1>5. left' \in [Bounded -> Nat] /\ UNCHANGED <<rows, audit, serving, procs, files, cut>>
  BY <1>1, BudgetsAreTyped DEF Issue, Bounded
<1>6. QED
  BY <1>2, <1>3, <1>4, <1>5, CodesKeep

\* A code grows old.
LEMMA LapseKeeps ==
    ASSUME Rest, AuditTellsTheRow, NEW c \in Code, Lapse(c)
    PROVE  Rest' /\ AuditTellsTheRow'
<1>1. TypeOK
  BY DEF Rest
<1>2. codes' = [codes EXCEPT ![c] = [codes[c] EXCEPT !.late = TRUE]]
      /\ codes \in [Code -> [role : Roles, offered : BOOLEAN, late : BOOLEAN, by : Node \cup {None}]]
  BY <1>1 DEF Lapse, TypeOK
<1>3. [codes[c] EXCEPT !.late = TRUE] \in [role : Roles, offered : BOOLEAN, late : BOOLEAN, by : Node \cup {None}]
  BY <1>2
<1>4. left' \in [Bounded -> Nat] /\ UNCHANGED <<rows, audit, serving, procs, files, cut>>
  BY <1>1 DEF Lapse, TypeOK
<1>5. QED
  BY <1>2, <1>3, <1>4, CodesKeep

\* Nothing happens.
LEMMA StutterKeeps ==
    ASSUME Rest, AuditTellsTheRow, UNCHANGED vars
    PROVE  Rest' /\ AuditTellsTheRow'
<1>1. UNCHANGED <<codes, rows, audit, serving, procs, files, cut, left>>
  BY DEF vars
<1>2. codes' \in [Code -> [role : Roles, offered : BOOLEAN, late : BOOLEAN, by : Node \cup {None}]] /\ left' \in [Bounded -> Nat]
  BY <1>1 DEF Rest, TypeOK
<1>3. QED
  BY <1>1, <1>2, CodesKeep

\* What the Core was serving is gone, and what it owed is cut off.
LEMMA CrashKeeps ==
    ASSUME Rest, AuditTellsTheRow, Crash
    PROVE  Rest' /\ AuditTellsTheRow'
<1>1. TypeOK /\ Staged /\ Waited /\ Carried /\ CarriedOnce /\ SpokenFor /\ Knows /\ Reads /\ TwinMeansTwo
  BY DEF Rest, Identity
<1>2. UNCHANGED <<codes, rows, audit, procs, files>> /\ left' \in [Bounded -> Nat] /\ cut' = cut \cup UNION {Owes(q) : q \in Req}
  BY <1>1, BudgetsAreTyped DEF Crash, Bounded
<1>3. serving' \in [Req -> Request] /\ \A o \in Req : serving'[o] = NoRequest /\ serving'[o].stage = "none" /\ serving'[o].from = None
  BY NoRequestIsARequest DEF Crash, NoRequest
<1>4. \A o \in Req : Owes(o) \subseteq cut'
  BY <1>2
<1>5. \A o \in Req : Owes(o) \subseteq Node \X Nat
  <2> TAKE o \in Req
  <2>1. CASE serving[o].stage \in {"born", "written", "marked"}
    <3>1. serving[o].what \notin Roles \/ Bears(o)
      BY <1>1, <2>1, StageTells DEF Roles
    <3>2. serving[o].node \in Node /\ serving[o].rev \in Nat
      BY <1>1, <2>1, <3>1, NodeOfRequest DEF TypeOK, Request
    <3>3. QED
      BY <2>1, <3>2 DEF Owes
  <2>2. CASE serving[o].stage \notin {"born", "written", "marked"}
    BY <2>2 DEF Owes
  <2>3. QED
    BY <2>1, <2>2
<1>6. cut' \subseteq Node \X Nat
  BY <1>1, <1>2, <1>5 DEF TypeOK
<1>7. TypeOK'
  BY <1>1, <1>2, <1>3, <1>6 DEF TypeOK, Speaks
<1>8. Staged' /\ Waited'
  BY <1>3 DEF Staged, Waited, Answers, NoRequest
<1>9. Carried' /\ CarriedOnce'
  <2>1. IdentitiesStay
    BY <1>1, <1>2, <1>3 DEF IdentitiesStay, Carried
  <2>2. QED
    BY <1>1, <2>1, IdentitiesKept
<1>10. SpokenFor' /\ Knows'
  <2>1. SpokenFor'
    BY <1>1, <1>2, <1>3 DEF SpokenFor, Speaks, Kept, Revision
  <2>2. \A o \in Req : RequestKnows(serving'[o], rows'[serving'[o].node])
    BY <1>3 DEF RequestKnows
  <2>3. QED
    BY <1>1, <1>2, <2>1, <2>2 DEF Knows, Speaks, Revision
<1>11. Reads'
  <2> SUFFICES ASSUME NEW r \in Proc, Alone(r)'
               PROVE  Fresh(r)'
    BY DEF Reads
  <2>1. Fresh(r)
    BY <1>1, <1>2 DEF Reads, Alone, Speaks
  <2>2. \A o \in Req : serving'[o].from # r /\ ~Unwritten(o)'
    BY <1>3, NoneIsNothing DEF Unwritten
  <2>3. QED
    BY <1>2, <2>1, <2>2, FreshStays
<1>12. TwinMeansTwo'
  BY <1>1, <1>2 DEF TwinMeansTwo
<1>13. AuditTellsTheRow'
  <2>1. \A o \in Req : Owes(o) \subseteq Owes(o)' \cup cut'
    BY <1>4
  <2>2. cut \subseteq cut'
    BY <1>2
  <2>3. QED
    BY <1>1, <1>2, <1>7, <2>1, <2>2, NothingTold
<1>14. QED
  BY <1>7, <1>8, <1>9, <1>10, <1>11, <1>12, <1>13 DEF Rest, Identity

\* A revision is first heard from the answer to a reading, or to an announcement.
LEMMA UnreadKept ==
    ASSUME TypeOK, Unread, [Next]_vars
    PROVE  Unread'
<1>1. procs \in [Proc -> ProcRecord]
  BY DEF TypeOK
<1>2. CASE UNCHANGED procs
  BY <1>2 DEF Unread
<1>3. CASE ~UNCHANGED procs
  <2>1. \A q \in Req : ~Serve(q)
    BY <1>3 DEF Serve, ReadClock, NotSpent, Insert, TellBirth, Spend, Admit, Whoami, Heartbeat, ReadRow, Write, NotWritten,
                TellConflict, TellChange, Mark, TellRevoked, Breaks
  <2>2. ~User /\ ~Crash /\ ~UNCHANGED vars
    BY <1>3 DEF User, Lapse, Issue, Paste, AskRevoke, Crash, vars
  <2>3. PICK p \in Proc : Process(p)
    BY <2>1, <2>2 DEF Next
  <2>4. ASSUME \A t \in Proc \ {p} : procs'[t].pc = procs[t].pc /\ procs'[t].rev = procs[t].rev,
               procs'[p].pc \in {"joining", "writing"} => procs'[p].rev = 0
        PROVE  Unread'
    BY <2>4 DEF Unread
  <2>5. ASSUME NEW h \in Home, StartKnown(p, h)
        PROVE  Unread'
    BY <1>1, <2>4, <2>5 DEF StartKnown, Starts, NoProcess
  <2>6. ASSUME NEW h \in Home, NEW c \in Code, NEW q \in Req, NEW tools \in SUBSET Tool, StartJoin(p, h, c, q, tools)
        PROVE  Unread'
    BY <1>1, <2>4, <2>6 DEF StartJoin, Starts, NoProcess
  <2>7. CASE WriteFile(p)
    <3>1. procs[p] \in ProcRecord /\ \E pc \in {"coming", "failed"} : procs' = [procs EXCEPT ![p] = [procs[p] EXCEPT !.pc = pc]]
      BY <1>1, <2>7 DEF WriteFile
    <3>2. procs'[p].pc \in {"coming", "failed"} /\ \A t \in Proc \ {p} : procs'[t] = procs[t]
      BY <1>1, <3>1 DEF ProcRecord
    <3>3. QED
      BY <2>4, <3>2
  <2>8. CASE TimesOut(p)
    <3>1. AfterSilence(procs[p].pc) \in {"failed", "up", "coming"}
      BY DEF AfterSilence
    <3>2. procs'[p].pc = AfterSilence(procs[p].pc) /\ \A t \in Proc \ {p} : procs'[t] = procs[t]
      BY <1>1, <2>8 DEF TimesOut, ProcRecord
    <3>3. QED
      BY <2>4, <3>1, <3>2
  <2>9. CASE Die(p)
    BY <1>1, <2>4, <2>9 DEF Die, NoProcess
  <2>10. ASSUME NEW q \in Req, Joined(p, q)
         PROVE  Unread'
    <3>1. procs[p].pc = "joining" /\ procs'[p].rev = procs[p].rev /\ \A t \in Proc \ {p} : procs'[t] = procs[t]
      BY <1>1, <2>10 DEF Joined, ProcRecord
    <3>2. QED
      BY <2>4, <3>1 DEF Unread
  <2>11. ASSUME NEW q \in Req, AskWho(p, q) \/ HeardWho(p, q) \/ HeardSay(p, q) \/ Report(p, q) \/ Reported(p, q)
         PROVE  Unread'
    <3>1. procs'[p].pc \notin {"joining", "writing"} /\ \A t \in Proc \ {p} : procs'[t] = procs[t]
      <4>1. CASE AskWho(p, q)
        BY <1>1, <4>1 DEF AskWho
      <4>2. CASE HeardWho(p, q)
        BY <1>1, <4>2 DEF HeardWho
      <4>3. CASE HeardSay(p, q)
        BY <1>1, <4>3 DEF HeardSay, AfterConflict
      <4>4. CASE Report(p, q) \/ Reported(p, q)
        <5>1. procs[p] \in ProcRecord /\ \E pc \in {"reporting", "revoked", "up"} : procs' = [procs EXCEPT ![p] = [procs[p] EXCEPT !.pc = pc]]
          BY <1>1, <4>4 DEF Report, Reported
        <5>2. QED
          BY <1>1, <5>1 DEF ProcRecord
      <4>5. QED
        BY <2>11, <4>1, <4>2, <4>3, <4>4
    <3>2. QED
      BY <2>4, <3>1
  <2>12. ASSUME NEW q \in Req, NEW tools \in SUBSET Tool, Say(p, q, tools)
         PROVE  Unread'
    <3>1. /\ procs[p] \in ProcRecord /\ procs'[p] = [procs[p] EXCEPT !.pc = IF procs[p].pc = "saying" THEN "announcing" ELSE "reannouncing"]
          /\ \A t \in Proc \ {p} : procs[t] \in ProcRecord /\ procs'[t] = [procs[t] EXCEPT !.beside = procs[t].beside \/ procs[t].node = procs[p].node]
      BY <1>1, <2>12 DEF Say
    <3>2. procs'[p].pc \notin {"joining", "writing"}
      BY <3>1 DEF ProcRecord
    <3>3. ASSUME NEW t \in Proc \ {p}
          PROVE  procs'[t].pc = procs[t].pc /\ procs'[t].rev = procs[t].rev
      <4>1. procs[t] \in ProcRecord /\ procs'[t] = [procs[t] EXCEPT !.beside = procs[t].beside \/ procs[t].node = procs[p].node]
        BY <3>1
      <4>2. QED
        BY <4>1 DEF ProcRecord
    <3>4. QED
      BY <2>4, <3>2, <3>3
  <2>13. QED
    BY <2>3, <2>5, <2>6, <2>7, <2>8, <2>9, <2>10, <2>11, <2>12 DEF Process
<1>4. QED
  BY <1>2, <1>3

\* Whatever the user does keeps the invariant.
LEMMA UserKeeps ==
    ASSUME Rest, AuditTellsTheRow, User
    PROVE  Rest' /\ AuditTellsTheRow'
BY LapseKeeps, IssueKeeps, PasteKeeps, AskRevokeKeeps DEF User

\* Whatever a process does keeps the invariant.
LEMMA ProcessKeeps ==
    ASSUME Rest, AuditTellsTheRow, Unread, NEW p \in Proc, Process(p)
    PROVE  Rest' /\ AuditTellsTheRow'
<1>1. CASE WriteFile(p)
  BY <1>1, WriteFileKeeps
<1>2. CASE TimesOut(p)
  BY <1>2, TimesOutKeeps
<1>3. CASE Die(p)
  BY <1>3, DieKeeps
<1>4. CASE \E h \in Home : StartKnown(p, h)
  BY <1>4, StartKnownKeeps
<1>5. CASE \E h \in Home, c \in Code, q \in Req, tools \in SUBSET Tool : StartJoin(p, h, c, q, tools)
  BY <1>5, StartJoinKeeps
<1>6. CASE \E q \in Req : Joined(p, q)
  BY <1>6, JoinedKeeps
<1>7. CASE \E q \in Req : AskWho(p, q) \/ HeardWho(p, q)
  BY <1>7, AskWhoKeeps, HeardWhoKeeps
<1>8. CASE \E q \in Req : (\E tools \in SUBSET Tool : Say(p, q, tools)) \/ HeardSay(p, q)
  BY <1>8, SayKeeps, HeardSayKeeps
<1>9. CASE \E q \in Req : Report(p, q) \/ Reported(p, q)
  BY <1>9, ReportKeeps, ReportedKeeps
<1>10. QED
  BY <1>1, <1>2, <1>3, <1>4, <1>5, <1>6, <1>7, <1>8, <1>9 DEF Process

\* The initial states satisfy the invariant.
LEMMA InitGood == Init => IInv
<1> SUFFICES ASSUME Init PROVE IInv
  OBVIOUS
<1>1. /\ codes = [c \in Code |-> [role |-> "worker", offered |-> FALSE, late |-> FALSE, by |-> None]]
      /\ rows = [n \in Node |-> NoRow] /\ audit = {} /\ serving = [q \in Req |-> NoRequest]
      /\ procs = [p \in Proc |-> NoProcess] /\ files = [h \in Home |-> None] /\ cut = {} /\ left \in Budgets
  BY DEF Init
<1>2. \A q \in Req : serving[q] = NoRequest /\ serving[q].stage = "none" /\ serving[q].from = None
  BY <1>1 DEF NoRequest
<1>3. NoProcess \in ProcRecord /\ NoProcess.pc = "off" /\ NoProcess.rev = 0
  BY DEF NoProcess, ProcRecord, ProcStates, Stopped
<1>4. \A p \in Proc : procs[p] = NoProcess /\ procs[p].pc = "off"
  BY <1>1, <1>3
<1> DEFINE T == SUBSET Tool
<1>5. <<>> \in Seq(T) /\ Len(<<>>) = 0
  OBVIOUS
<1>6. \A n \in Node : /\ rows[n] = NoRow /\ rows[n].halves = <<>> /\ rows[n].revoked = FALSE /\ rows[n].seen = FALSE /\ Revision(n) = 0
  BY <1>1, <1>5 DEF NoRow, Revision
<1>7. NoRow \in [role : Roles, halves : Seq(SUBSET Tool), revoked : BOOLEAN, seen : BOOLEAN]
  BY <1>5 DEF NoRow, Roles
<1>8. \A p \in Proc : ~Speaks(p) /\ ~Writes(p) /\ procs[p].pc \in Stopped
  BY <1>4 DEF Speaks, Stopped
<1>9. TypeOK
  <2>1. codes \in [Code -> [role : Roles, offered : BOOLEAN, late : BOOLEAN, by : Node \cup {None}]]
    BY <1>1 DEF Roles
  <2>2. left \in [Bounded -> Nat]
    BY <1>1, BudgetsAreNatural
  <2>3. rows \in [Node -> [role : Roles, halves : Seq(SUBSET Tool), revoked : BOOLEAN, seen : BOOLEAN]]
    BY <1>1, <1>7
  <2>4. serving \in [Req -> Request] /\ procs \in [Proc -> ProcRecord] /\ files \in [Home -> Node \cup {None}]
    BY <1>1, <1>3, NoRequestIsARequest
  <2>5. QED
    BY <1>1, <1>2, <1>8, <2>1, <2>2, <2>3, <2>4 DEF TypeOK
<1>10. Staged /\ Waited
  BY <1>2 DEF Staged, Waited, Answers, NoRequest
<1>11. Carried /\ CarriedOnce
  <2>1. \A c \in Code : codes[c].by = None
    BY <1>1
  <2>2. \A q \in Req : ~Bears(q)
    BY <1>2
  <2>3. \A h \in Home : files[h] = None
    BY <1>1
  <2>4. QED
    BY <1>6, <1>8, <2>1, <2>2, <2>3 DEF Carried, CarriedOnce
<1>12. SpokenFor
  BY <1>2, <1>6, <1>8 DEF SpokenFor
<1>13. Knows
  BY <1>2, <1>8 DEF Knows, RequestKnows
<1>14. AuditTellsTheRow
  <2>1. \A n \in Node : \A r : r \in 1 .. Revision(n) => FALSE
    BY <1>6
  <2>2. QED
    BY <1>1, <1>6, <2>1 DEF AuditTellsTheRow
<1>15. Reads /\ TwinMeansTwo /\ Unread
  BY <1>4, <1>8 DEF Reads, Alone, TwinMeansTwo, Unread
<1>16. QED
  BY <1>9, <1>10, <1>11, <1>12, <1>13, <1>14, <1>15 DEF IInv, Identity

\* Every step keeps it.
LEMMA NextKeeps == IInv /\ [Next]_vars => IInv'
<1> SUFFICES ASSUME IInv, [Next]_vars PROVE IInv'
  OBVIOUS
<1>1. Rest /\ AuditTellsTheRow /\ Unread /\ TypeOK
  BY DEF IInv, Rest
<1>2. Rest' /\ AuditTellsTheRow'
  <2>1. CASE \E q \in Req : Serve(q)
    BY <1>1, <2>1, ServeKeeps
  <2>2. CASE User
    BY <1>1, <2>2, UserKeeps
  <2>3. CASE \E p \in Proc : Process(p)
    BY <1>1, <2>3, ProcessKeeps
  <2>4. CASE Crash
    BY <1>1, <2>4, CrashKeeps
  <2>5. CASE UNCHANGED vars
    BY <1>1, <2>5, StutterKeeps
  <2>6. QED
    BY <2>1, <2>2, <2>3, <2>4, <2>5 DEF Next
<1>3. Unread'
  BY <1>1, UnreadKept
<1>4. QED
  BY <1>2, <1>3 DEF IInv, Rest

-------------------------------------------------------------------------------
(* The theorems *)

\* The invariant holds in every reachable state.
THEOREM InvariantHolds == Spec => []IInv
BY InitGood, NextKeeps, PTL DEF Spec

\* A request past its first step names a row that exists or is about to, and a process that speaks has an identity.
\* enrollment.py:121, security.py, runner.py
THEOREM TypesHold == Spec => []TypeOK
<1>1. IInv => TypeOK
  BY DEF IInv
<1>2. QED
  BY <1>1, InvariantHolds, PTL

\* A code gives birth to one node at most, which one folder keeps and whose processes all speak from it:
\* the identity is in one place at a time, the answer that carries it, the process that writes it, the file.
\* enrollment.py:121, enrollment_store.py:58, state.py:96
THEOREM OneNodeOfACodeHolds == Spec => []OneNodeOfACode
<1>1. IInv => OneNodeOfACode
  <2> SUFFICES ASSUME IInv PROVE OneNodeOfACode
    OBVIOUS
  <2>1. Carried /\ CarriedOnce /\ SpokenFor
    BY DEF IInv, Identity
  <2>2. QED
    BY <2>1 DEF Carried, CarriedOnce, SpokenFor, Kept, OneNodeOfACode
<1>2. QED
  BY <1>1, InvariantHolds, PTL

\* What the audit says of a revision is what that announcement changed, and what was written is said, owed or was cut off.
\* registry.py:412
THEOREM AuditTellsTheRowHolds == Spec => []AuditTellsTheRow
<1>1. IInv => AuditTellsTheRow
  BY DEF IInv
<1>2. QED
  BY <1>1, InvariantHolds, PTL

\* Whoever stops as a twin had another process beside it, or read its row in vain.
\* runner.py:326, errors.py:31
THEOREM TwinMeansTwoHolds == Spec => []TwinMeansTwo
<1>1. IInv => TwinMeansTwo
  BY DEF IInv
<1>2. QED
  BY <1>1, InvariantHolds, PTL
==============================================================================
