------------------------------- MODULE Devices -------------------------------
(***************************************************************************)
(* The birth of a node and its announcements: the one-shot codes, the row  *)
(* of a node, what the audit says of it, and the processes that speak as   *)
(* it from their folder.  Requests are served in steps, one per            *)
(* transaction, and outlive the client that sent them.                     *)
(*   devices/enrollment.py, registry.py, refresh.py                        *)
(*   infrastructure/persistence/enrollment_store.py, device_registry.py    *)
(*   api/nodes.py, api/security.py, node/__init__.py, runner.py, state.py  *)
(***************************************************************************)
EXTENDS Integers, Sequences

CONSTANTS
    Proc,           \* the slots in which node processes run
    Home,           \* the folders that keep an identity (ELA_NODE_STATE_DIR)
    Code,           \* the codes a user mints
    Node,           \* the ids the generator mints
    Tool,           \* the tools a machine may declare
    Req,            \* the requests the Core holds at once: a bound
    None,           \* nobody, nothing
    Budgets         \* bound: how many times codes are minted and presented, processes start and
                    \* announce, the user revokes and something goes wrong, in one behaviour

ASSUME NoneIsNothing == None \notin Proc \cup Node \cup Code \cup Home

Bounded == {"codes", "starts", "says", "revokes", "faults"}
ASSUME BudgetsAreNatural == Budgets \subseteq [Bounded -> Nat]

VARIABLES
    codes,          \* Code -> the row of "enrollments"
    rows,           \* Node -> the row of "devices"; halves = <<>> for no row
    audit,          \* what was appended about devices, as a set
    serving,        \* Req -> the request the Core is serving
    procs,          \* Proc -> the process of a node
    files,          \* Home -> the identity in node.json
    cut,            \* the writes whose event was never appended (history)
    left            \* how many times each bounded event may still happen

vars == <<codes, rows, audit, serving, procs, files, cut, left>>

------------------------------------------------------------------------------
(* The records *)

\* "companion" stands for the console too: a page's route enrols either the same way.
Roles == {"worker", "companion"}

\* "devices": the declared halves it went through, the last one at revision Len(halves).
NoRow == [role |-> "worker", halves |-> <<>>, revoked |-> FALSE, seen |-> FALSE]
Born(n) == rows[n].halves # <<>>
Revision(n) == Len(rows[n].halves)
Declared(n) == rows[n].halves[Revision(n)]

\* What a request asks: "worker" and "companion" are the two routes that spend a code.
Asks == Roles \cup {"whoami", "announce", "heartbeat", "revoke"}
Answers == {"ok", "conflict", "unauthorized", "refused", "broken"}
Stages == {"none", "sent", "timely", "late", "spent", "born", "let", "read", "written", "stale", "marked"} \cup Answers

\* rev: the revision expected by an announcement, then the one it wrote; the one whoami answers.
Request == [what : Asks, from : Proc \cup {None}, stage : Stages, node : Node \cup {None},
            code : Code \cup {None}, tools : SUBSET Tool, read : SUBSET Tool, rev : Nat]
NoRequest == [what |-> "whoami", from |-> None, stage |-> "none", node |-> None,
              code |-> None, tools |-> {}, read |-> {}, rev |-> 0]
Free(q) == serving[q].stage = "none"

Asking(p, what, n) == [NoRequest EXCEPT !.what = what, !.from = p, !.stage = "sent", !.node = n]

\* The states of a process: where it is in join_or_read, coming_up and forever, or how it ended.
Waiting == {"joining", "refreshing", "announcing", "rereading", "reannouncing", "reporting"}
Stopped == {"off", "failed", "revoked", "twin"}
ProcStates == Stopped \cup Waiting \cup {"writing", "coming", "saying", "again", "sayingAgain", "up"}

\* beside and blind are history: since it began coming up, another process announced as its node;
\* one of its readings of its own row was answered with no revision.
NoProcess == [pc |-> "off", home |-> None, node |-> None, rev |-> 0, beside |-> FALSE, blind |-> FALSE]

\* A process that has its identity and speaks as it.
Speaks(p) == procs[p].pc \notin Stopped \cup {"joining", "writing"}

Event(what, n, of, added, removed) ==
    [what |-> what, node |-> n, of |-> of, added |-> added, removed |-> removed]
Said(what, n) == Event(what, n, 0, {}, {})

Spends(k) == left[k] > 0 /\ left' = [left EXCEPT ![k] = @ - 1]

Init ==
    /\ codes = [c \in Code |-> [role |-> "worker", offered |-> FALSE, late |-> FALSE, by |-> None]]
    /\ rows = [n \in Node |-> NoRow]
    /\ audit = {}
    /\ serving = [q \in Req |-> NoRequest]
    /\ procs = [p \in Proc |-> NoProcess]
    /\ files = [h \in Home |-> None]
    /\ cut = {}
    /\ left \in Budgets

------------------------------------------------------------------------------
(* What the Core answers *)

\* A request whose client is gone is over when it is answered.
Reply(q, answer) ==
    IF serving[q].from = None THEN NoRequest ELSE [serving[q] EXCEPT !.stage = answer]
ReplyWith(q, rev) ==
    IF serving[q].from = None THEN NoRequest ELSE [serving[q] EXCEPT !.stage = "ok", !.rev = rev]

Answer(q, answer) == serving' = [serving EXCEPT ![q] = Reply(q, answer)]
Goes(q, stage) == serving' = [serving EXCEPT ![q].stage = stage]

------------------------------------------------------------------------------
(* Codes, and the birth of a node: enrollment.py *)

\* NodeEnrollment.issue
Issue(c, role) ==
    /\ ~codes[c].offered
    /\ codes' = [codes EXCEPT ![c].offered = TRUE, ![c].role = role]
    /\ Spends("codes")
    /\ UNCHANGED <<rows, audit, serving, procs, files, cut>>

\* ENROLLMENT_CODE_TTL goes by.
Lapse(c) ==
    /\ codes[c].offered /\ ~codes[c].late
    /\ codes' = [codes EXCEPT ![c].late = TRUE]
    /\ UNCHANGED <<rows, audit, serving, procs, files, cut, left>>

\* A browser posts a code to the companions' route: nobody here waits for the answer.
Paste(c, q) ==
    /\ codes[c].offered
    /\ Free(q)
    /\ serving' = [serving EXCEPT ![q] = [Asking(None, "companion", None) EXCEPT !.code = c]]
    /\ Spends("codes")
    /\ UNCHANGED <<codes, rows, audit, procs, files, cut>>

\* enroll reads the clock once, before anything else.
ReadClock(q) ==
    /\ serving[q].what \in Roles /\ serving[q].stage = "sent"
    /\ Goes(q, IF codes[serving[q].code].late THEN "late" ELSE "timely")
    /\ UNCHANGED <<codes, rows, audit, procs, files, cut, left>>

\* The conditions of the UPDATE in SqlEnrollmentStore.consume.
Spendable(q) ==
    LET c == codes[serving[q].code] IN
    c.by = None /\ serving[q].stage = "timely" /\ c.role = serving[q].what

Minted(n) == Born(n) \/ \E c \in Code : codes[c].by = n

Spend(q, n) ==
    /\ serving[q].stage \in {"timely", "late"}
    /\ Spendable(q)
    /\ ~Minted(n)
    /\ codes' = [codes EXCEPT ![serving[q].code].by = n]
    /\ serving' = [serving EXCEPT ![q].stage = "spent", ![q].node = n]
    /\ UNCHANGED <<rows, audit, procs, files, cut, left>>

\* _why_not_consumed: a code spent already names the node it gave birth to, if there is one.
NotSpent(q) ==
    LET by == codes[serving[q].code].by IN
    /\ serving[q].stage \in {"timely", "late"}
    /\ ~Spendable(q)
    /\ audit' = IF by # None /\ Born(by) THEN audit \cup {Said("rejected", by)} ELSE audit
    /\ Answer(q, "refused")
    /\ UNCHANGED <<codes, rows, procs, files, cut, left>>

Insert(q) ==
    LET r == serving[q] IN
    /\ r.stage = "spent"
    /\ rows' = [rows EXCEPT ![r.node].halves = <<r.tools>>, ![r.node].role = codes[r.code].role]
    /\ Goes(q, "born")
    /\ UNCHANGED <<codes, audit, procs, files, cut, left>>

TellBirth(q) ==
    LET r == serving[q] IN
    /\ r.stage = "born"
    /\ audit' = audit \cup {Event("enrolled", r.node, 1, r.tools, {})}
    /\ Answer(q, "ok")
    /\ UNCHANGED <<codes, rows, procs, files, cut, left>>

------------------------------------------------------------------------------
(* A node's requests: security.py, nodes.py, registry.py *)

\* The middleware: a revoked node is written down and sent away.
Admit(q) ==
    LET r == serving[q] IN
    /\ r.what \in {"whoami", "announce", "heartbeat"} /\ r.stage = "sent"
    /\ IF rows[r.node].revoked
       THEN audit' = audit \cup {Said("rejected", r.node)} /\ Answer(q, "unauthorized")
       ELSE Goes(q, "let") /\ UNCHANGED audit
    /\ UNCHANGED <<codes, rows, procs, files, cut, left>>

Whoami(q) ==
    LET r == serving[q] IN
    /\ r.what = "whoami" /\ r.stage = "let"
    /\ IF rows[r.node].revoked
       THEN Answer(q, "unauthorized")
       ELSE serving' = [serving EXCEPT ![q] = ReplyWith(q, Revision(r.node))]
    /\ UNCHANGED <<codes, rows, audit, procs, files, cut, left>>

Heartbeat(q) ==
    LET r == serving[q] IN
    /\ r.what = "heartbeat" /\ r.stage = "let"
    /\ rows' = [rows EXCEPT ![r.node].seen = TRUE]
    /\ Answer(q, "ok")
    /\ UNCHANGED <<codes, audit, procs, files, cut, left>>

\* DeviceRegistry.announce reads the row to compute the difference.
ReadRow(q) ==
    LET r == serving[q] IN
    /\ r.what = "announce" /\ r.stage = "let"
    /\ serving' = [serving EXCEPT ![q].stage = "read", ![q].read = Declared(r.node)]
    /\ UNCHANGED <<codes, rows, audit, procs, files, cut, left>>

\* The revision in the WHERE of the UPDATE; a mutant takes it away.
AnyRevision(q) == TRUE
AtItsRevision(q) == serving[q].rev = Revision(serving[q].node)

\* SqlDeviceRegistry.announce: one conditional UPDATE, and _why_not_announced.
Write(q) ==
    LET r == serving[q] IN
    /\ r.what = "announce" /\ r.stage = "read"
    /\ ~rows[r.node].revoked /\ AtItsRevision(q)
    /\ rows' = [rows EXCEPT ![r.node].halves = Append(@, r.tools)]
    /\ serving' = [serving EXCEPT ![q].stage = "written", ![q].rev = @ + 1]
    /\ UNCHANGED <<codes, audit, procs, files, cut, left>>

NotWritten(q) ==
    LET r == serving[q] IN
    /\ r.what = "announce" /\ r.stage = "read"
    /\ rows[r.node].revoked \/ ~AtItsRevision(q)
    /\ IF rows[r.node].revoked THEN Answer(q, "unauthorized") ELSE Goes(q, "stale")
    /\ UNCHANGED <<codes, rows, audit, procs, files, cut, left>>

TellConflict(q) ==
    /\ serving[q].stage = "stale"
    /\ audit' = audit \cup {Said("conflict", serving[q].node)}
    /\ Answer(q, "conflict")
    /\ UNCHANGED <<codes, rows, procs, files, cut, left>>

\* Nothing is said of an announcement that changes nothing.
TellChange(q) ==
    LET r == serving[q] IN
    /\ r.stage = "written"
    /\ audit' = IF r.read = r.tools THEN audit
                ELSE audit \cup {Event("announced", r.node, r.rev, r.tools \ r.read, r.read \ r.tools)}
    /\ Answer(q, "ok")
    /\ UNCHANGED <<codes, rows, procs, files, cut, left>>

------------------------------------------------------------------------------
(* Revocation: DeviceRegistry.revoke *)

AskRevoke(n, q) ==
    /\ Born(n)
    /\ Free(q)
    /\ serving' = [serving EXCEPT ![q] = Asking(None, "revoke", n)]
    /\ Spends("revokes")
    /\ UNCHANGED <<codes, rows, audit, procs, files, cut>>

Mark(q) ==
    LET r == serving[q] IN
    /\ r.what = "revoke" /\ r.stage = "sent"
    /\ rows' = [rows EXCEPT ![r.node].revoked = TRUE]
    /\ IF rows[r.node].revoked THEN Answer(q, "ok") ELSE Goes(q, "marked")
    /\ UNCHANGED <<codes, audit, procs, files, cut, left>>

TellRevoked(q) ==
    /\ serving[q].stage = "marked"
    /\ audit' = audit \cup {Said("revoked", serving[q].node)}
    /\ Answer(q, "ok")
    /\ UNCHANGED <<codes, rows, procs, files, cut, left>>

------------------------------------------------------------------------------
(* What goes wrong *)

\* The event a request still owes, named by its node and revision; 0 is a revocation.
Owes(q) ==
    IF serving[q].stage \in {"born", "written", "marked"}
    THEN {<<serving[q].node, CASE serving[q].stage = "born" -> 1
                               [] serving[q].stage = "written" -> serving[q].rev
                               [] serving[q].stage = "marked" -> 0>>}
    ELSE {}

\* A transaction of a request raises: the request ends there, with a 5xx.
Breaks(q) ==
    /\ serving[q].stage \notin {"none"} \cup Answers
    /\ cut' = cut \cup Owes(q)
    /\ Answer(q, "broken")
    /\ Spends("faults")
    /\ UNCHANGED <<codes, rows, audit, procs, files>>

\* The Core dies and comes back: what it was serving is gone.
Crash ==
    /\ cut' = cut \cup UNION {Owes(q) : q \in Req}
    /\ serving' = [q \in Req |-> NoRequest]
    /\ Spends("faults")
    /\ UNCHANGED <<codes, rows, audit, procs, files>>

------------------------------------------------------------------------------
(* A process of a node: node/__init__.py, runner.py *)

Starts(p, h, pc) ==
    [NoProcess EXCEPT !.pc = pc, !.home = h, !.node = files[h]]

\* join_or_read with an identity on disk.
StartKnown(p, h) ==
    /\ procs[p].pc \in Stopped
    /\ files[h] # None
    /\ procs' = [procs EXCEPT ![p] = Starts(p, h, "coming")]
    /\ Spends("starts")
    /\ UNCHANGED <<codes, rows, audit, serving, files, cut>>

\* join_or_read with a code.
StartJoin(p, h, c, q, tools) ==
    /\ procs[p].pc \in Stopped
    /\ files[h] = None /\ codes[c].offered /\ Free(q)
    /\ procs' = [procs EXCEPT ![p] = Starts(p, h, "joining")]
    /\ serving' = [serving EXCEPT ![q] = [Asking(p, "worker", None) EXCEPT !.code = c, !.tools = tools]]
    /\ Spends("starts")
    /\ UNCHANGED <<codes, rows, audit, files, cut>>

\* The answer of q is for p.
Hears(p, q) ==
    /\ serving[q].from = p /\ serving[q].stage \in Answers
    /\ serving' = [serving EXCEPT ![q] = NoRequest]

\* Only a 201 carries an identity; a mutant takes any answer for one.
AnyAnswer(answer) == TRUE
Enrols(answer) == answer = "ok"

Joined(p, q) ==
    /\ procs[p].pc = "joining"
    /\ Hears(p, q)
    /\ procs' = IF Enrols(serving[q].stage)
                THEN [procs EXCEPT ![p].pc = "writing", ![p].node = serving[q].node]
                ELSE [procs EXCEPT ![p].pc = "failed"]
    /\ UNCHANGED <<codes, rows, audit, files, cut, left>>

\* O_EXCL: whether node.json may be created; a mutant opens it anyway.
Overwrites(h) == TRUE
Creates(h) == files[h] = None

\* write_identity
WriteFile(p) ==
    LET h == procs[p].home IN
    /\ procs[p].pc = "writing"
    /\ IF Creates(h)
       THEN /\ files' = [files EXCEPT ![h] = procs[p].node]
            /\ procs' = [procs EXCEPT ![p].pc = "coming"]
       ELSE /\ procs' = [procs EXCEPT ![p].pc = "failed"]
            /\ UNCHANGED files
    /\ UNCHANGED <<codes, rows, audit, serving, cut, left>>

\* Node.refresh: GET /nodes/me, at start-up and after a 412.
AskWho(p, q) ==
    /\ procs[p].pc \in {"coming", "again"} /\ Free(q)
    /\ serving' = [serving EXCEPT ![q] = Asking(p, "whoami", procs[p].node)]
    /\ procs' = IF procs[p].pc = "coming"
                THEN [procs EXCEPT ![p].pc = "refreshing", ![p].beside = FALSE, ![p].blind = FALSE]
                ELSE [procs EXCEPT ![p].pc = "rereading"]
    /\ UNCHANGED <<codes, rows, audit, files, cut, left>>

\* What a process does after an answer to its reading: announce, for the first or second time.
HeardWho(p, q) ==
    LET next == IF procs[p].pc = "refreshing" THEN "saying" ELSE "sayingAgain" IN
    /\ procs[p].pc \in {"refreshing", "rereading"}
    /\ Hears(p, q)
    /\ procs' = CASE serving[q].stage = "unauthorized" -> [procs EXCEPT ![p].pc = "revoked"]
                  [] serving[q].stage = "ok" -> [procs EXCEPT ![p].pc = next, ![p].rev = serving[q].rev]
                  [] OTHER -> [procs EXCEPT ![p].pc = next, ![p].blind = TRUE]
    /\ UNCHANGED <<codes, rows, audit, files, cut, left>>

\* Node.announce: PUT /nodes/me at the revision this process saw.
Say(p, q, tools) ==
    /\ procs[p].pc \in {"saying", "sayingAgain"} /\ Free(q)
    /\ serving' = [serving EXCEPT ![q] =
                     [Asking(p, "announce", procs[p].node) EXCEPT !.tools = tools, !.rev = procs[p].rev]]
    /\ procs' = [r \in Proc |->
                   IF r = p
                   THEN [procs[p] EXCEPT !.pc = IF @ = "saying" THEN "announcing" ELSE "reannouncing"]
                   ELSE [procs[r] EXCEPT !.beside = @ \/ procs[r].node = procs[p].node]]
    /\ Spends("says")
    /\ UNCHANGED <<codes, rows, audit, files, cut>>

\* Where a 412 takes a process: once it reads again, twice it is a twin; a mutant announces again
\* at once, without the reading in between.
NoReading(pc) == IF pc = "announcing" THEN "sayingAgain" ELSE "twin"
AfterConflict(pc) == IF pc = "announcing" THEN "again" ELSE "twin"

\* Any other answer leaves the process up, a 5xx included.
HeardSay(p, q) ==
    /\ procs[p].pc \in {"announcing", "reannouncing"}
    /\ Hears(p, q)
    /\ procs' = CASE serving[q].stage = "conflict" -> [procs EXCEPT ![p].pc = AfterConflict(@)]
                  [] serving[q].stage = "unauthorized" -> [procs EXCEPT ![p].pc = "revoked"]
                  [] serving[q].stage = "ok" -> [procs EXCEPT ![p].pc = "up", ![p].rev = serving[q].rev]
                  [] OTHER -> [procs EXCEPT ![p].pc = "up"]
    /\ UNCHANGED <<codes, rows, audit, files, cut, left>>

\* Node.report, before every turn of the loop.
Report(p, q) ==
    /\ procs[p].pc = "up" /\ Free(q)
    /\ serving' = [serving EXCEPT ![q] = Asking(p, "heartbeat", procs[p].node)]
    /\ procs' = [procs EXCEPT ![p].pc = "reporting"]
    /\ UNCHANGED <<codes, rows, audit, files, cut, left>>

Reported(p, q) ==
    /\ procs[p].pc = "reporting"
    /\ Hears(p, q)
    /\ procs' = [procs EXCEPT ![p].pc = IF serving[q].stage = "unauthorized" THEN "revoked" ELSE "up"]
    /\ UNCHANGED <<codes, rows, audit, files, cut, left>>

\* Nobody waits for the answers of p any more.
Abandoned(p) ==
    [q \in Req |-> IF serving[q].from # p THEN serving[q]
                   ELSE IF serving[q].stage \in Answers THEN NoRequest
                   ELSE [serving[q] EXCEPT !.from = None]]

\* httpx.TransportError: enrolment gives up, coming_up begins again, the loop goes round.
AfterSilence(pc) == CASE pc = "joining" -> "failed" [] pc = "reporting" -> "up" [] OTHER -> "coming"

TimesOut(p) ==
    /\ procs[p].pc \in Waiting
    /\ IF \E q \in Req : serving[q].from = p
       THEN Spends("faults")
       ELSE UNCHANGED left
    /\ serving' = Abandoned(p)
    /\ procs' = [procs EXCEPT ![p].pc = AfterSilence(@)]
    /\ UNCHANGED <<codes, rows, audit, files, cut>>

\* The window is closed, or the ceiling of tries was reached.
Die(p) ==
    /\ procs[p].pc \notin Stopped
    /\ serving' = Abandoned(p)
    /\ procs' = [procs EXCEPT ![p] = NoProcess]
    /\ UNCHANGED <<codes, rows, audit, files, cut, left>>

------------------------------------------------------------------------------

Serve(q) ==
    \/ ReadClock(q) \/ NotSpent(q) \/ Insert(q) \/ TellBirth(q)
    \/ \E n \in Node : Spend(q, n)
    \/ Admit(q) \/ Whoami(q) \/ Heartbeat(q)
    \/ ReadRow(q) \/ Write(q) \/ NotWritten(q) \/ TellConflict(q) \/ TellChange(q)
    \/ Mark(q) \/ TellRevoked(q)
    \/ Breaks(q)

User ==
    \/ \E c \in Code : Lapse(c) \/ \E role \in Roles : Issue(c, role)
    \/ \E c \in Code, q \in Req : Paste(c, q)
    \/ \E n \in Node, q \in Req : AskRevoke(n, q)

Process(p) ==
    \/ \E h \in Home : StartKnown(p, h)
    \/ \E h \in Home, c \in Code, q \in Req, tools \in SUBSET Tool : StartJoin(p, h, c, q, tools)
    \/ WriteFile(p) \/ TimesOut(p) \/ Die(p)
    \/ \E q \in Req : \/ Joined(p, q) \/ AskWho(p, q) \/ HeardWho(p, q) \/ HeardSay(p, q)
                      \/ Report(p, q) \/ Reported(p, q)
                      \/ \E tools \in SUBSET Tool : Say(p, q, tools)

Next == (\E q \in Req : Serve(q)) \/ User \/ (\E p \in Proc : Process(p)) \/ Crash

Spec == Init /\ [][Next]_vars

------------------------------------------------------------------------------
(* Properties *)

ProcRecord == [pc : ProcStates, home : Home \cup {None}, node : Node \cup {None}, rev : Nat,
             beside : BOOLEAN, blind : BOOLEAN]
EventTypes == {"enrolled", "announced", "rejected", "conflict", "revoked"}

\* Types, with what the bodies of the handlers rely on: a request past its first step names a row
\* that exists (or is about to), and a process that speaks has an identity.
TypeOK ==
    /\ codes \in [Code -> [role : Roles, offered : BOOLEAN, late : BOOLEAN, by : Node \cup {None}]]
    /\ rows \in [Node -> [role : Roles, halves : Seq(SUBSET Tool), revoked : BOOLEAN, seen : BOOLEAN]]
    /\ audit \subseteq [what : EventTypes, node : Node, of : Nat, added : SUBSET Tool, removed : SUBSET Tool]
    /\ serving \in [Req -> Request]
    /\ procs \in [Proc -> ProcRecord]
    /\ files \in [Home -> Node \cup {None}]
    /\ cut \subseteq Node \X Nat
    /\ left \in [Bounded -> Nat]
    /\ \A q \in Req : serving[q].what \notin Roles /\ ~Free(q) => serving[q].node # None /\ Born(serving[q].node)
    /\ \A p \in Proc : Speaks(p) => procs[p].node # None /\ Born(procs[p].node)

\* A code gives birth to at most one node, of the role the user gave the code, although two machines
\* may present it at once on either route; a node is kept in one folder, whose node.json is never
\* replaced, and every process that speaks as a node was started from the folder that keeps it: a row
\* that ever spoke is one the user can name.
\* enrollment.py:121, enrollment_store.py:58, state.py:96
OneNodeOfACode ==
    /\ \A n \in Node : Born(n) => \E c \in Code : codes[c].by = n /\ codes[c].role = rows[n].role
    /\ \A h1, h2 \in Home : files[h1] = files[h2] /\ files[h1] # None => h1 = h2
    /\ \A p \in Proc : Speaks(p) => files[procs[p].home] = procs[p].node
    /\ \A n \in Node : rows[n].seen \/ Revision(n) > 1 => \E h \in Home : files[h] = n

Change(n, r) ==
    LET before == IF r = 1 THEN {} ELSE rows[n].halves[r - 1]
        after == rows[n].halves[r]
    IN Event(IF r = 1 THEN "enrolled" ELSE "announced", n, r, after \ before, before \ after)

\* The event of a write is in the audit, or a request of the Core still owes it, or it was cut off by
\* a crash or a failure between the write and the append.
Told(e) ==
    e \in audit \/ <<e.node, e.of>> \in cut \/ \E q \in Req : <<e.node, e.of>> \in Owes(q)

\* Whoever reads the audit knows what a node gained and lost: what is said of a revision is exactly
\* what that announcement changed, although the difference is taken against a row that was read in
\* an earlier transaction, and every birth, change and revocation is said unless a crash cut it off.
\* registry.py:412, "the difference is exact because the declared half moves only with the revision".
AuditTellsTheRow ==
    \A n \in Node :
        /\ \A e \in audit : e.node = n /\ e.of > 0 => e.of <= Revision(n) /\ e = Change(n, e.of)
        /\ \A r \in 1..Revision(n) :
               LET e == Change(n, r) IN r = 1 \/ e.added # {} \/ e.removed # {} => Told(e)
        /\ rows[n].revoked => Told(Said("revoked", n))
        /\ Said("revoked", n) \in audit => rows[n].revoked

\* A process stops as a twin only when another process announced as its node since it began coming
\* up, whatever of its own requests outlived its timeouts or the process that was there before it:
\* the reading between the two refusals is newer than all of them.  The exception the code has: a
\* reading answered with no revision (a 5xx) leaves the process with one it cannot announce at.
\* runner.py:326, errors.py:31
TwinMeansTwo == \A p \in Proc : procs[p].pc = "twin" => procs[p].beside \/ procs[p].blind

=============================================================================
