-------------------------- MODULE MigrationLabProofs --------------------------
(***************************************************************************)
(* The migration lab for any number of families, samples and faults.  In   *)
(* order: an accept thread takes connections of its own socket only, and a *)
(* client is served by the server chosen for its connection; the canary    *)
(* share is exact; a passed run has refused a connection per family; and,  *)
(* from what receive says of each test bundle, a run without a fault does  *)
(* not fail.                                                               *)
(***************************************************************************)
EXTENDS MigrationLab, SequenceTheorems, FiniteSetTheorems, TLAPS

MainPcs  == {"inbox", "baseline", "sessions", "open", "configure", "stage",
             "prepare", "probe", "retire", "close", "join", "kill", "done"}
MainType == [pc : MainPcs, fam : Routers \cup {0}, k : Nat, made : Nat, good : Nat,
             pqc : Nat, mark : Nat, then : {"kill", "open"}]
RouterType == [percent : Nat, blocked : BOOLEAN, counter : Nat,
               events : Seq(Event), closed : BOOLEAN, since : Nat]
ThreadType == [at : {"none", "loop", "enter", "blocked", "took", "ended"},
               sock : Routers \cup {0}, took : {"none", "live", "gone"}]
ConnType == [st : {"idle", "queued", "routed", "answered"}, groups : SUBSET Groups,
             pqc : BOOLEAN, blocked : BOOLEAN,
             reply : Groups \cup {"none", "failed"}, slow : BOOLEAN]

Before  == {"inbox", "baseline", "sessions"}
Rollout == {"open", "configure", "stage", "prepare", "probe", "retire", "close", "join"}
Live(r) == thread[r].at \notin {"none", "ended"}

\* Which family the main thread is busy with, and how far it is.
MainInv ==
  /\ main.pc \in Rollout => main.fam \in Routers
  /\ main.pc \in Before => main.fam = 0
  /\ main.pc \in {"configure", "stage"} => main.k \in 1 .. 3
  /\ main.pc \in {"prepare", "probe"} => main.k \in 1 .. 4
  /\ main.then = "open" => main.fam < Len(Families) /\ main.pc \in {"retire", "close", "join"}

\* Only the current router's thread runs, and the descriptor is its socket's.
ThreadInv ==
  /\ \A r \in Routers : Live(r) => r = main.fam
  /\ fd \in {0, main.fam}
  /\ main.pc \in Before \cup {"open"} => fd = 0 /\ \A r \in Routers : ~ Live(r)
  /\ main.pc = "join" => fd = 0
  /\ OwnConnections

\* The client's connection is the last one queued; once it is routed, its event
\* is the last one of the router.
ConnInv ==
  /\ conn.st # "idle" => main.pc \in {"stage", "probe"}
  /\ conn.st # "idle" /\ main.pc = "stage" => main.made < StageSize
  /\ \A r \in Routers : \A i \in 1 .. Len(queue[r]) :
       queue[r][i] = "live" => r = main.fam /\ conn.st = "queued" /\ i = Len(queue[r])
                               /\ thread[r].took # "live"
  /\ \A r \in Routers :
       /\ thread[r].took = "live" => r = main.fam /\ conn.st = "queued" /\ queue[r] = <<>>
       /\ thread[r].took # "none" => thread[r].at = "took"
  /\ conn.st = "routed" \/ (conn.st = "answered" /\ conn.reply \in Groups) =>
       LET events == router[main.fam].events
       IN  /\ queue[main.fam] = <<>> /\ thread[main.fam].at # "took"
           /\ Len(events) > 0 /\ events[Len(events)].pqc = conn.pqc
  /\ conn.reply \in Groups =>
       conn.st = "answered" /\ conn.reply = GroupOf(main.fam, conn.pqc)

IInv == TypeOK /\ MainInv /\ ThreadInv /\ ConnInv

-----------------------------------------------------------------------------
LEMMA Basics ==
  /\ Len(Families) \in Nat \ {0} /\ Routers = 1 .. Len(Families)
  /\ ClassicGroup \in Groups /\ \A r \in Routers : Families[r] \in Groups
  /\ "none" \notin Groups /\ "failed" \notin Groups /\ 1 \in Routers
<1>1. Len(Families) \in Nat \ {0} /\ Routers = 1 .. Len(Families)
  BY FamiliesAssumption DEF Routers
<1>2. \A r \in Routers : Families[r] \in ToSet(Families)
  BY DEF Routers, ToSet
<1> QED BY <1>1, <1>2, GroupsAssumption DEF Groups

LEMMA GotoTyped ==
  ASSUME NEW pc \in MainPcs, NEW fam \in Routers \cup {0}, NEW k \in Nat
  PROVE  /\ Goto(pc, fam, k) \in MainType
         /\ Goto(pc, fam, k).pc = pc /\ Goto(pc, fam, k).fam = fam
         /\ Goto(pc, fam, k).k = k /\ Goto(pc, fam, k).then = "kill"
         /\ Goto(pc, fam, k).made = 0
BY DEF Goto, MainType

LEMMA CleanupTyped ==
  ASSUME TypeOK
  PROVE  /\ Cleanup \in MainType /\ Cleanup.fam = main.fam /\ Cleanup.then = "kill"
         /\ IF main.fam = 0 THEN Cleanup.pc = "kill" ELSE Cleanup.pc = "retire"
<1>1. main.fam \in Routers \cup {0}
  BY DEF TypeOK
<1>2. "kill" \in MainPcs /\ "retire" \in MainPcs /\ 0 \in Routers \cup {0} /\ 1 \in Nat
  BY DEF MainPcs
<1>3. CASE main.fam = 0
  BY <1>2, <1>3, GotoTyped DEF Cleanup
<1>4. CASE main.fam # 0
  BY <1>1, <1>2, <1>4, GotoTyped DEF Cleanup
<1> QED BY <1>3, <1>4

(* TypeOK in parts.                                                        *)
LEMMA Typed ==
  ASSUME TypeOK
  PROVE  /\ main \in MainType /\ router \in [Routers -> RouterType]
         /\ thread \in [Routers -> ThreadType] /\ conn \in ConnType
         /\ queue \in [Routers -> Seq({"live", "gone"})]
         /\ fd \in Routers \cup {0}
BY DEF TypeOK, MainType, MainPcs, RouterType, ThreadType, ConnType

(* Steps of the main thread that leave the accept threads alone.           *)
LEMMA ThreadFrame ==
  ASSUME ThreadInv, UNCHANGED <<thread, fd>>, main'.fam = main.fam,
         main'.pc \in Before \cup {"open"} => main.pc \in Before,
         main'.pc = "join" => fd = 0
  PROVE  ThreadInv'
BY DEF ThreadInv, OwnConnections, Live

(* With no connection under way, or with its end, nothing is left of it.   *)
LEMMA ConnFrame ==
  ASSUME ConnInv, TypeOK, conn.st # "queued", UNCHANGED <<thread, queue>>,
         (conn.st = "idle" /\ conn' = conn) \/ conn' = NoConn
  PROVE  ConnInv'
<1>1. conn'.st = "idle" /\ conn'.reply \notin Groups
  BY Basics DEF ConnInv, NoConn
<1>2. \A r \in Routers : \A i \in 1 .. Len(queue[r]) : queue[r][i] # "live"
  BY DEF ConnInv
<1>3. \A r \in Routers : thread[r].took # "live" /\ (thread[r].took # "none" => thread[r].at = "took")
  BY DEF ConnInv
<1> QED BY <1>1, <1>2, <1>3 DEF ConnInv

LEMMA FailMoves ==
  ASSUME TypeOK, MainInv, Fail
  PROVE  /\ main' \in MainType /\ MainInv' /\ main'.fam = main.fam
         /\ main'.pc \in {"kill", "retire"} /\ verdict' = "failed"
<1>1. /\ main' \in MainType /\ main'.fam = main.fam /\ main'.then = "kill"
      /\ IF main.fam = 0 THEN main'.pc = "kill" ELSE main'.pc = "retire"
  BY CleanupTyped DEF Fail
<1>2. main.fam \in Routers \cup {0}
  BY DEF TypeOK
<1>3. main'.pc \in {"kill", "retire"}
  BY <1>1
<1>4. MainInv'
  BY <1>1, <1>2, <1>3 DEF MainInv, Rollout, Before
<1> QED BY <1>1, <1>3, <1>4 DEF Fail

\* The main thread goes on to a label that needs nothing of the accept threads.
Onward == /\ main' \in MainType /\ MainInv' /\ main'.fam = main.fam
          /\ main'.pc \in Before \cup {"open"} => main.pc \in Before
          /\ main'.pc = "join" => fd = 0

LEMMA FailOnward == ASSUME TypeOK, MainInv, Fail PROVE Onward /\ verdict' = "failed"
BY FailMoves DEF Onward, Before

LEMMA MainMovesShut ==
  ASSUME IInv, Onward, conn.st # "queued", UNCHANGED <<thread, fd, queue>>,
         (conn.st = "idle" /\ conn' = conn) \/ conn' = NoConn, shut' \subseteq Routers,
         verdict' \in {"running", "passed", "failed"}, written' \in BOOLEAN,
         seen' \subseteq {"statement"}, public' \in Algorithms, up' \subseteq Groups,
         router' \in [Routers -> RouterType], faults' \subseteq Kinds
  PROVE  IInv'
<1>1. ThreadInv'
  BY ThreadFrame DEF IInv, Onward
<1>2. ConnInv'
  BY ConnFrame DEF IInv
<1>3. conn' \in ConnType
  <2>1. NoConn \in ConnType
    BY DEF NoConn, ConnType
  <2> QED BY <2>1, Typed DEF IInv
<1>4. TypeOK'
  BY <1>3 DEF Onward, IInv, TypeOK, MainType, MainPcs, RouterType, ConnType
<1> QED BY <1>1, <1>2, <1>4 DEF IInv, Onward

LEMMA MainMoves ==
  ASSUME IInv, Onward, conn.st # "queued", UNCHANGED <<thread, net>>,
         (conn.st = "idle" /\ conn' = conn) \/ conn' = NoConn,
         verdict' \in {"running", "passed", "failed"}, written' \in BOOLEAN,
         seen' \subseteq {"statement"}, public' \in Algorithms, up' \subseteq Groups,
         router' \in [Routers -> RouterType], faults' \subseteq Kinds
  PROVE  IInv'
<1>1. UNCHANGED <<fd, shut, queue>>
  BY DEF net
<1>2. shut' \subseteq Routers
  BY <1>1 DEF IInv, TypeOK
<1> QED BY <1>1, <1>2, MainMovesShut

LEMMA LabTyped ==
  ASSUME TypeOK
  PROVE  /\ verdict \in {"running", "passed", "failed"} /\ written \in BOOLEAN
         /\ seen \subseteq {"statement"} /\ public \in Algorithms /\ up \subseteq Groups
         /\ faults \subseteq Kinds /\ Required \in Algorithms
BY AlgorithmsAssumption DEF TypeOK

LEMMA Idle ==
  ASSUME IInv, main.pc \notin {"stage", "probe"}
  PROVE  conn.st = "idle"
BY DEF IInv, ConnInv

LEMMA InboxStep == ASSUME IInv, InboxTest PROVE IInv'
<1>1. /\ main.pc = "inbox" /\ conn.st = "idle"
      /\ UNCHANGED <<written, public, up, router, net, thread, conn, faults>>
  BY Idle DEF InboxTest
<1>2. PICK test :
        /\ \/ Fail
           \/ main' \in {Goto("baseline", 0, 1), [main EXCEPT !.k = @ + 1]} /\ UNCHANGED verdict
        /\ seen' = Remember(Sign(Required, Statement), test.got, seen, test.remember)
  BY DEF InboxTest
<1>3. seen' \subseteq {"statement"}
  BY <1>2 DEF Remember, Sign, IInv, TypeOK
<1>4. main \in MainType /\ main.fam = 0 /\ main.then = "kill"
  BY <1>1, Typed DEF IInv, MainInv, Before, MainType
<1>5. Onward /\ verdict' \in {"running", "passed", "failed"}
  <2>1. CASE Fail
    BY <2>1, FailOnward DEF IInv
  <2>2. CASE main' = Goto("baseline", 0, 1) /\ UNCHANGED verdict
    <3>1. "baseline" \in MainPcs
      BY DEF MainPcs
    <3>2. main' \in MainType /\ main'.pc = "baseline" /\ main'.fam = 0 /\ main'.then = "kill"
      BY <2>2, <3>1, GotoTyped
    <3> QED BY <1>1, <1>4, <2>2, <3>2, LabTyped DEF Onward, MainInv, Rollout, Before, IInv
  <2>3. CASE main' = [main EXCEPT !.k = @ + 1] /\ UNCHANGED verdict
    <3>1. main' \in MainType /\ main'.pc = "inbox" /\ main'.fam = 0 /\ main'.then = "kill"
      BY <1>1, <1>4, <2>3 DEF MainType
    <3> QED BY <1>1, <1>4, <2>3, <3>1, LabTyped DEF Onward, MainInv, Rollout, Before, IInv
  <2> QED BY <1>2, <2>1, <2>2, <2>3
<1> QED BY <1>1, <1>3, <1>5, MainMoves, LabTyped, Typed DEF IInv

LEMMA SampleSteps == ASSUME IInv, Baseline \/ SampleFault PROVE IInv'
<1>1. /\ main.pc \in {"baseline", "sessions"} /\ conn.st = "idle"
      /\ UNCHANGED <<written, seen, public, up, router, net, thread, conn>>
      /\ faults' \subseteq Kinds
  <2>1. faults' \subseteq Kinds
    BY DEF Baseline, SampleFault, Fault, IInv, TypeOK, Kinds
  <2> QED BY <2>1, Idle DEF Baseline, SampleFault
<1>2. main \in MainType /\ main.fam = 0 /\ main.then = "kill"
  BY <1>1, Typed DEF IInv, MainInv, Before, MainType
<1>3. Onward /\ verdict' \in {"running", "passed", "failed"}
  <2>1. CASE Fail
    BY <2>1, FailOnward DEF IInv
  <2>2. CASE main' = Goto("sessions", 0, 1) /\ UNCHANGED verdict
    <3>1. "sessions" \in MainPcs
      BY DEF MainPcs
    <3>2. main' \in MainType /\ main'.pc = "sessions" /\ main'.fam = 0 /\ main'.then = "kill"
      BY <2>2, <3>1, GotoTyped
    <3> QED BY <1>1, <1>2, <2>2, <3>2, LabTyped DEF Onward, MainInv, Rollout, Before, IInv
  <2>3. CASE main' = [main EXCEPT !.k = @ + 1] /\ UNCHANGED verdict
    <3>1. main' \in MainType /\ main'.pc = main.pc /\ main'.fam = 0 /\ main'.then = "kill"
      BY <1>2, <2>3 DEF MainType
    <3> QED BY <1>1, <1>2, <2>3, <3>1, LabTyped DEF Onward, MainInv, Rollout, Before, IInv
  <2> QED BY <2>1, <2>2, <2>3 DEF Baseline, SampleFault
<1> QED BY <1>1, <1>3, MainMoves, LabTyped, Typed DEF IInv

LEMMA SessionStep == ASSUME IInv, Session PROVE IInv'
<1>1. /\ main.pc = "sessions" /\ conn.st = "idle"
      /\ UNCHANGED <<verdict, written, seen, up, router, net, thread, conn, faults>>
      /\ public' \in Algorithms
  BY Idle, LabTyped DEF Session, IInv
<1>2. main \in MainType /\ main.fam = 0 /\ main.then = "kill"
  BY <1>1, Typed DEF IInv, MainInv, Before, MainType
<1>3. CASE main' = [main EXCEPT !.k = @ + 1]
  <2>1. main' \in MainType /\ main'.pc = main.pc /\ main'.fam = 0 /\ main'.then = "kill"
    BY <1>2, <1>3 DEF MainType
  <2>2. Onward
    BY <1>1, <1>2, <2>1 DEF Onward, MainInv, Rollout, Before
  <2> QED BY <1>1, <2>2, MainMoves, LabTyped, Typed DEF IInv
<1>4. CASE main' = Goto("open", 1, 1)
  <2>1. "open" \in MainPcs
    BY DEF MainPcs
  <2>2. main' \in MainType /\ main'.pc = "open" /\ main'.fam = 1 /\ main'.then = "kill"
    BY <1>4, <2>1, Basics, GotoTyped
  <2>3. MainInv'
    BY <2>2, Basics DEF MainInv, Rollout, Before
  <2>4. fd = 0 /\ \A r \in Routers : ~ Live(r)
    BY <1>1 DEF IInv, ThreadInv, Before
  <2>5. UNCHANGED <<fd, shut, queue, thread>>
    BY <1>1 DEF net
  <2>6. ThreadInv'
    BY <2>2, <2>4, <2>5 DEF ThreadInv, OwnConnections, Live, IInv
  <2>7. ConnInv'
    BY <1>1, <2>5, ConnFrame DEF IInv
  <2>8. TypeOK'
    BY <1>1, <2>2, <2>5, LabTyped DEF IInv, TypeOK, MainType, MainPcs
  <2> QED BY <2>3, <2>6, <2>7, <2>8 DEF IInv
<1> QED BY <1>3, <1>4 DEF Session

LEMMA OpenStep == ASSUME IInv, Open PROVE IInv'
<1> DEFINE f == main.fam
<1>1. /\ main.pc = "open" /\ conn.st = "idle" /\ f \in Routers
      /\ UNCHANGED <<lab, up, router, shut, queue, conn, faults>>
  BY Idle DEF Open, IInv, MainInv, Rollout
<1>2. fd = 0 /\ \A r \in Routers : ~ Live(r)
  BY <1>1 DEF IInv, ThreadInv, Before
<1>3. fd' = f /\ thread' = [thread EXCEPT ![f].at = "loop"] /\ main' = Goto("configure", f, 1)
  BY <1>2 DEF Open
<1>4. thread \in [Routers -> ThreadType]
  BY Typed DEF IInv
<1>5. /\ thread' \in [Routers -> ThreadType]
      /\ thread'[f].at = "loop" /\ thread'[f].took = thread[f].took
      /\ \A r \in Routers : r # f => thread'[r] = thread[r]
  BY <1>1, <1>3, <1>4 DEF ThreadType
<1>6. main' \in MainType /\ main'.pc = "configure" /\ main'.fam = f /\ main'.k = 1
      /\ main'.then = "kill"
  <2>1. "configure" \in MainPcs
    BY DEF MainPcs
  <2> QED BY <1>1, <1>3, <2>1, GotoTyped
<1>7. MainInv'
  BY <1>1, <1>6 DEF MainInv, Rollout, Before
<1>8. ThreadInv'
  BY <1>2, <1>3, <1>5, <1>6 DEF ThreadInv, OwnConnections, Live, Before
<1>9. ConnInv'
  <2>1. \A r \in Routers : thread[r].took = "none"
    BY <1>2, <1>4 DEF IInv, ConnInv, Live, ThreadType
  <2>2. \A r \in Routers : thread'[r].took = "none"
    BY <1>5, <2>1
  <2>3. \A r \in Routers : \A i \in 1 .. Len(queue[r]) : queue[r][i] # "live"
    BY <1>1 DEF IInv, ConnInv
  <2>4. conn.reply \notin Groups
    BY <1>1 DEF IInv, ConnInv
  <2> QED BY <1>1, <2>2, <2>3, <2>4 DEF ConnInv
<1>10. TypeOK'
  <2>1. fd' \in Routers \cup {0}
    BY <1>1, <1>3
  <2> QED BY <1>1, <1>5, <1>6, <2>1 DEF IInv, TypeOK, MainType, MainPcs, ThreadType, lab
<1> QED BY <1>7, <1>8, <1>9, <1>10 DEF IInv

LEMMA ConfigureTyped ==
  ASSUME TypeOK, NEW r \in Routers, NEW percent \in Nat, NEW blocked \in BOOLEAN,
         Configure(r, percent, blocked)
  PROVE  router' \in [Routers -> RouterType]
<1>1. router \in [Routers -> RouterType]
  BY Typed
<1>2. /\ Len(router[r].events) \in Nat /\ router[r].events \in Seq(Event)
      /\ router[r].closed \in BOOLEAN
  BY <1>1 DEF RouterType
<1>3. PICK w \in RouterType : w = [router[r] EXCEPT !.percent = percent]
  BY <1>1 DEF RouterType
<1>4. PICK x \in RouterType : x = [w EXCEPT !.blocked = blocked]
  BY DEF RouterType
<1>5. PICK y \in RouterType : y = [x EXCEPT !.counter = 0]
  BY DEF RouterType
<1>6. PICK z \in RouterType : z = [y EXCEPT !.since = Len(router[r].events)]
  BY <1>2 DEF RouterType
<1>7. router' = [router EXCEPT ![r] = z]
  BY <1>3, <1>4, <1>5, <1>6, Zenon DEF Configure
<1> QED BY <1>1, <1>7

\* Len(events) of the router the main thread is busy with.
LEMMA MarkTyped ==
  ASSUME TypeOK, NEW r \in Routers
  PROVE  Len(router[r].events) \in Nat
<1>1. router \in [Routers -> RouterType]
  BY Typed
<1> QED BY <1>1 DEF RouterType

LEMMA SetStageStep == ASSUME IInv, SetStage PROVE IInv'
<1>1. /\ main.pc = "configure" /\ conn.st = "idle" /\ main.fam \in Routers /\ main.k \in 1 .. 3
      /\ UNCHANGED <<lab, up, net, thread, conn, faults>>
  BY Idle DEF SetStage, IInv, MainInv, Rollout
<1>2. Percents[main.k] \in Nat
  BY <1>1 DEF Percents
<1>3. router' \in [Routers -> RouterType]
  BY <1>1, <1>2, ConfigureTyped DEF SetStage, IInv
<1>4. PICK mark \in Nat : main' = [Goto("stage", main.fam, main.k) EXCEPT !.mark = mark]
  BY <1>1, MarkTyped DEF SetStage, IInv
<1>5. Goto("stage", main.fam, main.k) \in MainType
  BY <1>1, GotoTyped DEF MainPcs
<1>6. main' \in MainType /\ main'.pc = "stage" /\ main'.fam = main.fam /\ main'.k = main.k
      /\ main'.then = "kill"
  BY <1>1, <1>4, <1>5, GotoTyped DEF MainType, Goto
<1>7. Onward
  BY <1>1, <1>6 DEF Onward, MainInv, Rollout, Before
<1>8. UNCHANGED <<verdict, written, seen, public>>
  BY <1>1 DEF lab
<1> QED BY <1>1, <1>3, <1>7, <1>8, MainMoves, LabTyped DEF IInv

-----------------------------------------------------------------------------
LEMMA AskStep ==
  ASSUME IInv, NEW groups \in SUBSET Groups, Ask(groups),
         \/ main.pc = "probe"
         \/ main.pc = "stage" /\ main.made < StageSize
  PROVE  IInv'
<1> DEFINE f == main.fam
<1>1. /\ conn.st = "idle" /\ conn' = [NoConn EXCEPT !.st = "queued", !.groups = groups]
      /\ queue' = [queue EXCEPT ![f] = Append(@, "live")]
      /\ UNCHANGED <<main, lab, up, router, fd, shut, thread, faults>>
      /\ f \in Routers
  BY DEF Ask, IInv, MainInv, Rollout
<1>2. queue \in [Routers -> Seq({"live", "gone"})]
  BY Typed DEF IInv
<1>3. conn' \in ConnType /\ conn'.st = "queued" /\ conn'.reply = "none"
  BY <1>1 DEF NoConn, ConnType
<1>4. queue' \in [Routers -> Seq({"live", "gone"})]
  BY <1>1, <1>2
<1>5. MainInv' /\ ThreadInv'
  BY <1>1 DEF IInv, MainInv, ThreadInv, OwnConnections, Live
<1>6. ConnInv'
  <2>1. \A r \in Routers : thread[r].took # "live"
    BY <1>1 DEF IInv, ConnInv
  <2>2. \A r \in Routers : \A i \in 1 .. Len(queue[r]) : queue[r][i] # "live"
    BY <1>1 DEF IInv, ConnInv
  <2>3. ASSUME NEW r \in Routers, NEW i \in 1 .. Len(queue'[r]), queue'[r][i] = "live"
        PROVE  r = f /\ i = Len(queue'[r])
    <3>1. CASE r # f
      BY <1>1, <1>2, <2>2, <2>3, <3>1
    <3>2. CASE r = f
      <4>1. queue'[r] = Append(queue[r], "live") /\ queue[r] \in Seq({"live", "gone"})
        BY <1>1, <1>2, <3>2
      <4> QED BY <2>2, <2>3, <3>2, <4>1
    <3> QED BY <3>1, <3>2
  <2>4. \A r \in Routers : thread[r].took # "none" => thread[r].at = "took"
    BY DEF IInv, ConnInv
  <2> QED BY <1>1, <1>3, <2>1, <2>3, <2>4, Basics DEF ConnInv
<1>7. TypeOK'
  BY <1>1, <1>3, <1>4 DEF IInv, TypeOK, ConnType, lab
<1> QED BY <1>5, <1>6, <1>7 DEF IInv

LEMMA AskSteps == ASSUME IInv, StageAsk \/ Probe PROVE IInv'
<1>1. main.fam \in Routers
  BY DEF StageAsk, Probe, IInv, MainInv, Rollout
<1>2. Both \in SUBSET Groups /\ Only \in SUBSET Groups
  BY <1>1, Basics DEF Both, Only
<1>3. CASE StageAsk
  BY <1>2, <1>3, AskStep DEF StageAsk
<1>4. CASE Probe
  <2>1. PICK groups \in SUBSET Groups : Ask(groups)
    BY <1>2, <1>4 DEF Probe
  <2> QED BY <1>4, <2>1, AskStep DEF Probe
<1> QED BY <1>3, <1>4

LEMMA StageAnswerStep == ASSUME IInv, StageAnswer PROVE IInv'
<1>1. /\ main.pc = "stage" /\ conn.st = "answered" /\ conn' = NoConn /\ main.fam \in Routers
      /\ UNCHANGED <<written, seen, public, up, router, net, thread, faults>>
  BY DEF StageAnswer, Answered, IInv, MainInv, Rollout
<1>2. Onward /\ verdict' \in {"running", "passed", "failed"}
  <2>1. CASE Fail
    BY <2>1, FailOnward DEF IInv
  <2>2. CASE ~ Fail
    <3>1. main \in MainType
      BY Typed DEF IInv
    <3>2. PICK made \in Nat, good \in Nat, served \in Nat :
            main' = [main EXCEPT !.made = made, !.good = good, !.pqc = served]
      <4>1. main.made + 1 \in Nat /\ main.good \in Nat /\ main.pqc \in Nat
        BY <3>1 DEF MainType
      <4>2. PICK good \in Nat : good = IF Ok /\ ~ conn.slow THEN main.good + 1 ELSE main.good
        BY <4>1
      <4>3. PICK served \in Nat : served = IF conn.reply = Families[main.fam]
                                          THEN main.pqc + 1 ELSE main.pqc
        BY <4>1
      <4>4. main' = [main EXCEPT !.made = main.made + 1,
                        !.good = IF Ok /\ ~ conn.slow THEN main.good + 1 ELSE main.good,
                        !.pqc = IF conn.reply = Families[main.fam]
                                THEN main.pqc + 1 ELSE main.pqc]
        BY <2>2 DEF StageAnswer
      <4> QED BY <4>1, <4>2, <4>3, <4>4
    <3>3. main' \in MainType /\ main'.pc = "stage" /\ main'.fam = main.fam /\ main'.k = main.k
          /\ main'.then = main.then
      BY <1>1, <3>1, <3>2 DEF MainType
    <3>4. UNCHANGED verdict
      BY <2>2 DEF StageAnswer
    <3> QED BY <1>1, <3>3, <3>4, LabTyped DEF Onward, MainInv, IInv, Rollout, Before
  <2> QED BY <2>1, <2>2
<1> QED BY <1>1, <1>2, MainMoves, LabTyped, Typed DEF IInv

LEMMA GateStep == ASSUME IInv, Gate PROVE IInv'
<1>1. /\ main.pc = "stage" /\ conn.st = "idle" /\ main.fam \in Routers /\ main.k \in 1 .. 3
      /\ UNCHANGED <<written, seen, public, up, router, net, thread, conn, faults>>
  <2>1. main.pc = "stage" /\ main.made = StageSize
    BY DEF Gate
  <2>2. conn.st = "idle"
    BY <2>1 DEF IInv, ConnInv, StageSize
  <2> QED BY <2>1, <2>2 DEF Gate, IInv, MainInv, Rollout
<1>2. Onward /\ verdict' \in {"running", "passed", "failed"}
  <2>1. CASE Fail
    BY <2>1, FailOnward DEF IInv
  <2>2. CASE main.k < 3 /\ main' = Goto("configure", main.fam, main.k + 1) /\ UNCHANGED verdict
    <3>1. "configure" \in MainPcs /\ main.k + 1 \in 1 .. 3
      BY <1>1, <2>2 DEF MainPcs
    <3>2. main' \in MainType /\ main'.pc = "configure" /\ main'.fam = main.fam
          /\ main'.k \in 1 .. 3 /\ main'.then = "kill"
      BY <1>1, <2>2, <3>1, GotoTyped
    <3> QED BY <1>1, <2>2, <3>2, LabTyped DEF Onward, MainInv, Rollout, Before, IInv
  <2>3. CASE main' = Goto("prepare", main.fam, 1) /\ UNCHANGED verdict
    <3>1. "prepare" \in MainPcs
      BY DEF MainPcs
    <3>2. main' \in MainType /\ main'.pc = "prepare" /\ main'.fam = main.fam
          /\ main'.k = 1 /\ main'.then = "kill"
      BY <1>1, <2>3, <3>1, GotoTyped
    <3> QED BY <1>1, <2>3, <3>2, LabTyped DEF Onward, MainInv, Rollout, Before, IInv
  <2>4. Len(Percents) = 3
    BY DEF Percents
  <2> QED BY <2>1, <2>2, <2>3, <2>4 DEF Gate
<1> QED BY <1>1, <1>2, MainMoves, LabTyped, Typed DEF IInv

LEMMA PrepareStep == ASSUME IInv, Prepare PROVE IInv'
<1>1. /\ main.pc = "prepare" /\ conn.st = "idle" /\ main.fam \in Routers /\ main.k \in 1 .. 4
      /\ UNCHANGED <<lab, net, thread, conn, faults>>
  BY Idle DEF Prepare, IInv, MainInv, Rollout
<1>2. PICK mark \in Nat : main' = [main EXCEPT !.pc = "probe", !.mark = mark]
  BY <1>1, MarkTyped DEF Prepare, IInv
<1>3. main' \in MainType /\ main'.pc = "probe" /\ main'.fam = main.fam /\ main'.k = main.k
      /\ main'.then = main.then
  <2>1. main \in MainType
    BY Typed DEF IInv
  <2> QED BY <1>2, <2>1 DEF MainType, MainPcs
<1>4. Onward
  BY <1>1, <1>3 DEF Onward, MainInv, IInv, Rollout, Before
<1>5. up' \subseteq Groups
  <2>1. up \subseteq Groups /\ Families[main.fam] \in Groups
    BY <1>1, LabTyped, Basics DEF IInv
  <2>2. \/ UNCHANGED up
        \/ up' = up \ {Families[main.fam]}
        \/ up' = up \cup {Families[main.fam]}
    BY DEF Prepare
  <2> QED BY <2>1, <2>2
<1>6. router' \in [Routers -> RouterType]
  <2>1. \/ UNCHANGED router
        \/ \E percent \in Nat, blocked \in BOOLEAN : Configure(main.fam, percent, blocked)
    <3>1. 0 \in Nat /\ 100 \in Nat
      OBVIOUS
    <3> QED BY <3>1 DEF Prepare
  <2> QED BY <1>1, <2>1, ConfigureTyped, Typed DEF IInv
<1>7. UNCHANGED <<verdict, written, seen, public>>
  BY <1>1 DEF lab
<1> QED BY <1>1, <1>4, <1>5, <1>6, <1>7, MainMoves, LabTyped DEF IInv

LEMMA DrillStep == ASSUME IInv, Drill PROVE IInv'
<1>1. /\ main.pc = "probe" /\ conn.st = "answered" /\ conn' = NoConn /\ main.fam \in Routers
      /\ main.k \in 1 .. 4
      /\ UNCHANGED <<written, seen, public, up, router, net, thread, faults>>
  BY DEF Drill, Answered, IInv, MainInv, Rollout
<1>2. Onward /\ verdict' \in {"running", "passed", "failed"}
  <2>1. CASE Fail
    BY <2>1, FailOnward DEF IInv
  <2>2. CASE main.k < 4 /\ main' = Goto("prepare", main.fam, main.k + 1) /\ UNCHANGED verdict
    <3>1. "prepare" \in MainPcs /\ main.k + 1 \in 1 .. 4
      BY <1>1, <2>2 DEF MainPcs
    <3>2. main' \in MainType /\ main'.pc = "prepare" /\ main'.fam = main.fam
          /\ main'.k \in 1 .. 4 /\ main'.then = "kill"
      BY <1>1, <2>2, <3>1, GotoTyped
    <3> QED BY <1>1, <2>2, <3>2, LabTyped DEF Onward, MainInv, Rollout, Before, IInv
  <2>3. CASE /\ main.fam < Len(Families) /\ UNCHANGED verdict
             /\ main' = [Goto("retire", main.fam, 1) EXCEPT !.then = "open"]
    <3>1. "retire" \in MainPcs
      BY DEF MainPcs
    <3>2. main' \in MainType /\ main'.pc = "retire" /\ main'.fam = main.fam
          /\ main'.then = "open"
      BY <1>1, <2>3, <3>1, GotoTyped DEF Goto, MainType
    <3> QED BY <1>1, <2>3, <3>2, LabTyped DEF Onward, MainInv, Rollout, Before, IInv
  <2>4. CASE verdict' = "passed" /\ main' = Cleanup
    <3>1. /\ main' \in MainType /\ main'.fam = main.fam /\ main'.then = "kill"
          /\ main'.pc = "retire"
      BY <1>1, <2>4, CleanupTyped, Basics DEF IInv
    <3> QED BY <1>1, <2>4, <3>1 DEF Onward, MainInv, Rollout, Before, IInv
  <2> QED BY <2>1, <2>2, <2>3, <2>4 DEF Drill
<1> QED BY <1>1, <1>2, MainMoves, LabTyped, Typed DEF IInv

LEMMA RetireStep == ASSUME IInv, Retire PROVE IInv'
<1>1. /\ main.pc = "retire" /\ conn.st = "idle" /\ main.fam \in Routers
      /\ router' = [router EXCEPT ![main.fam].closed = TRUE]
      /\ shut' = shut \cup {main.fam} /\ main' = [main EXCEPT !.pc = "close"]
      /\ UNCHANGED <<lab, up, fd, queue, thread, conn, faults>>
  BY Idle DEF Retire, IInv, MainInv, Rollout
<1>2. main' \in MainType /\ main'.pc = "close" /\ main'.fam = main.fam /\ main'.then = main.then
  <2>1. main \in MainType
    BY Typed DEF IInv
  <2> QED BY <1>1, <2>1 DEF MainType, MainPcs
<1>3. Onward
  BY <1>1, <1>2 DEF Onward, MainInv, IInv, Rollout, Before
<1>4. router' \in [Routers -> RouterType]
  <2>1. router \in [Routers -> RouterType]
    BY Typed DEF IInv
  <2>2. PICK w \in RouterType : w = [router[main.fam] EXCEPT !.closed = TRUE]
    BY <1>1, <2>1 DEF RouterType
  <2>3. router' = [router EXCEPT ![main.fam] = w]
    BY <1>1, <2>2
  <2> QED BY <1>1, <2>1, <2>3
<1>5. shut' \subseteq Routers
  BY <1>1 DEF IInv, TypeOK
<1>6. UNCHANGED <<verdict, written, seen, public>>
  BY <1>1 DEF lab
<1> QED BY <1>1, <1>3, <1>4, <1>5, <1>6, MainMovesShut, LabTyped DEF IInv

LEMMA CloseSocketStep == ASSUME IInv, CloseSocket PROVE IInv'
<1>1. /\ main.pc = "close" /\ conn.st = "idle" /\ main.fam \in Routers
      /\ main' = [main EXCEPT !.pc = "join"]
      /\ UNCHANGED <<lab, up, router, shut, queue, thread, conn, faults>>
  BY Idle DEF CloseSocket, IInv, MainInv, Rollout
<1>2. fd' = 0
  BY DEF CloseSocket, IInv, ThreadInv
<1>3. main' \in MainType /\ main'.pc = "join" /\ main'.fam = main.fam /\ main'.then = main.then
  <2>1. main \in MainType
    BY Typed DEF IInv
  <2> QED BY <1>1, <2>1 DEF MainType, MainPcs
<1>4. MainInv'
  BY <1>1, <1>3 DEF MainInv, IInv, Rollout, Before
<1>5. ThreadInv'
  BY <1>1, <1>2, <1>3 DEF ThreadInv, OwnConnections, Live, IInv, Before
<1>6. ConnInv'
  BY <1>1, ConnFrame DEF IInv
<1>7. TypeOK'
  BY <1>1, <1>2, <1>3 DEF IInv, TypeOK, MainType, MainPcs, lab
<1> QED BY <1>4, <1>5, <1>6, <1>7 DEF IInv

LEMMA JoinStep == ASSUME IInv, Join PROVE IInv'
<1>1. /\ main.pc = "join" /\ conn.st = "idle" /\ main.fam \in Routers
      /\ thread[main.fam].at \in {"ended", "none"}
      /\ UNCHANGED <<lab, up, router, net, thread, conn, faults>>
  BY Idle DEF Join, IInv, MainInv, Rollout
<1>2. CASE main' = Goto("kill", main.fam, 1)
  <2>1. "kill" \in MainPcs
    BY DEF MainPcs
  <2>2. main' \in MainType /\ main'.pc = "kill" /\ main'.fam = main.fam /\ main'.then = "kill"
    BY <1>1, <1>2, <2>1, GotoTyped
  <2>3. Onward
    BY <1>1, <2>2 DEF Onward, MainInv, Rollout, Before
  <2>4. UNCHANGED <<verdict, written, seen, public>>
    BY <1>1 DEF lab
  <2> QED BY <1>1, <2>3, <2>4, MainMoves, LabTyped, Typed DEF IInv
<1>3. CASE main.then = "open" /\ main' = Goto("open", main.fam + 1, 1)
  <2>1. "open" \in MainPcs /\ main.fam + 1 \in Routers
    <3>1. main.fam < Len(Families)
      BY <1>3 DEF IInv, MainInv
    <3> QED BY <1>1, <3>1, Basics DEF MainPcs
  <2>2. main' \in MainType /\ main'.pc = "open" /\ main'.fam = main.fam + 1 /\ main'.then = "kill"
    BY <1>1, <1>3, <2>1, GotoTyped
  <2>3. MainInv'
    BY <2>1, <2>2 DEF MainInv, Rollout, Before
  <2>4. fd = 0 /\ \A r \in Routers : ~ Live(r)
    BY <1>1 DEF IInv, ThreadInv, Live
  <2>5. UNCHANGED <<fd, shut, queue, thread>>
    BY <1>1 DEF net
  <2>6. ThreadInv'
    BY <2>2, <2>4, <2>5 DEF ThreadInv, OwnConnections, Live, IInv
  <2>7. ConnInv'
    BY <1>1, <2>5, ConnFrame DEF IInv
  <2>8. TypeOK'
    BY <1>1, <2>2, <2>5, LabTyped DEF IInv, TypeOK, MainType, MainPcs, lab
  <2> QED BY <2>3, <2>6, <2>7, <2>8 DEF IInv
<1> QED BY <1>2, <1>3 DEF Join

LEMMA EndSteps ==
  ASSUME IInv, KillServer \/ WriteResults \/ JoinTimeout \/ RestartFails \/ WaitTimeout
  PROVE  IInv'
<1>1. /\ conn.st = "idle" /\ UNCHANGED <<router, net, thread, conn>>
      /\ up' \subseteq Groups /\ written' \in BOOLEAN /\ UNCHANGED <<seen, public>>
      /\ faults' \subseteq Kinds
  <2>1. main.pc \notin {"stage", "probe"}
    BY DEF KillServer, WriteResults, JoinTimeout, RestartFails, WaitTimeout
  <2>2. up \subseteq Groups /\ written \in BOOLEAN /\ faults \subseteq Kinds
    BY LabTyped DEF IInv
  <2>3. UNCHANGED up \/ \E g \in up : up' = up \ {g}
    BY DEF KillServer, WriteResults, JoinTimeout, RestartFails, WaitTimeout
  <2>4. UNCHANGED written \/ written' = TRUE
    BY DEF KillServer, WriteResults, JoinTimeout, RestartFails, WaitTimeout, lab
  <2>5. UNCHANGED faults \/ \E k \in Kinds : faults' = faults \cup {k}
    BY DEF KillServer, WriteResults, JoinTimeout, RestartFails, WaitTimeout, Fault, Kinds
  <2>6. UNCHANGED <<router, net, thread, conn, seen, public>>
    BY DEF KillServer, WriteResults, JoinTimeout, RestartFails, WaitTimeout, lab
  <2> QED BY <2>1, <2>2, <2>3, <2>4, <2>5, <2>6, Idle
<1>2. Onward /\ verdict' \in {"running", "passed", "failed"}
  <2>1. CASE Fail
    BY <2>1, FailOnward DEF IInv
  <2>2. CASE main' = Goto("done", main.fam, 1) /\ UNCHANGED verdict
    <3>1. "done" \in MainPcs /\ main.fam \in Routers \cup {0}
      BY DEF MainPcs, IInv, TypeOK
    <3>2. main' \in MainType /\ main'.pc = "done" /\ main'.fam = main.fam /\ main'.then = "kill"
      BY <2>2, <3>1, GotoTyped
    <3> QED BY <2>2, <3>2, LabTyped DEF Onward, MainInv, Rollout, Before, IInv
  <2>3. CASE main.pc = "kill" /\ UNCHANGED <<main, verdict>>
    BY <2>3, LabTyped, Typed DEF Onward, MainInv, Rollout, Before, IInv
  <2> QED BY <2>1, <2>2, <2>3
          DEF KillServer, WriteResults, JoinTimeout, RestartFails, WaitTimeout, lab
<1>3. router' \in [Routers -> RouterType] /\ public' \in Algorithms /\ seen' \subseteq {"statement"}
  BY <1>1, LabTyped, Typed DEF IInv
<1> QED BY <1>1, <1>2, <1>3, MainMoves DEF IInv

(* Steps that leave the threads, the queues and the routers alone, and change*)
(* nothing of the connection but its latency.                              *)
LEMMA QuietSteps == ASSUME IInv, ServerDies \/ SlowRequest PROVE IInv'
<1>1. /\ UNCHANGED <<main, lab, router, fd, shut, queue, thread>>
      /\ faults' \subseteq Kinds /\ up' \subseteq Groups
  <2>1. UNCHANGED <<main, lab, router, net, thread>>
    BY DEF ServerDies, SlowRequest
  <2>2. PICK k \in Kinds : faults' = faults \cup {k}
    BY DEF ServerDies, SlowRequest, Fault, Kinds
  <2>3. UNCHANGED up \/ \E g \in up : up' = up \ {g}
    BY DEF ServerDies, SlowRequest
  <2> QED BY <2>1, <2>2, <2>3, LabTyped DEF IInv, net
<1>2. conn' = conn \/ conn' = [conn EXCEPT !.slow = TRUE]
  BY DEF ServerDies, SlowRequest
<1>3. /\ conn' \in ConnType /\ conn'.st = conn.st /\ conn'.reply = conn.reply
      /\ conn'.pqc = conn.pqc
  <2>1. conn \in ConnType
    BY Typed DEF IInv
  <2> QED BY <1>2, <2>1 DEF ConnType
<1>4. MainInv' /\ ThreadInv'
  BY <1>1 DEF IInv, MainInv, ThreadInv, OwnConnections, Live
<1>5. ConnInv'
  BY <1>1, <1>3 DEF IInv, ConnInv, GroupOf
<1>6. TypeOK'
  BY <1>1, <1>3 DEF IInv, TypeOK, ConnType, lab
<1> QED BY <1>4, <1>5, <1>6 DEF IInv

LEMMA RelayStep == ASSUME IInv, Relay PROVE IInv'
<1>1. /\ conn.st = "routed" /\ UNCHANGED <<main, lab, up, router, fd, shut, queue, thread, faults>>
  BY DEF Relay, net
<1>2. conn \in ConnType /\ main.fam \in Routers
  BY <1>1, Typed DEF IInv, ConnInv, MainInv, Rollout
<1>3. PICK reply : /\ conn' = [conn EXCEPT !.st = "answered", !.reply = reply]
                   /\ reply \in {GroupOf(main.fam, conn.pqc), "failed"}
  BY DEF Relay
<1>4. GroupOf(main.fam, conn.pqc) \in Groups
  BY <1>2, Basics DEF GroupOf
<1>5. /\ conn' \in ConnType /\ conn'.st = "answered" /\ conn'.reply = reply
      /\ conn'.pqc = conn.pqc
  BY <1>2, <1>3, <1>4 DEF ConnType
<1>6. MainInv' /\ ThreadInv'
  BY <1>1 DEF IInv, MainInv, ThreadInv, OwnConnections, Live
<1>7. ConnInv'
  <2>1. reply \in Groups => reply = GroupOf(main.fam, conn.pqc)
    BY <1>3, Basics
  <2>3. (GroupOf(main.fam, conn.pqc))' = GroupOf(main.fam, conn.pqc)
    BY <1>1, <1>5 DEF GroupOf
  <2>4. /\ queue[main.fam] = <<>> /\ thread[main.fam].at # "took"
        /\ Len(router[main.fam].events) > 0
        /\ router[main.fam].events[Len(router[main.fam].events)].pqc = conn.pqc
    BY <1>1 DEF IInv, ConnInv
  <2>5. /\ conn.st # "idle" /\ conn.st # "queued"
    BY <1>1
  <2> QED BY <1>1, <1>5, <2>1, <2>3, <2>4, <2>5 DEF IInv, ConnInv
<1>8. TypeOK'
  BY <1>1, <1>5 DEF IInv, TypeOK, ConnType, lab
<1> QED BY <1>6, <1>7, <1>8 DEF IInv

LEMMA ClientFaultStep == ASSUME IInv, ClientFault PROVE IInv'
<1> DEFINE f == main.fam
<1>1. /\ conn.st \in {"queued", "routed"} /\ f \in Routers /\ main.pc \in {"stage", "probe"}
      /\ queue' = GoneEntries /\ thread' = TookGone
      /\ UNCHANGED <<written, seen, public, up, router, fd, shut>>
  BY DEF ClientFault, IInv, ConnInv, MainInv, Rollout
<1>2. faults' \subseteq Kinds
  BY DEF ClientFault, Fault, Kinds, IInv, TypeOK
<1>3. /\ queue \in [Routers -> Seq({"live", "gone"})] /\ thread \in [Routers -> ThreadType]
  BY Typed DEF IInv
<1>4. /\ queue' \in [Routers -> Seq({"live", "gone"})]
      /\ \A r \in Routers : \A i \in 1 .. Len(queue'[r]) : queue'[r][i] # "live"
  <2> DEFINE gone == [i \in DOMAIN queue[f] |-> "gone"]
  <2>1. queue' = [queue EXCEPT ![f] = gone]
    BY <1>1 DEF GoneEntries
  <2>2. queue[f] \in Seq({"live", "gone"})
    BY <1>1, <1>3
  <2>3. gone \in Seq({"live", "gone"}) /\ \A i \in 1 .. Len(gone) : gone[i] = "gone"
    <3>1. DOMAIN queue[f] = 1 .. Len(queue[f]) /\ Len(queue[f]) \in Nat
      BY <2>2
    <3>2. gone \in [1 .. Len(queue[f]) -> {"live", "gone"}]
      BY <3>1
    <3>3. gone \in Seq({"live", "gone"}) /\ Len(gone) = Len(queue[f])
      BY <3>1, <3>2
    <3> QED BY <3>1, <3>3
  <2>4. \A r \in Routers : r # f => \A i \in 1 .. Len(queue[r]) : queue[r][i] # "live"
    BY DEF IInv, ConnInv
  <2> HIDE DEF gone
  <2>5. queue'[f] = gone /\ \A r \in Routers : r # f => queue'[r] = queue[r]
    BY <1>1, <1>3, <2>1
  <2>6. ASSUME NEW r \in Routers, NEW i \in 1 .. Len(queue'[r])
        PROVE  queue'[r][i] # "live"
    BY <2>3, <2>4, <2>5
  <2>7. queue' \in [Routers -> Seq({"live", "gone"})]
    BY <1>1, <1>3, <2>1, <2>3
  <2> QED BY <2>6, <2>7
<1>5. /\ thread' \in [Routers -> ThreadType]
      /\ \A r \in Routers : /\ thread'[r].at = thread[r].at /\ thread'[r].sock = thread[r].sock
                            /\ thread'[r].took # "live"
                            /\ thread'[r].took # "none" => thread'[r].at = "took"
  <2>1. ASSUME NEW r \in Routers
        PROVE  /\ thread'[r] \in ThreadType
               /\ thread'[r].at = thread[r].at /\ thread'[r].sock = thread[r].sock
               /\ thread'[r].took # "live"
               /\ thread'[r].took # "none" => thread'[r].at = "took"
    <3>1. thread[r] \in ThreadType
      BY <1>3
    <3>2. CASE thread[r].at = "took"
      <4>1. thread'[r] = [thread[r] EXCEPT !.took = "gone"]
        BY <1>1, <3>2 DEF TookGone
      <4> QED BY <3>1, <3>2, <4>1 DEF ThreadType
    <3>3. CASE thread[r].at # "took"
      <4>1. thread'[r] = thread[r] /\ thread[r].took = "none"
        BY <1>1, <3>3 DEF TookGone, IInv, ConnInv
      <4> QED BY <3>1, <4>1
    <3> QED BY <3>2, <3>3
  <2>2. thread' = [r \in Routers |-> thread'[r]]
    BY <1>1 DEF TookGone
  <2> QED BY <2>1, <2>2
<1>6. /\ main' \in MainType /\ MainInv' /\ main'.fam = f
      /\ main'.pc \notin Before \cup {"open", "join"}
      /\ verdict' \in {"running", "passed", "failed"}
      /\ conn' \in ConnType /\ conn'.reply \notin Groups
      /\ \/ conn'.st = "answered" /\ main' = main
         \/ conn'.st = "idle"
  <2>1. CASE conn' = [conn EXCEPT !.st = "answered", !.reply = "failed"] /\ UNCHANGED <<main, verdict>>
    <3>1. conn' \in ConnType /\ conn'.reply = "failed" /\ conn'.st = "answered"
      <4>1. conn \in ConnType
        BY Typed DEF IInv
      <4> QED BY <2>1, <4>1 DEF ConnType
    <3> QED BY <1>1, <2>1, <3>1, Typed, LabTyped, Basics DEF IInv, MainInv, Before
  <2>2. CASE conn' = NoConn /\ Fail
    <3>1. NoConn \in ConnType /\ NoConn.st = "idle" /\ NoConn.reply \notin Groups
      BY Basics DEF NoConn, ConnType
    <3> QED BY <2>2, <3>1, FailMoves DEF IInv, Before
  <2> QED BY <2>1, <2>2 DEF ClientFault
<1>7. ThreadInv'
  BY <1>1, <1>5, <1>6 DEF IInv, ThreadInv, OwnConnections, Live
<1>8. ConnInv'
  BY <1>1, <1>4, <1>5, <1>6 DEF IInv, ConnInv
<1>9. TypeOK'
  BY <1>1, <1>2, <1>4, <1>5, <1>6 DEF IInv, TypeOK, MainType, MainPcs, ThreadType, ConnType
<1> QED BY <1>6, <1>7, <1>8, <1>9 DEF IInv

-----------------------------------------------------------------------------
(* The accept threads.                                                     *)
LEMMA ServeTyped ==
  ASSUME TypeOK, UNCHANGED <<main, lab, up, fd, shut, faults>>,
         router' \in [Routers -> RouterType], thread' \in [Routers -> ThreadType],
         queue' \in [Routers -> Seq({"live", "gone"})], conn' \in ConnType
  PROVE  TypeOK'
<1>1. UNCHANGED <<verdict, written, seen, public>>
  BY DEF lab
<1> QED BY <1>1 DEF TypeOK, RouterType, ThreadType, ConnType

LEMMA TailFacts ==
  ASSUME NEW S, NEW s \in Seq(S), s # <<>>
  PROVE  /\ Head(s) = s[1] /\ s[1] \in S /\ Tail(s) \in Seq(S)
         /\ Len(s) \in Nat \ {0} /\ 1 \in 1 .. Len(s) /\ Len(Tail(s)) = Len(s) - 1
         /\ \A i \in 1 .. Len(Tail(s)) : /\ i \in Nat /\ i + 1 \in 1 .. Len(s)
                                        /\ Tail(s)[i] = s[i + 1]
         /\ Len(s) = 1 => Tail(s) = <<>>
<1>1. Len(s) \in Nat \ {0} /\ s[1] \in S /\ Head(s) = s[1] /\ Tail(s) \in Seq(S)
  OBVIOUS
<1>2. Len(Tail(s)) = Len(s) - 1
  OBVIOUS
<1>3. Len(s) = 1 => Tail(s) = <<>>
  <2>1. Tail(s) # <<>> => Len(Tail(s)) \in Nat \ {0}
    BY <1>1, EmptySeq
  <2> QED BY <1>2, <2>1
<1> QED BY <1>1, <1>2, <1>3

LEMMA LoopStep == ASSUME IInv, NEW r \in Routers, Loop(r) \/ EnterAccept(r) PROVE IInv'
<1>1. /\ thread[r].at \in {"loop", "enter"} /\ Live(r) /\ r = main.fam
      /\ UNCHANGED <<main, lab, up, router, fd, shut, queue, conn, faults>>
  BY DEF Loop, EnterAccept, Live, IInv, ThreadInv, net
<1>2. thread \in [Routers -> ThreadType] /\ thread[r] \in ThreadType /\ fd \in Routers \cup {0}
  BY Typed DEF IInv
<1>3. PICK w \in ThreadType :
        /\ thread' = [thread EXCEPT ![r] = w] /\ w.took = thread[r].took
        /\ w.at \in {"ended", "enter"} \/ (w.at = "blocked" /\ w.sock = r)
  <2>1. CASE Loop(r)
    <3>1. PICK at \in {"ended", "enter"} : thread' = [thread EXCEPT ![r].at = at]
      BY <2>1 DEF Loop
    <3>2. PICK w \in ThreadType : w = [thread[r] EXCEPT !.at = at]
      BY <1>2, <3>1 DEF ThreadType
    <3> QED BY <1>2, <3>1, <3>2 DEF ThreadType
  <2>2. CASE EnterAccept(r)
    <3>1. PICK at \in {"ended", "blocked"} :
            /\ thread' = [thread EXCEPT ![r].sock = fd, ![r].at = at]
            /\ at = "blocked" => fd # 0
      BY <2>2 DEF EnterAccept
    <3>2. PICK v \in ThreadType : v = [thread[r] EXCEPT !.sock = fd]
      BY <1>2 DEF ThreadType
    <3>3. PICK w \in ThreadType : w = [v EXCEPT !.at = at]
      BY <3>1 DEF ThreadType
    <3>4. thread' = [thread EXCEPT ![r] = w]
      BY <3>1, <3>2, <3>3, Zenon
    <3>5. w.took = thread[r].took /\ w.at = at /\ w.sock = fd
      BY <1>2, <3>2, <3>3 DEF ThreadType
    <3>6. fd \in {0, r}
      BY <1>1 DEF IInv, ThreadInv
    <3> QED BY <3>1, <3>4, <3>5, <3>6
  <2> QED BY <2>1, <2>2
<1>4. thread[r].took = "none"
  BY <1>1, <1>2 DEF IInv, ConnInv, ThreadType
<1>5. /\ thread' \in [Routers -> ThreadType] /\ thread'[r] = w
      /\ \A q \in Routers : q # r => thread'[q] = thread[q]
  BY <1>2, <1>3
<1>6. MainInv'
  BY <1>1 DEF IInv, MainInv
<1>7. ThreadInv'
  <2>1. main.pc \notin Before \cup {"open"}
    BY <1>1 DEF IInv, ThreadInv
  <2> QED BY <1>1, <1>3, <1>5, <2>1 DEF IInv, ThreadInv, OwnConnections, Live
<1>8. ConnInv'
  BY <1>1, <1>3, <1>4, <1>5 DEF IInv, ConnInv, GroupOf
<1>9. TypeOK'
  BY <1>1, <1>5, ServeTyped, Typed DEF IInv
<1> QED BY <1>6, <1>7, <1>8, <1>9 DEF IInv

LEMMA AcceptStep == ASSUME IInv, NEW r \in Routers, Accept(r) PROVE IInv'
<1>1. /\ thread[r].at = "blocked" /\ r = main.fam /\ thread[r].sock = r
      /\ UNCHANGED <<main, lab, up, router, fd, shut, conn, faults>>
  BY DEF Accept, Live, IInv, ThreadInv, OwnConnections
<1>2. /\ thread \in [Routers -> ThreadType] /\ thread[r] \in ThreadType
      /\ queue \in [Routers -> Seq({"live", "gone"})] /\ queue[r] \in Seq({"live", "gone"})
  BY Typed DEF IInv
<1>3. thread[r].took = "none"
  BY <1>1, <1>2 DEF IInv, ConnInv, ThreadType
<1>4. MainInv'
  BY <1>1 DEF IInv, MainInv
<1>5. main.pc \notin Before \cup {"open"}
  BY <1>1 DEF IInv, ThreadInv, Live
<1>6. CASE thread' = [thread EXCEPT ![r].at = "ended"] /\ UNCHANGED queue
  <2>1. /\ thread' \in [Routers -> ThreadType] /\ thread'[r].at = "ended"
        /\ thread'[r].took = thread[r].took
        /\ \A q \in Routers : q # r => thread'[q] = thread[q]
    BY <1>2, <1>6 DEF ThreadType
  <2>2. ThreadInv'
    BY <1>1, <1>5, <2>1 DEF IInv, ThreadInv, OwnConnections, Live
  <2>3. ConnInv'
    BY <1>1, <1>3, <1>6, <2>1 DEF IInv, ConnInv, GroupOf
  <2>4. TypeOK'
    BY <1>1, <1>6, <2>1, ServeTyped, Typed DEF IInv
  <2> QED BY <1>4, <2>2, <2>3, <2>4 DEF IInv
<1>7. CASE /\ queue[r] # <<>>
           /\ thread' = [thread EXCEPT ![r].at = "took", ![r].took = Head(queue[r])]
           /\ queue' = [queue EXCEPT ![r] = Tail(@)]
  <2>1. /\ Head(queue[r]) \in {"live", "gone"} /\ Head(queue[r]) = queue[r][1]
        /\ Tail(queue[r]) \in Seq({"live", "gone"}) /\ 1 \in 1 .. Len(queue[r])
        /\ Len(queue[r]) \in Nat \ {0} /\ Len(Tail(queue[r])) = Len(queue[r]) - 1
        /\ \A i \in 1 .. Len(Tail(queue[r])) : /\ i \in Nat /\ i + 1 \in 1 .. Len(queue[r])
                                            /\ Tail(queue[r])[i] = queue[r][i + 1]
        /\ Len(queue[r]) = 1 => Tail(queue[r]) = <<>>
    BY <1>2, <1>7, TailFacts
  <2>2. PICK w \in ThreadType : /\ thread' = [thread EXCEPT ![r] = w]
                                /\ w.at = "took" /\ w.sock = r /\ w.took = queue[r][1]
    <3>1. PICK v \in ThreadType : v = [thread[r] EXCEPT !.at = "took"]
      BY <1>2 DEF ThreadType
    <3>2. PICK w \in ThreadType : w = [v EXCEPT !.took = Head(queue[r])]
      BY <2>1 DEF ThreadType
    <3>3. thread' = [thread EXCEPT ![r] = w]
      BY <1>7, <3>1, <3>2, Zenon
    <3>4. w.at = "took" /\ w.sock = r /\ w.took = queue[r][1]
      BY <1>1, <1>2, <2>1, <3>1, <3>2 DEF ThreadType
    <3> QED BY <3>3, <3>4
  <2>3. /\ thread' \in [Routers -> ThreadType] /\ thread'[r] = w
        /\ \A q \in Routers : q # r => thread'[q] = thread[q]
    BY <1>2, <2>2
  <2>4. /\ queue' \in [Routers -> Seq({"live", "gone"})] /\ queue'[r] = Tail(queue[r])
        /\ \A q \in Routers : q # r => queue'[q] = queue[q]
    BY <1>2, <1>7, <2>1
  <2>5. ThreadInv'
    BY <1>1, <1>5, <2>2, <2>3 DEF IInv, ThreadInv, OwnConnections, Live
  <2>6. conn.st # "routed" /\ conn.reply \notin Groups
    BY <1>1, <1>7 DEF IInv, ConnInv
  <2>7. ASSUME NEW q \in Routers, NEW i \in 1 .. Len(queue'[q]), queue'[q][i] = "live"
        PROVE  q = main.fam /\ conn.st = "queued" /\ i = Len(queue'[q]) /\ thread'[q].took # "live"
    <3>1. CASE q # r
      BY <1>1, <2>3, <2>4, <2>7, <3>1 DEF IInv, ConnInv
    <3>2. CASE q = r
      <4>1. /\ i \in 1 .. Len(Tail(queue[r])) /\ Tail(queue[r])[i] = "live"
        BY <2>4, <2>7, <3>2
      <4>5. i \in Nat /\ i + 1 \in 1 .. Len(queue[r]) /\ queue[r][i + 1] = "live"
        BY <2>1, <4>1
      <4>2. i + 1 = Len(queue[r]) /\ conn.st = "queued"
        BY <4>5 DEF IInv, ConnInv
      <4>3. queue[r][1] # "live"
        <5>1. queue[r][1] = "live" => 1 = Len(queue[r])
          BY <2>1 DEF IInv, ConnInv
        <5>2. i \in 1 .. Len(queue[r]) - 1
          BY <2>1, <4>1
        <5> QED BY <2>1, <5>1, <5>2
      <4>4. i = Len(queue'[q])
        BY <2>1, <2>4, <3>2, <4>2, <4>5
      <4> QED BY <1>1, <2>2, <2>3, <3>2, <4>2, <4>3, <4>4
    <3> QED BY <3>1, <3>2
  <2>8. ASSUME NEW q \in Routers
        PROVE  /\ thread'[q].took = "live" => q = main.fam /\ conn.st = "queued" /\ queue'[q] = <<>>
               /\ thread'[q].took # "none" => thread'[q].at = "took"
    <3>1. CASE q # r
      BY <2>3, <2>4, <3>1 DEF IInv, ConnInv
    <3>2. CASE q = r
      <4>1. queue[r][1] = "live" => 1 = Len(queue[r]) /\ conn.st = "queued"
        BY <2>1 DEF IInv, ConnInv
      <4> QED BY <1>1, <2>1, <2>2, <2>3, <2>4, <3>2, <4>1
    <3> QED BY <3>1, <3>2
  <2>9. ConnInv'
    BY <1>1, <2>6, <2>7, <2>8 DEF IInv, ConnInv
  <2>10. TypeOK'
    BY <1>1, <2>3, <2>4, ServeTyped, Typed DEF IInv
  <2> QED BY <1>4, <2>5, <2>9, <2>10 DEF IInv
<1> QED BY <1>1, <1>6, <1>7 DEF Accept

LEMMA AppendFacts ==
  ASSUME NEW S, NEW s \in Seq(S), NEW e \in S
  PROVE  /\ Append(s, e) \in Seq(S) /\ Len(Append(s, e)) > 0
         /\ Append(s, e)[Len(Append(s, e))] = e
OBVIOUS

LEMMA AssignStep == ASSUME IInv, NEW r \in Routers, Assign(r) PROVE IInv'
<1>1. /\ thread[r].at = "took" /\ r = main.fam
      /\ thread' = [thread EXCEPT ![r].at = "loop", ![r].took = "none"]
      /\ UNCHANGED <<main, lab, up, fd, shut, queue, faults>>
  BY DEF Assign, Live, IInv, ThreadInv, net
<1>2. /\ thread \in [Routers -> ThreadType] /\ thread[r] \in ThreadType
      /\ router \in [Routers -> RouterType] /\ router[r] \in RouterType /\ conn \in ConnType
      /\ queue \in [Routers -> Seq({"live", "gone"})]
  BY Typed DEF IInv
<1>3. PICK pqc \in BOOLEAN : pqc = ToPqc(r)
  <2>1. ToPqc(r) \in BOOLEAN
    BY DEF ToPqc
  <2> QED BY <2>1
<1>4. PICK blocked \in BOOLEAN : blocked = router[r].blocked
  BY <1>2 DEF RouterType
<1>5. /\ router' = [router EXCEPT ![r].counter = @ + 1,
                       ![r].events = Append(@, [pqc |-> pqc, blocked |-> blocked])]
      /\ conn' = IF thread[r].took = "live"
                 THEN [conn EXCEPT !.st = "routed", !.pqc = pqc, !.blocked = blocked]
                 ELSE conn
  BY <1>3, <1>4 DEF Assign
<1>6. PICK e \in Event : e = [pqc |-> pqc, blocked |-> blocked] /\ e.pqc = pqc
  <2>1. pqc \in BOOLEAN /\ blocked \in BOOLEAN
    BY <1>3, <1>4
  <2>2. [pqc |-> pqc, blocked |-> blocked] \in Event
    BY <2>1, Zenon DEF Event
  <2>3. [pqc |-> pqc, blocked |-> blocked].pqc = pqc
    BY Zenon
  <2> QED BY <2>2, <2>3
<1>7. PICK w \in RouterType : /\ router' = [router EXCEPT ![r] = w]
                              /\ w.events = Append(router[r].events, e)
  <2>1. router[r].counter + 1 \in Nat /\ router[r].events \in Seq(Event)
    BY <1>2 DEF RouterType
  <2>2. Append(router[r].events, e) \in Seq(Event)
    BY <2>1
  <2>3. PICK v \in RouterType : v = [router[r] EXCEPT !.counter = router[r].counter + 1]
    BY <1>2, <2>1 DEF RouterType
  <2>4. PICK w \in RouterType : w = [v EXCEPT !.events = Append(router[r].events, e)]
    BY <2>2, <2>3 DEF RouterType
  <2>5. v.events = router[r].events /\ w.events = Append(router[r].events, e)
    BY <1>2, <2>3, <2>4 DEF RouterType
  <2>6. router' = [router EXCEPT ![r] = w]
    BY <1>5, <1>6, <2>3, <2>4, <2>5, Zenon
  <2> QED BY <2>5, <2>6
<1>8. /\ router' \in [Routers -> RouterType] /\ router'[r] = w
  BY <1>2, <1>7
<1>9. LET events == router'[r].events
      IN  Len(events) > 0 /\ events[Len(events)].pqc = pqc
  <2>1. router[r].events \in Seq(Event)
    BY <1>2 DEF RouterType
  <2> QED BY <1>6, <1>7, <1>8, <2>1, AppendFacts
<1>10. PICK v \in ThreadType : /\ thread' = [thread EXCEPT ![r] = v]
                               /\ v.at = "loop" /\ v.took = "none"
  <2>1. PICK u \in ThreadType : u = [thread[r] EXCEPT !.at = "loop"]
    BY <1>2 DEF ThreadType
  <2>2. PICK v \in ThreadType : v = [u EXCEPT !.took = "none"]
    BY <2>1 DEF ThreadType
  <2>3. thread' = [thread EXCEPT ![r] = v]
    BY <1>1, <2>1, <2>2, Zenon
  <2>4. v.at = "loop" /\ v.took = "none"
    BY <1>2, <2>1, <2>2 DEF ThreadType
  <2> QED BY <2>3, <2>4
<1>11. /\ thread' \in [Routers -> ThreadType] /\ thread'[r] = v
       /\ \A q \in Routers : q # r => thread'[q] = thread[q]
  BY <1>2, <1>10
<1>12. conn' \in ConnType
  BY <1>2, <1>5 DEF ConnType
<1>13. MainInv'
  BY <1>1 DEF IInv, MainInv
<1>14. ThreadInv'
  <2>1. main.pc \notin Before \cup {"open"}
    BY <1>1 DEF IInv, ThreadInv, Live
  <2> QED BY <1>1, <1>10, <1>11, <2>1 DEF IInv, ThreadInv, OwnConnections, Live
<1>15. ConnInv'
  <2>1. CASE thread[r].took = "live"
    <3>1. conn.st = "queued" /\ queue[r] = <<>> /\ conn.reply \notin Groups
      BY <2>1 DEF IInv, ConnInv
    <3>2. /\ conn'.st = "routed" /\ conn'.pqc = pqc /\ conn'.reply = conn.reply
      BY <1>2, <1>5, <2>1 DEF ConnType
    <3>3. \A q \in Routers : \A i \in 1 .. Len(queue[q]) : queue[q][i] # "live"
      <4>1. \A i \in 1 .. Len(queue[r]) : queue[r][i] # "live"
        BY <3>1
      <4> QED BY <1>1, <4>1 DEF IInv, ConnInv
    <3>4. \A q \in Routers : thread'[q].took # "live" /\ (thread'[q].took # "none" => thread'[q].at = "took")
      BY <1>1, <1>10, <1>11 DEF IInv, ConnInv
    <3>5. thread'[r].at # "took"
      BY <1>10, <1>11
    <3>6. /\ main.pc \in {"stage", "probe"} /\ (main.pc = "stage" => main.made < StageSize)
      BY <3>1 DEF IInv, ConnInv
    <3> QED BY <1>1, <1>9, <3>1, <3>2, <3>3, <3>4, <3>5, <3>6 DEF ConnInv
  <2>2. CASE thread[r].took # "live"
    <3>1. conn' = conn /\ conn.st # "routed" /\ conn.reply \notin Groups
      BY <1>1, <1>5, <2>2 DEF IInv, ConnInv
    <3> QED BY <1>1, <1>10, <1>11, <3>1 DEF IInv, ConnInv
  <2> QED BY <2>1, <2>2
<1>16. TypeOK'
  BY <1>1, <1>2, <1>8, <1>11, <1>12, ServeTyped DEF IInv
<1> QED BY <1>13, <1>14, <1>15, <1>16 DEF IInv

-----------------------------------------------------------------------------
LEMMA InitIInv == Init => IInv
<1> SUFFICES ASSUME Init PROVE IInv
  OBVIOUS
<1>1. main \in MainType /\ main.pc = "inbox" /\ main.fam = 0 /\ main.then = "kill"
  <2>1. "inbox" \in MainPcs /\ 0 \in Routers \cup {0} /\ 1 \in Nat
    BY DEF MainPcs
  <2>2. main = Goto("inbox", 0, 1)
    BY DEF Init
  <2> QED BY <2>1, <2>2, GotoTyped
<1>2. NoConn \in ConnType /\ NoConn.st = "idle" /\ NoConn.reply \notin Groups
  BY Basics DEF NoConn, ConnType
<1>3. /\ router \in [Routers -> RouterType]
      /\ \A r \in Routers : router[r].events = <<>>
  BY DEF Init, RouterType
<1>4. /\ thread \in [Routers -> ThreadType]
      /\ \A r \in Routers : thread[r].at = "none" /\ thread[r].took = "none"
  BY DEF Init, ThreadType
<1>5. queue \in [Routers -> Seq({"live", "gone"})] /\ \A r \in Routers : Len(queue[r]) = 0
  BY DEF Init
<1>6. TypeOK
  BY <1>1, <1>2, <1>3, <1>4, <1>5, AlgorithmsAssumption
     DEF Init, TypeOK, MainType, MainPcs, RouterType, ThreadType, ConnType
<1>7. MainInv
  BY <1>1 DEF MainInv, Rollout, Before
<1>8. ThreadInv
  BY <1>1, <1>4 DEF Init, ThreadInv, OwnConnections, Live, Before
<1>9. ConnInv
  BY <1>2, <1>4, <1>5 DEF Init, ConnInv
<1> QED BY <1>6, <1>7, <1>8, <1>9 DEF IInv

LEMMA NextIInv == IInv /\ [Next]_vars => IInv'
<1> SUFFICES ASSUME IInv, [Next]_vars PROVE IInv'
  OBVIOUS
<1>1. CASE Main
  BY <1>1, InboxStep, SampleSteps, SessionStep, OpenStep, SetStageStep, AskSteps,
     StageAnswerStep, GateStep, PrepareStep, DrillStep, RetireStep, CloseSocketStep,
     JoinStep, EndSteps DEF Main
<1>2. CASE \E r \in Routers : Serve(r)
  BY <1>2, LoopStep, AcceptStep, AssignStep DEF Serve
<1>3. CASE Relay
  BY <1>3, RelayStep
<1>4. CASE \/ JoinTimeout \/ ClientFault \/ SampleFault \/ ServerDies
           \/ RestartFails \/ SlowRequest \/ WaitTimeout
  BY <1>4, EndSteps, ClientFaultStep, SampleSteps, QuietSteps
<1>5. CASE UNCHANGED vars
  BY <1>5 DEF vars, lab, net, IInv, TypeOK, MainInv, ThreadInv, OwnConnections, Live,
              ConnInv, GroupOf
<1> QED BY <1>1, <1>2, <1>3, <1>4, <1>5 DEF Next

(* The inductive invariant of the lab: whose thread runs, whose socket the *)
(* descriptor denotes, and which event belongs to the client's connection. *)
THEOREM LabInvariant == Spec => []IInv
<1>1. Init => IInv
  BY InitIInv
<1>2. IInv /\ [Next]_vars => IInv'
  BY NextIInv
<1> QED BY <1>1, <1>2, PTL DEF Spec

(* Every variable has a value of the intended type.                        *)
THEOREM LabTypes == Spec => []TypeOK
<1>1. IInv => TypeOK
  BY DEF IInv
<1> QED BY <1>1, LabInvariant, PTL

(* An accept thread blocks on, and takes from, its own router's socket only:*)
(* the next router's socket gets the descriptor the previous one closed.   *)
THEOREM OwnSockets == Spec => []OwnConnections
<1>1. IInv => OwnConnections
  BY DEF IInv, ThreadInv
<1> QED BY <1>1, LabInvariant, PTL

(* A client that was served got the group of the server named by the last  *)
(* event of the router: no failover behind the router's choice.            *)
THEOREM ServedAsChosen == Spec => []NoSilentFailover
<1>1. IInv => NoSilentFailover
  BY DEF IInv, ConnInv, NoSilentFailover
<1> QED BY <1>1, LabInvariant, PTL

\* Of n connections since the last configure, how many go to the PQC server.
Share(n, percent) ==
  (n \div Slots) * (percent \div Slots)
    + IF n % Slots < percent \div Slots THEN n % Slots ELSE percent \div Slots

-----------------------------------------------------------------------------
LEMMA CountAppend ==
  ASSUME NEW s \in Seq(Event), NEW e \in Event
  PROVE  /\ CountPqc(s) \in Nat
         /\ CountPqc(Append(s, e)) = CountPqc(s) + (IF e.pqc THEN 1 ELSE 0)
<1> DEFINE S == {i \in DOMAIN s : s[i].pqc}
           T == {i \in DOMAIN Append(s, e) : Append(s, e)[i].pqc}
<1>1. /\ Len(s) \in Nat /\ DOMAIN s = 1 .. Len(s)
      /\ DOMAIN Append(s, e) = 1 .. (Len(s) + 1)
      /\ Append(s, e)[Len(s) + 1] = e
      /\ \A i \in 1 .. Len(s) : Append(s, e)[i] = s[i]
  OBVIOUS
<1>2. IsFiniteSet(S) /\ Cardinality(S) \in Nat
  <2>1. S \subseteq 1 .. Len(s)
    BY <1>1
  <2>2. IsFiniteSet(1 .. Len(s))
    BY <1>1, FS_Interval
  <2> QED BY <2>1, <2>2, FS_Subset, FS_CardinalityType
<1>3. T = IF e.pqc THEN S \cup {Len(s) + 1} ELSE S
  BY <1>1
<1>4. Len(s) + 1 \notin S
  BY <1>1
<1>5. Cardinality(S \cup {Len(s) + 1}) = Cardinality(S) + 1
  BY <1>2, <1>4, FS_AddElement
<1>6. Cardinality(T) = Cardinality(S) + (IF e.pqc THEN 1 ELSE 0)
  <2> HIDE DEF S, T
  <2> QED BY <1>2, <1>3, <1>5
<1> QED BY <1>2, <1>6 DEF CountPqc

LEMMA CountEmpty == ASSUME NEW s, DOMAIN s = {} PROVE CountPqc(s) = 0
<1>1. {i \in DOMAIN s : s[i].pqc} = {}
  OBVIOUS
<1> QED BY <1>1, FS_EmptySet DEF CountPqc

LEMMA EmptySubSeq ==
  ASSUME NEW s \in Seq(Event), NEW m \in Nat
  PROVE  CountPqc(SubSeq(s, m + 1, m)) = 0
<1>1. DOMAIN SubSeq(s, m + 1, m) = {}
  OBVIOUS
<1> QED BY <1>1, CountEmpty

LEMMA PrefixOfAppend ==
  ASSUME NEW s \in Seq(Event), NEW e \in Event, NEW m \in Nat, NEW n \in Nat,
         m + n <= Len(s)
  PROVE  /\ SubSeq(s, m + 1, m + n) \in Seq(Event)
         /\ SubSeq(Append(s, e), m + 1, m + n) = SubSeq(s, m + 1, m + n)
         /\ m + n = Len(s) =>
              SubSeq(Append(s, e), m + 1, m + (n + 1)) = Append(SubSeq(s, m + 1, m + n), e)
<1> DEFINE old == SubSeq(s, m + 1, m + n)
           t   == Append(s, e)
<1>1. /\ t \in Seq(Event) /\ Len(t) = Len(s) + 1 /\ t[Len(s) + 1] = e
      /\ \A i \in 1 .. Len(s) : t[i] = s[i]
  BY AppendProperties
<1>2. /\ old \in Seq(Event) /\ Len(old) = n
      /\ \A i \in 1 .. n : old[i] = s[m + i]
  <2>1. \A i \in m + 1 .. m + n : s[i] \in Event
    OBVIOUS
  <2>2. /\ old \in Seq(Event)
        /\ Len(old) = IF m + 1 <= m + n THEN (m + n) - (m + 1) + 1 ELSE 0
        /\ \A i \in 1 .. (m + n) - (m + 1) + 1 : old[i] = s[(m + 1) + i - 1]
    BY <2>1, SubSeqProperties
  <2>3. (m + n) - (m + 1) + 1 = n /\ \A i \in 1 .. n : (m + 1) + i - 1 = m + i
    OBVIOUS
  <2> HIDE DEF old
  <2> QED BY <2>2, <2>3
<1>3. ASSUME NEW k \in Nat, m + k <= Len(t)
      PROVE  /\ SubSeq(t, m + 1, m + k) \in Seq(Event)
             /\ Len(SubSeq(t, m + 1, m + k)) = k
             /\ \A i \in 1 .. k : SubSeq(t, m + 1, m + k)[i] = t[m + i]
  <2> HIDE DEF t
  <2> DEFINE u == SubSeq(t, m + 1, m + k)
  <2>1. \A i \in m + 1 .. m + k : t[i] \in Event
    BY <1>1, <1>3
  <2>2. /\ u \in Seq(Event)
        /\ Len(u) = IF m + 1 <= m + k THEN (m + k) - (m + 1) + 1 ELSE 0
        /\ \A i \in 1 .. (m + k) - (m + 1) + 1 : u[i] = t[(m + 1) + i - 1]
    BY <2>1, SubSeqProperties
  <2>3. (m + k) - (m + 1) + 1 = k /\ \A i \in 1 .. k : (m + 1) + i - 1 = m + i
    OBVIOUS
  <2> HIDE DEF u
  <2>4. u \in Seq(Event) /\ Len(u) = k
    BY <2>2, <2>3
  <2>5. ASSUME NEW i \in 1 .. k PROVE u[i] = t[m + i]
    BY <2>2, <2>3
  <2> QED BY <2>4, <2>5 DEF u
<1> HIDE DEF t, old
<1>4. SubSeq(t, m + 1, m + n) = old
  <2>1. m + n <= Len(t)
    BY <1>1
  <2>2. \A i \in 1 .. n : t[m + i] = s[m + i]
    BY <1>1
  <2>3. /\ SubSeq(t, m + 1, m + n) \in Seq(Event)
        /\ Len(SubSeq(t, m + 1, m + n)) = Len(old)
        /\ \A i \in 1 .. Len(SubSeq(t, m + 1, m + n)) : SubSeq(t, m + 1, m + n)[i] = old[i]
    BY <1>2, <1>3, <2>1, <2>2
  <2> QED BY <1>2, <2>3, SeqEqual
<1>5. ASSUME m + n = Len(s) PROVE SubSeq(t, m + 1, m + (n + 1)) = Append(old, e)
  <2>1. m + (n + 1) <= Len(t) /\ n + 1 \in Nat
    BY <1>1, <1>5
  <2>2. /\ SubSeq(t, m + 1, m + (n + 1)) \in Seq(Event)
        /\ Len(SubSeq(t, m + 1, m + (n + 1))) = n + 1
        /\ \A i \in 1 .. (n + 1) : SubSeq(t, m + 1, m + (n + 1))[i] = t[m + i]
    BY <1>3, <2>1
  <2>3. /\ Append(old, e) \in Seq(Event) /\ Len(Append(old, e)) = n + 1
        /\ \A i \in 1 .. n : Append(old, e)[i] = old[i] /\ Append(old, e)[n + 1] = e
    BY <1>2, AppendProperties
  <2>4. ASSUME NEW i \in 1 .. (n + 1) PROVE t[m + i] = Append(old, e)[i]
    <3>1. CASE i = n + 1
      <4>1. m + i = Len(s) + 1
        BY <1>5, <3>1
      <4> QED BY <1>1, <2>3, <3>1, <4>1
    <3>2. CASE i # n + 1
      <4>1. i \in 1 .. n /\ m + i \in 1 .. Len(s)
        BY <1>5, <3>2
      <4> QED BY <1>1, <1>2, <2>3, <4>1
    <3> QED BY <3>1, <3>2
  <2>5. \A i \in 1 .. Len(SubSeq(t, m + 1, m + (n + 1))) :
           SubSeq(t, m + 1, m + (n + 1))[i] = Append(old, e)[i]
    BY <2>2, <2>4
  <2> QED BY <2>2, <2>3, <2>5, SeqEqual
<1> QED BY <1>2, <1>4, <1>5 DEF t, old

(* Ten at a time.                                                          *)
LEMMA Decimal ==
  ASSUME NEW n \in Nat
  PROVE  \E q \in Nat, d \in 0 .. 9 :
           /\ n = 10 * q + d /\ n \div 10 = q /\ n % 10 = d
           /\ (n + 1) \div 10 = IF d = 9 THEN q + 1 ELSE q
           /\ (n + 1) % 10 = IF d = 9 THEN 0 ELSE d + 1
<1>1. n \div 10 \in Nat /\ n % 10 \in 0 .. 9
  OBVIOUS
<1>2. n = 10 * (n \div 10) + (n % 10)
  OBVIOUS
<1>3. PICK q \in Nat, d \in 0 .. 9 : n \div 10 = q /\ n % 10 = d /\ n = 10 * q + d
  BY <1>1, <1>2
<1>4. /\ (n + 1) \div 10 = IF d = 9 THEN q + 1 ELSE q
      /\ (n + 1) % 10 = IF d = 9 THEN 0 ELSE d + 1
  BY <1>3
<1> QED BY <1>3, <1>4

LEMMA ShareStep ==
  ASSUME NEW n \in Nat, NEW percent \in {0, 10, 50, 100}
  PROVE  /\ Share(0, percent) = 0 /\ Share(n, percent) \in Nat
         /\ Share(n + 1, percent) = Share(n, percent)
              + (IF n % Slots < percent \div Slots THEN 1 ELSE 0)
<1>1. percent \div 10 \in {0, 1, 5, 10}
  OBVIOUS
<1>2. PICK q \in Nat, d \in 0 .. 9 :
        /\ n = 10 * q + d /\ n \div 10 = q /\ n % 10 = d
        /\ (n + 1) \div 10 = IF d = 9 THEN q + 1 ELSE q
        /\ (n + 1) % 10 = IF d = 9 THEN 0 ELSE d + 1
  BY Decimal
<1> QED BY <1>1, <1>2 DEF Share, Slots

LEMMA WholeShare ==
  ASSUME NEW q \in Nat, NEW percent \in {0, 10, 50, 100}
  PROVE  100 * Share(10 * q, percent) = percent * (10 * q)
<1>1. (10 * q) \div 10 = q /\ (10 * q) % 10 = 0
  OBVIOUS
<1> QED BY <1>1 DEF Share, Slots
-----------------------------------------------------------------------------
\* A router that a step at most closes.
Kept(r) ==
  /\ router'[r].percent = router[r].percent /\ router'[r].blocked = router[r].blocked
  /\ router'[r].counter = router[r].counter /\ router'[r].since = router[r].since
  /\ router'[r].events = router[r].events

\* What configure makes of a router.
Configured(r, percent, blocked) ==
  /\ router'[r].percent = percent /\ router'[r].blocked = blocked
  /\ router'[r].counter = 0 /\ router'[r].since = Len(router[r].events)
  /\ router'[r].events = router[r].events

\* What the section under the lock makes of it.
Extended(r, e) ==
  /\ router'[r].percent = router[r].percent /\ router'[r].blocked = router[r].blocked
  /\ router'[r].counter = router[r].counter + 1 /\ router'[r].since = router[r].since
  /\ router'[r].events = Append(router[r].events, e)

LEMMA ConfigureEffect ==
  ASSUME TypeOK, NEW r \in Routers, NEW percent \in Nat, NEW blocked \in BOOLEAN,
         Configure(r, percent, blocked)
  PROVE  Configured(r, percent, blocked) /\ \A q \in Routers : q # r => Kept(q)
<1>1. router \in [Routers -> RouterType] /\ router[r] \in RouterType
  BY Typed
<1>2. PICK a \in RouterType : a = [router[r] EXCEPT !.percent = percent]
  BY <1>1 DEF RouterType
<1>3. PICK b \in RouterType : b = [a EXCEPT !.blocked = blocked]
  BY DEF RouterType
<1>4. PICK c \in RouterType : c = [b EXCEPT !.counter = 0]
  BY DEF RouterType
<1>5. Len(router[r].events) \in Nat
  BY <1>1 DEF RouterType
<1>6. PICK d \in RouterType : d = [c EXCEPT !.since = Len(router[r].events)]
  BY <1>5 DEF RouterType
<1>7. router' = [router EXCEPT ![r] = d]
  BY <1>2, <1>3, <1>4, <1>6, Zenon DEF Configure
<1>8. router'[r] = d /\ \A q \in Routers : q # r => router'[q] = router[q]
  BY <1>1, <1>7
<1>9. /\ d.percent = percent /\ d.blocked = blocked /\ d.counter = 0
      /\ d.since = Len(router[r].events) /\ d.events = router[r].events
  BY <1>1, <1>2, <1>3, <1>4, <1>6 DEF RouterType
<1> QED BY <1>8, <1>9 DEF Configured, Kept

LEMMA AssignEffect ==
  ASSUME TypeOK, NEW r \in Routers, Assign(r)
  PROVE  /\ \A q \in Routers : q # r => Kept(q)
         /\ \E e \in Event : /\ Extended(r, e)
                             /\ e.pqc = ToPqc(r) /\ e.blocked = router[r].blocked
<1>1. router \in [Routers -> RouterType] /\ router[r] \in RouterType
  BY Typed
<1>2. PICK pqc \in BOOLEAN, blocked \in BOOLEAN : pqc = ToPqc(r) /\ blocked = router[r].blocked
  <2>1. ToPqc(r) \in BOOLEAN /\ router[r].blocked \in BOOLEAN
    BY <1>1 DEF ToPqc, RouterType
  <2> QED BY <2>1
<1>3. PICK e \in Event : /\ e = [pqc |-> pqc, blocked |-> blocked]
                         /\ e.pqc = pqc /\ e.blocked = blocked
  <2>1. /\ [pqc |-> pqc, blocked |-> blocked] \in Event
        /\ [pqc |-> pqc, blocked |-> blocked].pqc = pqc
        /\ [pqc |-> pqc, blocked |-> blocked].blocked = blocked
    BY Zenon DEF Event
  <2> QED BY <2>1
<1>4. router' = [router EXCEPT ![r].counter = @ + 1, ![r].events = Append(@, e)]
  BY <1>2, <1>3 DEF Assign
<1>5. /\ router[r].counter + 1 \in Nat /\ router[r].events \in Seq(Event)
      /\ Append(router[r].events, e) \in Seq(Event)
  BY <1>1, AppendProperties DEF RouterType
<1>6. PICK v \in RouterType : v = [router[r] EXCEPT !.counter = router[r].counter + 1]
  BY <1>1, <1>5 DEF RouterType
<1>7. PICK w \in RouterType : w = [v EXCEPT !.events = Append(router[r].events, e)]
  BY <1>5 DEF RouterType
<1>8. v.events = router[r].events
  BY <1>1, <1>6 DEF RouterType
<1>9. router' = [router EXCEPT ![r] = w]
  BY <1>4, <1>6, <1>7, <1>8, Zenon
<1>10. router'[r] = w /\ \A q \in Routers : q # r => router'[q] = router[q]
  BY <1>1, <1>9
<1>11. /\ w.percent = router[r].percent /\ w.blocked = router[r].blocked
       /\ w.counter = router[r].counter + 1 /\ w.since = router[r].since
       /\ w.events = Append(router[r].events, e)
  BY <1>1, <1>6, <1>7 DEF RouterType
<1> QED BY <1>2, <1>3, <1>10, <1>11 DEF Extended, Kept

(* A step leaves the routers' settings and events alone, or configures the *)
(* main thread's router, or appends one event to a router.                 *)
LEMMA RouterMoves ==
  ASSUME IInv, [Next]_vars
  PROVE  \/ \A r \in Routers : Kept(r)
         \/ /\ main.fam \in Routers /\ main.pc \in {"configure", "prepare"}
            /\ \A q \in Routers : q # main.fam => Kept(q)
            /\ \E percent \in {0, 10, 50, 100}, blocked \in BOOLEAN :
                 Configured(main.fam, percent, blocked)
         \/ \E r \in Routers :
              /\ Assign(r) /\ \A q \in Routers : q # r => Kept(q)
              /\ \E e \in Event : /\ Extended(r, e)
                                  /\ e.pqc = ToPqc(r) /\ e.blocked = router[r].blocked
<1>1. ASSUME UNCHANGED router PROVE \A r \in Routers : Kept(r)
  BY <1>1 DEF Kept
<1>2. ASSUME main.fam \in Routers, NEW percent \in {0, 10, 50, 100}, NEW blocked \in BOOLEAN,
             Configure(main.fam, percent, blocked)
      PROVE  /\ \A q \in Routers : q # main.fam => Kept(q)
             /\ Configured(main.fam, percent, blocked)
  <2>1. percent \in Nat
    OBVIOUS
  <2> QED BY <1>2, <2>1, ConfigureEffect DEF IInv
<1>3. CASE SetStage
  <2>1. main.fam \in Routers /\ main.k \in 1 .. 3 /\ main.pc = "configure"
    BY <1>3 DEF SetStage, IInv, MainInv, Rollout
  <2>2. Percents[main.k] \in {0, 10, 50, 100}
    BY <2>1 DEF Percents
  <2> QED BY <1>2, <1>3, <2>1, <2>2 DEF SetStage
<1>4. CASE Prepare
  <2>1. main.fam \in Routers /\ main.pc = "prepare"
    BY <1>4 DEF Prepare, IInv, MainInv, Rollout
  <2>2. \/ UNCHANGED router \/ Configure(main.fam, 0, FALSE)
        \/ Configure(main.fam, 100, TRUE) \/ Configure(main.fam, 100, FALSE)
    BY <1>4 DEF Prepare
  <2> QED BY <1>1, <1>2, <2>1, <2>2
<1>5. CASE Retire
  <2>1. router \in [Routers -> RouterType]
    BY Typed DEF IInv
  <2>2. ASSUME NEW r \in Routers PROVE Kept(r)
    <3>1. router[r] \in RouterType
      BY <2>1
    <3>2. router'[r] = router[r] \/ router'[r] = [router[r] EXCEPT !.closed = TRUE]
      BY <1>5, <2>1 DEF Retire
    <3>3. CASE router'[r] = [router[r] EXCEPT !.closed = TRUE]
      BY <3>1, <3>3 DEF Kept, RouterType
    <3> QED BY <3>2, <3>3 DEF Kept
  <2> QED BY <2>2
<1>6. ASSUME NEW r \in Routers, Assign(r)
      PROVE  /\ \A q \in Routers : q # r => Kept(q)
             /\ \E e \in Event : /\ Extended(r, e)
                                 /\ e.pqc = ToPqc(r) /\ e.blocked = router[r].blocked
  BY <1>6, AssignEffect DEF IInv
<1>7. CASE \/ InboxTest \/ Baseline \/ Session \/ Open \/ StageAsk \/ StageAnswer \/ Gate
           \/ Probe \/ Drill \/ CloseSocket \/ Join \/ KillServer \/ WriteResults
  BY <1>1, <1>7 DEF InboxTest, Baseline, Session, Open, StageAsk, StageAnswer, Gate, Probe,
     Ask, Drill, CloseSocket, Join, KillServer, WriteResults
<1>8. CASE \/ Relay \/ JoinTimeout \/ ClientFault \/ SampleFault \/ ServerDies
           \/ RestartFails \/ SlowRequest \/ WaitTimeout \/ UNCHANGED vars
  BY <1>1, <1>8 DEF Relay, JoinTimeout, ClientFault, SampleFault, ServerDies, RestartFails,
     SlowRequest, WaitTimeout, vars
<1>9. ASSUME NEW r \in Routers, Loop(r) \/ EnterAccept(r) \/ Accept(r)
      PROVE  UNCHANGED router
  BY <1>9 DEF Loop, EnterAccept, Accept
<1> QED BY <1>1, <1>3, <1>4, <1>5, <1>6, <1>7, <1>8, <1>9 DEF Next, Main, Serve
-----------------------------------------------------------------------------
\* The counter of a router is the length of its events since the last configure,
\* and every prefix of them holds its share.
ShareOf(r) ==
  LET R == router[r]
  IN  /\ R.percent \in {0, 10, 50, 100}
      /\ Len(R.events) = R.since + R.counter
      /\ \A n \in 0 .. R.counter :
           CountPqc(SubSeq(R.events, R.since + 1, R.since + n)) = Share(n, R.percent)
ShareInv == \A r \in Routers : ShareOf(r)

LEMMA ExtendedShare ==
  ASSUME TypeOK, NEW r \in Routers, ShareOf(r), NEW e \in Event, Extended(r, e),
         e.pqc = ToPqc(r)
  PROVE  ShareOf(r)'
<1> DEFINE s == router[r].events
           m == router[r].since
           c == router[r].counter
           p == router[r].percent
<1>1. s \in Seq(Event) /\ m \in Nat /\ c \in Nat /\ Len(s) \in Nat
  <2>1. router[r] \in RouterType
    BY Typed
  <2> QED BY <2>1 DEF RouterType
<1>2. p \in {0, 10, 50, 100} /\ Len(s) = m + c
  BY DEF ShareOf
<1>3. \A n \in 0 .. c : CountPqc(SubSeq(s, m + 1, m + n)) = Share(n, p)
  BY DEF ShareOf
<1>4. /\ router'[r].events = Append(s, e) /\ router'[r].since = m
      /\ router'[r].counter = c + 1 /\ router'[r].percent = p
  BY DEF Extended
<1>5. e.pqc <=> c % Slots < p \div Slots
  BY DEF ToPqc
<1> HIDE DEF s, m, c, p
<1>6. ASSUME NEW n \in 0 .. c + 1
      PROVE  CountPqc(SubSeq(Append(s, e), m + 1, m + n)) = Share(n, p)
  <2>1. CASE n \in 0 .. c
    <3>1. n \in Nat /\ m + n <= Len(s)
      BY <1>1, <1>2, <2>1
    <3>2. SubSeq(Append(s, e), m + 1, m + n) = SubSeq(s, m + 1, m + n)
      BY <1>1, <3>1, PrefixOfAppend
    <3> QED BY <1>3, <2>1, <3>2
  <2>2. CASE n = c + 1
    <3> DEFINE t == SubSeq(s, m + 1, m + c)
    <3>1. t \in Seq(Event) /\ SubSeq(Append(s, e), m + 1, m + (c + 1)) = Append(t, e)
      BY <1>1, <1>2, PrefixOfAppend
    <3>2. CountPqc(t) = Share(c, p)
      BY <1>1, <1>3
    <3> HIDE DEF t
    <3>3. CountPqc(Append(t, e)) = CountPqc(t) + (IF e.pqc THEN 1 ELSE 0)
      BY <3>1, CountAppend
    <3>4. Share(c + 1, p) = Share(c, p) + (IF e.pqc THEN 1 ELSE 0)
      <4>1. Share(c + 1, p) = Share(c, p) + (IF c % Slots < p \div Slots THEN 1 ELSE 0)
        BY <1>1, <1>2, ShareStep
      <4> QED BY <1>5, <4>1
    <3> QED BY <2>2, <3>1, <3>2, <3>3, <3>4
  <2> QED BY <1>1, <2>1, <2>2
<1>7. Len(Append(s, e)) = m + (c + 1)
  BY <1>1, <1>2
<1> QED BY <1>2, <1>4, <1>6, <1>7 DEF ShareOf

LEMMA ConfiguredShare ==
  ASSUME TypeOK, NEW r \in Routers, NEW percent \in {0, 10, 50, 100}, NEW blocked,
         Configured(r, percent, blocked)
  PROVE  ShareOf(r)'
<1> DEFINE s == router[r].events
<1>1. s \in Seq(Event) /\ Len(s) \in Nat
  <2>1. router[r] \in RouterType
    BY Typed
  <2> QED BY <2>1 DEF RouterType
<1>2. /\ router'[r].events = s /\ router'[r].since = Len(s)
      /\ router'[r].counter = 0 /\ router'[r].percent = percent
  BY DEF Configured
<1> HIDE DEF s
<1>3. CountPqc(SubSeq(s, Len(s) + 1, Len(s))) = 0
  BY <1>1, EmptySubSeq
<1>4. Share(0, percent) = 0
  BY ShareStep
<1>5. ASSUME NEW n \in 0 .. 0
      PROVE  CountPqc(SubSeq(s, Len(s) + 1, Len(s) + n)) = Share(n, percent)
  <2>1. n = 0 /\ Len(s) + 0 = Len(s)
    BY <1>1
  <2> QED BY <1>3, <1>4, <2>1
<1> QED BY <1>1, <1>2, <1>5 DEF ShareOf

LEMMA NextShareInv == IInv /\ ShareInv /\ [Next]_vars => ShareInv'
<1> SUFFICES ASSUME IInv, ShareInv, [Next]_vars, NEW r \in Routers
             PROVE  ShareOf(r)'
  BY DEF ShareInv
<1>1. TypeOK /\ ShareOf(r)
  BY DEF IInv, ShareInv
<1>2. CASE Kept(r)
  BY <1>1, <1>2 DEF ShareOf, Kept
<1>3. CASE \E percent \in {0, 10, 50, 100}, blocked \in BOOLEAN : Configured(r, percent, blocked)
  BY <1>1, <1>3, ConfiguredShare
<1>4. CASE \E e \in Event : Extended(r, e) /\ e.pqc = ToPqc(r)
  BY <1>1, <1>4, ExtendedShare
<1> QED BY <1>2, <1>3, <1>4, RouterMoves

LEMMA InitShareInv == Init => ShareInv
<1> SUFFICES ASSUME Init, NEW r \in Routers PROVE ShareOf(r)
  BY DEF ShareInv
<1>1. /\ router[r].percent = 0 /\ router[r].counter = 0 /\ router[r].since = 0
      /\ router[r].events = <<>>
  BY DEF Init
<1>2. <<>> \in Seq(Event) /\ Len(<<>>) = 0
  OBVIOUS
<1>3. CountPqc(SubSeq(<<>>, 0 + 1, 0)) = 0
  BY <1>2, EmptySubSeq
<1>4. Share(0, 0) = 0
  BY ShareStep
<1>5. \A n \in 0 .. 0 : n = 0
  OBVIOUS
<1> QED BY <1>1, <1>2, <1>3, <1>4, <1>5 DEF ShareOf

(* The canary share is exact, whichever clients gave up: of every ten       *)
(* connections a router took since its last configure, percent/10 went to   *)
(* the PQC server.                                                          *)
THEOREM ExactShare == Spec => []ShareIsExact
<1>1. TypeOK /\ ShareInv => ShareIsExact
  <2> SUFFICES ASSUME TypeOK, ShareInv, NEW r \in Routers
               PROVE  LET since == router[r].since
                          whole == Slots * ((Len(router[r].events) - since) \div Slots)
                      IN  100 * CountPqc(SubSeq(router[r].events, since + 1, since + whole))
                            = router[r].percent * whole
    BY DEF ShareIsExact
  <2> DEFINE c == router[r].counter
             p == router[r].percent
             m == router[r].since
             s == router[r].events
  <2>1. c \in Nat /\ m \in Nat
    <3>1. router[r] \in RouterType
      BY Typed
    <3> QED BY <3>1 DEF RouterType
  <2>2. p \in {0, 10, 50, 100} /\ Len(s) = m + c
    BY DEF ShareInv, ShareOf
  <2>3. \A n \in 0 .. c : CountPqc(SubSeq(s, m + 1, m + n)) = Share(n, p)
    BY DEF ShareInv, ShareOf
  <2> HIDE DEF c, p, m, s
  <2>4. PICK q \in Nat, d \in 0 .. 9 : c = 10 * q + d /\ c \div 10 = q
    BY <2>1, Decimal
  <2>5. Len(s) - m = c
    BY <2>1, <2>2
  <2>6. 10 * q \in 0 .. c
    BY <2>1, <2>4
  <2>7. Slots * ((Len(s) - m) \div Slots) = 10 * q
    BY <2>4, <2>5 DEF Slots
  <2>8. 100 * Share(10 * q, p) = p * (10 * q)
    BY <2>2, WholeShare
  <2>9. 100 * CountPqc(SubSeq(s, m + 1, m + 10 * q)) = p * (10 * q)
    BY <2>3, <2>6, <2>8
  <2> QED BY <2>7, <2>9 DEF c, p, m, s
<1>2. IInv => TypeOK
  BY DEF IInv
<1>3. Init => ShareInv
  BY InitShareInv
<1>4. IInv /\ ShareInv /\ [Next]_vars => ShareInv'
  BY NextShareInv
<1> QED BY <1>1, <1>2, <1>3, <1>4, LabInvariant, PTL DEF Spec
-----------------------------------------------------------------------------
\* The last event of a router shows a refused connection; some event does.
LastBlocked(r) ==
  Len(router[r].events) > 0 /\ router[r].events[Len(router[r].events)].blocked
Witness(r) == \E i \in DOMAIN router[r].events : router[r].events[i].blocked

\* The fail-closed drill of the family is over.
Drilled(r) ==
  \/ r < main.fam \/ verdict = "passed"
  \/ r = main.fam /\ main.pc \in {"prepare", "probe"} /\ main.k = 4
  \/ r = main.fam /\ main.then = "open"

Refusing == main.pc = "probe" /\ main.k = 3 => router[main.fam].blocked
AnsweredIsWitnessed ==
  conn.st \in {"routed", "answered"} /\ router[main.fam].blocked => LastBlocked(main.fam)
DrilledIsWitnessed == \A r \in Routers : Drilled(r) => Witness(r)
WitnessInv ==
  /\ Refusing
  /\ "client" \notin faults => AnsweredIsWitnessed /\ DrilledIsWitnessed

LEMMA LastIsWitness ==
  ASSUME TypeOK, NEW r \in Routers, LastBlocked(r) PROVE Witness(r)
<1>1. router[r].events \in Seq(Event)
  <2>1. router[r] \in RouterType
    BY Typed
  <2> QED BY <2>1 DEF RouterType
<1>2. Len(router[r].events) \in DOMAIN router[r].events
  BY <1>1 DEF LastBlocked
<1> QED BY <1>2 DEF LastBlocked, Witness

(* An event stays: configure keeps the events of a router.                 *)
LEMMA WitnessStays ==
  ASSUME IInv, [Next]_vars, NEW r \in Routers, Witness(r) PROVE Witness(r)'
<1>1. router[r].events \in Seq(Event)
  <2>1. router[r] \in RouterType
    BY Typed DEF IInv
  <2> QED BY <2>1 DEF RouterType
<1>2. \/ router'[r].events = router[r].events
      \/ \E e \in Event : router'[r].events = Append(router[r].events, e)
  BY RouterMoves DEF Kept, Configured, Extended
<1>3. CASE \E e \in Event : router'[r].events = Append(router[r].events, e)
  <2>1. PICK e \in Event : router'[r].events = Append(router[r].events, e)
    BY <1>3
  <2>2. PICK i \in DOMAIN router[r].events : router[r].events[i].blocked
    BY DEF Witness
  <2>3. /\ i \in DOMAIN Append(router[r].events, e)
        /\ Append(router[r].events, e)[i] = router[r].events[i]
    BY <1>1, <2>2
  <2> QED BY <2>1, <2>2, <2>3 DEF Witness
<1> QED BY <1>2, <1>3 DEF Witness

(* Where the main thread may go, and what the run's verdict becomes.       *)
LEMMA MainGoes ==
  ASSUME IInv, [Next]_vars
  PROVE  \/ main' = main /\ verdict' = verdict
         \/ /\ main'.fam = main.fam /\ main'.pc \in {"kill", "retire"} /\ main'.then = "kill"
            /\ verdict' = "failed"
         \/ /\ main.pc \in {"inbox", "baseline", "sessions", "open", "configure", "stage"}
            /\ verdict' = verdict /\ main'.then = "kill"
            /\ main'.pc \in {"inbox", "baseline", "sessions", "open", "configure", "stage"}
               \/ (main'.pc = "prepare" /\ main'.k = 1)
            /\ main'.fam = main.fam \/ (main.fam = 0 /\ main'.fam = 1)
         \/ /\ Prepare /\ main.pc = "prepare" /\ main'.pc = "probe" /\ main'.fam = main.fam
            /\ main'.k = main.k /\ main'.then = main.then /\ verdict' = verdict
         \/ /\ main.pc = "probe" /\ conn.st = "answered" /\ main.k < 4 /\ main'.pc = "prepare"
            /\ main'.k = main.k + 1 /\ main'.fam = main.fam /\ main'.then = "kill"
            /\ verdict' = verdict
         \/ /\ main.pc = "probe" /\ main.k = 4 /\ main'.pc = "retire" /\ main'.fam = main.fam
            /\ verdict' = verdict
         \/ /\ main.pc = "probe" /\ main.k = 4 /\ main.fam = Len(Families)
            /\ main'.fam = main.fam /\ verdict' = "passed"
            /\ main'.pc \in {"kill", "retire"} /\ main'.then = "kill"
         \/ /\ main.pc \in {"retire", "close"} /\ main'.pc \in {"close", "join"}
            /\ main'.fam = main.fam /\ main'.then = main.then /\ verdict' = verdict
         \/ /\ main.pc = "join" /\ main.then = "open" /\ main'.fam = main.fam + 1
            /\ main'.pc = "open" /\ main'.then = "kill" /\ verdict' = verdict
         \/ /\ main.pc \in {"join", "kill"} /\ main'.pc \in {"kill", "done"}
            /\ main'.fam = main.fam /\ main'.then = "kill" /\ verdict' = verdict
<1> DEFINE Failing == /\ main'.fam = main.fam /\ main'.pc \in {"kill", "retire"}
                      /\ main'.then = "kill" /\ verdict' = "failed"
<1>1. main \in MainType /\ main.fam \in Routers \cup {0}
  BY Typed DEF IInv, MainType
<1>2. Fail => Failing
  BY CleanupTyped DEF Fail, IInv
<1>3. CASE InboxTest
  <2>1. CASE Fail
    BY <1>2, <2>1
  <2>2. CASE /\ main' \in {Goto("baseline", 0, 1), [main EXCEPT !.k = @ + 1]}
             /\ UNCHANGED verdict
    <3>1. main.pc = "inbox" /\ main.fam = 0 /\ main.then = "kill"
      BY <1>1, <1>3 DEF InboxTest, IInv, MainInv, Before, MainType
    <3>2. /\ main'.pc \in {"inbox", "baseline"} /\ main'.fam = 0 /\ main'.then = "kill"
      BY <1>1, <2>2, <3>1 DEF Goto, MainType
    <3> QED BY <2>2, <3>1, <3>2
  <2> QED BY <1>3, <2>1, <2>2 DEF InboxTest
<1>4. CASE Baseline
  <2>1. CASE Fail
    BY <1>2, <2>1
  <2>2. CASE /\ main' \in {Goto("sessions", 0, 1), [main EXCEPT !.k = @ + 1]}
             /\ UNCHANGED verdict
    <3>1. main.pc = "baseline" /\ main.fam = 0 /\ main.then = "kill"
      BY <1>1, <1>4 DEF Baseline, IInv, MainInv, Before, MainType
    <3>2. /\ main'.pc \in {"sessions", "baseline"} /\ main'.fam = 0 /\ main'.then = "kill"
      BY <1>1, <2>2, <3>1 DEF Goto, MainType
    <3> QED BY <2>2, <3>1, <3>2
  <2> QED BY <1>4, <2>1, <2>2 DEF Baseline
<1>5. CASE Session
  <2>1. main.pc = "sessions" /\ main.fam = 0 /\ main.then = "kill"
    BY <1>1, <1>5 DEF Session, IInv, MainInv, Before, MainType
  <2>2. main' \in {Goto("open", 1, 1), [main EXCEPT !.k = @ + 1]} /\ UNCHANGED verdict
    BY <1>5 DEF Session
  <2>3. /\ main'.pc \in {"sessions", "open"} /\ main'.then = "kill"
        /\ main'.fam = 0 \/ main'.fam = 1
    BY <1>1, <2>1, <2>2 DEF Goto, MainType
  <2> QED BY <2>1, <2>2, <2>3
<1>6. CASE Open \/ SetStage
  <2>1. /\ main.pc \in {"open", "configure"} /\ verdict' = verdict
        /\ \/ main' = Goto("configure", main.fam, 1)
           \/ main' = [Goto("stage", main.fam, main.k)
                          EXCEPT !.mark = Len(router[main.fam].events)]
    BY <1>6 DEF Open, SetStage, lab
  <2>2. main'.pc \in {"configure", "stage"} /\ main'.fam = main.fam /\ main'.then = "kill"
    BY <2>1 DEF Goto
  <2> QED BY <2>1, <2>2
<1>7. CASE StageAnswer
  <2>1. CASE Fail
    BY <1>2, <2>1
  <2>2. CASE ~ Fail
    <3>1. /\ main.pc = "stage" /\ UNCHANGED verdict
          /\ main' = [main EXCEPT !.made = @ + 1,
                        !.good = IF Ok /\ ~ conn.slow THEN @ + 1 ELSE @,
                        !.pqc = IF conn.reply = Families[main.fam] THEN @ + 1 ELSE @]
      BY <1>7, <2>2 DEF StageAnswer
    <3>2. main'.pc = main.pc /\ main'.fam = main.fam /\ main'.then = main.then
      BY <1>1, <3>1 DEF MainType
    <3>3. main.then = "kill"
      BY <1>1, <3>1 DEF IInv, MainInv, MainType
    <3> QED BY <3>1, <3>2, <3>3
  <2> QED BY <2>1, <2>2
<1>8. CASE Gate
  <2>1. CASE Fail
    BY <1>2, <2>1
  <2>2. CASE /\ main' \in {Goto("configure", main.fam, main.k + 1), Goto("prepare", main.fam, 1)}
             /\ UNCHANGED verdict
    BY <1>8, <2>2 DEF Gate, Goto
  <2> QED BY <1>8, <2>1, <2>2 DEF Gate
<1>9. CASE Prepare
  <2>1. /\ main.pc = "prepare" /\ verdict' = verdict
        /\ main' = [main EXCEPT !.pc = "probe", !.mark = Len(router[main.fam].events)]
    BY <1>9 DEF Prepare, lab
  <2>2. main'.pc = "probe" /\ main'.fam = main.fam /\ main'.k = main.k /\ main'.then = main.then
    BY <1>1, <2>1 DEF MainType
  <2> QED BY <1>9, <2>1, <2>2
<1>10. CASE Drill
  <2>1. CASE Fail
    BY <1>2, <2>1
  <2>2. CASE /\ main.k < 4 /\ main' = Goto("prepare", main.fam, main.k + 1)
             /\ UNCHANGED verdict
    BY <1>10, <2>2 DEF Drill, Answered, Goto
  <2>3. CASE /\ main.k = 4 /\ main' = [Goto("retire", main.fam, 1) EXCEPT !.then = "open"]
             /\ UNCHANGED verdict
    <3>1. main'.pc = "retire" /\ main'.fam = main.fam
      BY <2>3 DEF Goto
    <3> QED BY <1>10, <2>3, <3>1 DEF Drill
  <2>4. CASE /\ main.k = 4 /\ main.fam = Len(Families)
             /\ verdict' = "passed" /\ main' = Cleanup
    <3>1. main'.fam = main.fam /\ main'.pc \in {"kill", "retire"} /\ main'.then = "kill"
      BY <2>4, CleanupTyped DEF IInv
    <3> QED BY <1>10, <2>4, <3>1 DEF Drill
  <2> QED BY <1>10, <2>1, <2>2, <2>3, <2>4 DEF Drill
<1>11. CASE Retire \/ CloseSocket
  <2>1. /\ verdict' = verdict /\ main.pc \in {"retire", "close"}
        /\ main' \in {[main EXCEPT !.pc = "close"], [main EXCEPT !.pc = "join"]}
    BY <1>11 DEF Retire, CloseSocket, lab
  <2>2. main'.pc \in {"close", "join"} /\ main'.fam = main.fam /\ main'.then = main.then
    BY <1>1, <2>1 DEF MainType
  <2> QED BY <2>1, <2>2
<1>12. CASE Join
  BY <1>12 DEF Join, Goto, lab
<1>13. CASE KillServer
  BY <1>13 DEF KillServer, lab
<1>14. CASE WriteResults
  BY <1>14 DEF WriteResults, Goto
<1>15. CASE JoinTimeout
  <2>1. Fail \/ (main' = Goto("done", main.fam, 1) /\ UNCHANGED verdict)
    BY <1>15 DEF JoinTimeout
  <2>2. main.pc = "join"
    BY <1>15 DEF JoinTimeout
  <2> QED BY <1>2, <2>1, <2>2 DEF Goto
<1>16. CASE ClientFault
  BY <1>2, <1>16 DEF ClientFault
<1>17. CASE SampleFault \/ RestartFails
  BY <1>2, <1>17 DEF SampleFault, RestartFails
<1>18. CASE WaitTimeout
  <2>1. Fail \/ (main.pc = "kill" /\ main' = Goto("done", main.fam, 1) /\ UNCHANGED verdict)
    BY <1>18 DEF WaitTimeout
  <2> QED BY <1>2, <2>1 DEF Goto
<1>19. CASE StageAsk \/ Probe \/ Relay \/ ServerDies \/ SlowRequest \/ UNCHANGED vars
  BY <1>19 DEF StageAsk, Probe, Ask, Relay, ServerDies, SlowRequest, vars, lab
<1>20. ASSUME NEW r \in Routers, Serve(r) PROVE main' = main /\ verdict' = verdict
  BY <1>20 DEF Serve, Loop, EnterAccept, Accept, Assign, lab
<1> QED BY <1>3, <1>4, <1>5, <1>6, <1>7, <1>8, <1>9, <1>10, <1>11, <1>12, <1>13, <1>14,
           <1>15, <1>16, <1>17, <1>18, <1>19, <1>20 DEF Next, Main

(* The client's connection: how it comes to be routed or answered.         *)
LEMMA ConnGoes ==
  ASSUME IInv, [Next]_vars, conn'.st \in {"routed", "answered"}, "client" \notin faults'
  PROVE  /\ \/ conn.st \in {"routed", "answered"} /\ (conn.st = "answered" => conn'.st = "answered")
            \/ conn.st = "queued" /\ \E r \in Routers : Assign(r)
         /\ main'.fam = main.fam
<1>1. conn \in ConnType
  BY Typed DEF IInv
<1>2. CASE UNCHANGED <<conn, main>>
  BY <1>2
<1>3. NoConn.st = "idle"
  BY DEF NoConn
<1>4. CASE \/ InboxTest \/ Baseline \/ Session \/ Open \/ SetStage \/ Gate \/ Prepare
           \/ Retire \/ CloseSocket \/ Join \/ WriteResults \/ JoinTimeout \/ SampleFault
           \/ RestartFails \/ WaitTimeout
  <2>1. conn' = conn
    BY <1>4 DEF InboxTest, Baseline, Session, Open, SetStage, Gate, Prepare, Retire,
       CloseSocket, Join, WriteResults, JoinTimeout, SampleFault, RestartFails, WaitTimeout
  <2>2. conn.st = "idle"
    <3>1. CASE Gate
      BY <3>1 DEF Gate, IInv, ConnInv, StageSize
    <3>2. CASE ~ Gate
      <4>1. main.pc \notin {"stage", "probe"}
        BY <1>4, <3>2 DEF InboxTest, Baseline, Session, Open, SetStage, Prepare, Retire,
           CloseSocket, Join, WriteResults, JoinTimeout, SampleFault, RestartFails, WaitTimeout
      <4> QED BY <4>1, Idle
    <3> QED BY <3>1, <3>2
  <2> QED BY <2>1, <2>2
<1>5. CASE StageAsk \/ Probe
  <2>1. PICK groups \in SUBSET Groups : conn' = [NoConn EXCEPT !.st = "queued", !.groups = groups]
    <3>1. Both \in SUBSET Groups /\ Only \in SUBSET Groups
      <4>1. main.fam \in Routers
        BY <1>5 DEF StageAsk, Probe, IInv, MainInv, Rollout
      <4> QED BY <4>1, Basics DEF Both, Only
    <3> QED BY <1>5, <3>1 DEF StageAsk, Probe, Ask
  <2>2. conn'.st = "queued"
    BY <2>1 DEF NoConn
  <2> QED BY <2>2
<1>6. CASE StageAnswer \/ Drill
  BY <1>3, <1>6 DEF StageAnswer, Drill
<1>7. CASE Relay
  BY <1>7 DEF Relay
<1>8. CASE SlowRequest
  <2>1. conn' = [conn EXCEPT !.slow = TRUE] /\ main' = main
    BY <1>8 DEF SlowRequest
  <2>2. conn'.st = conn.st
    BY <1>1, <2>1 DEF ConnType
  <2> QED BY <2>1, <2>2
<1>9. CASE ClientFault
  BY <1>9 DEF ClientFault, Fault
<1>10. ASSUME NEW r \in Routers, Assign(r)
       PROVE  main' = main /\ (conn' = conn \/ conn.st = "queued")
  <2>1. main' = main
    BY <1>10 DEF Assign
  <2>2. CASE thread[r].took = "live"
    BY <2>1, <2>2 DEF IInv, ConnInv
  <2>3. CASE thread[r].took # "live"
    BY <1>10, <2>1, <2>3 DEF Assign
  <2> QED BY <2>1, <2>2, <2>3
<1>11. CASE KillServer \/ ServerDies \/ UNCHANGED vars
  BY <1>2, <1>11 DEF KillServer, ServerDies, vars
<1>12. ASSUME NEW r \in Routers, Loop(r) \/ EnterAccept(r) \/ Accept(r)
       PROVE  UNCHANGED <<conn, main>>
  BY <1>12 DEF Loop, EnterAccept, Accept
<1> QED BY <1>2, <1>4, <1>5, <1>6, <1>7, <1>8, <1>9, <1>10, <1>11, <1>12 DEF Next, Main, Serve

(* A drill's answer was refused by the router, or its family is drilled.   *)
LEMMA DrilledGoes ==
  ASSUME IInv, [Next]_vars, NEW r \in Routers, Drilled(r)'
  PROVE  \/ Drilled(r)
         \/ r = main.fam /\ main.pc = "probe" /\ main.k = 3 /\ conn.st = "answered"
<1>1. main.fam \in Routers \cup {0} /\ main.k \in Nat /\ r \in 1 .. Len(Families)
      /\ Len(Families) \in Nat
  BY Typed, Basics DEF IInv, MainType
<1>2. CASE main' = main /\ verdict' = verdict
  BY <1>2 DEF Drilled
<1>3. CASE /\ main'.fam = main.fam /\ main'.pc \in {"kill", "retire"} /\ main'.then = "kill"
           /\ verdict' = "failed"
  BY <1>3 DEF Drilled
<1>4. CASE /\ verdict' = verdict /\ main'.then = "kill"
           /\ main'.pc \in {"inbox", "baseline", "sessions", "open", "configure", "stage"}
               \/ (main'.pc = "prepare" /\ main'.k = 1)
           /\ main'.fam = main.fam \/ (main.fam = 0 /\ main'.fam = 1)
  <2>1. r < main'.fam \/ verdict = "passed"
    BY <1>4 DEF Drilled
  <2>2. r < main.fam \/ verdict = "passed"
    BY <1>1, <1>4, <2>1
  <2> QED BY <2>2 DEF Drilled
<1>5. CASE /\ main.pc = "prepare" /\ main'.pc = "probe" /\ main'.fam = main.fam
           /\ main'.k = main.k /\ main'.then = main.then /\ verdict' = verdict
  BY <1>5 DEF Drilled
<1>6. CASE /\ main.pc = "probe" /\ conn.st = "answered" /\ main.k < 4 /\ main'.pc = "prepare"
           /\ main'.k = main.k + 1 /\ main'.fam = main.fam /\ main'.then = "kill"
           /\ verdict' = verdict
  <2>1. r < main.fam \/ verdict = "passed" \/ (r = main.fam /\ main.k + 1 = 4)
    BY <1>6 DEF Drilled
  <2>2. main.k + 1 = 4 => main.k = 3
    BY <1>1
  <2> QED BY <1>6, <2>1, <2>2 DEF Drilled
<1>7. CASE /\ main.pc = "probe" /\ main.k = 4 /\ main'.pc = "retire" /\ main'.fam = main.fam
           /\ verdict' = verdict
  BY <1>7 DEF Drilled
<1>8. CASE main.pc = "probe" /\ main.k = 4 /\ main.fam = Len(Families)
  <2>1. r < main.fam \/ r = main.fam
    BY <1>1, <1>8
  <2> QED BY <1>8, <2>1 DEF Drilled
<1>9. CASE /\ main.pc \in {"retire", "close"} /\ main'.pc \in {"close", "join"}
           /\ main'.fam = main.fam /\ main'.then = main.then /\ verdict' = verdict
  BY <1>9 DEF Drilled
<1>10. CASE /\ main.pc = "join" /\ main.then = "open" /\ main'.fam = main.fam + 1
            /\ main'.pc = "open" /\ main'.then = "kill" /\ verdict' = verdict
  <2>1. r < main.fam + 1 \/ verdict = "passed"
    BY <1>10 DEF Drilled
  <2>2. r < main.fam \/ r = main.fam \/ verdict = "passed"
    <3>1. main.fam \in Nat
      BY <1>1, Basics
    <3> QED BY <1>1, <2>1, <3>1
  <2> QED BY <1>10, <2>2 DEF Drilled
<1>11. CASE /\ main.pc \in {"join", "kill"} /\ main'.pc \in {"kill", "done"}
            /\ main'.fam = main.fam /\ main'.then = "kill" /\ verdict' = verdict
  BY <1>11 DEF Drilled
<1> QED BY <1>2, <1>3, <1>4, <1>5, <1>6, <1>7, <1>8, <1>9, <1>10, <1>11, MainGoes

LEMMA NextRefusing == ASSUME IInv, Refusing, [Next]_vars PROVE Refusing'
<1> SUFFICES ASSUME main'.pc = "probe", main'.k = 3 PROVE router'[main'.fam].blocked
  BY DEF Refusing
<1>1. \/ main' = main
      \/ /\ Prepare /\ main.pc = "prepare" /\ main'.fam = main.fam /\ main'.k = main.k
  BY MainGoes
<1>2. CASE main' = main
  <2>1. main.fam \in Routers /\ router[main.fam].blocked /\ main.pc = "probe"
    BY <1>2 DEF Refusing, IInv, MainInv, Rollout
  <2>2. router'[main.fam].blocked = router[main.fam].blocked
    BY <2>1, RouterMoves DEF Kept, Extended
  <2> QED BY <1>2, <2>1, <2>2
<1>3. CASE /\ Prepare /\ main.pc = "prepare" /\ main'.fam = main.fam /\ main'.k = main.k
  <2>0. main.k # 1 /\ main.k # 2 /\ main.k # 4 /\ main.fam \in Routers
    BY <1>3 DEF IInv, MainInv, Rollout
  <2>1. main.fam \in Routers /\ Configure(main.fam, 100, TRUE)
    BY <1>3, <2>0 DEF Prepare
  <2>2. Configured(main.fam, 100, TRUE)
    BY <2>1, ConfigureEffect DEF IInv
  <2> QED BY <1>3, <2>2 DEF Configured
<1> QED BY <1>1, <1>2, <1>3

LEMMA NextAnswered ==
  ASSUME IInv, AnsweredIsWitnessed, [Next]_vars, "client" \notin faults'
  PROVE  AnsweredIsWitnessed'
<1> SUFFICES ASSUME conn'.st \in {"routed", "answered"}, router'[main'.fam].blocked
             PROVE  LastBlocked(main.fam)'
  BY DEF AnsweredIsWitnessed
<1>1. /\ main'.fam = main.fam
      /\ \/ conn.st \in {"routed", "answered"}
         \/ conn.st = "queued" /\ \E r \in Routers : Assign(r)
  BY ConnGoes
<1>2. main.pc \in {"stage", "probe"} /\ main.fam \in Routers
  BY <1>1 DEF IInv, ConnInv, MainInv, Rollout
<1>3. router[main.fam].events \in Seq(Event)
  <2>1. router[main.fam] \in RouterType
    BY <1>2, Typed DEF IInv
  <2> QED BY <2>1 DEF RouterType
<1>4. \A r \in Routers : Assign(r) => r = main.fam
  BY DEF Assign, Live, IInv, ThreadInv
<1>5. \/ Kept(main.fam) /\ conn.st \in {"routed", "answered"}
      \/ \E e \in Event : Extended(main.fam, e) /\ e.blocked = router[main.fam].blocked
  <2>1. CASE \A r \in Routers : Kept(r)
    <3>1. CASE \E r \in Routers : Assign(r)
      BY <1>4, <3>1, AssignEffect DEF IInv
    <3> QED BY <1>1, <1>2, <2>1, <3>1
  <2>2. CASE \E r \in Routers :
               /\ Assign(r)
               /\ \E e \in Event : Extended(r, e) /\ e.blocked = router[r].blocked
    BY <1>4, <2>2
  <2> QED BY <1>2, <2>1, <2>2, RouterMoves
<1>6. CASE Kept(main.fam) /\ conn.st \in {"routed", "answered"}
  BY <1>1, <1>6 DEF AnsweredIsWitnessed, Kept, LastBlocked
<1>7. CASE \E e \in Event : Extended(main.fam, e) /\ e.blocked = router[main.fam].blocked
  <2>1. PICK e \in Event : Extended(main.fam, e) /\ e.blocked = router[main.fam].blocked
    BY <1>7
  <2>2. e.blocked
    BY <1>1, <2>1 DEF Extended
  <2>3. LET events == Append(router[main.fam].events, e)
        IN  Len(events) > 0 /\ events[Len(events)] = e
    BY <1>3, AppendFacts
  <2> QED BY <1>1, <2>1, <2>2, <2>3 DEF Extended, LastBlocked
<1> QED BY <1>5, <1>6, <1>7

LEMMA FaultsGrow == ASSUME [Next]_vars PROVE faults \subseteq faults'
<1>1. CASE Main
  BY <1>1 DEF Main, InboxTest, Baseline, Session, Open, SetStage, StageAsk, StageAnswer, Gate,
     Prepare, Probe, Ask, Drill, Retire, CloseSocket, Join, KillServer, WriteResults
<1>2. CASE \E r \in Routers : Serve(r)
  BY <1>2 DEF Serve, Loop, EnterAccept, Accept, Assign
<1>3. CASE Relay \/ UNCHANGED vars
  BY <1>3 DEF Relay, vars
<1>4. CASE \/ JoinTimeout \/ ClientFault \/ SampleFault \/ ServerDies \/ RestartFails
           \/ SlowRequest \/ WaitTimeout
  BY <1>4 DEF JoinTimeout, ClientFault, SampleFault, ServerDies, RestartFails, SlowRequest,
     WaitTimeout, Fault
<1> QED BY <1>1, <1>2, <1>3, <1>4 DEF Next

LEMMA NextWitnessInv == IInv /\ WitnessInv /\ [Next]_vars => WitnessInv'
<1> SUFFICES ASSUME IInv, WitnessInv, [Next]_vars PROVE WitnessInv'
  OBVIOUS
<1>1. Refusing'
  BY NextRefusing DEF WitnessInv
<1>2. ASSUME "client" \notin faults'
      PROVE  AnsweredIsWitnessed' /\ DrilledIsWitnessed'
  <2>1. AnsweredIsWitnessed /\ DrilledIsWitnessed
    BY <1>2, FaultsGrow DEF WitnessInv
  <2>2. AnsweredIsWitnessed'
    BY <1>2, <2>1, NextAnswered
  <2>3. ASSUME NEW r \in Routers, Drilled(r)' PROVE Witness(r)'
    <3>1. Witness(r)
      <4>1. CASE Drilled(r)
        BY <2>1, <4>1 DEF DrilledIsWitnessed
      <4>2. CASE r = main.fam /\ main.pc = "probe" /\ main.k = 3 /\ conn.st = "answered"
        <5>1. LastBlocked(r)
          BY <2>1, <4>2 DEF AnsweredIsWitnessed, WitnessInv, Refusing
        <5> QED BY <5>1, LastIsWitness DEF IInv
      <4> QED BY <2>3, <4>1, <4>2, DrilledGoes
    <3> QED BY <3>1, WitnessStays
  <2> QED BY <2>2, <2>3 DEF DrilledIsWitnessed
<1> QED BY <1>1, <1>2 DEF WitnessInv

LEMMA InitWitnessInv == Init => WitnessInv
<1> SUFFICES ASSUME Init PROVE WitnessInv
  OBVIOUS
<1>1. main.pc = "inbox" /\ main.fam = 0 /\ main.then = "kill"
  BY DEF Init, Goto
<1>2. conn.st = "idle" /\ verdict = "running"
  BY DEF Init, NoConn
<1>3. \A r \in Routers : ~ (r < 0) /\ r # 0
  BY Basics
<1> QED BY <1>1, <1>2, <1>3 DEF WitnessInv, Refusing, AnsweredIsWitnessed,
        DrilledIsWitnessed, Drilled

(* A passed run in which no client ended on its own has shown, for every    *)
(* family, a connection the router refused because PQC was required.        *)
THEOREM FailClosedShown == Spec => []FailClosedIsWitnessed
<1>1. Init => WitnessInv
  BY InitWitnessInv
<1>2. IInv /\ WitnessInv /\ [Next]_vars => WitnessInv'
  BY NextWitnessInv
<1>3. WitnessInv => FailClosedIsWitnessed
  BY DEF WitnessInv, DrilledIsWitnessed, Drilled, Witness, FailClosedIsWitnessed
<1> QED BY <1>1, <1>2, <1>3, LabInvariant, PTL DEF Spec
-----------------------------------------------------------------------------
\* While nothing went wrong.  From the fail-closed drill's configure on, the
\* router refuses what it takes; this part holds whatever goes wrong.
FailMark ==
  main.pc = "probe" /\ main.k = 3 =>
    LET R == router[main.fam]
    IN  /\ main.mark = R.since
        /\ \A i \in R.since + 1 .. Len(R.events) : R.events[i].blocked

\* The receiver has accepted the statement for good after the ninth test.
SeenInv == main.pc = "inbox" =>
  /\ main.k \in 1 .. 12
  /\ main.k <= 9 => seen = {}
  /\ main.k = 10 => seen = {"statement"}
PublicInv == main.pc \in Rollout \cup {"inbox", "baseline"} => public = Required

\* Of the servers only the family's is down, from the first drill to the last.
FamilyDown ==
  \/ main.pc = "prepare" /\ main.k \in 2 .. 4
  \/ main.pc = "probe" /\ main.k \in 1 .. 3
UpInv ==
  main.pc \in Before \cup {"open", "configure", "stage", "prepare", "probe"}
      \/ main.then = "open" =>
    up = IF FamilyDown THEN Groups \ {Families[main.fam]} ELSE Groups
LabCalm == verdict # "failed" /\ SeenInv /\ PublicInv /\ UpInv

\* No client has given up or waits too long.
NobodyGone ==
  /\ ~ conn.slow
  /\ \A r \in Routers : /\ thread[r].at = "took" => thread[r].took = "live"
                        /\ \A i \in 1 .. Len(queue[r]) : queue[r][i] = "live"

\* The router is set as the stage or the drill wants it, and the connection
\* asks for its groups and is treated accordingly.
Percent == IF main.pc = "stage" THEN Percents[main.k]
           ELSE IF main.pc = "probe" /\ main.k = 2 THEN 0 ELSE 100
SettingInv ==
  main.pc \in {"stage", "probe"} \/ (main.pc = "prepare" /\ main.k = 1) =>
    /\ router[main.fam].percent = Percent
    /\ router[main.fam].blocked <=> main.pc = "probe" /\ main.k = 3
Taken == conn.st \in {"routed", "answered"}
AskedInv ==
  conn.st # "idle" => conn.groups = IF main.pc = "stage" \/ main.k <= 2 THEN Both ELSE Only
RoutedInv ==
  Taken => LET R == router[main.fam]
           IN  /\ conn.blocked = R.blocked
               /\ R.percent = 100 => conn.pqc
               /\ R.percent = 0 => ~ conn.pqc
AnswerInv ==
  conn.st = "answered" =>
    LET group == GroupOf(main.fam, conn.pqc)
    IN  conn.reply = IF ~ conn.blocked /\ group \in up /\ group \in conn.groups
                     THEN group ELSE "failed"

\* The stage's requests so far are the connections since its configure, and
\* those that the PQC server served are its share of them.
StageInv ==
  main.pc = "stage" =>
    LET R    == router[main.fam]
        here == IF Taken THEN 1 ELSE 0
        pqc  == IF Taken /\ conn.pqc THEN 1 ELSE 0
    IN  /\ main.mark = R.since /\ main.good = main.made /\ main.made <= StageSize
        /\ R.counter = main.made + here
        /\ Share(R.counter, R.percent) = main.pqc + pqc
FamilyCalm == SettingInv /\ AskedInv /\ RoutedInv /\ AnswerInv /\ StageInv
Calm == LabCalm /\ NobodyGone /\ FamilyCalm

LEMMA CalmSteps ==
  ASSUME [Next]_vars, faults' = {}
  PROVE  faults = {} /\ (Main \/ (\E r \in Routers : Serve(r)) \/ Relay \/ UNCHANGED vars)
<1>1. faults = {}
  BY FaultsGrow
<1>2. \A kind : ~ Fault(kind)
  BY DEF Fault
<1> QED BY <1>1, <1>2 DEF Next, JoinTimeout, ClientFault, SampleFault, ServerDies, RestartFails,
        SlowRequest, WaitTimeout

LEMMA NextFailMark == ASSUME IInv, Refusing, FailMark, [Next]_vars PROVE FailMark'
<1> SUFFICES ASSUME main'.pc = "probe", main'.k = 3
             PROVE  /\ main'.mark = router'[main'.fam].since
                    /\ \A i \in router'[main'.fam].since + 1 .. Len(router'[main'.fam].events) :
                         router'[main'.fam].events[i].blocked
  BY DEF FailMark
<1>1. \/ main' = main
      \/ /\ Prepare /\ main.pc = "prepare" /\ main'.fam = main.fam /\ main'.k = main.k
  BY MainGoes
<1>2. CASE main' = main
  <2> DEFINE s == router[main.fam].events
             m == router[main.fam].since
  <2>1. main.fam \in Routers /\ router[main.fam].blocked /\ main.pc = "probe"
    BY <1>2 DEF Refusing, IInv, MainInv, Rollout
  <2>2. main.mark = m /\ \A i \in m + 1 .. Len(s) : s[i].blocked
    BY <1>2 DEF FailMark
  <2>3. s \in Seq(Event) /\ m \in Nat
    <3>1. router[main.fam] \in RouterType
      BY <2>1, Typed DEF IInv
    <3> QED BY <3>1 DEF RouterType
  <2>4. \/ Kept(main.fam)
        \/ \E e \in Event : Extended(main.fam, e) /\ e.blocked
    BY <2>1, RouterMoves DEF Extended
  <2>5. CASE Kept(main.fam)
    BY <1>2, <2>2, <2>5 DEF Kept
  <2>6. CASE \E e \in Event : Extended(main.fam, e) /\ e.blocked
    <3>1. PICK e \in Event : Extended(main.fam, e) /\ e.blocked
      BY <2>6
    <3>2. router'[main.fam].events = Append(s, e) /\ router'[main.fam].since = m
      BY <3>1 DEF Extended
    <3> HIDE DEF s, m
    <3>3. Len(Append(s, e)) = Len(s) + 1 /\ Len(s) \in Nat
      BY <2>3
    <3>4. \A i \in m + 1 .. Len(s) + 1 : Append(s, e)[i].blocked
      <4> SUFFICES ASSUME NEW i \in m + 1 .. Len(s) + 1 PROVE Append(s, e)[i].blocked
        OBVIOUS
      <4>1. CASE i = Len(s) + 1
        <5>1. Append(s, e)[i] = e
          BY <2>3, <4>1
        <5> QED BY <3>1, <5>1
      <4>2. CASE i # Len(s) + 1
        <5>1. i \in m + 1 .. Len(s) /\ i \in 1 .. Len(s)
          BY <2>3, <3>3, <4>2
        <5>2. Append(s, e)[i] = s[i]
          BY <2>3, <5>1
        <5> QED BY <2>2, <5>1, <5>2
      <4> QED BY <4>1, <4>2
    <3> QED BY <1>2, <2>2, <3>2, <3>3, <3>4
  <2> QED BY <2>4, <2>5, <2>6
<1>3. CASE /\ Prepare /\ main.pc = "prepare" /\ main'.fam = main.fam /\ main'.k = main.k
  <2>0. main.k # 1 /\ main.k # 2 /\ main.k # 4 /\ main.fam \in Routers
    BY <1>3 DEF IInv, MainInv, Rollout
  <2>1. main.fam \in Routers /\ Configure(main.fam, 100, TRUE)
    BY <1>3, <2>0 DEF Prepare
  <2>2. Configured(main.fam, 100, TRUE)
    BY <2>1, ConfigureEffect DEF IInv
  <2>3. main'.mark = Len(router[main.fam].events)
    <3>1. main' = [main EXCEPT !.pc = "probe", !.mark = Len(router[main.fam].events)]
          /\ main \in MainType
      BY <1>3, Typed DEF Prepare, IInv
    <3> QED BY <3>1 DEF MainType
  <2>4. Len(router[main.fam].events) \in Nat
    <3>1. router[main.fam] \in RouterType
      BY <2>1, Typed DEF IInv
    <3> QED BY <3>1 DEF RouterType
  <2> QED BY <1>3, <2>2, <2>3, <2>4 DEF Configured
<1> QED BY <1>1, <1>2, <1>3
-----------------------------------------------------------------------------
LEMMA EntriesTotal == Total(Statement.entries)[Len(Statement.entries)] = 33
<1> DEFINE entries == Statement.entries
           amount(n) == entries[n].amount
           Step(f) == [n \in 0 .. 3 |-> IF n = 0 THEN 0 ELSE f[n - 1] + amount(n)]
           g == [n \in 0 .. 3 |-> IF n = 0 THEN 0 ELSE IF n = 1 THEN 10
                                  ELSE IF n = 2 THEN 8 ELSE 33]
<1>1. Len(entries) = 3 /\ amount(1) = 10 /\ amount(2) = -2 /\ amount(3) = 25
  BY DEF Statement, Entry
<1>2. g = Step(g)
  <2>1. \A n \in 0 .. 3 : g[n] = IF n = 0 THEN 0 ELSE g[n - 1] + amount(n)
    <3>1. 0 .. 3 = {0, 1, 2, 3}
      OBVIOUS
    <3>2. g[0] = 0 /\ g[1] = 10 /\ g[2] = 8 /\ g[3] = 33
      OBVIOUS
    <3> HIDE DEF g, amount
    <3> QED BY <1>1, <3>1, <3>2
  <2> QED BY <2>1
<1>3. Total(entries) = CHOOSE f : f = Step(f)
  BY <1>1 DEF Total
<1> HIDE DEF amount, g
<1>4. Total(entries) = Step(Total(entries))
  <2> HIDE DEF Step
  <2> QED BY <1>2, <1>3
<1> DEFINE t == Total(entries)
<1>5. t[0] = 0 /\ t[1] = t[0] + amount(1) /\ t[2] = t[1] + amount(2) /\ t[3] = t[2] + amount(3)
  <2> HIDE DEF t
  <2>1. t = Step(t)
    BY <1>4 DEF t
  <2> QED BY <2>1
<1> HIDE DEF t
<1>6. t[3] = 33
  BY <1>1, <1>5
<1> QED BY <1>1, <1>6 DEF t

(* The first check that fails decides.                                     *)
LEMMA FirstDecides ==
  ASSUME NEW checks, DOMAIN checks \subseteq Nat
  PROVE  /\ (\A i \in DOMAIN checks : checks[i][2]) => FirstRefusal(checks) = Accepted
         /\ \A n \in DOMAIN checks :
              ~ checks[n][2] /\ (\A i \in DOMAIN checks : i < n => checks[i][2])
                => FirstRefusal(checks) = checks[n][1]
<1> DEFINE refusals == {i \in DOMAIN checks : ~ checks[i][2]}
<1>1. ASSUME \A i \in DOMAIN checks : checks[i][2] PROVE FirstRefusal(checks) = Accepted
  <2>1. refusals = {}
    BY <1>1
  <2> QED BY <2>1 DEF FirstRefusal
<1>2. ASSUME NEW n \in DOMAIN checks, ~ checks[n][2],
             \A i \in DOMAIN checks : i < n => checks[i][2]
      PROVE  FirstRefusal(checks) = checks[n][1]
  <2>1. n \in refusals /\ \A i \in refusals : i \in Nat /\ n <= i
    BY <1>2
  <2>2. FirstRefusal(checks) = checks[Min(refusals)][1]
    BY <2>1 DEF FirstRefusal
  <2> HIDE DEF refusals
  <2>3. Min(refusals) = CHOOSE m \in refusals : \A i \in refusals : m <= i
    BY DEF Min
  <2>4. \A m \in refusals : (\A i \in refusals : m <= i) => m = n
    BY <2>1
  <2>5. Min(refusals) = n
    BY <2>1, <2>3, <2>4
  <2> QED BY <2>2, <2>5
<1> QED BY <1>1, <1>2

\* A statement whose schema conformance and closing balance may be wrong.
LEMMA XmlVerdict ==
  ASSUME NEW x, NEW closing \in Int, ~ x.entities, x.stmts = 1, x.currency = "KRW",
         x.amounts = {"KRW"}, x.entries = Statement.entries, DOMAIN x.balances = {1, 2},
         x.balances[1] = <<"OPBD", 100>>, x.balances[2] = <<"CLBD", closing>>
  PROVE  /\ x.schema /\ closing = 133 => ValidateXml(x) = Accepted
         /\ ~ x.schema => ValidateXml(x) = "schema"
         /\ x.schema /\ closing # 133 => ValidateXml(x) = "balance"
<1> DEFINE code(i)  == x.balances[i][1]
           value(c) == x.balances[CHOOSE i \in DOMAIN x.balances : code(i) = c][2]
           change   == Total(x.entries)[Len(x.entries)]
           b5 == Distinct([i \in DOMAIN x.balances |-> code(i)])
           b6 == /\ Distinct([i \in DOMAIN x.entries |-> x.entries[i].ref])
                 /\ \A i \in DOMAIN x.entries : x.entries[i].status = "BOOK"
           b7 == /\ {code(i) : i \in DOMAIN x.balances} = {"OPBD", "CLBD"}
                 /\ value("OPBD") + change = value("CLBD")
<1>1. code(1) = "OPBD" /\ code(2) = "CLBD"
  OBVIOUS
<1>2. value("OPBD") = 100 /\ value("CLBD") = closing
  <2>1. \A i \in DOMAIN x.balances : (code(i) = "OPBD" <=> i = 1) /\ (code(i) = "CLBD" <=> i = 2)
    BY <1>1
  <2> HIDE DEF code
  <2>2. (CHOOSE i \in DOMAIN x.balances : code(i) = "OPBD") = 1
    BY <2>1
  <2>3. (CHOOSE i \in DOMAIN x.balances : code(i) = "CLBD") = 2
    BY <2>1
  <2>4. x.balances[1][2] = 100 /\ x.balances[2][2] = closing
    OBVIOUS
  <2> QED BY <2>2, <2>3, <2>4
<1>3. change = 33
  BY EntriesTotal
<1>4. b5
  <2> HIDE DEF code
  <2>1. \A i \in {1, 2} : [k \in DOMAIN x.balances |-> code(k)][i] = code(i)
    OBVIOUS
  <2>2. DOMAIN [k \in DOMAIN x.balances |-> code(k)] = {1, 2}
    OBVIOUS
  <2> QED BY <1>1, <2>1, <2>2 DEF Distinct
<1>5. b6
  <2>1. /\ DOMAIN x.entries = {1, 2, 3}
        /\ x.entries[1].ref = "1" /\ x.entries[2].ref = "2" /\ x.entries[3].ref = "3"
        /\ \A i \in DOMAIN x.entries : x.entries[i].status = "BOOK"
    BY DEF Statement, Entry
  <2> DEFINE f == [i \in DOMAIN x.entries |-> x.entries[i].ref]
  <2>2. DOMAIN f = {1, 2, 3} /\ f[1] = "1" /\ f[2] = "2" /\ f[3] = "3"
    BY <2>1
  <2> HIDE DEF f
  <2>3. Distinct(f)
    BY <2>2 DEF Distinct
  <2> QED BY <2>1, <2>3 DEF f
<1>6. b7 <=> closing = 133
  <2>1. {code(i) : i \in DOMAIN x.balances} = {"OPBD", "CLBD"}
    BY <1>1
  <2> QED BY <1>2, <1>3, <2>1
<1> DEFINE b1 == ~ x.entities
           b2 == x.schema
           b3 == x.stmts = 1
           b4 == x.currency = "KRW" /\ x.amounts \subseteq {"KRW"}
           checks == << <<"xml_entities", b1>>, <<"schema", b2>>, <<"account_scope", b3>>,
                        <<"currency", b4>>, <<"duplicate_balance", b5>>, <<"entries", b6>>,
                        <<"balance", b7>> >>
<1>7. ValidateXml(x) = FirstRefusal(checks)
  BY DEF ValidateXml
<1>8. b1 /\ b3 /\ b4
  OBVIOUS
<1> HIDE DEF b1, b2, b3, b4, b5, b6, b7
<1>9. DOMAIN checks = {1, 2, 3, 4, 5, 6, 7}
  OBVIOUS
<1>10. checks[2][1] = "schema" /\ checks[7][1] = "balance"
  OBVIOUS
<1>11. checks[1][2] /\ checks[3][2] /\ checks[4][2]
  BY <1>8
<1>12. checks[5][2] /\ checks[6][2]
  BY <1>4, <1>5
<1>13. (checks[2][2] <=> b2) /\ (checks[7][2] <=> b7)
  OBVIOUS
<1> HIDE DEF checks
<1>14. DOMAIN checks \subseteq Nat /\ 2 \in DOMAIN checks /\ 7 \in DOMAIN checks
  BY <1>9
<1>15. ASSUME x.schema, closing = 133 PROVE FirstRefusal(checks) = Accepted
  <2>1. checks[2][2] /\ checks[7][2]
    BY <1>6, <1>13, <1>15 DEF b2
  <2>2. \A i \in {1, 2, 3, 4, 5, 6, 7} : checks[i][2]
    BY <1>11, <1>12, <2>1
  <2> QED BY <1>9, <1>14, <2>2, FirstDecides
<1>16. ASSUME ~ x.schema PROVE FirstRefusal(checks) = "schema"
  <2>1. ~ checks[2][2]
    BY <1>13, <1>16 DEF b2
  <2>2. \A i \in {1, 2, 3, 4, 5, 6, 7} : i < 2 => checks[i][2]
    BY <1>11
  <2> QED BY <1>9, <1>10, <1>14, <2>1, <2>2, FirstDecides
<1>17. ASSUME x.schema, closing # 133 PROVE FirstRefusal(checks) = "balance"
  <2>1. checks[2][2] /\ ~ checks[7][2]
    BY <1>6, <1>13, <1>17 DEF b2
  <2>2. \A i \in {1, 2, 3, 4, 5, 6, 7} : i < 7 => checks[i][2]
    BY <1>11, <1>12, <2>1
  <2> QED BY <1>9, <1>10, <1>14, <2>1, <2>2, FirstDecides
<1> QED BY <1>7, <1>15, <1>16, <1>17

LEMMA StatementVerdicts ==
  /\ ValidateXml(Statement) = Accepted
  /\ ValidateXml([Statement EXCEPT !.schema = FALSE]) = "schema"
  /\ ValidateXml([Statement EXCEPT !.balances[2] = <<"CLBD", 134>>]) = "balance"
<1> DEFINE Same(x) == /\ ~ x.entities /\ x.stmts = 1 /\ x.currency = "KRW"
                      /\ x.amounts = {"KRW"} /\ x.entries = Statement.entries
           Balances(x, closing) == /\ DOMAIN x.balances = {1, 2}
                                   /\ x.balances[1] = <<"OPBD", 100>>
                                   /\ x.balances[2] = <<"CLBD", closing>>
<1>1. ValidateXml(Statement) = Accepted
  <2>1. Same(Statement) /\ Statement.schema
    BY DEF Statement
  <2>2. Balances(Statement, 133)
    BY DEF Statement
  <2> QED BY <2>1, <2>2, XmlVerdict
<1>2. ValidateXml([Statement EXCEPT !.schema = FALSE]) = "schema"
  <2> DEFINE x == [Statement EXCEPT !.schema = FALSE]
  <2>1. Same(x) /\ ~ x.schema /\ x.balances = Statement.balances
    BY DEF Statement
  <2>2. Balances(Statement, 133)
    BY DEF Statement
  <2> HIDE DEF x
  <2>3. ValidateXml(x) = "schema"
    BY <2>1, <2>2, XmlVerdict
  <2> QED BY <2>3 DEF x
<1>3. ValidateXml([Statement EXCEPT !.balances[2] = <<"CLBD", 134>>]) = "balance"
  <2> DEFINE x == [Statement EXCEPT !.balances[2] = <<"CLBD", 134>>]
  <2>1. Same(x) /\ x.schema /\ x.balances = [Statement.balances EXCEPT ![2] = <<"CLBD", 134>>]
    BY DEF Statement
  <2>2. Balances(Statement, 133)
    BY DEF Statement
  <2>3. Balances(x, 134)
    BY <2>1, <2>2
  <2> HIDE DEF x
  <2>4. ValidateXml(x) = "balance"
    BY <2>1, <2>3, XmlVerdict
  <2> QED BY <2>4 DEF x
<1> QED BY <1>1, <1>2, <1>3

\* The signature on a bundle is the trusted one over the message it carries.
Policy(bundle, allowed) ==
  bundle.message.alg \in allowed /\ bundle.message.keyId = bundle.message.alg
Signature(bundle, registry) ==
  /\ bundle.message.keyId \in DOMAIN registry
  /\ bundle.signer = registry[bundle.message.keyId]
  /\ bundle.signed = bundle.message
Sound(bundle) ==
  /\ ValidateXml(bundle.message.payload) = Accepted
  /\ bundle.message.doc = bundle.message.payload.doc
Verdict(bundle, allowed, registry, fresh) ==
  IF ~ Policy(bundle, allowed) THEN "algorithm_policy"
  ELSE IF bundle.message.keyId \notin DOMAIN registry THEN "untrusted_key"
  ELSE IF ~ Signature(bundle, registry) THEN "signature"
  ELSE IF fresh THEN Accepted ELSE "duplicate"

\* The verdict of receive on a bundle of the right domain and policy version: the
\* algorithm, the key, the signature and the replay decide in this order when the
\* payload is sound.
LEMMA ReceiveVerdict ==
  ASSUME NEW bundle, NEW allowed, NEW registry, NEW known, NEW replay \in BOOLEAN,
         bundle.message.domain = "KPQC-LAB-STATEMENT-v1", bundle.message.policy = 1,
         Signature(bundle, registry) => Sound(bundle)
  PROVE  Receive(bundle, allowed, registry, known, replay)
           = Verdict(bundle, allowed, registry, replay => bundle.message.doc \notin known)
<1> DEFINE m  == bundle.message
           b1 == m.domain = "KPQC-LAB-STATEMENT-v1" /\ m.policy = 1
           b2 == m.alg \in allowed /\ m.keyId = m.alg
           b3 == m.keyId \in DOMAIN registry
           b4 == /\ m.keyId \in DOMAIN registry
                 /\ bundle.signer = registry[m.keyId]
                 /\ bundle.signed = m
           r5 == ValidateXml(m.payload)
           b5 == ValidateXml(m.payload) = Accepted
           b6 == m.doc = m.payload.doc
           b7 == replay => m.doc \notin known
           checks == << <<"domain_policy", b1>>, <<"algorithm_policy", b2>>,
                        <<"untrusted_key", b3>>, <<"signature", b4>>, <<r5, b5>>,
                        <<"document_binding", b6>>, <<"duplicate", b7>> >>
<1>1. Receive(bundle, allowed, registry, known, replay) = FirstRefusal(checks)
  BY DEF Receive
<1>2. b1 /\ (b2 <=> Policy(bundle, allowed)) /\ (b4 <=> Signature(bundle, registry))
  BY DEF Policy, Signature
<1>3. (b4 => b5 /\ b6) /\ (b4 => b3)
  BY DEF Signature, Sound
<1>4. Verdict(bundle, allowed, registry, replay => m.doc \notin known)
        = IF ~ b2 THEN "algorithm_policy" ELSE IF ~ b3 THEN "untrusted_key"
          ELSE IF ~ b4 THEN "signature" ELSE IF b7 THEN Accepted ELSE "duplicate"
  BY <1>2 DEF Verdict
<1> HIDE DEF b1, b2, b3, b4, b5, b6, b7, r5
<1>5. DOMAIN checks = {1, 2, 3, 4, 5, 6, 7}
  OBVIOUS
<1>6. /\ checks[2][1] = "algorithm_policy" /\ checks[3][1] = "untrusted_key"
      /\ checks[4][1] = "signature" /\ checks[7][1] = "duplicate"
  OBVIOUS
<1>7. (checks[1][2] <=> b1) /\ (checks[2][2] <=> b2) /\ (checks[3][2] <=> b3)
  OBVIOUS
<1>8. (checks[4][2] <=> b4) /\ (checks[5][2] <=> b5)
  OBVIOUS
<1>9. (checks[6][2] <=> b6) /\ (checks[7][2] <=> b7)
  OBVIOUS
<1> HIDE DEF checks
<1>10. DOMAIN checks \subseteq Nat
  BY <1>5
<1>11. ASSUME ~ b2 PROVE FirstRefusal(checks) = "algorithm_policy"
  <2>1. ~ checks[2][2] /\ \A i \in {1, 2, 3, 4, 5, 6, 7} : i < 2 => checks[i][2]
    BY <1>2, <1>7, <1>11
  <2> QED BY <1>5, <1>6, <1>10, <2>1, FirstDecides
<1>12. ASSUME b2, ~ b3 PROVE FirstRefusal(checks) = "untrusted_key"
  <2>1. ~ checks[3][2] /\ \A i \in {1, 2, 3, 4, 5, 6, 7} : i < 3 => checks[i][2]
    BY <1>2, <1>7, <1>12
  <2> QED BY <1>5, <1>6, <1>10, <2>1, FirstDecides
<1>13. ASSUME b2, b3, ~ b4 PROVE FirstRefusal(checks) = "signature"
  <2>1. ~ checks[4][2] /\ \A i \in {1, 2, 3, 4, 5, 6, 7} : i < 4 => checks[i][2]
    BY <1>2, <1>7, <1>8, <1>13
  <2> QED BY <1>5, <1>6, <1>10, <2>1, FirstDecides
<1>14. ASSUME b2, b4, ~ b7 PROVE FirstRefusal(checks) = "duplicate"
  <2>1. ~ checks[7][2] /\ \A i \in {1, 2, 3, 4, 5, 6, 7} : i < 7 => checks[i][2]
    BY <1>2, <1>3, <1>7, <1>8, <1>9, <1>14
  <2> QED BY <1>5, <1>6, <1>10, <2>1, FirstDecides
<1>15. ASSUME b2, b4, b7 PROVE FirstRefusal(checks) = Accepted
  <2>1. \A i \in {1, 2, 3, 4, 5, 6, 7} : checks[i][2]
    BY <1>2, <1>3, <1>7, <1>8, <1>9, <1>15
  <2> QED BY <1>5, <1>10, <2>1, FirstDecides
<1> QED BY <1>1, <1>3, <1>4, <1>11, <1>12, <1>13, <1>14, <1>15

\* The verdicts of receive on bundles of the statement.
Signed == Sign(Required, Statement)
LEMMA SignedVerdict ==
  ASSUME NEW a \in Algorithms, NEW allowed, NEW registry, NEW known, NEW replay \in BOOLEAN
  PROVE  Receive(Sign(a, Statement), allowed, registry, known, replay)
           = IF a \notin allowed THEN "algorithm_policy"
             ELSE IF a \notin DOMAIN registry THEN "untrusted_key"
             ELSE IF registry[a] # a THEN "signature"
             ELSE IF replay => "statement" \notin known THEN Accepted ELSE "duplicate"
<1> DEFINE b == Sign(a, Statement)
<1>1. /\ b.message.domain = "KPQC-LAB-STATEMENT-v1" /\ b.message.policy = 1
      /\ b.message.alg = a /\ b.message.keyId = a /\ b.message.doc = "statement"
      /\ b.message.payload = Statement /\ b.signer = a /\ b.signed = b.message
  BY DEF Sign
<1>2. Sound(b)
  <2>1. Statement.doc = "statement"
    BY DEF Statement
  <2> QED BY <1>1, <2>1, StatementVerdicts DEF Sound
<1> HIDE DEF b
<1>3. Receive(b, allowed, registry, known, replay)
        = Verdict(b, allowed, registry, replay => b.message.doc \notin known)
  BY <1>1, <1>2, ReceiveVerdict
<1>4. (Policy(b, allowed) <=> a \in allowed)
      /\ (Signature(b, registry) <=> a \in DOMAIN registry /\ registry[a] = a)
  BY <1>1 DEF Policy, Signature
<1> QED BY <1>1, <1>3, <1>4 DEF Verdict, b

LEMMA OnceVerdict ==
  ASSUME NEW a \in Algorithms, NEW allowed, NEW registry, NEW known
  PROVE  Receive(Sign(a, Statement), allowed, registry, known, FALSE)
           = IF a \notin allowed THEN "algorithm_policy"
             ELSE IF a \notin DOMAIN registry THEN "untrusted_key"
             ELSE IF registry[a] # a THEN "signature" ELSE Accepted
<1> DEFINE replay == FALSE
<1>1. replay \in BOOLEAN /\ ~ replay
  OBVIOUS
<1> HIDE DEF replay
<1>2. Receive(Sign(a, Statement), allowed, registry, known, replay)
        = IF a \notin allowed THEN "algorithm_policy"
          ELSE IF a \notin DOMAIN registry THEN "untrusted_key"
          ELSE IF registry[a] # a THEN "signature" ELSE Accepted
  BY <1>1, SignedVerdict
<1> QED BY <1>2 DEF replay
LEMMA AgainVerdict ==
  ASSUME NEW a \in Algorithms, NEW allowed, NEW registry, NEW known,
         a \in allowed, a \in DOMAIN registry, registry[a] = a
  PROVE  Receive(Sign(a, Statement), allowed, registry, known, TRUE)
           = IF "statement" \notin known THEN Accepted ELSE "duplicate"
<1>1. ASSUME NEW replay \in BOOLEAN, replay
      PROVE  Receive(Sign(a, Statement), allowed, registry, known, replay)
               = IF "statement" \notin known THEN Accepted ELSE "duplicate"
  <2>1. Receive(Sign(a, Statement), allowed, registry, known, replay)
          = IF a \notin allowed THEN "algorithm_policy"
            ELSE IF a \notin DOMAIN registry THEN "untrusted_key"
            ELSE IF registry[a] # a THEN "signature"
            ELSE IF replay => "statement" \notin known THEN Accepted ELSE "duplicate"
    BY SignedVerdict
  <2>2. (replay => "statement" \notin known) <=> "statement" \notin known
    BY <1>1
  <2> QED BY <2>1, <2>2
<1> QED BY <1>1

\* A payload exchanged under the signature is refused.
LEMMA TamperedVerdict ==
  ASSUME NEW a \in Algorithms, NEW x, x # Statement
  PROVE  Receive([Sign(a, Statement) EXCEPT !.message.payload = x], {a}, Trust, seen, FALSE)
           = "signature"
<1> DEFINE b == [Sign(a, Statement) EXCEPT !.message.payload = x]
<1>1. /\ b.message.domain = "KPQC-LAB-STATEMENT-v1" /\ b.message.policy = 1
      /\ b.message.alg = a /\ b.message.keyId = a /\ b.message.payload = x
  BY DEF Sign
<1>2. b.signed.payload = Statement
  BY DEF Sign
<1> HIDE DEF b
<1>3. ~ Signature(b, Trust)
  BY <1>1, <1>2 DEF Signature
<1>4. Receive(b, {a}, Trust, seen, FALSE)
        = Verdict(b, {a}, Trust, FALSE => b.message.doc \notin seen)
  BY <1>1, <1>3, ReceiveVerdict
<1>5. Policy(b, {a}) /\ b.message.keyId \in DOMAIN Trust
  BY <1>1 DEF Policy, Trust
<1> QED BY <1>3, <1>4, <1>5 DEF Verdict, b

Passes(k) == InboxTests[k].got = InboxTests[k].expect
LEMMA TestsPass ==
  /\ Len(InboxTests) = 12
  /\ \A k \in 1 .. 8 : Passes(k)
  /\ seen = {} => Passes(9)
  /\ seen = {"statement"} => Passes(10)
  /\ \A k \in 11 .. 12 : Passes(k)
<1> USE AlgorithmsAssumption
<1> DEFINE good      == Sign(Required, Statement)
           classical == Sign(Classical, Statement)
           tampered  == [Statement EXCEPT !.balances[1] = <<"OPBD", 900>>]
           wrongKey  == [a \in {Required} |-> "wrong"]
<1>1. Classical # Required /\ Required # "wrong"
  BY WrongKeyAssumption
<1>2. /\ DOMAIN Trust = Algorithms /\ \A a \in Algorithms : Trust[a] = a
      /\ DOMAIN wrongKey = {Required} /\ wrongKey[Required] = "wrong"
  BY DEF Trust
<1> DEFINE only == {Required}
           either == {Classical, Required}
<1>17. Required \in DOMAIN Trust /\ Trust[Required] = Required
  BY <1>2
<1>18. Classical \in DOMAIN Trust /\ Trust[Classical] = Classical
  BY <1>2
<1>19. Required \in only /\ Required \in either /\ Classical \in either
  OBVIOUS
<1>3. tampered # Statement
  <2>1. tampered.balances[1] = <<"OPBD", 900>> /\ Statement.balances[1] = <<"OPBD", 100>>
    BY DEF Statement
  <2>2. <<"OPBD", 900>>[2] # <<"OPBD", 100>>[2]
    OBVIOUS
  <2> HIDE DEF tampered
  <2> QED BY <2>1, <2>2
<1>4. Len(InboxTests) = 12
  BY DEF InboxTests
<1>5. Passes(1) /\ Passes(2) /\ Passes(3)
  BY StatementVerdicts DEF InboxTests, Passes, Test
<1>6. Passes(4)
  <2>1. InboxTests[4].got = {Receive(Sign(a, Statement), {a}, Trust, seen, FALSE) : a \in Algorithms}
        /\ InboxTests[4].expect = {Accepted}
    BY DEF InboxTests, Test
  <2>2. \A a \in Algorithms : Receive(Sign(a, Statement), {a}, Trust, seen, FALSE) = Accepted
    <3> SUFFICES ASSUME NEW a \in Algorithms
                 PROVE  Receive(Sign(a, Statement), {a}, Trust, seen, FALSE) = Accepted
      OBVIOUS
    <3> DEFINE sole == {a}
    <3>1. a \in sole /\ a \in DOMAIN Trust /\ Trust[a] = a
      BY <1>2
    <3> HIDE DEF sole
    <3>2. Receive(Sign(a, Statement), sole, Trust, seen, FALSE) = Accepted
      BY <3>1, OnceVerdict
    <3> QED BY <3>2 DEF sole
  <2> QED BY <2>1, <2>2 DEF Passes
<1>7. Passes(5)
  <2>1. InboxTests[5].got = {Receive([Sign(a, Statement) EXCEPT !.message.payload = tampered],
                                     {a}, Trust, seen, FALSE) : a \in Algorithms}
        /\ InboxTests[5].expect = {"signature"}
    BY DEF InboxTests, Test
  <2> HIDE DEF tampered
  <2>2. \A a \in Algorithms :
          Receive([Sign(a, Statement) EXCEPT !.message.payload = tampered],
                  {a}, Trust, seen, FALSE) = "signature"
    BY <1>3, TamperedVerdict
  <2> QED BY <2>1, <2>2 DEF Passes
<1>8. Passes(6)
  <2>1. InboxTests[6].got = Receive(classical, {Required}, Trust, seen, FALSE)
        /\ InboxTests[6].expect = "algorithm_policy"
    BY DEF InboxTests, Test
  <2>2. Receive(classical, {Required}, Trust, seen, FALSE) = "algorithm_policy"
    BY <1>1, OnceVerdict
  <2> QED BY <2>1, <2>2 DEF Passes
<1>9. Passes(7)
  <2>1. InboxTests[7].got = Receive(good, {Required}, [a \in {} |-> a], seen, FALSE)
        /\ InboxTests[7].expect = "untrusted_key"
    BY DEF InboxTests, Test
  <2>2. DOMAIN [a \in {} |-> a] = {}
    OBVIOUS
  <2>3. Receive(good, {Required}, [a \in {} |-> a], seen, FALSE) = "untrusted_key"
    BY <2>2, OnceVerdict
  <2> QED BY <2>1, <2>3 DEF Passes
<1>10. Passes(8)
  <2>1. InboxTests[8].got = Receive(good, {Required}, wrongKey, seen, FALSE)
        /\ InboxTests[8].expect = "signature"
    BY DEF InboxTests, Test
  <2> HIDE DEF wrongKey
  <2>2. Receive(good, {Required}, wrongKey, seen, FALSE) = "signature"
    <3> HIDE DEF only
    <3>1. Required \in only /\ Required \in DOMAIN wrongKey /\ wrongKey[Required] # Required
      BY <1>1, <1>2, <1>19
    <3> HIDE DEF good
    <3>2. good = Sign(Required, Statement)
      BY DEF good
    <3>3. Receive(Sign(Required, Statement), only, wrongKey, seen, FALSE) = "signature"
      BY <3>1, OnceVerdict, Zenon
    <3> QED BY <3>3 DEF only, good
  <2> QED BY <2>1, <2>2 DEF Passes
<1>11. ASSUME seen = {} PROVE Passes(9)
  <2>1. InboxTests[9].got = Receive(good, {Required}, Trust, seen, TRUE)
        /\ InboxTests[9].expect = Accepted
    BY DEF InboxTests, Test
  <2>2. Receive(good, {Required}, Trust, seen, TRUE) = Accepted
    <3> HIDE DEF only
    <3>1. Receive(good, only, Trust, seen, TRUE) = Accepted
      <4>1. "statement" \notin seen
        BY <1>11
      <4> QED BY <4>1, <1>17, <1>19, AgainVerdict, Zenon
    <3> QED BY <3>1 DEF only
  <2> QED BY <2>1, <2>2 DEF Passes
<1>12. ASSUME seen = {"statement"} PROVE Passes(10)
  <2>1. InboxTests[10].got = Receive(good, {Required}, Trust, seen, TRUE)
        /\ InboxTests[10].expect = "duplicate"
    BY DEF InboxTests, Test
  <2>2. Receive(good, {Required}, Trust, seen, TRUE) = "duplicate"
    <3> HIDE DEF only
    <3>1. Receive(good, only, Trust, seen, TRUE) = "duplicate"
      BY <1>12, <1>17, <1>19, AgainVerdict
    <3> QED BY <3>1 DEF only
  <2> QED BY <2>1, <2>2 DEF Passes
<1>13. Passes(11)
  <2>1. InboxTests[11].got = {Receive(b, {Classical, Required}, Trust, seen, FALSE)
                                : b \in {good, classical}}
        /\ InboxTests[11].expect = {Accepted}
    BY DEF InboxTests, Test
  <2>2. Receive(good, {Classical, Required}, Trust, seen, FALSE) = Accepted
    <3> HIDE DEF either
    <3>1. Receive(good, either, Trust, seen, FALSE) = Accepted
      BY <1>17, <1>19, OnceVerdict
    <3> QED BY <3>1 DEF either
  <2>3. Receive(classical, {Classical, Required}, Trust, seen, FALSE) = Accepted
    <3> HIDE DEF either
    <3>1. Receive(classical, either, Trust, seen, FALSE) = Accepted
      BY <1>18, <1>19, OnceVerdict
    <3> QED BY <3>1 DEF either
  <2> QED BY <2>1, <2>2, <2>3 DEF Passes
<1>14. Passes(12)
  <2>1. InboxTests[12].got = Receive(good, {Classical}, Trust, seen, FALSE)
        /\ InboxTests[12].expect = "algorithm_policy"
    BY DEF InboxTests, Test
  <2>2. Receive(good, {Classical}, Trust, seen, FALSE) = "algorithm_policy"
    BY <1>1, OnceVerdict
  <2> QED BY <2>1, <2>2 DEF Passes
<1>15. \A k \in 1 .. 8 : k \in {1, 2, 3, 4, 5, 6, 7, 8}
  OBVIOUS
<1>16. \A k \in 11 .. 12 : k \in {11, 12}
  OBVIOUS
<1> HIDE DEF good, classical, tampered, wrongKey
<1> QED BY <1>4, <1>5, <1>6, <1>7, <1>8, <1>9, <1>10, <1>11, <1>12, <1>13, <1>14, <1>15, <1>16

\* A download passes as long as the published bundle is the migration's.
LEMMA DownloadPasses == public = Required => DownloadIsGood
<1> USE AlgorithmsAssumption
<1>1. DOMAIN Trust = Algorithms /\ \A a \in Algorithms : Trust[a] = a
  BY DEF Trust
<1>2. Receive(Sign(Required, Statement), {Required}, Trust, {}, FALSE) = Accepted
  BY <1>1, OnceVerdict
<1>3. Required \in Accepting
  BY <1>2 DEF Accepting
<1> QED BY <1>3 DEF DownloadIsGood

\* Only the ninth test remembers the document.
LEMMA RememberedTests ==
  /\ \A k \in 1 .. 12 : InboxTests[k].remember <=> k = 9
  /\ Sign(Required, Statement).message.doc = "statement"
  /\ Passes(9) => InboxTests[9].got = Accepted
<1>1. \A k \in {1, 2, 3} : InboxTests[k].remember = FALSE
  BY DEF InboxTests, Test
<1>2. \A k \in {4, 5, 6} : InboxTests[k].remember = FALSE
  BY DEF InboxTests, Test
<1>3. \A k \in {7, 8, 10} : InboxTests[k].remember = FALSE
  BY DEF InboxTests, Test
<1>4. \A k \in {11, 12} : InboxTests[k].remember = FALSE
  BY DEF InboxTests, Test
<1>5. InboxTests[9].remember = TRUE /\ InboxTests[9].expect = Accepted
  BY DEF InboxTests, Test
<1>6. \A k \in 1 .. 12 : k \in {1, 2, 3, 4, 5, 6, 7, 8, 9, 10, 11, 12}
  OBVIOUS
<1>7. Sign(Required, Statement).message.doc = "statement"
  BY DEF Sign
<1> QED BY <1>1, <1>2, <1>3, <1>4, <1>5, <1>6, <1>7 DEF Passes

LEMMA GroupsDiffer ==
  ASSUME NEW r \in Routers
  PROVE  /\ Families[r] # ClassicGroup /\ "failed" \notin Groups
         /\ Families[r] \in Groups /\ ClassicGroup \in Groups
<1>1. Families[r] \in ToSet(Families)
  BY DEF Routers, ToSet
<1> QED BY <1>1, FamiliesAssumption, Basics

(* What the answers of a stage and of the drills are when all is well.     *)
LEMMA CalmAnswer ==
  ASSUME IInv, Calm, main.pc \in {"stage", "probe"}, Answered
  PROVE  /\ main.pc = "stage" =>
              Ok /\ conn.reply # "failed" /\ (conn.reply = Families[main.fam] <=> conn.pqc)
         /\ main.pc = "probe" => (Ok <=> main.k \in {2, 4})
<1>1. main.fam \in Routers /\ DownloadIsGood /\ main.pc # "prepare"
  <2>1. main.fam \in Routers /\ public = Required
    BY DEF IInv, MainInv, Rollout, Calm, LabCalm, PublicInv
  <2> QED BY <2>1, DownloadPasses
<1>2. conn.st = "answered" /\ Taken
  BY DEF Answered, Taken
<1> DEFINE f == Families[main.fam]
           group == GroupOf(main.fam, conn.pqc)
<1>3. conn.pqc \in BOOLEAN /\ conn.blocked \in BOOLEAN
  <2>1. conn \in ConnType
    BY Typed DEF IInv
  <2> QED BY <2>1 DEF ConnType
<1>4. group = IF conn.pqc THEN f ELSE ClassicGroup
  BY DEF GroupOf
<1>5. f # ClassicGroup /\ "failed" \notin Groups /\ f \in Groups /\ ClassicGroup \in Groups
  BY <1>1, GroupsDiffer
<1>6. conn.reply = IF ~ conn.blocked /\ group \in up /\ group \in conn.groups
                   THEN group ELSE "failed"
  BY <1>2 DEF Calm, FamilyCalm, AnswerInv
<1>7. Both = {f, ClassicGroup} /\ Only = {f}
  BY DEF Both, Only
<1>8. up = IF main.pc = "probe" /\ main.k \in 1 .. 3 THEN Groups \ {f} ELSE Groups
  BY <1>1 DEF Calm, LabCalm, UpInv, FamilyDown
<1>9. conn.groups = IF main.pc = "stage" \/ main.k <= 2 THEN Both ELSE Only
  BY <1>2 DEF Calm, FamilyCalm, AskedInv
<1>10. /\ router[main.fam].percent = Percent
       /\ router[main.fam].blocked <=> main.pc = "probe" /\ main.k = 3
  BY DEF Calm, FamilyCalm, SettingInv
<1>11. conn.blocked = router[main.fam].blocked
  BY <1>2 DEF Calm, FamilyCalm, RoutedInv
<1>12. (Percent = 100 => conn.pqc) /\ (Percent = 0 => ~ conn.pqc)
  BY <1>2, <1>10 DEF Calm, FamilyCalm, RoutedInv
<1>13. Ok <=> conn.reply # "failed"
  BY <1>1 DEF Ok
<1> HIDE DEF f, group
<1>14. group # "failed"
  BY <1>4, <1>5
<1>15. CASE main.pc = "stage"
  <2>1. conn.reply = group
    BY <1>4, <1>5, <1>6, <1>7, <1>8, <1>9, <1>10, <1>11, <1>15
  <2> QED BY <1>3, <1>4, <1>5, <1>13, <1>14, <1>15, <2>1 DEF f
<1>16. CASE main.pc = "probe"
  <2>1. main.k \in 1 .. 4
    BY <1>16 DEF IInv, MainInv
  <2>2. CASE main.k = 1
    <3>1. conn.pqc /\ group = f /\ group \notin up
      BY <1>4, <1>8, <1>12, <1>16, <2>2 DEF Percent
    <3> QED BY <1>6, <1>13, <1>16, <2>2, <3>1
  <2>3. CASE main.k = 2
    <3>1. group = ClassicGroup /\ group \in up
      BY <1>4, <1>5, <1>8, <1>12, <1>16, <2>3 DEF Percent
    <3>2. ~ conn.blocked /\ group \in conn.groups
      BY <1>7, <1>9, <1>10, <1>11, <1>16, <2>3, <3>1
    <3> QED BY <1>6, <1>13, <1>14, <1>16, <2>3, <3>1, <3>2
  <2>4. CASE main.k = 3
    <3>1. conn.blocked
      BY <1>10, <1>11, <1>16, <2>4
    <3> QED BY <1>6, <1>13, <1>16, <2>4, <3>1
  <2>5. CASE main.k = 4
    <3>1. group = f /\ group \in up
      BY <1>4, <1>5, <1>8, <1>12, <1>16, <2>5 DEF Percent
    <3>2. ~ conn.blocked /\ group \in conn.groups
      BY <1>7, <1>9, <1>10, <1>11, <1>16, <2>5, <3>1
    <3> QED BY <1>6, <1>13, <1>14, <1>16, <2>5, <3>1, <3>2
  <2> QED BY <1>16, <2>1, <2>2, <2>3, <2>4, <2>5
<1> QED BY <1>15, <1>16

LEMMA CalmDrill ==
  ASSUME IInv, FailMark, Calm, main.pc = "probe", Answered PROVE DrillPasses
<1>1. main.k \in 1 .. 4 /\ (Ok <=> main.k \in {2, 4})
  BY CalmAnswer DEF IInv, MainInv
<1>2. CASE main.k = 1
  BY <1>1, <1>2 DEF DrillPasses
<1>3. CASE main.k = 2
  BY <1>1, <1>3 DEF DrillPasses
<1>5. CASE main.k = 4
  <2>1. DrillPasses = Ok
    BY <1>5 DEF DrillPasses
  <2> QED BY <1>1, <1>5, <2>1
<1>4. CASE main.k = 3
  <2> DEFINE s == router[main.fam].events
             m == router[main.fam].since
  <2>1. main.mark = m /\ \A i \in m + 1 .. Len(s) : s[i].blocked
    BY <1>4 DEF FailMark
  <2>2. s \in Seq(Event) /\ m \in Nat
    <3>1. main.fam \in Routers
      BY DEF IInv, MainInv, Rollout
    <3>2. router[main.fam] \in RouterType
      BY <3>1, Typed DEF IInv
    <3> QED BY <3>2 DEF RouterType
  <2>3. AllBlocked(Chosen(main.fam)) <=> AllBlocked(SubSeq(s, m + 1, Len(s)))
    BY <2>1 DEF Chosen
  <2> HIDE DEF s, m
  <2>4. AllBlocked(SubSeq(s, m + 1, Len(s)))
    <3>1. Len(s) \in Nat
      BY <2>2
    <3>2. \A i \in DOMAIN SubSeq(s, m + 1, Len(s)) :
            /\ m + i \in m + 1 .. Len(s) /\ SubSeq(s, m + 1, Len(s))[i] = s[m + i]
      BY <2>2, <3>1
    <3> QED BY <2>1, <3>2 DEF AllBlocked
  <2> QED BY <1>1, <1>4, <2>3, <2>4 DEF DrillPasses
<1> QED BY <1>1, <1>2, <1>3, <1>4, <1>5

LEMMA CalmGate ==
  ASSUME IInv, ShareInv, Calm, main.pc = "stage", main.made = StageSize PROVE GatePasses
<1> DEFINE R == router[main.fam]
           s == R.events
           m == R.since
           p == R.percent
<1>1. main.fam \in Routers /\ main.k \in 1 .. 3 /\ conn.st = "idle"
  BY DEF IInv, MainInv, Rollout, ConnInv, StageSize
<1>2. /\ main.mark = m /\ main.good = main.made /\ R.counter = 20 /\ Share(20, p) = main.pqc
  <2>1. ~ Taken /\ main.made = 20
    BY <1>1 DEF Taken, StageSize
  <2>2. /\ main.mark = m /\ main.good = main.made /\ R.counter = main.made + 0
        /\ Share(R.counter, p) = main.pqc + 0
    BY <2>1 DEF Calm, FamilyCalm, StageInv
  <2>3. main.pqc \in Nat
    BY Typed DEF IInv, MainType
  <2> QED BY <2>1, <2>2, <2>3
<1>3. p = Percents[main.k]
  BY DEF Calm, FamilyCalm, SettingInv, Percent
<1>4. Len(s) = m + 20 /\ CountPqc(SubSeq(s, m + 1, m + 20)) = Share(20, p)
  <2>1. ShareOf(main.fam)
    BY <1>1 DEF ShareInv
  <2>2. /\ Len(s) = m + R.counter
        /\ \A n \in 0 .. R.counter : CountPqc(SubSeq(s, m + 1, m + n)) = Share(n, p)
    BY <2>1 DEF ShareOf
  <2> HIDE DEF s, m, p, R
  <2>3. 20 \in 0 .. 20
    OBVIOUS
  <2> QED BY <1>2, <2>2, <2>3
<1>5. Chosen(main.fam) = SubSeq(s, m + 1, m + 20)
  BY <1>2, <1>4 DEF Chosen
<1>6. Share(20, p) = p \div 5
  <2>1. p \in {10, 50, 100}
    BY <1>1, <1>3 DEF Percents
  <2> HIDE DEF p
  <2>2. Share(20, 10) = 10 \div 5 /\ Share(20, 50) = 50 \div 5 /\ Share(20, 100) = 100 \div 5
    BY DEF Share, Slots
  <2> QED BY <2>1, <2>2
<1> HIDE DEF s, m, p, R
<1> QED BY <1>2, <1>3, <1>4, <1>5, <1>6 DEF GatePasses, StageSize


LEMMA Elsewhere ==
  ASSUME conn'.st = "idle", main'.pc \notin {"stage", "probe", "prepare"} PROVE FamilyCalm'
BY DEF FamilyCalm, SettingInv, AskedInv, RoutedInv, AnswerInv, StageInv, Taken

LEMMA StillThere ==
  ASSUME NobodyGone, UNCHANGED <<thread, queue>>, conn' = conn \/ conn' = NoConn
  PROVE  NobodyGone'
BY DEF NobodyGone, NoConn

LEMMA CalmInbox == ASSUME IInv, Calm, InboxTest PROVE Calm'
<1>1. /\ main.pc = "inbox" /\ conn.st = "idle"
      /\ UNCHANGED <<public, up, thread, queue, conn>>
  BY Idle DEF InboxTest, net
<1>2. main \in MainType /\ main.then = "kill"
  BY <1>1, Typed DEF IInv, MainInv, MainType
<1>3. main.k \in 1 .. 12 /\ (main.k <= 9 => seen = {}) /\ (main.k = 10 => seen = {"statement"})
  BY <1>1 DEF Calm, LabCalm, SeenInv
<1>4. verdict # "failed" /\ public = Required /\ up = Groups
  BY <1>1 DEF Calm, LabCalm, PublicInv, UpInv, FamilyDown, Before
<1>5. Passes(main.k) /\ Len(InboxTests) = 12
  <2>1. main.k \in 1 .. 8 \/ main.k = 9 \/ main.k = 10 \/ main.k \in 11 .. 12
    BY <1>3
  <2>2. CASE main.k = 9
    BY <1>3, <2>2, TestsPass
  <2> QED BY <1>3, <2>1, <2>2, TestsPass
<1>6. /\ main' = IF main.k = 12 THEN Goto("baseline", 0, 1) ELSE [main EXCEPT !.k = @ + 1]
      /\ UNCHANGED verdict
  BY <1>5, Zenon DEF InboxTest, Passes
<1>7. seen' = IF main.k = 9 THEN seen \cup {"statement"} ELSE seen
  <2>1. seen' = Remember(Sign(Required, Statement), InboxTests[main.k].got, seen,
                         InboxTests[main.k].remember)
    BY DEF InboxTest
  <2>2. CASE main.k = 9
    <3>1. InboxTests[9].remember /\ InboxTests[9].got = Accepted
          /\ Sign(Required, Statement).message.doc = "statement"
      BY <1>5, <2>2, RememberedTests
    <3> QED BY <2>1, <2>2, <3>1 DEF Remember
  <2>3. CASE main.k # 9
    <3>1. ~ InboxTests[main.k].remember
      BY <1>3, <2>3, RememberedTests
    <3> QED BY <2>1, <2>3, <3>1 DEF Remember
  <2> QED BY <2>2, <2>3
<1>8. CASE main.k = 12
  <2>1. main'.pc = "baseline" /\ main'.then = "kill"
    BY <1>6, <1>8 DEF Goto
  <2>2. LabCalm'
    BY <1>1, <1>4, <1>6, <2>1 DEF LabCalm, SeenInv, PublicInv, UpInv, FamilyDown
  <2>3. FamilyCalm' /\ NobodyGone'
    BY <1>1, <2>1, Elsewhere, StillThere DEF Calm
  <2> QED BY <2>2, <2>3 DEF Calm
<1>9. CASE main.k # 12
  <2>1. main'.pc = "inbox" /\ main'.then = "kill" /\ main'.k = main.k + 1
    BY <1>1, <1>2, <1>6, <1>9 DEF MainType
  <2>2. SeenInv'
    BY <1>3, <1>7, <1>9, <2>1 DEF SeenInv
  <2>3. LabCalm'
    BY <1>1, <1>4, <1>6, <2>1, <2>2 DEF LabCalm, PublicInv, UpInv, FamilyDown
  <2>4. FamilyCalm' /\ NobodyGone'
    BY <1>1, <2>1, Elsewhere, StillThere DEF Calm
  <2> QED BY <2>3, <2>4 DEF Calm
<1> QED BY <1>8, <1>9

(* The samples, and a router opened: all servers run.                      *)
LEMMA CalmStart == ASSUME IInv, Calm, Baseline \/ Session \/ Open PROVE Calm'
<1>1. /\ main.pc \in {"baseline", "sessions", "open"} /\ conn.st = "idle"
      /\ UNCHANGED <<up, queue, conn>>
  BY Idle DEF Baseline, Session, Open, net
<1>2. main \in MainType /\ main.then = "kill" /\ (main.pc = "open" => main.fam \in Routers)
  BY <1>1, Typed DEF IInv, MainInv, MainType, Rollout
<1>3. verdict # "failed" /\ up = Groups
  BY <1>1 DEF Calm, LabCalm, UpInv, FamilyDown, Before
<1>4. main.pc \in {"baseline", "open"} => public = Required /\ DownloadIsGood
  <2>1. main.pc \in {"baseline", "open"} => public = Required
    BY DEF Calm, LabCalm, PublicInv, Rollout
  <2> QED BY <2>1, DownloadPasses
<1>5. CASE Baseline
  <2>1. /\ main.pc = "baseline" /\ UNCHANGED <<verdict, public, thread>>
        /\ main' \in {Goto("sessions", 0, 1), [main EXCEPT !.k = @ + 1]}
    BY <1>3, <1>4, <1>5 DEF Baseline
  <2>2. main'.pc \in {"baseline", "sessions"} /\ main'.then = "kill"
    BY <1>2, <2>1 DEF Goto, MainType
  <2>3. LabCalm'
    BY <1>1, <1>3, <1>4, <2>1, <2>2 DEF LabCalm, SeenInv, PublicInv, UpInv, FamilyDown
  <2>4. FamilyCalm' /\ NobodyGone'
    BY <1>1, <2>1, <2>2, Elsewhere, StillThere DEF Calm
  <2> QED BY <2>3, <2>4 DEF Calm
<1>6. CASE Session
  <2>1. /\ main.pc = "sessions" /\ UNCHANGED <<verdict, thread>>
        /\ \/ main' = Goto("open", 1, 1) /\ public' = Required
           \/ main' = [main EXCEPT !.k = @ + 1]
    BY <1>6 DEF Session
  <2>2. /\ main'.then = "kill"
        /\ main'.pc = "sessions" \/ (main'.pc = "open" /\ public' = Required)
    BY <1>2, <2>1 DEF Goto, MainType
  <2>3. LabCalm'
    BY <1>1, <1>3, <2>1, <2>2 DEF LabCalm, SeenInv, PublicInv, UpInv, FamilyDown, Rollout
  <2>4. FamilyCalm' /\ NobodyGone'
    BY <1>1, <2>1, <2>2, Elsewhere, StillThere DEF Calm
  <2> QED BY <2>3, <2>4 DEF Calm
<1>7. CASE Open
  <2>1. /\ main.pc = "open" /\ UNCHANGED <<verdict, public>>
        /\ main' = Goto("configure", main.fam, 1)
        /\ thread' = [thread EXCEPT ![main.fam].at = "loop"]
    BY <1>7 DEF Open, lab
  <2>2. main'.pc = "configure" /\ main'.then = "kill"
    BY <2>1 DEF Goto
  <2>3. LabCalm'
    BY <1>1, <1>3, <1>4, <2>1, <2>2 DEF LabCalm, SeenInv, PublicInv, UpInv, FamilyDown, Rollout
  <2>4. NobodyGone'
    <3>1. thread \in [Routers -> ThreadType]
      BY Typed DEF IInv
    <3>2. \A r \in Routers : thread'[r].at = "took" => thread[r].at = "took" /\ thread'[r] = thread[r]
      <4> SUFFICES ASSUME NEW r \in Routers, thread'[r].at = "took"
                   PROVE  thread[r].at = "took" /\ thread'[r] = thread[r]
        OBVIOUS
      <4>1. thread[r] \in ThreadType
        BY <3>1
      <4>2. thread'[r] = [thread[r] EXCEPT !.at = "loop"] \/ thread'[r] = thread[r]
        BY <2>1, <3>1
      <4> QED BY <4>1, <4>2 DEF ThreadType
    <3> QED BY <1>1, <3>2 DEF Calm, NobodyGone
  <2>5. FamilyCalm'
    BY <1>1, <2>2, Elsewhere
  <2> QED BY <2>3, <2>4, <2>5 DEF Calm
<1> QED BY <1>5, <1>6, <1>7

(* The router closed, the servers ended, the results written.              *)
LEMMA CalmEnd ==
  ASSUME IInv, Calm, Retire \/ CloseSocket \/ Join \/ KillServer \/ WriteResults PROVE Calm'
<1>1. /\ main.pc \in {"retire", "close", "join", "kill"} /\ conn.st = "idle"
      /\ UNCHANGED <<verdict, seen, public, thread, queue, conn>>
  BY Idle DEF Retire, CloseSocket, Join, KillServer, WriteResults, lab, net
<1>2. /\ main \in MainType /\ (main.then = "open" => main.fam < Len(Families))
      /\ main.then = "open" => main.pc # "kill"
  BY <1>1, Typed DEF IInv, MainInv
<1>3. /\ verdict # "failed" /\ (main.then = "open" => up = Groups)
      /\ main.pc \in {"retire", "close", "join"} => public = Required
  BY <1>1 DEF Calm, LabCalm, PublicInv, UpInv, FamilyDown, Before, Rollout
<1>4. /\ main'.pc \in {"close", "join", "open", "kill", "done"}
      /\ main'.pc \in {"close", "join", "open"} => main.pc \in {"retire", "close", "join"}
      /\ main'.pc = "open" \/ main'.then = "open" => main.then = "open" /\ up' = up
  <2>1. CASE Retire \/ CloseSocket
    <3>1. /\ main' \in {[main EXCEPT !.pc = "close"], [main EXCEPT !.pc = "join"]}
          /\ main.pc \in {"retire", "close"} /\ up' = up
      BY <2>1 DEF Retire, CloseSocket
    <3>2. main'.pc \in {"close", "join"} /\ main'.then = main.then
      BY <1>2, <3>1 DEF MainType
    <3> QED BY <3>1, <3>2
  <2>2. CASE Join
    BY <2>2 DEF Join, Goto
  <2>3. CASE KillServer
    BY <1>2, <2>3 DEF KillServer
  <2>4. CASE WriteResults
    BY <2>4 DEF WriteResults, Goto
  <2> QED BY <2>1, <2>2, <2>3, <2>4
<1>5. LabCalm'
  BY <1>1, <1>3, <1>4 DEF LabCalm, SeenInv, PublicInv, UpInv, FamilyDown, Rollout, Before
<1>6. FamilyCalm' /\ NobodyGone'
  BY <1>1, <1>4, Elsewhere, StillThere DEF Calm
<1> QED BY <1>5, <1>6 DEF Calm


(* The routers' other fields do not matter for what the stage wants.       *)
LEMMA CalmSetStage == ASSUME IInv, Calm, SetStage PROVE Calm'
<1>1. /\ main.pc = "configure" /\ main.fam \in Routers /\ main.k \in 1 .. 3
      /\ conn.st = "idle" /\ UNCHANGED <<verdict, seen, public, up, thread, queue, conn>>
  BY Idle DEF SetStage, lab, net, IInv, MainInv, Rollout
<1>2. /\ main'.pc = "stage" /\ main'.fam = main.fam /\ main'.k = main.k /\ main'.then = "kill"
      /\ main'.made = 0 /\ main'.good = 0 /\ main'.pqc = 0
      /\ main'.mark = Len(router[main.fam].events)
  BY DEF SetStage, Goto
<1>3. LabCalm'
  BY <1>1, <1>2 DEF Calm, LabCalm, SeenInv, PublicInv, UpInv, FamilyDown, Rollout
<1>4. NobodyGone'
  BY <1>1, StillThere DEF Calm
<1>5. Configured(main.fam, Percents[main.k], FALSE) /\ Percents[main.k] \in {0, 10, 50, 100}
  <2>1. Percents[main.k] \in Nat /\ Percents[main.k] \in {0, 10, 50, 100}
    BY <1>1 DEF Percents
  <2> QED BY <1>1, <2>1, ConfigureEffect DEF SetStage, IInv
<1>6. /\ router'[main'.fam].percent = Percents[main.k] /\ ~ router'[main'.fam].blocked
      /\ router'[main'.fam].counter = 0
      /\ router'[main'.fam].since = Len(router[main.fam].events)
  BY <1>2, <1>5 DEF Configured
<1>7. SettingInv'
  BY <1>2, <1>6 DEF SettingInv, Percent
<1>8. AskedInv' /\ RoutedInv' /\ AnswerInv' /\ ~ Taken'
  BY <1>1 DEF AskedInv, RoutedInv, AnswerInv, Taken
<1>9. StageInv'
  <2>1. Share(0, Percents[main.k]) = 0
    BY <1>5, ShareStep
  <2> QED BY <1>2, <1>6, <1>8, <2>1 DEF StageInv, StageSize
<1> QED BY <1>3, <1>4, <1>7, <1>8, <1>9 DEF Calm, FamilyCalm

LEMMA CalmAsk == ASSUME IInv, Calm, StageAsk \/ Probe PROVE Calm'
<1>1. /\ main.pc \in {"stage", "probe"} /\ main.fam \in Routers /\ conn.st = "idle"
      /\ UNCHANGED <<main, verdict, seen, public, up, router, thread>>
      /\ queue' = [queue EXCEPT ![main.fam] = Append(@, "live")]
  BY DEF StageAsk, Probe, Ask, lab, IInv, MainInv, Rollout
<1>2. /\ conn'.st = "queued" /\ ~ conn'.slow
      /\ conn'.groups = IF main.pc = "stage" \/ main.k <= 2 THEN Both ELSE Only
  BY DEF StageAsk, Probe, Ask, NoConn
<1>3. LabCalm'
  BY <1>1 DEF Calm, LabCalm, SeenInv, PublicInv, UpInv, FamilyDown
<1>4. NobodyGone'
  <2>1. ASSUME NEW r \in Routers, NEW i \in 1 .. Len(queue'[r]) PROVE queue'[r][i] = "live"
    <3>1. queue \in [Routers -> Seq({"live", "gone"})] /\ queue[r] \in Seq({"live", "gone"})
      BY Typed DEF IInv
    <3>2. queue'[r] = queue[r] \/ queue'[r] = Append(queue[r], "live")
      BY <1>1, <3>1
    <3>3. \A j \in 1 .. Len(queue[r]) : queue[r][j] = "live"
      BY DEF Calm, NobodyGone
    <3> QED BY <2>1, <3>1, <3>2, <3>3
  <2> QED BY <1>1, <1>2, <2>1 DEF Calm, NobodyGone
<1>5. SettingInv'
  BY <1>1 DEF Calm, FamilyCalm, SettingInv, Percent
<1>6. AskedInv' /\ RoutedInv' /\ AnswerInv' /\ ~ Taken /\ ~ Taken'
  BY <1>1, <1>2 DEF AskedInv, RoutedInv, AnswerInv, Taken, Both, Only
<1>7. StageInv'
  BY <1>1, <1>6 DEF Calm, FamilyCalm, StageInv
<1> QED BY <1>3, <1>4, <1>5, <1>6, <1>7 DEF Calm, FamilyCalm

LEMMA CalmStageAnswer == ASSUME IInv, Calm, StageAnswer PROVE Calm'
<1>1. /\ main.pc = "stage" /\ Answered /\ conn' = NoConn
      /\ UNCHANGED <<seen, public, up, router, thread, queue>>
  BY DEF StageAnswer, net
<1>2. Ok /\ (conn.reply = Families[main.fam] <=> conn.pqc) /\ ~ conn.slow
  BY <1>1, CalmAnswer DEF Calm, NobodyGone
<1>3. /\ main' = [main EXCEPT !.made = @ + 1,
                     !.good = IF Ok /\ ~ conn.slow THEN @ + 1 ELSE @,
                     !.pqc = IF conn.reply = Families[main.fam] THEN @ + 1 ELSE @]
      /\ UNCHANGED verdict
  BY <1>2 DEF StageAnswer
<1>4. main \in MainType /\ main.fam \in Routers
  BY <1>1, Typed DEF IInv, MainInv, Rollout
<1>5. /\ main'.pc = "stage" /\ main'.fam = main.fam /\ main'.k = main.k
      /\ main'.then = main.then /\ main'.mark = main.mark
      /\ main'.made = main.made + 1 /\ main'.good = main.good + 1
      /\ main'.pqc = IF conn.pqc THEN main.pqc + 1 ELSE main.pqc
  <2> DEFINE good == IF Ok /\ ~ conn.slow THEN main.good + 1 ELSE main.good
             pqc  == IF conn.reply = Families[main.fam] THEN main.pqc + 1 ELSE main.pqc
  <2>1. good = main.good + 1 /\ pqc = IF conn.pqc THEN main.pqc + 1 ELSE main.pqc
    BY <1>2
  <2>2. main' = [main EXCEPT !.made = @ + 1, !.good = good, !.pqc = pqc]
    BY <1>3
  <2> HIDE DEF good, pqc
  <2> QED BY <1>1, <1>4, <2>1, <2>2 DEF MainType
<1>6. LabCalm'
  BY <1>1, <1>3, <1>5 DEF Calm, LabCalm, SeenInv, PublicInv, UpInv, FamilyDown, Rollout
<1>7. NobodyGone'
  BY <1>1, StillThere DEF Calm
<1>8. SettingInv'
  BY <1>1, <1>5 DEF Calm, FamilyCalm, SettingInv, Percent
<1>9. conn'.st = "idle" /\ Taken /\ ~ Taken'
  BY <1>1 DEF Answered, Taken, NoConn
<1>10. AskedInv' /\ RoutedInv' /\ AnswerInv'
  BY <1>9 DEF AskedInv, RoutedInv, AnswerInv
<1>11. StageInv'
  <2>1. main.made \in Nat /\ main.pqc \in Nat /\ main.made < StageSize
    BY <1>1, <1>4 DEF MainType, IInv, ConnInv, Answered
  <2>2. /\ main.mark = router[main.fam].since /\ main.good = main.made
        /\ router[main.fam].counter = main.made + 1
        /\ Share(router[main.fam].counter, router[main.fam].percent)
             = main.pqc + (IF conn.pqc THEN 1 ELSE 0)
    BY <1>1, <1>9 DEF Calm, FamilyCalm, StageInv
  <2>3. main.made + 1 <= StageSize
    BY <2>1 DEF StageSize
  <2>4. main.pqc + (IF conn.pqc THEN 1 ELSE 0) = main'.pqc + 0
    BY <1>5, <2>1
  <2>5. main.made + 1 = main'.made + 0
    BY <1>5, <2>1
  <2> QED BY <1>1, <1>5, <1>9, <2>2, <2>3, <2>4, <2>5 DEF StageInv
<1> QED BY <1>6, <1>7, <1>8, <1>10, <1>11 DEF Calm, FamilyCalm

LEMMA CalmGateStep == ASSUME IInv, ShareInv, Calm, Gate PROVE Calm'
<1>1. /\ main.pc = "stage" /\ main.fam \in Routers /\ main.k \in 1 .. 3 /\ conn.st = "idle"
      /\ UNCHANGED <<seen, public, up, router, thread, queue, conn>>
  BY DEF Gate, net, IInv, MainInv, Rollout, ConnInv, StageSize
<1>2. /\ UNCHANGED verdict
      /\ main' = IF main.k < 3 THEN Goto("configure", main.fam, main.k + 1)
                 ELSE Goto("prepare", main.fam, 1)
  <2>1. GatePasses /\ Len(Percents) = 3
    BY CalmGate DEF Gate, Percents
  <2> QED BY <2>1, Zenon DEF Gate
<1>3. /\ main'.fam = main.fam /\ main'.then = "kill"
      /\ main'.pc = "configure" \/ (main'.pc = "prepare" /\ main'.k = 1 /\ main.k = 3)
  BY <1>1, <1>2 DEF Goto
<1>4. LabCalm'
  BY <1>1, <1>2, <1>3 DEF Calm, LabCalm, SeenInv, PublicInv, UpInv, FamilyDown, Rollout
<1>5. NobodyGone'
  BY <1>1, StillThere DEF Calm
<1>6. SettingInv'
  <2>1. /\ router[main.fam].percent = Percents[main.k] /\ ~ router[main.fam].blocked
    BY <1>1 DEF Calm, FamilyCalm, SettingInv, Percent
  <2>2. Percents[3] = 100
    BY DEF Percents
  <2> QED BY <1>1, <1>3, <2>1, <2>2 DEF SettingInv, Percent
<1>7. AskedInv' /\ RoutedInv' /\ AnswerInv' /\ StageInv'
  BY <1>1, <1>3 DEF AskedInv, RoutedInv, AnswerInv, StageInv, Taken
<1> QED BY <1>4, <1>5, <1>6, <1>7 DEF Calm, FamilyCalm


LEMMA CalmPrepare == ASSUME IInv, Calm, Prepare PROVE Calm'
<1>1. /\ main.pc = "prepare" /\ main.fam \in Routers /\ main.k \in 1 .. 4 /\ conn.st = "idle"
      /\ UNCHANGED <<verdict, seen, public, thread, queue, conn>>
  BY Idle DEF Prepare, lab, net, IInv, MainInv, Rollout
<1>2. main'.pc = "probe" /\ main'.fam = main.fam /\ main'.k = main.k /\ main'.then = main.then
  <2>1. main' = [main EXCEPT !.pc = "probe", !.mark = Len(router[main.fam].events)]
        /\ main \in MainType
    BY Typed DEF Prepare, IInv
  <2> QED BY <2>1 DEF MainType
<1> DEFINE f == Families[main.fam]
<1>3. up = IF main.k = 1 THEN Groups ELSE Groups \ {f}
  <2>1. main.k \in 2 .. 4 <=> main.k # 1
    BY <1>1
  <2> QED BY <1>1, <2>1 DEF Calm, LabCalm, UpInv, FamilyDown
<1>4. f \in Groups
  BY <1>1, GroupsDiffer
<1>5. /\ up' = IF main.k = 4 THEN Groups ELSE Groups \ {f}
      /\ router'[main.fam].percent = IF main.k = 2 THEN 0 ELSE 100
      /\ router'[main.fam].blocked <=> main.k = 3
  <2> HIDE DEF f
  <2>1. CASE main.k = 1
    <3>1. up' = up \ {f} /\ UNCHANGED router
      BY <2>1 DEF Prepare, f
    <3>2. router[main.fam].percent = 100 /\ ~ router[main.fam].blocked
      BY <1>1, <2>1 DEF Calm, FamilyCalm, SettingInv, Percent
    <3> QED BY <1>3, <2>1, <3>1, <3>2
  <2>2. CASE main.k = 2
    <3>0. main.k # 1 /\ main.k # 3 /\ main.k # 4
      BY <2>2
    <3>1. Configure(main.fam, 0, FALSE) /\ UNCHANGED up
      BY <3>0, Zenon DEF Prepare
    <3>2. Configured(main.fam, 0, FALSE)
      BY <1>1, <3>1, ConfigureEffect DEF IInv
    <3> QED BY <1>3, <2>2, <3>1, <3>2 DEF Configured
  <2>3. CASE main.k = 3
    <3>0. main.k # 1 /\ main.k # 2 /\ main.k # 4
      BY <2>3
    <3>1. Configure(main.fam, 100, TRUE) /\ UNCHANGED up
      BY <3>0, Zenon DEF Prepare
    <3>2. Configured(main.fam, 100, TRUE)
      BY <1>1, <3>1, ConfigureEffect DEF IInv
    <3> QED BY <1>3, <2>3, <3>1, <3>2 DEF Configured
  <2>4. CASE main.k = 4
    <3>0. main.k # 1 /\ main.k # 2 /\ main.k # 3
      BY <2>4
    <3>1. Configure(main.fam, 100, FALSE) /\ up' = up \cup {f}
      BY <3>0, Zenon DEF Prepare, f
    <3>2. Configured(main.fam, 100, FALSE)
      BY <1>1, <3>1, ConfigureEffect DEF IInv
    <3>3. up' = Groups
      BY <1>3, <1>4, <2>4, <3>1
    <3> QED BY <2>4, <3>2, <3>3 DEF Configured
  <2> QED BY <1>1, <2>1, <2>2, <2>3, <2>4
<1>6. LabCalm'
  <2>1. main.k \in 1 .. 3 <=> main.k # 4
    BY <1>1
  <2> QED BY <1>1, <1>2, <1>5, <2>1
          DEF Calm, LabCalm, SeenInv, PublicInv, UpInv, FamilyDown, Rollout
<1>7. NobodyGone'
  BY <1>1, StillThere DEF Calm
<1>8. SettingInv'
  BY <1>2, <1>5 DEF SettingInv, Percent
<1>9. AskedInv' /\ RoutedInv' /\ AnswerInv' /\ StageInv'
  BY <1>1, <1>2 DEF AskedInv, RoutedInv, AnswerInv, StageInv, Taken
<1> QED BY <1>6, <1>7, <1>8, <1>9 DEF Calm, FamilyCalm

LEMMA CalmDrillStep == ASSUME IInv, FailMark, Calm, Drill PROVE Calm'
<1>1. /\ main.pc = "probe" /\ Answered /\ conn' = NoConn /\ main.fam \in Routers
      /\ main.k \in 1 .. 4
      /\ UNCHANGED <<seen, public, up, router, thread, queue>>
  BY DEF Drill, net, IInv, MainInv, Rollout
<1>2. conn'.st = "idle" /\ NobodyGone'
  BY <1>1, StillThere DEF NoConn, Calm
<1>3. /\ verdict # "failed" /\ public = Required
      /\ up = IF main.k \in 1 .. 3 THEN Groups \ {Families[main.fam]} ELSE Groups
  BY <1>1 DEF Calm, LabCalm, PublicInv, UpInv, FamilyDown, Rollout
<1>4. \/ /\ main.k < 4 /\ main' = Goto("prepare", main.fam, main.k + 1) /\ UNCHANGED verdict
      \/ /\ main.k = 4 /\ main' = [Goto("retire", main.fam, 1) EXCEPT !.then = "open"]
         /\ UNCHANGED verdict
      \/ main.k = 4 /\ verdict' = "passed" /\ main' = Cleanup
  <2>1. DrillPasses
    BY <1>1, CalmDrill
  <2> QED BY <2>1, Zenon DEF Drill
<1>5. CASE main.k < 4 /\ main' = Goto("prepare", main.fam, main.k + 1) /\ UNCHANGED verdict
  <2>1. main'.pc = "prepare" /\ main'.fam = main.fam /\ main'.k = main.k + 1
    BY <1>5 DEF Goto
  <2>2. main.k \in 1 .. 3 /\ main.k + 1 \in 2 .. 4 /\ main.k + 1 # 1
    BY <1>1, <1>5
  <2>3. LabCalm'
    BY <1>1, <1>3, <1>5, <2>1, <2>2 DEF LabCalm, SeenInv, PublicInv, UpInv, FamilyDown
  <2>4. FamilyCalm'
    BY <1>2, <2>1, <2>2 DEF FamilyCalm, SettingInv, AskedInv, RoutedInv, AnswerInv, StageInv, Taken
  <2> QED BY <1>2, <2>3, <2>4 DEF Calm
<1>6. CASE main.k = 4 /\ main' = [Goto("retire", main.fam, 1) EXCEPT !.then = "open"]
           /\ UNCHANGED verdict
  <2>1. main'.pc = "retire" /\ main'.then = "open"
    BY <1>6 DEF Goto
  <2>2. LabCalm'
    BY <1>1, <1>3, <1>6, <2>1 DEF LabCalm, SeenInv, PublicInv, UpInv, FamilyDown
  <2> QED BY <1>2, <2>1, <2>2, Elsewhere DEF Calm
<1>7. CASE main.k = 4 /\ verdict' = "passed" /\ main' = Cleanup
  <2>1. main'.pc \in {"kill", "retire"} /\ main'.then = "kill"
    BY <1>7, CleanupTyped DEF IInv
  <2>2. LabCalm'
    BY <1>1, <1>3, <1>7, <2>1 DEF LabCalm, SeenInv, PublicInv, UpInv, FamilyDown, Before
  <2> QED BY <1>2, <2>1, <2>2, Elsewhere DEF Calm
<1> QED BY <1>4, <1>5, <1>6, <1>7

(* The accept threads and the relay.                                       *)
LEMMA Framed ==
  ASSUME Calm, UNCHANGED <<main, verdict, seen, public, up>>
  PROVE  LabCalm'
BY DEF Calm, LabCalm, SeenInv, PublicInv, UpInv, FamilyDown

LEMMA CalmAccept ==
  ASSUME IInv, Calm, NEW r \in Routers, Loop(r) \/ EnterAccept(r) \/ Accept(r) PROVE Calm'
<1>1. UNCHANGED <<main, verdict, seen, public, up, router, conn>>
  BY DEF Loop, EnterAccept, Accept, lab
<1>2. LabCalm'
  BY <1>1, Framed
<1>3. FamilyCalm'
  BY <1>1 DEF Calm, FamilyCalm, SettingInv, AskedInv, RoutedInv, AnswerInv, StageInv, Taken,
     Percent, Both, Only
<1>4. thread \in [Routers -> ThreadType] /\ queue \in [Routers -> Seq({"live", "gone"})]
  BY Typed DEF IInv
<1>5. \A q \in Routers : \A i \in 1 .. Len(queue[q]) : queue[q][i] = "live"
  BY DEF Calm, NobodyGone
<1>6. CASE Loop(r) \/ EnterAccept(r)
  <2>1. queue' = queue
    BY <1>6 DEF Loop, EnterAccept, net
  <2>2. ASSUME NEW q \in Routers, thread'[q].at = "took" PROVE thread'[q].took = "live"
    <3>1. thread[q] \in ThreadType
      BY <1>4
    <3>2. PICK at \in {"loop", "enter", "ended", "blocked"}, sock \in Routers \cup {0} :
             \/ thread' = [thread EXCEPT ![r].at = at]
             \/ thread' = [thread EXCEPT ![r].sock = sock, ![r].at = at]
      <4>1. fd \in Routers \cup {0}
        BY Typed DEF IInv
      <4> QED BY <1>6, <4>1 DEF Loop, EnterAccept
    <3>3. thread'[q] = thread[q] \/ thread'[q].at = at
      BY <1>4, <3>1, <3>2 DEF ThreadType
    <3> QED BY <2>2, <3>2, <3>3 DEF Calm, NobodyGone
  <2>3. NobodyGone'
    BY <1>1, <1>5, <2>1, <2>2 DEF Calm, NobodyGone
  <2> QED BY <1>2, <1>3, <2>3 DEF Calm
<1>7. CASE Accept(r)
  <2>1. thread[r].at = "blocked" /\ thread[r].sock = r
    BY <1>7 DEF Accept, IInv, ThreadInv, OwnConnections
  <2>2. CASE thread' = [thread EXCEPT ![r].at = "ended"] /\ UNCHANGED queue
    <3>1. ASSUME NEW q \in Routers, thread'[q].at = "took" PROVE thread'[q].took = "live"
      <4>1. thread[q] \in ThreadType
        BY <1>4
      <4>2. thread'[q] = thread[q]
        BY <1>4, <2>2, <3>1, <4>1 DEF ThreadType
      <4> QED BY <3>1, <4>2 DEF Calm, NobodyGone
    <3>2. NobodyGone'
      BY <1>1, <1>5, <2>2, <3>1 DEF Calm, NobodyGone
    <3> QED BY <1>2, <1>3, <3>2 DEF Calm
  <2>3. CASE /\ queue[r] # <<>>
             /\ thread' = [thread EXCEPT ![r].at = "took", ![r].took = Head(queue[r])]
             /\ queue' = [queue EXCEPT ![r] = Tail(@)]
    <3>1. queue[r] \in Seq({"live", "gone"})
      BY <1>4
    <3>2. /\ Head(queue[r]) = "live"
          /\ \A i \in 1 .. Len(Tail(queue[r])) : Tail(queue[r])[i] = "live"
      <4>1. Len(queue[r]) \in Nat /\ Len(queue[r]) > 0 /\ Head(queue[r]) = queue[r][1]
        BY <2>3, <3>1
      <4>2. Len(Tail(queue[r])) = Len(queue[r]) - 1
            /\ \A i \in 1 .. Len(queue[r]) - 1 : Tail(queue[r])[i] = queue[r][i + 1]
        BY <2>3, <3>1
      <4>3. 1 \in 1 .. Len(queue[r])
        BY <4>1
      <4>4. \A i \in 1 .. Len(queue[r]) - 1 : i + 1 \in 1 .. Len(queue[r])
        BY <4>1
      <4> QED BY <1>5, <4>1, <4>2, <4>3, <4>4
    <3>3. ASSUME NEW q \in Routers, thread'[q].at = "took" PROVE thread'[q].took = "live"
      <4>1. thread[q] \in ThreadType
        BY <1>4
      <4>2. CASE q = r
        <5>1. thread' = [thread EXCEPT ![r].at = "took", ![r].took = "live"]
          BY <2>3, <3>2
        <5> QED BY <1>4, <4>1, <4>2, <5>1 DEF ThreadType
      <4>3. CASE q # r
        <5>1. thread'[q] = thread[q]
          BY <1>4, <2>3, <4>3
        <5> QED BY <3>3, <5>1 DEF Calm, NobodyGone
      <4> QED BY <4>2, <4>3
    <3>4. ASSUME NEW q \in Routers, NEW i \in 1 .. Len(queue'[q]) PROVE queue'[q][i] = "live"
      <4>1. queue'[q] = IF q = r THEN Tail(queue[r]) ELSE queue[q]
        BY <1>4, <2>3
      <4> QED BY <1>5, <3>2, <3>4, <4>1
    <3>5. NobodyGone'
      BY <1>1, <3>3, <3>4 DEF Calm, NobodyGone
    <3> QED BY <1>2, <1>3, <3>5 DEF Calm
  <2> QED BY <1>7, <2>1, <2>2, <2>3 DEF Accept
<1> QED BY <1>6, <1>7

LEMMA CalmAssign == ASSUME IInv, ShareInv, Calm, NEW r \in Routers, Assign(r) PROVE Calm'
<1>1. /\ thread[r].at = "took" /\ thread' = [thread EXCEPT ![r].at = "loop", ![r].took = "none"]
      /\ UNCHANGED <<main, verdict, seen, public, up, queue>>
  BY DEF Assign, lab, net
<1>2. thread[r].took = "live" /\ r = main.fam /\ conn.st = "queued"
  BY <1>1 DEF Calm, NobodyGone, IInv, ConnInv
<1>3. main.pc \in {"stage", "probe"} /\ thread \in [Routers -> ThreadType] /\ conn \in ConnType
  BY <1>2, Typed DEF IInv, ConnInv
<1>4. PICK e \in Event : /\ Extended(r, e) /\ e.pqc = ToPqc(r) /\ e.blocked = router[r].blocked
  BY AssignEffect DEF IInv
<1>5. /\ conn'.st = "routed" /\ conn'.groups = conn.groups /\ conn'.slow = conn.slow
      /\ conn'.blocked = router[r].blocked /\ (conn'.pqc <=> e.pqc)
  <2>1. PICK pqc \in BOOLEAN, blocked \in BOOLEAN : pqc = ToPqc(r) /\ blocked = router[r].blocked
    <3>1. ToPqc(r) \in BOOLEAN /\ router[r].blocked \in BOOLEAN
      <4>1. router[r] \in RouterType
        BY Typed DEF IInv
      <4> QED BY <4>1 DEF ToPqc, RouterType
    <3> QED BY <3>1
  <2>2. conn' = [conn EXCEPT !.st = "routed", !.pqc = pqc, !.blocked = blocked]
    BY <1>2, <2>1 DEF Assign
  <2>3. /\ conn'.st = "routed" /\ conn'.groups = conn.groups /\ conn'.slow = conn.slow
        /\ conn'.blocked = blocked /\ conn'.pqc = pqc
    BY <1>3, <2>2 DEF ConnType
  <2> QED BY <1>4, <2>1, <2>3
<1>6. LabCalm'
  BY <1>1, Framed
<1>7. NobodyGone'
  <2>1. ASSUME NEW q \in Routers, thread'[q].at = "took" PROVE thread'[q].took = "live"
    <3>1. thread[q] \in ThreadType
      BY <1>3
    <3>2. thread'[q] = thread[q]
      BY <1>1, <1>3, <2>1, <3>1 DEF ThreadType
    <3> QED BY <2>1, <3>2 DEF Calm, NobodyGone
  <2> QED BY <1>1, <1>5, <2>1 DEF Calm, NobodyGone
<1> DEFINE c == router[r].counter
           p == router[r].percent
<1>8. /\ router'[r].percent = p /\ router'[r].blocked = router[r].blocked
      /\ router'[r].counter = c + 1 /\ router'[r].since = router[r].since
  BY <1>4 DEF Extended
<1>9. e.pqc <=> c % Slots < p \div Slots
  BY <1>4 DEF ToPqc
<1>10. c \in Nat /\ p \in {0, 10, 50, 100}
  <2>1. router[r] \in RouterType /\ ShareOf(r)
    BY Typed DEF IInv, ShareInv
  <2> QED BY <2>1 DEF RouterType, ShareOf
<1>11. SettingInv'
  BY <1>1, <1>2, <1>3, <1>8 DEF Calm, FamilyCalm, SettingInv, Percent
<1>12. AskedInv' /\ AnswerInv'
  BY <1>1, <1>2, <1>5 DEF Calm, FamilyCalm, AskedInv, AnswerInv, Both, Only
<1> HIDE DEF c, p
<1>13. (p = 100 => e.pqc) /\ (p = 0 => ~ e.pqc)
  <2>1. c % 10 \in 0 .. 9 /\ 100 \div 10 = 10 /\ 0 \div 10 = 0
    BY <1>10
  <2> QED BY <1>9, <2>1 DEF Slots
<1>14. RoutedInv'
  BY <1>1, <1>2, <1>5, <1>8, <1>13 DEF RoutedInv
<1>15. StageInv'
  <2>1. SUFFICES ASSUME main.pc = "stage"
        PROVE  /\ main.mark = router[r].since /\ main.good = main.made
               /\ main.made <= StageSize /\ c + 1 = main.made + 1
               /\ Share(c + 1, p) = main.pqc + (IF e.pqc THEN 1 ELSE 0)
    BY <1>1, <1>2, <1>5, <1>8 DEF StageInv, Taken
  <2>2. /\ main.mark = router[r].since /\ main.good = main.made /\ main.made <= StageSize
        /\ c = main.made + 0 /\ Share(c, p) = main.pqc + 0
    BY <1>2, <2>1 DEF Calm, FamilyCalm, StageInv, Taken, c, p
  <2>3. main.made \in Nat /\ main.pqc \in Nat
    BY Typed DEF IInv, MainType
  <2>4. Share(c + 1, p) = Share(c, p) + (IF c % Slots < p \div Slots THEN 1 ELSE 0)
    BY <1>10, ShareStep
  <2>5. c = main.made /\ Share(c, p) = main.pqc
    BY <2>2, <2>3
  <2> QED BY <1>9, <2>2, <2>4, <2>5
<1> QED BY <1>6, <1>7, <1>11, <1>12, <1>14, <1>15 DEF Calm, FamilyCalm

LEMMA CalmRelay == ASSUME IInv, Calm, Relay PROVE Calm'
<1>1. /\ conn.st = "routed" /\ UNCHANGED <<main, verdict, seen, public, up, router, thread, queue>>
  BY DEF Relay, lab, net
<1>2. conn \in ConnType
  BY Typed DEF IInv
<1> DEFINE group == GroupOf(main.fam, conn.pqc)
           reply == IF ~ conn.blocked /\ group \in up /\ group \in conn.groups
                    THEN group ELSE "failed"
<1>3. conn' = [conn EXCEPT !.st = "answered", !.reply = reply]
  BY DEF Relay
<1> HIDE DEF reply
<1>4. /\ conn'.st = "answered" /\ conn'.groups = conn.groups /\ conn'.slow = conn.slow
      /\ conn'.blocked = conn.blocked /\ conn'.pqc = conn.pqc /\ conn'.reply = reply
  BY <1>2, <1>3 DEF ConnType
<1>5. LabCalm'
  BY <1>1, Framed
<1>6. NobodyGone'
  BY <1>1, <1>4 DEF Calm, NobodyGone
<1>7. AnswerInv'
  BY <1>1, <1>4 DEF AnswerInv, GroupOf, reply, group
<1>8. SettingInv' /\ AskedInv' /\ RoutedInv' /\ StageInv'
  BY <1>1, <1>4 DEF Calm, FamilyCalm, SettingInv, AskedInv, RoutedInv, StageInv, Taken,
     Percent, Both, Only
<1> QED BY <1>5, <1>6, <1>7, <1>8 DEF Calm, FamilyCalm

LEMMA NextCalm ==
  IInv /\ ShareInv /\ Refusing /\ FailMark /\ (faults = {} => Calm) /\ [Next]_vars
    => (faults' = {} => Calm')
<1> SUFFICES ASSUME IInv, ShareInv, FailMark, faults = {} => Calm, [Next]_vars, faults' = {}
             PROVE  Calm'
  OBVIOUS
<1>1. Calm /\ (Main \/ (\E r \in Routers : Serve(r)) \/ Relay \/ UNCHANGED vars)
  BY CalmSteps
<1>2. CASE Main
  BY <1>1, <1>2, CalmInbox, CalmStart, CalmSetStage, CalmAsk, CalmStageAnswer, CalmGateStep,
     CalmPrepare, CalmDrillStep, CalmEnd DEF Main
<1>3. CASE \E r \in Routers : Serve(r)
  BY <1>1, <1>3, CalmAccept, CalmAssign DEF Serve
<1>4. CASE Relay
  BY <1>1, <1>4, CalmRelay
<1>5. CASE UNCHANGED vars
  <2>1. UNCHANGED <<main, verdict, seen, public, up, router, thread, queue, conn>>
    BY <1>5 DEF vars, lab, net
  <2>2. LabCalm' /\ NobodyGone'
    BY <1>1, <2>1, Framed, StillThere DEF Calm
  <2>3. FamilyCalm'
    BY <1>1, <2>1 DEF Calm, FamilyCalm, SettingInv, AskedInv, RoutedInv, AnswerInv, StageInv,
       Taken, Percent, Both, Only
  <2> QED BY <2>2, <2>3 DEF Calm
<1> QED BY <1>1, <1>2, <1>3, <1>4, <1>5

LEMMA InitCalm == Init => FailMark /\ Calm
<1> SUFFICES ASSUME Init PROVE FailMark /\ Calm
  OBVIOUS
<1>1. /\ main.pc = "inbox" /\ main.k = 1 /\ main.then = "kill" /\ conn.st = "idle" /\ ~ conn.slow
      /\ seen = {} /\ public = Required /\ up = Groups /\ verdict # "failed"
  BY DEF Init, Goto, NoConn
<1>2. \A r \in Routers : thread[r].at # "took" /\ queue[r] = <<>>
  BY DEF Init
<1>3. LabCalm /\ FailMark
  BY <1>1 DEF LabCalm, SeenInv, PublicInv, UpInv, FamilyDown, FailMark
<1>4. NobodyGone
  BY <1>1, <1>2 DEF NobodyGone
<1>5. FamilyCalm
  BY <1>1 DEF FamilyCalm, SettingInv, AskedInv, RoutedInv, AnswerInv, StageInv, Taken
<1> QED BY <1>3, <1>4, <1>5 DEF Calm

(* A run fails only because of a fault: as long as no client, server,      *)
(* latency or scheduling fault has happened, every receiver test, sample,  *)
(* gate and drill comes out as expected.                                   *)
THEOREM OnlyFaultsFail == Spec => []FailureHasCause
<1> DEFINE Well == faults = {} => Calm
<1>1. Init => ShareInv /\ WitnessInv /\ FailMark /\ Well
  BY InitShareInv, InitWitnessInv, InitCalm
<1>2. IInv /\ ShareInv /\ WitnessInv /\ FailMark /\ Well /\ [Next]_vars
        => ShareInv' /\ WitnessInv' /\ FailMark' /\ Well'
  <2> SUFFICES ASSUME IInv, ShareInv, WitnessInv, FailMark, Well, [Next]_vars
               PROVE  ShareInv' /\ WitnessInv' /\ FailMark' /\ Well'
    OBVIOUS
  <2>1. Refusing
    BY DEF WitnessInv
  <2>2. ShareInv' /\ WitnessInv' /\ FailMark'
    BY <2>1, NextShareInv, NextWitnessInv, NextFailMark
  <2>3. Well'
    BY <2>1, NextCalm
  <2> QED BY <2>2, <2>3
<1>3. Well => FailureHasCause
  BY DEF Calm, LabCalm, FailureHasCause
<1> QED BY <1>1, <1>2, <1>3, LabInvariant, PTL DEF Spec
==============================================================================
