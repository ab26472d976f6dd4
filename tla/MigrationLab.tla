----------------------------- MODULE MigrationLab -----------------------------
(***************************************************************************)
(* The offline migration lab, scripts/lab.py: the receiver tests, baseline  *)
(* and combined sessions, then for each KEM family a canary rollout behind  *)
(* a Router (10, 50, 100 per cent of new connections to the PQC server) and *)
(* four drills: failure, allowed rollback, fail-closed, restoration.        *)
(*                                                                          *)
(* Three kinds of threads run: the lab's main thread, each router's accept  *)
(* thread, and the relay of the connection a client waits for.  A router    *)
(* is known by the index of its family.  The listening sockets' descriptor  *)
(* is modelled, because the lowest free number is reused: the second router *)
(* gets the number the first one closed.                                    *)
(***************************************************************************)
EXTENDS Inbox

CONSTANTS
  Families,      \* the PQC KEM groups rolled out, in order
  ClassicGroup,  \* "X25519"
  Samples,       \* bound: baseline requests per group, combined sessions
  MaxFaults      \* bound: faults of different kinds in one run

ASSUME FamiliesAssumption ==
  /\ Families \in Seq(STRING) /\ Distinct(Families) /\ Len(Families) > 0
  /\ ClassicGroup \notin ToSet(Families)
\* "wrong" is the name of a key of the required algorithm that is nobody's.
ASSUME WrongKeyAssumption == "wrong" \notin Algorithms
ASSUME SamplesAssumption == Samples \in Nat \ {0} /\ MaxFaults \in Nat

Percents  == <<10, 50, 100>>
Slots     == 10
StageSize == 20
Routers   == DOMAIN Families
GroupOf(r, pqc) == IF pqc THEN Families[r] ELSE ClassicGroup
Groups    == {ClassicGroup} \cup ToSet(Families)
ASSUME GroupsAssumption == {"none", "failed"} \cap Groups = {}
Kinds     == {"client", "server", "slow", "join", "wait"}

VARIABLES
  main,     \* the main thread: pc, family, index of the stage, drill or sample,
            \* requests of the stage: made, good, served by PQC; event mark
  verdict,  \* result["status"]
  written,  \* results.json exists
  seen,     \* document ids the receiver refuses to accept again
  public,   \* the algorithm that signed the served bundle.json
  up,       \* the groups whose TLS server runs
  router,   \* per router: percent, blocked, counter, events, closed, and the
            \* history variable since: events before the last configure
  fd,       \* the router whose socket the descriptor denotes; 0: none
  shut,     \* routers whose socket is shut down
  queue,    \* connections not yet accepted: "live", or "gone" with its client
  thread,   \* accept threads: where they are, the socket they block on
  conn,     \* the connection of the client the main thread waits for
  faults    \* kinds of faults so far

lab    == <<verdict, written, seen, public>>
net    == <<fd, shut, queue>>
vars   == <<main, lab, up, router, net, thread, conn, faults>>

NoConn == [st |-> "idle", groups |-> {}, pqc |-> FALSE, blocked |-> FALSE,
           reply |-> "none", slow |-> FALSE]

Goto(pc, fam, k) == [pc |-> pc, fam |-> fam, k |-> k, made |-> 0, good |-> 0,
                     pqc |-> 0, mark |-> 0, then |-> "kill"]

Init ==
  /\ main = Goto("inbox", 0, 1)
  /\ verdict = "running" /\ written = FALSE /\ seen = {} /\ public = Required
  /\ up = Groups
  /\ router = [r \in Routers |-> [percent |-> 0, blocked |-> FALSE, counter |-> 0,
                                  events |-> <<>>, closed |-> FALSE, since |-> 0]]
  /\ fd = 0 /\ shut = {} /\ queue = [r \in Routers |-> <<>>]
  /\ thread = [r \in Routers |-> [at |-> "none", sock |-> 0, took |-> "none"]]
  /\ conn = NoConn /\ faults = {}

-----------------------------------------------------------------------------
\* A failed record raises AssertionError; main's finally calls Lab.close,
\* which closes the router if there is one.
Cleanup == IF main.fam = 0 THEN Goto("kill", 0, 1) ELSE Goto("retire", main.fam, 1)
Fail == verdict' = "failed" /\ main' = Cleanup

\* A fault of a kind that has not happened yet.
Fault(kind) ==
  /\ kind \notin faults /\ faults' = faults \cup {kind}
  /\ Cardinality(faults) < MaxFaults

\* The receiver tests: each a verdict and the one that is expected.
Test(got, expect) == [got |-> got, expect |-> expect, remember |-> FALSE]
InboxTests ==
  LET good      == Sign(Required, Statement)
      classical == Sign(Classical, Statement)
      tampered  == [Statement EXCEPT !.balances[1] = <<"OPBD", 900>>]
      wrongKey  == [a \in {Required} |-> "wrong"]
  IN  << Test(ValidateXml(Statement), Accepted),
         Test(ValidateXml([Statement EXCEPT !.schema = FALSE]), "schema"),
         Test(ValidateXml([Statement EXCEPT !.balances[2] = <<"CLBD", 134>>]), "balance"),
         Test({Receive(Sign(a, Statement), {a}, Trust, seen, FALSE) : a \in Algorithms},
              {Accepted}),
         Test({Receive([Sign(a, Statement) EXCEPT !.message.payload = tampered],
                       {a}, Trust, seen, FALSE) : a \in Algorithms}, {"signature"}),
         Test(Receive(classical, {Required}, Trust, seen, FALSE), "algorithm_policy"),
         Test(Receive(good, {Required}, [a \in {} |-> a], seen, FALSE), "untrusted_key"),
         Test(Receive(good, {Required}, wrongKey, seen, FALSE), "signature"),
         [Test(Receive(good, {Required}, Trust, seen, TRUE), Accepted)
            EXCEPT !.remember = TRUE],
         Test(Receive(good, {Required}, Trust, seen, TRUE), "duplicate"),
         Test({Receive(b, {Classical, Required}, Trust, seen, FALSE)
                 : b \in {good, classical}}, {Accepted}),
         Test(Receive(good, {Classical}, Trust, seen, FALSE), "algorithm_policy") >>

InboxTest ==
  /\ main.pc = "inbox"
  /\ LET test == InboxTests[main.k]
     IN  /\ IF test.got # test.expect THEN Fail
            ELSE /\ main' = IF main.k = Len(InboxTests) THEN Goto("baseline", 0, 1)
                            ELSE [main EXCEPT !.k = @ + 1]
                 /\ UNCHANGED verdict
         /\ seen' = Remember(Sign(Required, Statement), test.got, seen, test.remember)
  /\ UNCHANGED <<written, public, up, router, net, thread, conn, faults>>

\* What a client downloads passes the receiver: the algorithms whose bundles do,
\* duplicates not being refused.
Accepting == {a \in Algorithms :
                Receive(Sign(a, Statement), {Required}, Trust, {}, FALSE) = Accepted}
DownloadIsGood == public \in Accepting

\* Requests straight to the servers of all groups.
Baseline ==
  /\ main.pc = "baseline"
  /\ IF Groups \subseteq up /\ DownloadIsGood
     THEN /\ main' = IF main.k = Samples THEN Goto("sessions", 0, 1)
                     ELSE [main EXCEPT !.k = @ + 1]
          /\ UNCHANGED verdict
     ELSE Fail
  /\ UNCHANGED <<written, seen, public, up, router, net, thread, conn, faults>>

\* A combined session publishes a bundle freshly signed with its own algorithm;
\* after the last one the migration's bundle is restored.
SessionKeepsBundle ==  \* mutant: the last session's bundle stays published
  /\ main.pc = "sessions"
  /\ IF main.k > Samples THEN main' = Goto("open", 1, 1) /\ UNCHANGED public
     ELSE \E a \in Algorithms : public' = a /\ main' = [main EXCEPT !.k = @ + 1]
  /\ UNCHANGED <<verdict, written, seen, up, router, net, thread, conn, faults>>

Session ==
  /\ main.pc = "sessions"
  /\ IF main.k > Samples
     THEN /\ public' = Required
          /\ main' = Goto("open", 1, 1)
          /\ UNCHANGED verdict
     ELSE \E a \in Algorithms :
            /\ public' = a
            /\ main' = [main EXCEPT !.k = @ + 1]
            /\ UNCHANGED verdict
  /\ UNCHANGED <<written, seen, up, router, net, thread, conn, faults>>

-----------------------------------------------------------------------------
\* The Router.

\* Router(legacy, pqc): a listening socket under the lowest free descriptor.
Open ==
  /\ main.pc = "open"
  /\ fd' = IF fd = 0 THEN main.fam ELSE fd
  /\ thread' = [thread EXCEPT ![main.fam].at = "loop"]
  /\ main' = Goto("configure", main.fam, 1)
  /\ UNCHANGED <<lab, up, router, shut, queue, conn, faults>>

Configure(r, percent, blocked) ==
  router' = [router EXCEPT ![r] = [@ EXCEPT !.percent = percent, !.blocked = blocked,
                                     !.counter = 0, !.since = Len(router[r].events)]]

\* serve: while not self.closed, accept the next connection of the descriptor.
Loop(r) ==
  /\ thread[r].at = "loop"
  /\ thread' = [thread EXCEPT ![r].at = IF router[r].closed THEN "ended" ELSE "enter"]
  /\ UNCHANGED <<main, lab, up, router, net, conn, faults>>

\* The accept call finds the socket the descriptor denotes at this moment.
EnterAccept(r) ==
  /\ thread[r].at = "enter"
  /\ thread' = [thread EXCEPT ![r].sock = fd,
                  ![r].at = IF fd = 0 \/ fd \in shut THEN "ended" ELSE "blocked"]
  /\ UNCHANGED <<main, lab, up, router, net, conn, faults>>

Accept(r) ==
  /\ thread[r].at = "blocked"
  /\ LET s == thread[r].sock
     IN  \/ /\ s \in shut
            /\ thread' = [thread EXCEPT ![r].at = "ended"]
            /\ UNCHANGED queue
         \/ /\ s \notin shut /\ queue[s] # <<>>
            /\ thread' = [thread EXCEPT ![r].at = "took", ![r].took = Head(queue[s])]
            /\ queue' = [queue EXCEPT ![s] = Tail(@)]
  /\ UNCHANGED <<main, lab, up, router, fd, shut, conn, faults>>

\* Mutant: one connection in ten too many.
ToPqcOffByOne(r) == router[r].counter % Slots <= router[r].percent \div Slots
ToPqc(r) == router[r].counter % Slots < router[r].percent \div Slots

\* The section under the lock, and the start of the relay thread.
Assign(r) ==
  /\ thread[r].at = "took"
  /\ LET pqc == ToPqc(r)  blocked == router[r].blocked
     IN  /\ router' = [router EXCEPT ![r].counter = @ + 1,
                         ![r].events = Append(@, [pqc |-> pqc, blocked |-> blocked])]
         /\ conn' = IF thread[r].took = "live"
                    THEN [conn EXCEPT !.st = "routed", !.pqc = pqc, !.blocked = blocked]
                    ELSE conn
  /\ thread' = [thread EXCEPT ![r].at = "loop", ![r].took = "none"]
  /\ UNCHANGED <<main, lab, up, net, faults>>

\* relay: to the chosen server or nowhere; the handshake needs a common group.
RelayFallsBack ==  \* mutant: the other server when the chosen one is down
  /\ conn.st = "routed"
  /\ LET served == {g \in up : ~ conn.blocked /\ g \in conn.groups}
         group == GroupOf(main.fam, conn.pqc)
     IN  conn' = [conn EXCEPT !.st = "answered",
                    !.reply = IF served = {} THEN "failed"
                              ELSE IF group \in served THEN group ELSE CHOOSE g \in served : TRUE]
  /\ UNCHANGED <<main, lab, up, router, net, thread, faults>>

Relay ==
  /\ conn.st = "routed"
  /\ LET group == GroupOf(main.fam, conn.pqc)
         serves == ~ conn.blocked /\ group \in up /\ group \in conn.groups
     IN  conn' = [conn EXCEPT !.st = "answered",
                              !.reply = IF serves THEN group ELSE "failed"]
  /\ UNCHANGED <<main, lab, up, router, net, thread, faults>>

-----------------------------------------------------------------------------
\* The rollout and the drills of one family.

Both == {Families[main.fam], ClassicGroup}
Only == {Families[main.fam]}

\* request: a new connection to the router's port.
Ask(groups) ==
  /\ conn.st = "idle"
  /\ conn' = [NoConn EXCEPT !.st = "queued", !.groups = groups]
  /\ queue' = [queue EXCEPT ![main.fam] = Append(@, "live")]
  /\ UNCHANGED <<main, lab, up, router, fd, shut, thread, faults>>

Answered == conn.st = "answered"
Ok == conn.reply # "failed" /\ DownloadIsGood

SetStage ==
  /\ main.pc = "configure"
  /\ Configure(main.fam, Percents[main.k], FALSE)
  /\ main' = [Goto("stage", main.fam, main.k)
                EXCEPT !.mark = Len(router[main.fam].events)]
  /\ UNCHANGED <<lab, up, net, thread, conn, faults>>

StageAsk == main.pc = "stage" /\ main.made < StageSize /\ Ask(Both)

\* A download the receiver refuses ends the run at once.
StageAnswer ==
  /\ main.pc = "stage" /\ Answered
  /\ conn' = NoConn
  /\ IF conn.reply # "failed" /\ ~ Ok THEN Fail
     ELSE /\ main' = [main EXCEPT !.made = @ + 1,
                        !.good = IF Ok /\ ~ conn.slow THEN @ + 1 ELSE @,
                        !.pqc = IF conn.reply = Families[main.fam] THEN @ + 1 ELSE @]
          /\ UNCHANGED verdict
  /\ UNCHANGED <<written, seen, public, up, router, net, thread, faults>>

\* All requests succeeded in time, and the router's own events and the
\* negotiated groups show the exact share.
Chosen(r) == SubSeq(router[r].events, main.mark + 1, Len(router[r].events))
CountPqc(events) == Cardinality({i \in DOMAIN events : events[i].pqc})
GatePasses ==
  /\ main.good = StageSize
  /\ CountPqc(Chosen(main.fam)) = Percents[main.k] \div 5
  /\ main.pqc = CountPqc(Chosen(main.fam))

Gate ==
  /\ main.pc = "stage" /\ main.made = StageSize
  /\ IF GatePasses
     THEN /\ main' = IF main.k < Len(Percents) THEN Goto("configure", main.fam, main.k + 1)
                     ELSE Goto("prepare", main.fam, 1)
          /\ UNCHANGED verdict
     ELSE Fail
  /\ UNCHANGED <<written, seen, public, up, router, net, thread, conn, faults>>

\* The drills: stop the PQC server; allow the classical route; require PQC and
\* block; start the server again.
Prepare ==
  /\ main.pc = "prepare"
  /\ LET f == main.fam
     IN  \/ main.k = 1 /\ up' = up \ {Families[f]} /\ UNCHANGED router
         \/ main.k = 2 /\ Configure(f, 0, FALSE) /\ UNCHANGED up
         \/ main.k = 3 /\ Configure(f, 100, TRUE) /\ UNCHANGED up
         \/ main.k = 4 /\ Configure(f, 100, FALSE) /\ up' = up \cup {Families[f]}
  /\ main' = [main EXCEPT !.pc = "probe", !.mark = Len(router[main.fam].events)]
  /\ UNCHANGED <<lab, net, thread, conn, faults>>

\* Mutant: the fail-closed drill asks the PQC server's own port.
ProbeServer ==
  /\ main.pc = "probe"
  /\ IF main.k # 3 THEN Ask(IF main.k <= 2 THEN Both ELSE Only)
     ELSE /\ conn.st = "idle"
          /\ conn' = [NoConn EXCEPT !.st = "answered", !.reply =
                        IF Families[main.fam] \in up THEN Families[main.fam] ELSE "failed"]
          /\ UNCHANGED <<main, lab, up, router, net, thread, faults>>

Probe == main.pc = "probe" /\ Ask(IF main.k <= 2 THEN Both ELSE Only)

AllBlocked(events) == \A i \in DOMAIN events : events[i].blocked
DrillPasses ==
  CASE main.k = 1 -> ~ Ok
    [] main.k \in {2, 4} -> Ok
    [] main.k = 3 -> ~ Ok /\ AllBlocked(Chosen(main.fam))

DrillBeyond ==  \* mutant: a router is opened past the last family
  /\ main.pc = "probe" /\ Answered
  /\ conn' = NoConn
  /\ \/ ~ DrillPasses /\ Fail
     \/ /\ DrillPasses /\ main.k < 4
        /\ main' = Goto("prepare", main.fam, main.k + 1) /\ UNCHANGED verdict
     \/ /\ DrillPasses /\ main.k = 4
        /\ main' = [Goto("retire", main.fam, 1) EXCEPT !.then = "open"]
        /\ UNCHANGED verdict
  /\ UNCHANGED <<written, seen, public, up, router, net, thread, faults>>

Drill ==
  /\ main.pc = "probe" /\ Answered
  /\ conn' = NoConn
  /\ \/ ~ DrillPasses /\ Fail
     \/ /\ DrillPasses /\ main.k < 4
        /\ main' = Goto("prepare", main.fam, main.k + 1) /\ UNCHANGED verdict
     \/ /\ DrillPasses /\ main.k = 4 /\ main.fam < Len(Families)
        /\ main' = [Goto("retire", main.fam, 1) EXCEPT !.then = "open"]
        /\ UNCHANGED verdict
     \/ /\ DrillPasses /\ main.k = 4 /\ main.fam = Len(Families)
        /\ verdict' = "passed" /\ main' = Cleanup
  /\ UNCHANGED <<written, seen, public, up, router, net, thread, faults>>

-----------------------------------------------------------------------------
\* Router.close and Lab.close.

\* Mutant: the blocked accept call is not woken.
RetireWithoutShutdown ==
  /\ main.pc = "retire"
  /\ router' = [router EXCEPT ![main.fam].closed = TRUE]
  /\ main' = [main EXCEPT !.pc = "close"]
  /\ UNCHANGED <<lab, up, net, thread, conn, faults>>

\* closed is set and the socket shut down before it is closed; a thread that
\* reads closed in between ends as it would after the shutdown.
Retire ==
  /\ main.pc = "retire"
  /\ router' = [router EXCEPT ![main.fam].closed = TRUE]
  /\ shut' = shut \cup {main.fam}
  /\ main' = [main EXCEPT !.pc = "close"]
  /\ UNCHANGED <<lab, up, fd, queue, thread, conn, faults>>

CloseSocket ==
  /\ main.pc = "close"
  /\ fd' = IF fd = main.fam THEN 0 ELSE fd
  /\ main' = [main EXCEPT !.pc = "join"]
  /\ UNCHANGED <<lab, up, router, shut, queue, thread, conn, faults>>

JoinAtOnce ==  \* mutant: the accept thread is not waited for
  /\ main.pc = "join"
  /\ main' = IF main.then = "open" THEN Goto("open", main.fam + 1, 1)
             ELSE Goto("kill", main.fam, 1)
  /\ UNCHANGED <<lab, up, router, net, thread, conn, faults>>

Join ==
  /\ main.pc = "join"
  /\ thread[main.fam].at \in {"ended", "none"}
  /\ main' = IF main.then = "open" THEN Goto("open", main.fam + 1, 1)
             ELSE Goto("kill", main.fam, 1)
  /\ UNCHANGED <<lab, up, router, net, thread, conn, faults>>

\* The thread was not scheduled for two seconds: RuntimeError, which in the
\* finally block skips the servers and the results.
JoinTimeout ==
  /\ main.pc = "join"
  /\ thread[main.fam].at \notin {"ended", "none"}
  /\ Fault("join")
  /\ IF main.then = "open" THEN Fail
     ELSE main' = Goto("done", main.fam, 1) /\ UNCHANGED verdict
  /\ UNCHANGED <<written, seen, public, up, router, net, thread, conn>>

\* The servers are ended one by one, then the results are written.
KillServer ==
  /\ main.pc = "kill" /\ up # {}
  /\ \E g \in up : up' = up \ {g}
  /\ UNCHANGED <<main, lab, router, net, thread, conn, faults>>

WriteResults ==
  /\ main.pc = "kill" /\ up = {}
  /\ written' = TRUE /\ main' = Goto("done", main.fam, 1)
  /\ UNCHANGED <<verdict, seen, public, up, router, net, thread, conn, faults>>

-----------------------------------------------------------------------------
\* Faults.

\* A client ends on its own, or run's 15 seconds pass and TimeoutExpired
\* leaves execute; what it had queued stays in the socket's queue.
GoneEntries == [queue EXCEPT ![main.fam] =
                  [i \in DOMAIN queue[main.fam] |-> "gone"]]
TookGone == [r \in Routers |-> IF thread[r].at = "took"
                               THEN [thread[r] EXCEPT !.took = "gone"] ELSE thread[r]]
ClientFault ==
  /\ conn.st \in {"queued", "routed"}
  /\ Fault("client")
  /\ queue' = GoneEntries
  /\ thread' = TookGone
  /\ \/ /\ conn' = [conn EXCEPT !.st = "answered", !.reply = "failed"]
        /\ UNCHANGED <<main, verdict>>
     \/ conn' = NoConn /\ Fail
  /\ UNCHANGED <<written, seen, public, up, router, fd, shut>>

\* A baseline or session request fails.
SampleFault ==
  /\ main.pc \in {"baseline", "sessions"}
  /\ Fault("client")
  /\ Fail
  /\ UNCHANGED <<written, seen, public, up, router, net, thread, conn>>

ServerDies ==
  /\ main.pc \in {"configure", "stage", "prepare", "probe"}
  /\ Fault("server")
  /\ \E g \in up : up' = up \ {g}
  /\ UNCHANGED <<main, lab, router, net, thread, conn>>

\* The restored server exits or is not ready in time: RuntimeError.
RestartFails ==
  /\ main.pc = "prepare" /\ main.k = 4
  /\ Fault("server")
  /\ Fail
  /\ UNCHANGED <<written, seen, public, up, router, net, thread, conn>>

SlowRequest ==
  /\ conn.st = "routed" /\ ~ conn.slow
  /\ Fault("slow")
  /\ conn' = [conn EXCEPT !.slow = TRUE]
  /\ UNCHANGED <<main, lab, up, router, net, thread>>

\* A server has not ended five seconds after SIGTERM: TimeoutExpired.
WaitTimeout ==
  /\ Fault("wait")
  /\ \/ main.pc = "prepare" /\ main.k = 1 /\ Fail
     \/ /\ main.pc = "kill" /\ up # {}
        /\ main' = Goto("done", main.fam, 1) /\ UNCHANGED verdict
  /\ UNCHANGED <<written, seen, public, up, router, net, thread, conn>>

-----------------------------------------------------------------------------
Main == \/ InboxTest \/ Baseline \/ Session \/ Open \/ SetStage \/ StageAsk
        \/ StageAnswer \/ Gate \/ Prepare \/ Probe \/ Drill \/ Retire
        \/ CloseSocket \/ Join \/ KillServer \/ WriteResults
Serve(r) == Loop(r) \/ EnterAccept(r) \/ Accept(r) \/ Assign(r)
Next == \/ Main \/ (\E r \in Routers : Serve(r)) \/ Relay
        \/ JoinTimeout \/ ClientFault \/ SampleFault \/ ServerDies \/ RestartFails
        \/ SlowRequest \/ WaitTimeout

\* All threads run: the process is scheduled, and every request is answered.
Spec == /\ Init /\ [][Next]_vars
        /\ WF_vars(Main) /\ WF_vars(Relay) /\ \A r \in Routers : WF_vars(Serve(r))

-----------------------------------------------------------------------------
Event == [pqc : BOOLEAN, blocked : BOOLEAN]

\* Every variable has a value of the intended type.
TypeOK ==
  /\ main \in [pc : {"inbox", "baseline", "sessions", "open", "configure", "stage",
                     "prepare", "probe", "retire", "close", "join", "kill", "done"},
               fam : Routers \cup {0}, k : Nat, made : Nat, good : Nat, pqc : Nat,
               mark : Nat, then : {"kill", "open"}]
  /\ verdict \in {"running", "passed", "failed"} /\ written \in BOOLEAN
  /\ seen \subseteq {"statement"} /\ public \in Algorithms /\ up \subseteq Groups
  /\ router \in [Routers -> [percent : Nat, blocked : BOOLEAN, counter : Nat,
                             events : Seq(Event), closed : BOOLEAN, since : Nat]]
  /\ fd \in Routers \cup {0} /\ shut \subseteq Routers
  /\ queue \in [Routers -> Seq({"live", "gone"})]
  /\ thread \in [Routers -> [at : {"none", "loop", "enter", "blocked", "took", "ended"},
                             sock : Routers \cup {0}, took : {"none", "live", "gone"}]]
  /\ conn \in [st : {"idle", "queued", "routed", "answered"}, groups : SUBSET Groups,
               pqc : BOOLEAN, blocked : BOOLEAN,
               reply : Groups \cup {"none", "failed"}, slow : BOOLEAN]
  /\ faults \subseteq Kinds

\* A router's accept thread takes connections of its own port only: the previous
\* router never consumes a connection of the new one, although both listening
\* sockets had the same descriptor.
OwnConnections ==
  \A r \in Routers : thread[r].at \in {"blocked", "took"} => thread[r].sock = r

\* The canary share is exact: of every ten connections since the last configure,
\* percent/10 went to the PQC server, whatever clients gave up in between.
ShareIsExact ==
  \A r \in Routers :
    LET since == router[r].since
        whole == Slots * ((Len(router[r].events) - since) \div Slots)
    IN  100 * CountPqc(SubSeq(router[r].events, since + 1, since + whole))
          = router[r].percent * whole

\* No silent failover: a client that was served got the group of the server the
\* router chose for its connection, never the other one's.
NoSilentFailover ==
  conn.reply \in Groups =>
    conn.reply = GroupOf(main.fam, router[main.fam].events[Len(router[main.fam].events)].pqc)

\* A run fails only because of a fault: with no client, server, latency or
\* scheduling fault, all receiver tests, gates and drills come out as expected.
FailureHasCause == verdict = "failed" => faults # {}

\* The fail-closed drill of a passed run is not vacuous: unless a client ended on
\* its own, every family's router refused a connection because PQC was required.
FailClosedIsWitnessed ==
  verdict = "passed" /\ "client" \notin faults =>
    \A r \in Routers : \E i \in DOMAIN router[r].events : router[r].events[i].blocked

\* Every run comes to an end, and leaves its results and no server behind unless
\* a thread or a server outlived the time given to it.
Finishes ==
  <>( main.pc = "done" /\ (faults \cap {"join", "wait"} = {} => written /\ up = {}) )
==============================================================================
