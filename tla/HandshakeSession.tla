--------------------------- MODULE HandshakeSession ---------------------------
(***************************************************************************)
(* The TLS-only measurement: scripts/handshake_worker.py on both nodes, the *)
(* sequential server of scripts/tls_handshake.c, and the session loop of    *)
(* the controllers (extended_handshake.py, systems_experiments.py): start a *)
(* server, run Count client handshakes, collect the server's rows, compare. *)
(*                                                                          *)
(* A session's files carry its tag.  The client and the server write their  *)
(* rows on their own; the controller sees only the workers' answers.  Warm  *)
(* and cold mode differ in which process does the handshake, not in what is *)
(* written when, and are not told apart.                                    *)
(***************************************************************************)
EXTENDS Integers, Sequences, FiniteSets

CONSTANTS
  Count,      \* handshakes of a session
  Sessions,   \* bound: sessions of a run
  MaxFaults   \* bound: faults of different kinds in a run

ASSUME BoundsAssumption ==
  Count \in Nat \ {0} /\ Sessions \in Nat \ {0} /\ MaxFaults \in Nat

Runs    == 1 .. Sessions
Indices == 1 .. Count

\* A row: the session and the number of its connection, its success, and
\* whether the file is complete.
Row(n, i, ok) == [n |-> n, i |-> i, ok |-> ok, whole |-> FALSE]
NoRow == [n |-> 0, i |-> 0, ok |-> FALSE, whole |-> FALSE]

VARIABLES
  ctl,      \* controller and workers: pc, session, client number, the answers
  pending,  \* the session of pending.json; 0: no such file
  server,   \* the server process of each session, and the connections it took
  backlog,  \* established connections; the head is the one the server handles
  client,   \* the running client: "none", "sent" (connected, the server's ready
            \* byte not yet received), "shaking", "over" (successfully), "broken",
            \* "lost" (ended without the ready byte)
  ready,    \* tags with a .ready file
  rows,     \* server rows in /results, by tag and number
  faults

vars == <<ctl, pending, server, backlog, client, ready, rows, faults>>

TagReused(n) == 1  \* mutant: all sessions share a tag
Tag(n) == n

At(pc, n) == [pc |-> pc, n |-> n, i |-> 1, cs |-> <<>>, ss |-> <<>>]

Init ==
  /\ ctl = At("start", 1) /\ pending = 0
  /\ server = [n \in Runs |-> [st |-> "none", took |-> 0]]
  /\ backlog = <<>> /\ client = "none" /\ ready = {}
  /\ rows = [t \in Runs |-> [i \in Indices |-> NoRow]]
  /\ faults = {}

Fault(kind) ==
  /\ kind \notin faults /\ Cardinality(faults) < MaxFaults
  /\ faults' = faults \cup {kind}

Alive(n)   == server[n].st \in {"starting", "listening", "handling", "closing"}
Holding(n) == server[n].st \in {"listening", "handling", "closing"}
PortClosed == \A n \in Runs : ~ Holding(n)
Become(n, st) == server' = [server EXCEPT ![n].st = st]

\* An exception in a worker or a failed assertion of the controller: the run
\* fails and its finally block commands cleanup.
Fail == ctl' = At("cleanup", ctl.n)

-----------------------------------------------------------------------------
\* The server process.

Bind(n) ==
  /\ server[n].st = "starting"
  /\ IF PortClosed THEN Become(n, "listening") /\ ready' = ready \cup {Tag(n)}
     ELSE Become(n, "clashed") /\ UNCHANGED ready
  /\ UNCHANGED <<ctl, pending, backlog, client, rows, faults>>

\* The server accepts and sends the ready byte, at which the handshake starts.
Accept(n) ==
  /\ server[n].st = "listening" /\ backlog # <<>>
  /\ server' = [server EXCEPT ![n] = [st |-> "handling", took |-> @.took + 1]]
  /\ client' = IF client = "sent" THEN "shaking" ELSE client
  /\ UNCHANGED <<ctl, pending, backlog, ready, rows, faults>>

\* The server's side of the handshake is over after the client's; it writes its
\* row, counts the connection and goes on, or closes the socket after the last.
\* After a failure the process of the connection may have ended before its row;
\* in warm mode that is the server itself, and ServerDies.
ServerRow(n) ==
  /\ server[n].st = "handling" /\ client # "shaking"
  /\ \/ rows' = [rows EXCEPT ![Tag(n)][server[n].took] =
                   Row(Head(backlog).n, Head(backlog).i, Head(backlog).ok)]
     \/ ~ Head(backlog).ok /\ UNCHANGED rows
  /\ backlog' = Tail(backlog)
  /\ Become(n, IF server[n].took = Count THEN "closing" ELSE "listening")
  /\ UNCHANGED <<ctl, pending, client, ready, faults>>

\* fopen has created the file; fclose completes it.
FinishRow(t, i) ==
  /\ rows[t][i] # NoRow /\ ~ rows[t][i].whole
  /\ rows' = [rows EXCEPT ![t][i].whole = TRUE]
  /\ UNCHANGED <<ctl, pending, server, backlog, client, ready, faults>>

Exit(n) ==
  /\ server[n].st = "closing"
  /\ Become(n, "dead")
  /\ UNCHANGED <<ctl, pending, backlog, client, ready, rows, faults>>

AcceptRetries(n) ==  \* mutant: an idle listener waits for the next connection
  server[n].st = "listening" /\ backlog = <<>> /\ UNCHANGED vars

\* No connection for 15 seconds: accept fails and die ends the server.  While
\* clients are still to come this is a fault: they are late.
AcceptTimeout(n) ==
  /\ server[n].st = "listening" /\ backlog = <<>>
  /\ IF ctl.pc \in {"record", "ready", "clients"} /\ ctl.n = n THEN Fault("late")
     ELSE UNCHANGED faults
  /\ Become(n, "dead")
  /\ UNCHANGED <<ctl, pending, backlog, client, ready, rows>>

ServerDies(n) ==
  /\ server[n].st \in {"starting", "listening", "handling"}
  /\ Fault("server")
  /\ Become(n, "dead")
  /\ backlog' = <<>>
  /\ client' = CASE client = "sent" -> "lost" [] client = "shaking" -> "broken"
                 [] OTHER -> client
  /\ UNCHANGED <<ctl, pending, ready, rows>>

-----------------------------------------------------------------------------
\* start: spawn the server, record it, wait for its ready file.

Spawn ==
  /\ ctl.pc = "start"
  /\ Become(ctl.n, "starting")
  /\ ctl' = [ctl EXCEPT !.pc = "record"]
  /\ UNCHANGED <<pending, backlog, client, ready, rows, faults>>

RecordPending ==
  /\ ctl.pc = "record"
  /\ pending' = ctl.n
  /\ ctl' = [ctl EXCEPT !.pc = "ready"]
  /\ UNCHANGED <<server, backlog, client, ready, rows, faults>>

\* The server is given two seconds, as long as it lives.
AwaitReady ==
  /\ ctl.pc = "ready"
  /\ IF Tag(ctl.n) \in ready
     THEN ctl' = [ctl EXCEPT !.pc = "clients"] /\ UNCHANGED faults
     ELSE Fail /\ IF Alive(ctl.n) THEN Fault("slow") ELSE UNCHANGED faults
  /\ UNCHANGED <<pending, server, backlog, client, ready, rows>>

\* clients: one handshake after the other; a refused connection leaves no row.
Connect ==
  /\ ctl.pc = "clients" /\ client = "none"
  /\ IF PortClosed THEN Fail /\ UNCHANGED <<backlog, client>>
     ELSE /\ client' = "sent"
          /\ backlog' = Append(backlog, Row(ctl.n, ctl.i, TRUE))
          /\ UNCHANGED ctl
  /\ UNCHANGED <<pending, server, ready, rows, faults>>

Shake ==
  /\ client = "shaking"
  /\ client' = "over"
  /\ UNCHANGED <<ctl, pending, server, backlog, ready, rows, faults>>

\* The handshake fails; both ends write a row that says so.  Before the ready
\* byte the client ends without a row, and the server finds its client gone.
ShakeFails ==
  /\ client \in {"sent", "shaking"} /\ Fault("handshake")
  /\ client' = IF client = "sent" THEN "lost" ELSE "broken"
  /\ backlog' = [backlog EXCEPT ![Len(backlog)].ok = FALSE]
  /\ UNCHANGED <<ctl, pending, server, ready, rows>>

\* A client without a row fails the worker's assertion.
ClientGone ==
  /\ client = "lost"
  /\ client' = "none"
  /\ Fail
  /\ UNCHANGED <<pending, server, backlog, ready, rows, faults>>

ClientRowCounts ==  \* mutant: the client counts once too often
  /\ client \in {"over", "broken"}
  /\ client' = "none"
  /\ ctl' = [ctl EXCEPT !.cs = Append(@, [Row(ctl.n, ctl.i, client = "over")
                                             EXCEPT !.whole = TRUE]),
               !.pc = IF ctl.i > Count THEN "collect" ELSE @, !.i = @ + 1]
  /\ UNCHANGED <<pending, server, backlog, ready, rows, faults>>

\* The next client starts whether or not this one succeeded.
ClientRow ==
  /\ client \in {"over", "broken"}
  /\ client' = "none"
  /\ ctl' = [ctl EXCEPT !.cs = Append(@, [Row(ctl.n, ctl.i, client = "over")
                                             EXCEPT !.whole = TRUE]),
               !.pc = IF ctl.i = Count THEN "collect" ELSE @,
               !.i = IF ctl.i = Count THEN @ ELSE @ + 1]
  /\ UNCHANGED <<pending, server, backlog, ready, rows, faults>>

\* collect: wait for all rows, reading again while one is incomplete, then for
\* the listening socket to close, then forget the server.
Complete == \A i \in Indices : rows[Tag(ctl.n)][i].whole

CollectExisting ==  \* mutant: an incomplete file is not read again
  /\ ctl.pc = "collect"
  /\ \A i \in Indices : rows[Tag(ctl.n)][i] # NoRow
  /\ ctl' = [ctl EXCEPT !.pc = "close", !.ss = rows[Tag(ctl.n)]]
  /\ UNCHANGED <<pending, server, backlog, client, ready, rows, faults>>

CollectRows ==
  /\ ctl.pc = "collect"
  /\ Complete
  /\ ctl' = [ctl EXCEPT !.pc = "close", !.ss = rows[Tag(ctl.n)]]
  /\ UNCHANGED <<pending, server, backlog, client, ready, rows, faults>>

\* "server results timeout" after five seconds.
CollectTimeout ==
  /\ ctl.pc = "collect" /\ ~ Complete
  /\ IF Alive(ctl.n) \/ \E i \in Indices : ~ rows[Tag(ctl.n)][i].whole
                                           /\ rows[Tag(ctl.n)][i] # NoRow
     THEN Fault("slow") ELSE UNCHANGED faults
  /\ Fail
  /\ UNCHANGED <<pending, server, backlog, client, ready, rows>>

AwaitClose ==
  /\ ctl.pc = "close" /\ PortClosed
  /\ pending' = 0
  /\ ctl' = [ctl EXCEPT !.pc = "check"]
  /\ UNCHANGED <<server, backlog, client, ready, rows, faults>>

\* "server still listening" after another five seconds.
CloseTimeout ==
  /\ ctl.pc = "close" /\ ~ PortClosed /\ Fault("slow")
  /\ Fail
  /\ UNCHANGED <<pending, server, backlog, client, ready, rows>>

\* The controller compares the answers row by row.
Check ==
  /\ ctl.pc = "check"
  /\ IF \A i \in Indices : ctl.cs[i].ok /\ ctl.ss[i].ok
     THEN ctl' = IF ctl.n < Sessions THEN At("start", ctl.n + 1)
                 ELSE At("finish", ctl.n)
     ELSE Fail
  /\ UNCHANGED <<pending, server, backlog, client, ready, rows, faults>>

ForgetPending ==  \* mutant: the file is removed, the server not signalled
  /\ ctl.pc \in {"cleanup", "finish"}
  /\ pending' = 0
  /\ ctl' = [ctl EXCEPT !.pc = IF @ = "finish" THEN "passed" ELSE "failed"]
  /\ UNCHANGED <<server, backlog, client, ready, rows, faults>>

\* cleanup: SIGTERM to the pending server's process group.
Cleanup ==
  /\ ctl.pc \in {"cleanup", "finish"}
  /\ server' = [n \in Runs |-> IF n = pending /\ Alive(n)
                               THEN [server[n] EXCEPT !.st = "dead"] ELSE server[n]]
  /\ pending' = 0
  /\ ctl' = [ctl EXCEPT !.pc = IF @ = "finish" THEN "passed" ELSE "failed"]
  /\ UNCHANGED <<backlog, client, ready, rows, faults>>

\* The worker is killed after it spawned the server, before pending.json.
WorkerKilled ==
  /\ ctl.pc = "record" /\ Fault("killed")
  /\ Fail
  /\ UNCHANGED <<pending, server, backlog, client, ready, rows>>

-----------------------------------------------------------------------------
Serve(n) == Bind(n) \/ Accept(n) \/ ServerRow(n) \/ Exit(n) \/ AcceptTimeout(n)
Control  == \/ Spawn \/ RecordPending \/ AwaitReady \/ Connect \/ Shake \/ ClientRow
            \/ ClientGone \/ CollectRows \/ CollectTimeout \/ AwaitClose \/ Check \/ Cleanup
Next == \/ Control
        \/ \E n \in Runs : Serve(n) \/ ServerDies(n)
        \/ \E t \in Runs, i \in Indices : FinishRow(t, i)
        \/ ShakeFails \/ CloseTimeout \/ WorkerKilled

\* Processes are scheduled, files are completed and the socket time-out expires.
Spec == /\ Init /\ [][Next]_vars
        /\ WF_vars(Control) /\ \A n \in Runs : WF_vars(Serve(n))
        /\ \A t \in Runs, i \in Indices : WF_vars(FinishRow(t, i))

-----------------------------------------------------------------------------
ARow == [n : Nat, i : Nat, ok : BOOLEAN, whole : BOOLEAN]

Pcs == {"start", "record", "ready", "clients", "collect", "close", "check",
        "finish", "cleanup", "passed", "failed"}
CtlType == [pc : Pcs, n : Runs, i : Indices, cs : Seq(ARow), ss : Seq(ARow)]

\* Every variable has a value of the intended type.
TypeOK ==
  /\ ctl \in CtlType
  /\ pending \in Runs \cup {0}
  /\ server \in [Runs -> [st : {"none", "starting", "listening", "handling", "closing",
                                "dead", "clashed"}, took : Indices \cup {0}]]
  /\ backlog \in Seq(ARow) /\ client \in {"none", "sent", "shaking", "over", "broken",
                                               "lost"}
  /\ ready \subseteq Runs
  /\ rows \in [Runs -> [Indices -> ARow]]
  /\ faults \subseteq {"late", "server", "handshake", "slow", "killed"}

\* The rows the controller puts side by side are complete and describe the same
\* handshake: row i of the client and row i of the server are the i-th
\* connection of this session, whatever failed, retried or is still writing.
RowsPair ==
  ctl.pc = "check" => \A i \in Indices :
    /\ ctl.ss[i].whole
    /\ ctl.ss[i].n = ctl.n /\ ctl.cs[i].n = ctl.n
    /\ ctl.ss[i].i = i     /\ ctl.cs[i].i = i

\* Once cleanup has returned no server of the run is left, except one whose
\* worker was killed before it could record it.
CleanupEndsServers ==
  ctl.pc \in {"passed", "failed"} /\ "killed" \notin faults =>
    \A n \in Runs : ~ Alive(n)

\* A session fails only because of a fault: no server exits, is too slow or finds
\* its port taken, no client ends without a row and no row is missing while
\* everything works (handshake_worker.py:41-44, 62, 75, 80).
FailureHasCause == ctl.pc \in {"cleanup", "failed"} => faults # {}

\* The run comes to an end, and every server with it: one that nobody records or
\* signals ends by itself, because its idle listener times out.
EveryServerEnds ==
  <>[](ctl.pc \in {"passed", "failed"} /\ \A n \in Runs : ~ Alive(n))
==============================================================================
