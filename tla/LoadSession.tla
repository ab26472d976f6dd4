--------------------------- MODULE LoadSession ---------------------------
(***************************************************************************)
(* A closed-loop load: load-launch starts a supervisor, the supervisor     *)
(* starts the clients, lets them begin together, waits for them and stores *)
(* their exit codes; load-collect reads what they have written             *)
(* (systems_worker.py, the client's loop in tls_handshake.c).              *)
(*                                                                         *)
(* The processes share files only. A file that is written in place is Torn *)
(* between its truncation and its content. Limits in seconds are           *)
(* nondeterministic. The controller launches a load after it has collected *)
(* the one before, under another tag, and only cleans up after a failure,  *)
(* as systems_experiments.py does.                                         *)
(***************************************************************************)
EXTENDS Naturals

CONSTANTS
  Concurrency,  \* clients of a load
  MaxLoads,     \* bound: launches
  MaxTries,     \* bound: connections a client tries
  None, Torn    \* no file; a file in the middle of a write

ASSUME BoundsAssumption == /\ Concurrency \in Nat \ {0}
                           /\ MaxLoads \in Nat \ {0}
                           /\ MaxTries \in Nat

Clients == 1..Concurrency
Tags == 1..MaxLoads

VARIABLES
  ctl,     \* the controller: the command it runs, the client it reads next,
           \* whether the latest launch has answered
  tag,     \* of the latest launch, 0 before the first
  sup,     \* the supervisor of that launch, the client it deals with
  client,  \* the clients of that launch, with the rows of their files
  state,   \* load-state.json
  finish,  \* load-done.json
  ready, start, stop,  \* the .ready files; the .start and .stop files by tag
  report   \* what load-collect has returned for that launch

files == <<state, finish, ready, start, stop>>
vars == <<ctl, tag, sup, client, files, report>>

(* A client's exit code: all well, a failed handshake, die, or a signal. *)
Codes == {0, 1, 2, 14, 15}

(* "made" counts the rows that a client has appended, "file" those that are *)
(* in its .jsonl file, which does not exist before the first.               *)
Client == [pc : {"none", "init", "wait", "top", "try", "ended"}, due : BOOLEAN,
           tries : Nat, made : Nat, file : Nat, code : Codes]
State == [tag : Tags, pids : SUBSET Clients, started : BOOLEAN]
Finish == [Clients -> Codes]
Report == [ok : BOOLEAN, rows : [Clients -> Nat], codes : [Clients -> Codes]]

Unborn == [c \in Clients |-> [pc |-> "none", due |-> FALSE, tries |-> 0, made |-> 0,
                             file |-> 0, code |-> 0]]
NoReport == [ok |-> FALSE, rows |-> [c \in Clients |-> 0],
             codes |-> [c \in Clients |-> 0]]

Live(c) == client[c].pc \notin {"none", "ended"}
Whole(file) == file \notin {None, Torn}
Started == Whole(state) /\ state.started

Init ==
  /\ ctl = [pc |-> "ready", at |-> 1, up |-> FALSE]
  /\ tag = 0
  /\ sup = [pc |-> "gone", at |-> 1]
  /\ client = Unborn
  /\ state = None /\ finish = None
  /\ ready = {} /\ start = {} /\ stop = {}
  /\ report = NoReport

----------------------------------------------------------------------------
(* A command of the controller goes on without touching anything. *)
Answer(from, to) ==
  /\ ctl.pc \in from /\ ctl' = [ctl EXCEPT !.pc = to]
  /\ UNCHANGED <<tag, sup, client, files, report>>

(* Mutant: load-state.json of the load before stays. *)
LaunchKeepsState ==
  /\ ctl.pc = "ready" /\ tag < MaxLoads
  /\ ctl' = [pc |-> "launching", at |-> 1, up |-> FALSE]
  /\ tag' = tag + 1
  /\ sup' = [pc |-> "clear", at |-> 1]
  /\ finish' = None
  /\ client' = Unborn /\ ready' = {} /\ report' = NoReport
  /\ UNCHANGED <<state, start, stop>>

(* load-launch: nothing of an earlier load may be taken for this one's. The   *)
(* clients before have ended (CollectedIsComplete); those to come, and their   *)
(* files, have other names.                                                    *)
Launch ==
  /\ ctl.pc = "ready" /\ tag < MaxLoads
  /\ ctl' = [pc |-> "launching", at |-> 1, up |-> FALSE]
  /\ tag' = tag + 1
  /\ sup' = [pc |-> "clear", at |-> 1]
  /\ state' = None /\ finish' = None
  /\ client' = Unborn /\ ready' = {} /\ report' = NoReport
  /\ UNCHANGED <<start, stop>>

(* The poll of load-state.json, which may be absent, torn or not started yet. *)
LaunchAnswers ==
  /\ ctl.pc = "launching" /\ Started
  /\ ctl' = [ctl EXCEPT !.pc = "loaded", !.up = TRUE]
  /\ UNCHANGED <<tag, sup, client, files, report>>

(* The supervisor has gone, or ten seconds have. It may live on. *)
LaunchFails == Answer({"launching"}, "failed") /\ ~Started

(* load-collect, with or without a request to stop early. That the state can *)
(* be read is a property, LoadedIsReady.                                     *)
Collect ==
  /\ ctl.pc = "loaded" /\ Whole(state)
  /\ ctl' = [ctl EXCEPT !.pc = "collecting"]
  /\ \E early \in BOOLEAN : stop' = IF early THEN stop \cup {state.tag} ELSE stop
  /\ UNCHANGED <<tag, sup, client, state, finish, ready, start, report>>

(* 150 seconds without the file; or it exists, and is not complete yet. *)
CollectFails == Answer({"collecting"}, "failed") /\ ~Whole(finish)

CollectCodes ==
  /\ ctl.pc = "collecting" /\ Whole(finish)
  /\ ctl' = [ctl EXCEPT !.pc = "reading"]
  /\ report' = [report EXCEPT !.codes = finish]
  /\ UNCHANGED <<tag, sup, client, files>>

(* A client's rows are read and its file is deleted, one client after the     *)
(* other. Nothing is returned, and the deleted rows are lost, when the file of *)
(* a later client is missing: one that has not recorded a single handshake.    *)
CollectRows ==
  LET c == ctl.at IN
  /\ ctl.pc = "reading" /\ client[c].file > 0
  /\ ctl' = IF c = Concurrency THEN [ctl EXCEPT !.pc = "ready", !.at = 1]
                               ELSE [ctl EXCEPT !.at = c + 1]
  /\ report' = [report EXCEPT !.rows[c] = client[c].file, !.ok = (c = Concurrency)]
  /\ client' = [client EXCEPT ![c].file = 0]
  /\ UNCHANGED <<tag, sup, files>>

CollectMissing == Answer({"reading"}, "failed") /\ client[ctl.at].file = 0

(* cleanup, at the end or when anything has failed: first the clients that    *)
(* load-state.json names, then the supervisor. A state that is being written   *)
(* cannot be read, and ends the command.                                       *)
MayClean == {"ready", "loaded", "failed"}

CleanupClients ==
  /\ ctl.pc \in MayClean /\ Whole(state)
  /\ ctl' = [ctl EXCEPT !.pc = "cleaning"]
  /\ stop' = stop \cup {state.tag}
  /\ client' = [c \in Clients |-> IF c \in state.pids /\ Live(c)
                                  THEN [client[c] EXCEPT !.pc = "ended", !.code = 15]
                                  ELSE client[c]]
  /\ UNCHANGED <<tag, sup, state, finish, ready, start, report>>

CleanupNoClients == Answer(MayClean, "cleaning") /\ state = None

CleanupFails == Answer(MayClean, "uncleaned") /\ state = Torn

CleanupSupervisor ==
  /\ ctl.pc = "cleaning"
  /\ ctl' = [ctl EXCEPT !.pc = "cleaned"]
  /\ sup' = [pc |-> "gone", at |-> 1]
  /\ UNCHANGED <<tag, client, files, report>>

----------------------------------------------------------------------------
(* The supervisor (load-start). The steps say which file or client changes;  *)
(* Supervise adds what none of them does.                                     *)
SupTo(from, to) == sup.pc = from /\ sup' = [pc |-> to, at |-> 1]

(* Mutant: one client more. *)
SupEachBeyond(from, to) ==
  /\ sup.pc = from
  /\ sup' = IF sup.at > Concurrency THEN [pc |-> to, at |-> 1]
                                    ELSE [sup EXCEPT !.at = @ + 1]

(* One step for each client, in the order of their numbers. *)
SupEach(from, to) ==
  /\ sup.pc = from
  /\ sup' = IF sup.at = Concurrency THEN [pc |-> to, at |-> 1]
                                    ELSE [sup EXCEPT !.at = @ + 1]

Writes(value) == state' = value /\ UNCHANGED <<client, finish, ready, start, stop>>

SupClear ==
  /\ SupTo("clear", "spawn")
  /\ start' = start \ {tag} /\ stop' = stop \ {tag}
  /\ UNCHANGED <<client, state, finish, ready>>

SupSpawn ==
  /\ SupEach("spawn", "record")
  /\ client' = [client EXCEPT ![sup.at].pc = "init"]
  /\ UNCHANGED files

(* load-state.json is written twice in place: the pids, then the start too. *)
SupTearState ==
  /\ SupTo("record", "recording") \/ SupTo("mark", "marking")
  /\ Writes(Torn)

SupRecord ==
  /\ SupTo("recording", "await")
  /\ Writes([tag |-> tag, pids |-> Clients, started |-> FALSE])

AllReady == Clients \subseteq ready

SupAllReady == SupTo("await", "mark") /\ AllReady /\ UNCHANGED <<client, files>>

(* A client has ended before it was ready, or ten seconds are over. *)
SupGivesUp == SupTo("await", "gone") /\ ~AllReady /\ UNCHANGED <<client, files>>

(* Mutant: the second write forgets the pids. *)
SupMarkAnew ==
  /\ SupTo("marking", "go")
  /\ Writes([tag |-> tag, pids |-> {}, started |-> TRUE])

SupMark ==
  /\ SupTo("marking", "go")
  /\ Writes([tag |-> tag, pids |-> Clients, started |-> TRUE])

SupGo ==
  /\ SupTo("go", "wait")
  /\ start' = start \cup {tag}
  /\ UNCHANGED <<client, state, finish, ready, stop>>

(* Mutant: only the last client is waited for. *)
SupWaitLast ==
  /\ SupTo("wait", "finish") /\ client[Concurrency].pc = "ended"
  /\ UNCHANGED <<client, files>>

SupWait ==
  /\ SupEach("wait", "finish") /\ client[sup.at].pc = "ended"
  /\ UNCHANGED <<client, files>>

SupTearFinish ==
  /\ SupTo("finish", "finishing")
  /\ finish' = Torn
  /\ UNCHANGED <<client, state, ready, start, stop>>

SupFinish ==
  /\ SupTo("finishing", "gone")
  /\ finish' = [c \in Clients |-> client[c].code]
  /\ UNCHANGED <<client, state, ready, start, stop>>

(* No process or log file for another client: those before it stay. Or a client *)
(* outlives the load by thirty seconds: no load-done.json is written.            *)
SupFails ==
  /\ SupTo("spawn", "gone") \/ SupTo("wait", "gone")
  /\ UNCHANGED <<client, files>>

----------------------------------------------------------------------------
(* A client (tls_handshake.c); its exit code is written down at once. *)
ClientTo(c, from, to) ==
  /\ client[c].pc = from
  /\ client' = [client EXCEPT ![c].pc = to]
  /\ UNCHANGED files

ClientEnds(c, from, code) ==
  /\ client[c].pc = from
  /\ client' = [client EXCEPT ![c].pc = "ended", ![c].code = code]
  /\ UNCHANGED files

ClientReady(c) ==
  /\ client[c].pc = "init"
  /\ client' = [client EXCEPT ![c].pc = "wait"]
  /\ ready' = ready \cup {c}
  /\ UNCHANGED <<state, finish, start, stop>>

ClientInitFails(c) == ClientEnds(c, "init", 2)

ClientBegin(c) == ClientTo(c, "wait", "top") /\ tag \in start

(* alarm(600): the only end of a client that nobody starts. Later it would    *)
(* end a client too, as ClientDies does with another code.                    *)
ClientAlarm(c) == ClientEnds(c, "wait", 14)

(* The seconds of the load are over, as the client sees before its next try. *)
ClientDue(c) ==
  /\ client[c].pc \in {"top", "try"} /\ ~client[c].due
  /\ client' = [client EXCEPT ![c].due = TRUE]
  /\ UNCHANGED files

(* Mutant: the client looks at the stop file only. *)
OverOnStop(c) == tag \in stop

Over(c) == client[c].due \/ tag \in stop

ClientTry(c) ==
  /\ client[c].pc = "top" /\ ~Over(c) /\ client[c].tries < MaxTries
  /\ client' = [client EXCEPT ![c].pc = "try", ![c].tries = @ + 1]
  /\ UNCHANGED files

(* A handshake appends one row, whether it has succeeded or not. *)
ClientRow(c) ==
  /\ client[c].pc = "try"
  /\ \E ok \in BOOLEAN :
       client' = [client EXCEPT ![c].pc = "top", ![c].code = IF ok THEN @ ELSE 1,
                                ![c].made = @ + 1, ![c].file = @ + 1]
  /\ UNCHANGED files

(* Mutant: a connection that fails is skipped. *)
ClientSkips(c) == ClientTo(c, "try", "top")

(* No connection, no readiness byte, no output file: the end without a row. *)
ClientDies(c) == ClientEnds(c, "try", 2)

ClientLeave(c) == ClientEnds(c, "top", client[c].code) /\ Over(c)

----------------------------------------------------------------------------
Command ==
  \/ Launch \/ LaunchAnswers \/ LaunchFails
  \/ Collect \/ CollectFails \/ CollectCodes \/ CollectRows \/ CollectMissing
  \/ CleanupClients \/ CleanupNoClients \/ CleanupFails \/ CleanupSupervisor

(* The steps that the supervisor takes when nothing goes wrong beneath it. *)
Supervise ==
  /\ \/ SupClear \/ SupSpawn \/ SupTearState \/ SupRecord \/ SupAllReady
     \/ SupGivesUp \/ SupMark \/ SupGo \/ SupWait \/ SupTearFinish \/ SupFinish
  /\ UNCHANGED <<ctl, tag, report>>

SupervisorFails == SupFails /\ UNCHANGED <<ctl, tag, report>>

ClientSteps(c) ==
  \/ ClientReady(c) \/ ClientInitFails(c) \/ ClientBegin(c)
  \/ ClientTry(c) \/ ClientRow(c) \/ ClientDies(c) \/ ClientLeave(c)

ClientRuns(c) == ClientSteps(c) /\ UNCHANGED <<ctl, tag, sup, report>>

(* What time brings. *)
TimeOut(c) ==
  /\ ClientAlarm(c) \/ ClientDue(c)
  /\ UNCHANGED <<ctl, tag, sup, report>>

Next ==
  \/ Command \/ Supervise \/ SupervisorFails
  \/ \E c \in Clients : ClientRuns(c) \/ TimeOut(c)

Spec == Init /\ [][Next]_vars

(* Every process is scheduled: socket calls end after fifteen seconds, the     *)
(* waits of the supervisor poll. Time passes: deadlines and alarms come. The   *)
(* controller owes nothing, nor need anything fail.                            *)
FairSpec ==
  /\ Spec
  /\ WF_vars(Supervise)
  /\ \A c \in Clients : WF_vars(ClientRuns(c)) /\ WF_vars(TimeOut(c))

----------------------------------------------------------------------------
(* The types of the variables, and at most one row for each connection. *)
TypeOK ==
  /\ ctl \in [pc : {"ready", "launching", "loaded", "collecting", "reading",
                    "failed", "cleaning", "cleaned", "uncleaned"},
             at : Clients, up : BOOLEAN]
  /\ tag \in 0..MaxLoads
  /\ sup \in [pc : {"gone", "clear", "spawn", "record", "recording", "await",
                    "mark", "marking", "go", "wait", "finish", "finishing"},
              at : Clients]
  /\ client \in [Clients -> Client]
  /\ state \in State \cup {None, Torn}
  /\ finish \in Finish \cup {None, Torn}
  /\ ready \subseteq Clients
  /\ start \subseteq Tags /\ stop \subseteq Tags
  /\ report \in Report
  /\ \A c \in Clients : client[c].file <= client[c].made

(* Once load-launch has answered, load-state.json is complete and names this  *)
(* load, so that load-progress and load-collect read it whole and read the    *)
(* right one, although the supervisor writes it in place; and every client    *)
(* stands ready, so that the measurement is of all of them.                   *)
LoadedIsReady ==
  ctl.pc = "loaded" =>
    /\ Whole(state) /\ state.tag = tag /\ state.started
    /\ \A c \in Clients : c \in ready

(* What load-collect returns is final: no client of the load lives any more,   *)
(* and it has all the rows that they have ever written.                         *)
CollectedIsComplete ==
  report.ok => \A c \in Clients : ~Live(c) /\ report.rows[c] = client[c].made

(* If none of the returned exit codes tells of a failure, there is a returned   *)
(* row for every connection that was tried: no attempt is lost in silence.      *)
NoSilentLoss ==
  report.ok /\ (\A c \in Clients : report.codes[c] = 0)
    => \A c \in Clients : report.rows[c] = client[c].tries

(* If load-launch has answered, cleanup leaves no client alive, in whatever *)
(* state it finds the supervisor.                                              *)
CleanupEndsLoad ==
  ctl.pc = "cleaned" /\ ctl.up => \A c \in Clients : ~Live(c)

Quiet == sup.pc = "gone" /\ \A c \in Clients : ~Live(c)

(* Every load comes to an end by itself: supervisor and clients, whatever has *)
(* failed in between and whether or not anybody collects or cleans up.         *)
EveryLoadEnds == ~Quiet ~> Quiet
==========================================================================
