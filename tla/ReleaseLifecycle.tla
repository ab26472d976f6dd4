--------------------------- MODULE ReleaseLifecycle ---------------------------
(***************************************************************************)
(* The deployment worker on the server node: scripts/gate_worker.py and,    *)
(* when Release is TRUE, the wrapper scripts/release_worker.py around it.   *)
(*                                                                          *)
(* Every command is a fresh worker process that reads the JSON files of     *)
(* /state, starts or signals TLS server processes and saves the files one   *)
(* by one.  A step of a command is one atomic effect: one os.replace of a   *)
(* file, one spawn or one signal.  The worker may be killed between any two *)
(* of them, a server may die at any time, and TCP connections are routed by *)
(* a long-running router process that reads route.json on its own.          *)
(*                                                                          *)
(* The controller is sequential: one command at a time, in any order, with  *)
(* the evidence it has collected.  A candidate is known by its version      *)
(* (certificate and configuration), its port and its generation; the        *)
(* generation number doubles as its creation time.                          *)
(***************************************************************************)
EXTENDS Integers, FiniteSets

CONSTANTS
  None,           \* JSON null
  Versions,       \* candidate versions the controller may start
  Base,           \* the version that is active at the start
  Capable,        \* versions that complete the policy's handshake
  Pqc,            \* versions that, besides, refuse every classical client
  Release,        \* TRUE: release_worker.py; FALSE: gate_worker.py alone
  Kinds,          \* the selectors client connections use
  MaxPid,         \* bound: server processes ever started
  MaxFaults       \* bound: worker kills, server deaths, time-outs

Names == Versions \cup {Base}
Pids  == 1 .. MaxPid

ASSUME NamesAssumption ==
  /\ Base \notin Versions
  /\ Capable \subseteq Names
  /\ Pqc \subseteq Capable
ASSUME ModesAssumption ==
  /\ Release \in BOOLEAN
  /\ Kinds \subseteq {"active", "candidate", "rollback"}
ASSUME BoundsAssumption == MaxPid \in Nat \ {0} /\ MaxFaults \in Nat

\* An entry of route.json.
Target == [name : Names, port : Nat, gen : Nat, approved : BOOLEAN]

\* A favourable measurement: the version that answered, the generation that was
\* the candidate at that time, and whether it is at most 300 seconds old.
Evidence == [name : Names, epoch : Nat, fresh : BOOLEAN]

ASSUME NoneAssumption == None \notin Target /\ None \notin Evidence

VARIABLES
  route,    \* route.json: active, candidate, rollback, next (next_port)
  procs,    \* processes.json: active, candidate (0: no entry), retired
  rb,       \* rollback.json, or None
  proc,     \* the server processes of the node
  npid,     \* processes started so far
  ready,    \* versions whose .ready file exists
  gens,     \* candidates published so far
  w,        \* the running worker command
  bundle,   \* evidence the controller holds: the generation it declares,
            \* the required clients' and the forbidden clients' measurements
  health,   \* the last favourable health check, or None
  conn,     \* one client connection through the router
  faults,   \* faults so far
  trusted,  \* history: generations whose promotion was approved to the end
  abandoned,\* history: servers whose launch ended before it had published them
  lost,     \* history: those of them that processes.json does not name either
  misled,   \* history: generations promoted while an impostor had their port
  done      \* cleanup has been commanded

files  == <<route, procs, rb>>
node   == <<proc, npid, ready>>
client == <<bundle, health, conn>>
history == <<trusted, abandoned, lost, misled>>
vars   == <<files, node, gens, w, client, faults, history, done>>

-----------------------------------------------------------------------------
\* Server processes.

Holding(p) == proc[p].st \in {"listening", "stopping"}   \* has the port bound
Heard(p)   == proc[p].st \in {"listening", "stopping", "dead"}  \* ever had it bound
PortClosed(port) == \A p \in Pids : Holding(p) => proc[p].port # port

\* SIGTERM to the process groups in S; a group that is gone is not an error.
\* A server that holds its port may keep it for a moment.
AfterSignal == [none |-> "none", starting |-> "failed", failed |-> "failed",
                listening |-> "stopping", stopping |-> "stopping", dead |-> "dead"]

Signal(S) ==
  proc' = [p \in Pids |-> IF p \in S
                          THEN [proc[p] EXCEPT !.st = AfterSignal[@]] ELSE proc[p]]

\* The started server binds its port and writes its ready file, or finds the
\* port taken and exits.
Listen(p) ==
  /\ proc[p].st = "starting"
  /\ IF PortClosed(proc[p].port)
     THEN /\ proc' = [proc EXCEPT ![p].st = "listening"]
          /\ ready' = ready \cup {proc[p].name}
     ELSE /\ proc' = [proc EXCEPT ![p].st = "failed"]
          /\ ready' = ready
  /\ UNCHANGED <<files, npid, gens, w, client, faults, history, done>>

Exit(p) ==
  /\ proc[p].st = "stopping"
  /\ proc' = [proc EXCEPT ![p].st = "dead"]
  /\ UNCHANGED <<files, npid, ready, gens, w, client, faults, history, done>>

Die(p) ==
  /\ proc[p].st \in {"starting", "listening"}
  /\ faults < MaxFaults
  /\ faults' = faults + 1
  /\ proc' = [proc EXCEPT ![p].st = IF @ = "starting" THEN "failed" ELSE "dead"]
  /\ UNCHANGED <<files, npid, ready, gens, w, client, history, done>>

-----------------------------------------------------------------------------
\* The worker: w.pc is the next step of the running command, the other fields
\* what it keeps in memory.

Task(label, name, pid, old) == [pc |-> label, name |-> name, pid |-> pid, old |-> old]
Idle == Task("idle", Base, 0, None)
Goto(label) == w' = [w EXCEPT !.pc = label]
Start == w.pc = "idle" /\ ~done
Return == w' = Idle

Fault ==
  /\ faults < MaxFaults
  /\ faults' = faults + 1

\* A started server whose launch has not yet entered it into processes.json, and
\* one it has not yet entered into route.json.
UnrecordedSteps == {"ready", "record"}
LaunchSteps == UnrecordedSteps \cup {"publish"}

\* The command ends early.  In the middle of a launch it leaves the server behind.
GiveUp ==
  /\ Fault
  /\ Return
  /\ abandoned' = abandoned \cup (IF w.pc \in LaunchSteps THEN {w.pid} ELSE {})
  /\ lost' = lost \cup (IF w.pc \in UnrecordedSteps THEN {w.pid} ELSE {})
  /\ UNCHANGED <<files, node, gens, client, trusted, misled, done>>

\* The worker is killed between two effects.
Kill ==
  /\ w.pc # "idle"
  /\ GiveUp

\* candidate: stop a pending candidate first.  Without a candidate entry in
\* route.json the signal is still sent, but reading the entry's port raises.
Candidate(v) ==
  /\ Start
  /\ npid < MaxPid
  /\ IF procs.candidate = 0
     THEN w' = Task("clear", v, 0, None) /\ proc' = proc
     ELSE /\ Signal({procs.candidate})
          /\ IF route.candidate = None THEN Return
             ELSE w' = Task("await", v, 0, None)
  /\ UNCHANGED <<files, npid, ready, gens, client, faults, history, done>>

CandidateAwait ==
  /\ w.pc = "await"
  /\ PortClosed(route.candidate.port)
  /\ Goto("clear")
  /\ UNCHANGED <<files, node, gens, client, faults, history, done>>

CandidateClear ==
  /\ w.pc = "clear"
  /\ route' = [route EXCEPT !.candidate = None]
  /\ Goto("spawn")
  /\ UNCHANGED <<procs, rb, node, gens, client, faults, history, done>>

CandidateSpawn ==
  /\ w.pc = "spawn"
  /\ npid' = npid + 1
  /\ proc' = [proc EXCEPT ![npid + 1] = [st |-> "starting", name |-> w.name,
                                         port |-> route.next, served |-> FALSE]]
  /\ ready' = ready \ {w.name}
  /\ w' = Task("ready", w.name, npid + 1, None)
  /\ UNCHANGED <<files, gens, client, faults, history, done>>

\* The ready file is looked at before the process is polled.
CandidateReady ==
  /\ w.pc = "ready"
  /\ \/ /\ w.name \in ready
        /\ Goto("record")
     \/ /\ w.name \notin ready
        /\ proc[w.pid].st \in {"failed", "dead"}
        /\ Return
  /\ UNCHANGED <<files, node, gens, client, faults, history, done>>

CandidateRecord ==
  /\ w.pc = "record"
  /\ procs' = [procs EXCEPT !.candidate = w.pid]
  /\ Goto("publish")
  /\ UNCHANGED <<route, rb, node, gens, client, faults, history, done>>

\* A mutant of CandidatePublish: the port is used again.
CandidatePublishSamePort ==
  /\ w.pc = "publish"
  /\ gens' = gens + 1
  /\ route' = [route EXCEPT
       !.candidate = [name |-> w.name, port |-> route.next,
                      gen |-> gens + 1, approved |-> FALSE]]
  /\ Return
  /\ UNCHANGED <<procs, rb, node, client, faults, history, done>>

\* The wrapper saves the entry once more with the hash of its own policy.
CandidatePublish ==
  /\ w.pc = "publish"
  /\ gens' = gens + 1
  /\ route' = [route EXCEPT
       !.candidate = [name |-> w.name, port |-> route.next,
                      gen |-> gens + 1, approved |-> FALSE],
       !.next = @ + 1]
  /\ Return
  /\ UNCHANGED <<procs, rb, node, client, faults, history, done>>

\* Three seconds pass in wait_listen or in the wait for the ready file.
Timeout ==
  /\ \/ w.pc = "await" /\ ~PortClosed(route.candidate.port)
     \/ w.pc = "discarding" /\ ~PortClosed(w.old.port)
     \/ w.pc = "ready" /\ w.name \notin ready
  /\ GiveUp

\* discard: the entry goes first, the process after it.
Discard ==
  /\ Start
  /\ route' = [route EXCEPT !.candidate = None]
  /\ w' = Task("discard", Base, 0, route.candidate)
  /\ UNCHANGED <<procs, rb, node, gens, client, faults, history, done>>

DiscardStop ==
  /\ w.pc = "discard"
  /\ IF procs.candidate = 0
     THEN Return /\ proc' = proc
     ELSE /\ Signal({procs.candidate})
          /\ IF w.old = None THEN Return ELSE Goto("discarding")
  /\ UNCHANGED <<files, npid, ready, gens, client, faults, history, done>>

DiscardAwait ==
  /\ w.pc = "discarding"
  /\ PortClosed(w.old.port)
  /\ Goto("discarded")
  /\ UNCHANGED <<files, node, gens, client, faults, history, done>>

DiscardSave ==
  /\ w.pc = "discarded"
  /\ procs' = [procs EXCEPT !.candidate = 0]
  /\ Return
  /\ UNCHANGED <<route, rb, node, gens, client, faults, history, done>>

\* Mutants of Bound and of Approves: evidence of any generation is accepted, the
\* negative evidence is not asked for.
BoundToAny == route.candidate # None
ApprovesRequiredOnly ==
  /\ route.candidate # None
  /\ bundle.bind = route.candidate.gen
  /\ bundle.pos # None
  /\ bundle.pos.name = route.candidate.name

\* The decision: the declared generation is the candidate's; the required
\* clients saw its certificate, after its creation, and not too long ago; the
\* forbidden clients were refused.  The age of the latter is not looked at.
Bound == route.candidate # None /\ bundle.bind = route.candidate.gen

RequiredEvidence ==
  /\ bundle.pos # None
  /\ bundle.pos.name = route.candidate.name
  /\ bundle.pos.epoch >= route.candidate.gen
  /\ bundle.pos.fresh

Approves ==
  /\ Bound
  /\ RequiredEvidence
  /\ bundle.neg # None

\* promote: the wrapper decides and remembers what is active before the gate's
\* promote, which decides again.
Promote ==
  /\ Start
  /\ Approves
  /\ w' = Task("promote", Base, procs.active, route.active)
  /\ UNCHANGED <<files, node, gens, client, faults, history, done>>

\* Mutants of PromoteProcs: the promoted server stays the candidate as well, the
\* former active one is not retained.
PromoteProcsKeepEntry ==
  /\ w.pc = "promote"
  /\ procs' = [procs EXCEPT !.active = procs.candidate, !.retired = @ \cup {procs.active}]
  /\ Goto("switch")
  /\ UNCHANGED <<route, rb, node, gens, client, faults, history, done>>

PromoteProcsForget ==
  /\ w.pc = "promote"
  /\ procs' = [procs EXCEPT !.active = procs.candidate, !.candidate = 0]
  /\ Goto("switch")
  /\ UNCHANGED <<route, rb, node, gens, client, faults, history, done>>

PromoteProcs ==
  /\ w.pc = "promote"
  /\ IF Approves /\ procs.candidate # 0
     THEN /\ procs' = [active |-> procs.candidate, candidate |-> 0,
                       retired |-> procs.retired \cup {procs.active}]
          /\ Goto("switch")
     ELSE Return /\ procs' = procs
  /\ UNCHANGED <<route, rb, node, gens, client, faults, history, done>>

\* An abandoned server that refuses classical clients has had the target's port:
\* the measurements of the target may be of that server.
Impostor(target) ==
  \E p \in abandoned : /\ Heard(p)
                       /\ proc[p].port = target.port
                       /\ proc[p].name \in Pqc

PromoteRoute ==
  /\ w.pc = "switch"
  /\ route' = [route EXCEPT !.active = route.candidate, !.candidate = None]
  /\ proc' = [proc EXCEPT ![procs.active].served = TRUE]
  /\ misled' = misled \cup (IF Impostor(route.candidate) THEN {route.candidate.gen} ELSE {})
  /\ IF Release THEN Goto("keep") ELSE Return
  /\ UNCHANGED <<procs, rb, npid, ready, gens, client, faults, trusted, abandoned, lost, done>>

\* Mutants of PromoteKeep: every former version counts as approved, the pid is
\* read after the gate has moved it.
PromoteKeepTrusting ==
  /\ w.pc = "keep"
  /\ rb' = [route |-> w.old, pid |-> w.pid, approved |-> TRUE]
  /\ Goto("approve")
  /\ UNCHANGED <<route, procs, node, gens, client, faults, history, done>>

PromoteKeepLate ==
  /\ w.pc = "keep"
  /\ rb' = [route |-> w.old, pid |-> procs.candidate, approved |-> w.old.approved]
  /\ Goto("approve")
  /\ UNCHANGED <<route, procs, node, gens, client, faults, history, done>>

PromoteKeep ==
  /\ w.pc = "keep"
  /\ rb' = [route |-> w.old, pid |-> w.pid, approved |-> w.old.approved]
  /\ Goto("approve")
  /\ UNCHANGED <<route, procs, node, gens, client, faults, history, done>>

PromoteApprove ==
  /\ w.pc = "approve"
  /\ route' = [route EXCEPT !.active = [@ EXCEPT !.approved = TRUE],
                            !.rollback = IF w.old.approved THEN w.old ELSE None]
  /\ trusted' = trusted \cup {route.active.gen}
  /\ Return
  /\ UNCHANGED <<procs, rb, node, gens, client, faults, abandoned, lost, misled, done>>

\* rollback: only to an approved former version that a recent health check
\* found on the policy's algorithms and with that version's certificate.
HealthyTarget ==
  /\ health # None
  /\ health.fresh
  /\ health.name = rb.route.name

Rollback ==
  /\ Release
  /\ Start
  /\ rb # None
  /\ rb.approved
  /\ HealthyTarget
  /\ w' = Task("restore", Base, 0, None)
  /\ UNCHANGED <<files, node, gens, client, faults, history, done>>

\* A mutant of RollbackProcs: processes.json is not saved.
RollbackProcsUnsaved ==
  /\ w.pc = "restore"
  /\ Goto("restored")
  /\ UNCHANGED <<files, node, gens, client, faults, history, done>>

RollbackProcs ==
  /\ w.pc = "restore"
  /\ procs' = [procs EXCEPT !.active = rb.pid]
  /\ Goto("restored")
  /\ UNCHANGED <<route, rb, node, gens, client, faults, history, done>>

RollbackRoute ==
  /\ w.pc = "restored"
  /\ route' = [route EXCEPT !.active = rb.route, !.rollback = None]
  /\ Return
  /\ UNCHANGED <<procs, rb, node, gens, client, faults, history, done>>

\* fault-active: the experiment kills the recorded active process.
FaultActive ==
  /\ Release
  /\ Start
  /\ Signal({procs.active})
  /\ UNCHANGED <<files, npid, ready, gens, w, client, faults, history, done>>

Recorded == {procs.active, procs.candidate} \cup procs.retired

Cleanup ==
  /\ Start
  /\ done' = TRUE
  /\ Signal(Recorded)
  /\ UNCHANGED <<files, npid, ready, gens, w, client, faults, history>>

-----------------------------------------------------------------------------
\* The controller's measurements, between commands, through the router.

\* The versions that may answer a connection to this target.
Answering(target) ==
  IF target = None THEN {}
  ELSE {proc[p].name : p \in {q \in Pids : Holding(q) /\ proc[q].port = target.port}}

Measured(v) == [name |-> v, epoch |-> gens, fresh |-> TRUE]

\* Evidence for a new candidate is collected from nothing.
NewBundle ==
  /\ Start
  /\ route.candidate # None
  /\ bundle' = [bind |-> route.candidate.gen, pos |-> None, neg |-> None]
  /\ UNCHANGED <<files, node, gens, w, health, conn, faults, history, done>>

\* The required clients and, for a release, the arrival windows.
MeasureRequired ==
  /\ Start
  /\ \E v \in Answering(route.candidate) \cap Capable :
       bundle' = [bundle EXCEPT !.pos = Measured(v)]
  /\ UNCHANGED <<files, node, gens, w, health, conn, faults, history, done>>

MeasureForbidden ==
  /\ Start
  /\ \E v \in Answering(route.candidate) \cap Pqc :
       bundle' = [bundle EXCEPT !.neg = Measured(v)]
  /\ UNCHANGED <<files, node, gens, w, health, conn, faults, history, done>>

MeasureHealth ==
  /\ Release
  /\ Start
  /\ \E target \in {route.active, route.rollback} :
       \E v \in Answering(target) \cap Capable : health' = Measured(v)
  /\ UNCHANGED <<files, node, gens, w, bundle, conn, faults, history, done>>

\* Time passes: what the controller holds is now too old.  Nobody looks at the age
\* of negative evidence.
Stale(e) == IF e = None THEN None ELSE [e EXCEPT !.fresh = FALSE]

Age ==
  /\ bundle' = [bundle EXCEPT !.pos = Stale(@)]
  /\ health' = Stale(health)
  /\ UNCHANGED <<files, node, gens, w, conn, faults, history, done>>

-----------------------------------------------------------------------------
\* A client connection: the router reads route.json, then connects, then relays
\* until one end closes.

NoConn == [pc |-> "none", kind |-> "active", name |-> Base, port |-> 0, pid |-> 0]

ConnRoute(kind) ==
  /\ conn = NoConn
  /\ route[kind] # None
  /\ conn' = [pc |-> "routed", kind |-> kind, name |-> route[kind].name,
              port |-> route[kind].port, pid |-> 0]
  /\ UNCHANGED <<files, node, gens, w, bundle, health, faults, history, done>>

ConnJoin ==
  /\ conn.pc = "routed"
  /\ \/ \E p \in Pids : /\ Holding(p) /\ proc[p].port = conn.port
                        /\ conn' = [conn EXCEPT !.pc = "joined", !.pid = p]
     \/ PortClosed(conn.port) /\ conn' = NoConn
  /\ UNCHANGED <<files, node, gens, w, bundle, health, faults, history, done>>

ConnEnd ==
  /\ conn.pc = "joined"
  /\ conn' = NoConn
  /\ UNCHANGED <<files, node, gens, w, bundle, health, faults, history, done>>

-----------------------------------------------------------------------------
Init ==
  /\ route = [active |-> [name |-> Base, port |-> 0, gen |-> 0, approved |-> FALSE],
              candidate |-> None, rollback |-> None, next |-> 1]
  /\ procs = [active |-> 1, candidate |-> 0, retired |-> {}]
  /\ rb = None
  /\ proc = [p \in Pids |->
       [st |-> IF p = 1 THEN "listening" ELSE "none", name |-> Base,
        port |-> 0, served |-> p = 1]]
  /\ npid = 1
  /\ ready = {Base}
  /\ gens = 0
  /\ w = Idle
  /\ bundle = [bind |-> 0, pos |-> None, neg |-> None]
  /\ health = None
  /\ conn = NoConn
  /\ faults = 0
  /\ trusted = {} /\ abandoned = {} /\ lost = {} /\ misled = {}
  /\ done = FALSE

Servers == \E p \in Pids : Listen(p) \/ Exit(p) \/ Die(p)

CandidateSteps ==
  \/ CandidateAwait \/ CandidateClear \/ CandidateSpawn \/ CandidateReady
  \/ CandidateRecord \/ CandidatePublish

DiscardSteps == DiscardStop \/ DiscardAwait \/ DiscardSave
PromoteSteps == PromoteProcs \/ PromoteRoute \/ PromoteKeep \/ PromoteApprove
RollbackSteps == RollbackProcs \/ RollbackRoute

Commands ==
  \/ \E v \in Versions : Candidate(v)
  \/ Discard \/ Promote \/ Rollback \/ FaultActive \/ Cleanup

Measurements ==
  \/ NewBundle \/ MeasureRequired \/ MeasureForbidden \/ MeasureHealth \/ Age

Connections ==
  \/ \E kind \in Kinds : ConnRoute(kind)
  \/ ConnJoin \/ ConnEnd

Next ==
  \/ Servers
  \/ Commands \/ CandidateSteps \/ DiscardSteps \/ PromoteSteps \/ RollbackSteps
  \/ Timeout \/ Kill
  \/ Measurements
  \/ Connections

Spec == Init /\ [][Next]_vars

-----------------------------------------------------------------------------
ProcessStates == {"none", "starting", "failed", "listening", "stopping", "dead"}
Labels == {"idle", "await", "clear", "spawn", "ready", "record", "publish",
           "discard", "discarding", "discarded", "promote", "switch", "keep",
           "approve", "restore", "restored"}

\* What the variables that are records or functions range over.
RouteFile == [active : Target, candidate : Target \cup {None},
              rollback : Target \cup {None}, next : Nat]
ProcsFile == [active : Pids, candidate : Pids \cup {0}, retired : SUBSET Pids]
RbFile    == [route : Target, pid : Pids, approved : BOOLEAN]
Server    == [st : ProcessStates, name : Names, port : Nat, served : BOOLEAN]
Worker    == [pc : Labels, name : Names, pid : Pids \cup {0},
              old : Target \cup {None}]
Bundle    == [bind : Nat, pos : Evidence \cup {None}, neg : Evidence \cup {None}]
Conn      == [pc : {"none", "routed", "joined"},
              kind : {"active", "candidate", "rollback"}, name : Names,
              port : Nat, pid : Pids \cup {0}]

(* Every variable has its type.                                               *)
TypeOK ==
  /\ route \in RouteFile
  /\ procs \in ProcsFile
  /\ rb \in RbFile \cup {None}
  /\ proc \in [Pids -> Server]
  /\ npid \in Pids
  /\ ready \subseteq Names
  /\ gens \in Nat
  /\ w \in Worker
  /\ bundle \in Bundle
  /\ health \in Evidence \cup {None}
  /\ conn \in Conn
  /\ faults \in Nat
  /\ trusted \subseteq Nat /\ misled \subseteq Nat
  /\ abandoned \subseteq Pids /\ lost \subseteq Pids
  /\ done \in BOOLEAN

(* Evidence that the decision accepts was measured on the candidate it names: *)
(* an approved candidate refuses every classical client, although evidence    *)
(* outlives candidates, and candidates, ports and processes come and go while *)
(* it is collected.  The one exception is a port on which an abandoned launch *)
(* has left another server (gate_worker.py decision, lines 178 to 195).       *)
ApprovalIsSound ==
  Approves => route.candidate.name \in Pqc \/ Impostor(route.candidate)

\* A target that refuses classical clients, or was measured beside an impostor.
Secure(target) == target.name \in Pqc \/ target.gen \in misled

(* No sequence of commands, worker kills and server deaths takes a service    *)
(* that is PQC only back to a version that is not: neither a promotion nor a  *)
(* rollback from a rollback.json of whatever age.                             *)
NeverBackToClassical ==
  [][route.active.name \in Pqc => Secure(route.active)']_vars

(* What rollback.json calls approved was promoted to the end of the release   *)
(* procedure and refuses classical clients (release_worker.py, lines 86-98).  *)
RollbackTargetIsTrusted ==
  rb # None /\ rb.approved => Secure(rb.route) /\ rb.route.gen \in trusted

(* The worker implements the contract: the active route moves only to a new,  *)
(* PQC-only generation or back to one whose release was completed, whatever   *)
(* worker kills leave of the four saves of a promotion.                       *)
Contract == INSTANCE ReleaseContract WITH
  gen <- route.active.gen,
  secure <- Secure(route.active),
  trusted <- trusted

ImplementsContract == Contract!Spec

(* A server that has ever been the active one is stopped only as the recorded *)
(* active process by the fault injection, or at cleanup: neither discard nor  *)
(* the start of a candidate ends its sessions (gate_worker.py:203,            *)
(* gate_suite.py:108).                                                        *)
SessionsSurvive ==
  [][\A p \in Pids :
       proc[p].served /\ proc[p].st = "listening" /\ proc'[p].st = "stopping"
         => done' \/ (p = procs.active /\ p # procs.candidate)]_vars

(* A port is used for one server: of two servers that have listened on the    *)
(* same port, one was abandoned by its launch.  A port is tried again after a  *)
(* launch that failed (gate_worker.py:24, 171 "use a fresh port for each       *)
(* candidate").                                                               *)
PortIsOneServer ==
  \A p, q \in Pids :
    p # q /\ Heard(p) /\ Heard(q) /\ proc[p].port = proc[q].port
      => p \in abandoned \/ q \in abandoned

(* A connection reaches the version the router chose for it, or nothing: the  *)
(* route may change between reading route.json and connecting, but the port   *)
(* read is never another version's, except that of an abandoned server.       *)
RoutedIdentity ==
  conn.pc = "joined" => proc[conn.pid].name = conn.name \/ conn.pid \in abandoned

(* Between commands, and when nothing failed, the two files agree: the        *)
(* recorded pids are the servers of the recorded targets, a candidate is in   *)
(* both files or in none, and rollback.json pairs a target with its server.   *)
Serves(p, target) == proc[p].name = target.name /\ proc[p].port = target.port

FilesAgree ==
  w.pc = "idle" /\ faults = 0 =>
    /\ Serves(procs.active, route.active)
    /\ (procs.candidate = 0) <=> (route.candidate = None)
    /\ route.candidate # None => Serves(procs.candidate, route.candidate)
    /\ rb # None => Serves(rb.pid, rb.route)

(* gate_worker.py:203 "retained processes are stopped at lab cleanup."        *)
CleanupStopsEveryServer ==
  done => \A p \in Pids : proc[p].st \notin {"starting", "listening"}

(* Without rollbacks, cleanup misses only servers whose launch ended before   *)
(* it had saved them: every other one is in processes.json until it has been  *)
(* told to stop, whatever was killed between two saves.                       *)
CleanupStopsRecorded ==
  done => \A p \in Pids \ lost : proc[p].st \notin {"starting", "listening"}
================================================================================
