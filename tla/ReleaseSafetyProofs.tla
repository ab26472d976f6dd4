------------------------- MODULE ReleaseSafetyProofs -------------------------
(***************************************************************************)
(* The safety properties of the deployment worker, for every set of         *)
(* versions and any number of processes and faults.                         *)
(*                                                                          *)
(* The inductive invariant has four parts: the ports of the servers that    *)
(* no launch abandoned (ProcInv), that every target the worker remembers    *)
(* owns its port but for abandoned servers (OwnInv, ConnInv), the           *)
(* generations of the evidence (EvidenceInv) and what the state files and   *)
(* the worker vouch for (VouchInv).  The sessions, the cleanup and the      *)
(* agreement of the files have invariants of their own.                     *)
(***************************************************************************)
EXTENDS ReleaseLifecycleProofs

USE NamesAssumption, ModesAssumption, BoundsAssumption, NoneAssumption
USE DEF history, UnrecordedSteps

\* The server of a launch that is not yet in the state files.
Launching(p) == w.pc \in LaunchSteps /\ p = w.pid /\ proc[p].port = route.next

\* A server that may have its port, or had it, and that its launch did not abandon.
Present(p) == proc[p].st \notin {"none", "failed"}
Ours(p) == Present(p) /\ p \notin abandoned

\* Each of them has a port of its own, below next_port but for the one being
\* launched; a launch that gives up on its server has seen it fail.
ProcInv ==
  /\ \A p \in Pids : p > npid => proc[p].st = "none"
  /\ \A p \in Pids : Ours(p) => proc[p].port < route.next \/ Launching(p)
  /\ \A p, q \in Pids : Ours(p) /\ Ours(q) /\ proc[p].port = proc[q].port => p = q
  /\ w.pc \in LaunchSteps \cup {"spawn"} => route.candidate = None
  /\ w.pc \in LaunchSteps => proc[w.pid].name = w.name
  /\ w.pc = "ready" /\ Heard(w.pid) => w.name \in ready

\* A port that was used, and that only servers of this version have, or
\* abandoned ones.
Owned(port, name) ==
  /\ port < route.next
  /\ \A p \in Pids : Ours(p) /\ proc[p].port = port => proc[p].name = name

\* The targets in the state files and in the worker's memory.
Remembered(t) ==
  \/ t \in {route.active, route.candidate, route.rollback, w.old}
  \/ rb # None /\ t = rb.route

OwnInv ==
  \A t \in Target : Remembered(t) => Owned(t.port, t.name)

ConnInv ==
  /\ conn.pc = "routed" => Owned(conn.port, conn.name)
  /\ conn.pc = "joined" => /\ conn.pid \in Pids
                           /\ proc[conn.pid].st # "none"
                           /\ proc[conn.pid].name = conn.name \/ conn.pid \in abandoned

\* Evidence that declares the newest generation was measured on its version, or
\* on an impostor.
EvidenceInv ==
  /\ route.candidate # None => route.candidate.gen = gens /\ ~route.candidate.approved
  /\ bundle.bind <= gens
  /\ bundle.neg # None =>
       /\ bundle.neg.name \in Pqc
       /\ bundle.bind = gens /\ route.candidate # None
            => bundle.neg.name = route.candidate.name \/ Impostor(route.candidate)

\* An approved target was promoted to the end and refuses classical clients.
Vouched(t) == t.approved => Secure(t) /\ t.gen \in trusted

VouchInv ==
  /\ Vouched(route.active)
  /\ rb # None => Vouched(rb.route) /\ rb.approved = rb.route.approved
  /\ w.pc \in {"promote", "switch", "keep", "approve"} => Vouched(w.old)
  /\ w.pc = "switch" => route.candidate.name \in Pqc \/ Impostor(route.candidate)
  /\ w.pc \in {"keep", "approve"} => Secure(route.active)
  /\ w.pc \in {"restore", "restored"} => rb.approved

\* Generations only grow: the candidate is newer than all that was active.
GenInv ==
  /\ route.active.gen <= gens
  /\ \A g \in trusted : g <= gens
  /\ route.candidate # None =>
       route.active.gen < gens /\ \A g \in trusted : g < gens

-----------------------------------------------------------------------------
\* Ports.

\* What no step of the system undoes: next_port does not fall, a server keeps
\* its name and port, and one that becomes ours is given a fresh port.
Steady ==
  /\ route'.next >= route.next
  /\ abandoned \subseteq abandoned'
  /\ \A p \in Pids : Ours(p)' =>
       \/ Ours(p) /\ proc'[p].port = proc[p].port
       \/ proc'[p].port >= route.next
  /\ \A p \in Pids : Heard(p) => Heard(p)' /\ proc'[p].port = proc[p].port
  /\ \A p \in Pids : proc[p].st # "none" =>
       proc'[p].st # "none" /\ proc'[p].name = proc[p].name

\* What a step that starts no server does to one.
Lasts(p) ==
  /\ proc'[p].port = proc[p].port /\ proc'[p].name = proc[p].name
  /\ Present(p)' => Present(p)
  /\ Heard(p) => Heard(p)'
  /\ proc[p].st = "none" <=> proc'[p].st = "none"

\* A step that starts no server and is no part of a launch.
Calm ==
  /\ npid' = npid /\ route'.next = route.next
  /\ abandoned \subseteq abandoned' /\ ready \subseteq ready'
  /\ \A p \in Pids : Lasts(p) /\ (Heard(p)' => Heard(p) \/ proc[p].name \in ready')
  /\ \/ w' = w /\ route'.candidate = route.candidate
     \/ w.pc \notin LaunchSteps /\ w'.pc \notin LaunchSteps \cup {"spawn"}

LEMMA CalmStep ==
  ASSUME TypeInv, TypeInv', ProcInv, Calm
  PROVE  ProcInv' /\ Steady
<1> USE DEF Calm, Lasts
<1>0. \A p \in Pids : Ours(p)' => Ours(p)
  BY DEF Ours
<1>1. Steady
  <2>1. route.next \in Nat
    BY RouteFields DEF TypeInv, TypeOK
  <2> QED BY <1>0, <2>1 DEF Steady
<1>2. \A p \in Pids : (p > npid => proc[p].st = "none")'
  BY DEF ProcInv
<1>3. ASSUME NEW p \in Pids, Ours(p)'
      PROVE  proc'[p].port < route'.next \/ Launching(p)'
  BY <1>0, <1>3 DEF ProcInv, Launching
<1>4. (w.pc \in LaunchSteps \cup {"spawn"} => route.candidate = None)'
  BY DEF ProcInv, LaunchSteps
<1>5. (w.pc \in LaunchSteps => proc[w.pid].name = w.name)'
  BY DEF ProcInv, LaunchSteps, TypeInv, LabelInv
<1>6. ASSUME NEW p \in Pids, NEW q \in Pids, Ours(p)', Ours(q)',
             proc'[p].port = proc'[q].port
      PROVE  p = q
  BY <1>0, <1>6 DEF ProcInv
<1>7. (w.pc = "ready" /\ Heard(w.pid) => w.name \in ready)'
  <2> SUFFICES ASSUME (w.pc = "ready" /\ Heard(w.pid))' PROVE (w.name \in ready)'
    OBVIOUS
  <2>1. w' = w /\ w.pid \in Pids /\ w.pc \in LaunchSteps
    BY DEF LaunchSteps, TypeInv, LabelInv
  <2>2. PICK p \in Pids : p = w.pid
    BY <2>1
  <2>3. Heard(p)'
    BY <2>1, <2>2 DEF Heard
  <2>4. w.pc = "ready" /\ proc[p].name = w.name /\ (Heard(p) => w.name \in ready)
    BY <2>1, <2>2 DEF ProcInv
  <2> QED BY <2>1, <2>3, <2>4
<1> QED BY <1>1, <1>2, <1>3, <1>4, <1>5, <1>6, <1>7 DEF ProcInv

\* Signals and deaths of servers are calm.
LEMMA SignalCalm ==
  ASSUME TypeInv, NEW S, Signal(S), NEW p \in Pids
  PROVE  Lasts(p) /\ (Heard(p)' => Heard(p)) /\ proc'[p].served = proc[p].served
<1>1. proc[p] \in Server
  BY DEF TypeInv, TypeOK
<1>2. AfterSignal[proc[p].st] \in ProcessStates
  BY <1>1 DEF Server, ProcessStates, AfterSignal
<1>3. CASE p \in S
  <2>1. proc'[p] = [proc[p] EXCEPT !.st = AfterSignal[proc[p].st]]
    BY <1>3 DEF Signal
  <2>2. /\ proc'[p].st = AfterSignal[proc[p].st]
        /\ proc'[p].port = proc[p].port /\ proc'[p].name = proc[p].name
        /\ proc'[p].served = proc[p].served
    BY <1>1, <1>2, <2>1, ServerState
  <2> QED BY <1>1, <2>2 DEF Lasts, Present, Heard, AfterSignal, Server, ProcessStates
<1>4. CASE p \notin S
  BY <1>4 DEF Signal, Lasts, Present, Heard
<1> QED BY <1>3, <1>4

LEMMA StateCalm ==
  ASSUME TypeInv, NEW q \in Pids, NEW s \in ProcessStates \ {"none"}, Present(q),
         Heard(q) => s \in {"listening", "stopping", "dead"},
         proc' = [proc EXCEPT ![q].st = s], NEW p \in Pids
  PROVE  /\ Lasts(p)
         /\ p # q => (Heard(p)' => Heard(p))
         /\ s = "failed" => (Heard(p)' => Heard(p))
<1>1. proc[p] \in Server /\ s \in ProcessStates
  BY DEF TypeInv, TypeOK
<1>2. CASE p = q
  <2>1. proc'[p] = [proc[p] EXCEPT !.st = s]
    BY <1>2 DEF TypeInv, TypeOK
  <2>2. /\ proc'[p].st = s
        /\ proc'[p].port = proc[p].port /\ proc'[p].name = proc[p].name
    BY <1>1, <2>1 DEF Server
  <2>3. proc[p].st # "none" /\ s # "none" /\ (Present(p)' => Present(p))
    BY <1>2 DEF Present
  <2>4. (Heard(p) => Heard(p)') /\ (s = "failed" => ~Heard(p)')
    BY <1>2, <2>2 DEF Heard
  <2>5. Lasts(p)
    BY <2>2, <2>3, <2>4 DEF Lasts
  <2>6. p # q => (Heard(p)' => Heard(p))
    BY <1>2
  <2>7. s = "failed" => (Heard(p)' => Heard(p))
    BY <2>4
  <2> QED BY <2>5, <2>6, <2>7
<1>3. CASE p # q
  BY <1>3 DEF TypeInv, TypeOK, Lasts, Present, Heard
<1> QED BY <1>2, <1>3

LEMMA SameServers ==
  ASSUME proc' = proc, NEW p \in Pids
  PROVE  Lasts(p) /\ (Heard(p)' => Heard(p))
  BY DEF Lasts, Present, Heard

\* The steps of a launch.
LEMMA SpawnStep ==
  ASSUME TypeInv, TypeInv', ProcInv, CandidateSpawn
  PROVE  ProcInv' /\ Steady
<1> DEFINE q == npid + 1
<1>0. w.pc = "spawn" /\ npid' = q /\ q \in Pids /\ q > npid
  BY DEF CandidateSpawn, TypeInv, TypeOK, LabelInv, Pids
<1>1. /\ q \in Pids /\ npid' = q /\ w.name \in Names /\ route.next \in Nat
      /\ route' = route /\ route.candidate = None
      /\ proc[q].st = "none"
  <2>1. w.name \in Names /\ route.next \in Nat
    BY RouteFields DEF TypeInv, TypeOK, Worker
  <2>2. route.candidate = None /\ proc[q].st = "none"
    BY <1>0 DEF ProcInv
  <2> QED BY <1>0, <2>1, <2>2 DEF CandidateSpawn, files
<1>2. /\ proc'[q].st = "starting" /\ proc'[q].name = w.name
      /\ proc'[q].port = route.next
      /\ \A p \in Pids \ {q} : proc'[p] = proc[p]
  BY <1>1 DEF CandidateSpawn, TypeInv, TypeOK
<1>3. w'.pc = "ready" /\ w'.pid = q /\ w'.name = w.name
  BY DEF CandidateSpawn, Task
<1>a. abandoned' = abandoned
  BY DEF CandidateSpawn
<1> HIDE DEF q
<1>4. Steady
  BY <1>1, <1>2, <1>a DEF Steady, Ours, Present, Heard
<1>b. ASSUME NEW p \in Pids, Ours(p)', p # q
      PROVE  Ours(p) /\ proc'[p].port < route.next /\ proc'[p].port \in Nat
  <2>1. Ours(p) /\ proc'[p] = proc[p]
    BY <1>1, <1>2, <1>a, <1>b DEF Ours, Present
  <2>2. proc[p].port < route.next
    BY <1>0, <2>1 DEF ProcInv, Launching, LaunchSteps
  <2> QED BY <2>1, <2>2 DEF TypeInv, TypeOK, Server
<1>5. ASSUME NEW p \in Pids, Ours(p)'
      PROVE  proc'[p].port < route'.next \/ Launching(p)'
  <2>1. CASE p = q
    BY <1>1, <1>2, <1>3, <2>1 DEF Launching, LaunchSteps
  <2>2. CASE p # q
    BY <1>1, <1>5, <1>b, <2>2
  <2> QED BY <2>1, <2>2
<1>7. ASSUME NEW p1 \in Pids, NEW p2 \in Pids, Ours(p1)', Ours(p2)',
             proc'[p1].port = proc'[p2].port
      PROVE  p1 = p2
  <2>1. CASE p1 # q /\ p2 # q
    BY <1>2, <1>7, <1>b, <2>1 DEF ProcInv
  <2>2. CASE p1 = q \/ p2 = q
    BY <1>1, <1>2, <1>7, <1>b, <2>2
  <2> QED BY <2>1, <2>2
<1>8. (w.pc = "ready" /\ Heard(w.pid) => w.name \in ready)'
  BY <1>2, <1>3 DEF Heard
<1>6. \A p \in Pids : (p > npid => proc[p].st = "none")'
  BY <1>1, <1>2 DEF ProcInv, q, TypeInv, TypeOK, Pids
<1> QED BY <1>1, <1>2, <1>3, <1>4, <1>5, <1>6, <1>7, <1>8 DEF ProcInv

LEMMA PublishStep ==
  ASSUME TypeInv, TypeInv', ProcInv, CandidatePublish
  PROVE  /\ ProcInv' /\ Steady
         /\ route'.candidate # None
         /\ Owned(route.candidate.port, route.candidate.name)'
<1>1. /\ route.next \in Nat /\ route'.next = route.next + 1
      /\ route'.candidate = [name |-> w.name, port |-> route.next,
                             gen |-> gens + 1, approved |-> FALSE]
      /\ w.name \in Names /\ gens + 1 \in Nat
  BY RouteFields DEF CandidatePublish, TypeInv, TypeOK, RouteFile, Worker
<1>2. route'.candidate \in Target
  BY <1>1, TargetType
<1>3. proc' = proc /\ npid' = npid /\ w'.pc = "idle"
  BY DEF CandidatePublish, node, Return, Idle, Task
<1>a. abandoned' = abandoned
  BY DEF CandidatePublish
<1>4. Steady
  BY <1>1, <1>3, <1>a DEF Steady, Ours, Present, Heard
<1>5. \A p \in Pids : proc[p].port \in Nat
  BY DEF TypeInv, TypeOK, Server
<1>6. \A p \in Pids : Ours(p) => proc[p].port < route'.next
  BY <1>1, <1>5 DEF ProcInv, Launching
<1>7. ProcInv'
  BY <1>1, <1>3, <1>6, <1>a DEF ProcInv, Ours, Present, LaunchSteps
<1>8. \A p \in Pids : Ours(p) /\ proc[p].port = route.next => proc[p].name = w.name
  BY <1>1, <1>5 DEF ProcInv, Launching, CandidatePublish, LaunchSteps
<1>9. Owned(route.candidate.port, route.candidate.name)'
  BY <1>1, <1>3, <1>8, <1>a DEF Owned, Ours, Present
<1>10. route'.candidate # None
  BY <1>2
<1> QED BY <1>4, <1>7, <1>9, <1>10

\* The histories grow, and ready files are only removed when a server is started.
LEMMA Histories ==
  ASSUME [Next]_vars
  PROVE  /\ abandoned \subseteq abandoned' /\ misled \subseteq misled'
         /\ lost \subseteq lost'
         /\ GiveUp \/ (abandoned' = abandoned /\ lost' = lost)
         /\ CandidateSpawn \/ ready \subseteq ready'
         /\ PromoteRoute \/ misled' = misled
  BY DEF Next, Servers, Commands, CandidateSteps, DiscardSteps, PromoteSteps, RollbackSteps,
         Measurements, Connections, Listen, Exit, Die, Candidate, CandidateAwait,
         CandidateClear, CandidateSpawn, CandidateReady, CandidateRecord, CandidatePublish,
         Discard, DiscardStop, DiscardAwait, DiscardSave, Promote, PromoteProcs,
         PromoteRoute, PromoteKeep, PromoteApprove, Rollback, RollbackProcs, RollbackRoute,
         FaultActive, Cleanup, Timeout, Kill, GiveUp, NewBundle, MeasureRequired,
         MeasureForbidden, MeasureHealth, Age, ConnRoute, ConnJoin, ConnEnd, node, vars

\* Every other step.
LEMMA ProcStep ==
  ASSUME TypeInv, TypeInv', ProcInv, [Next]_vars
  PROVE  ProcInv' /\ Steady
<1> SUFFICES ASSUME ~CandidateSpawn, ~CandidatePublish PROVE ProcInv' /\ Steady
  BY SpawnStep, PublishStep
<1>0. abandoned \subseteq abandoned' /\ ready \subseteq ready'
  BY Histories
<1>1. ASSUME NEW q \in Pids, Listen(q) PROVE Calm
  <2>1. npid' = npid /\ route' = route /\ w' = w /\ proc[q].st = "starting"
    BY <1>1 DEF Listen, files
  <2>2. Present(q) /\ ~Heard(q)
    BY <2>1 DEF Present, Heard
  <2>3. CASE proc' = [proc EXCEPT ![q].st = "listening"] /\ proc[q].name \in ready'
    <3>1. ASSUME NEW p \in Pids
          PROVE  Lasts(p) /\ (Heard(p)' => Heard(p) \/ proc[p].name \in ready')
      <4>1. "listening" \in ProcessStates \ {"none"}
        BY DEF ProcessStates
      <4> QED BY <2>2, <2>3, <4>1, StateCalm
    <3> QED BY <1>0, <2>1, <3>1 DEF Calm
  <2>4. CASE proc' = [proc EXCEPT ![q].st = "failed"]
    <3>1. ASSUME NEW p \in Pids PROVE Lasts(p) /\ (Heard(p)' => Heard(p))
      <4>1. "failed" \in ProcessStates \ {"none"}
        BY DEF ProcessStates
      <4> QED BY <2>2, <2>4, <4>1, StateCalm
    <3> QED BY <1>0, <2>1, <3>1 DEF Calm
  <2> QED BY <1>1, <2>3, <2>4 DEF Listen
<1>2. ASSUME NEW q \in Pids, Exit(q) \/ Die(q) PROVE Calm
  <2>1. npid' = npid /\ route' = route /\ w' = w
    BY <1>2 DEF Exit, Die, files
  <2>2. PICK s \in {"dead", "failed"} :
          /\ proc' = [proc EXCEPT ![q].st = s]
          /\ s = "failed" <=> proc[q].st = "starting"
    BY <1>2 DEF Exit, Die, TypeInv, TypeOK
  <2>3. /\ Present(q) /\ s \in ProcessStates \ {"none"}
        /\ Heard(q) => s \in {"listening", "stopping", "dead"}
        /\ s = "dead" => Heard(q)
    BY <1>2, <2>2 DEF Exit, Die, Present, Heard, ProcessStates
  <2>4. ASSUME NEW p \in Pids PROVE Lasts(p) /\ (Heard(p)' => Heard(p))
    BY <2>2, <2>3, StateCalm
  <2> QED BY <1>0, <2>1, <2>4 DEF Calm
<1>3. ASSUME NEW v \in Versions, Candidate(v) PROVE Calm
  <2>1. w.pc \notin LaunchSteps /\ w'.pc \notin LaunchSteps \cup {"spawn"}
    BY <1>3 DEF Candidate, Start, Return, Idle, Task, LaunchSteps
  <2>2. npid' = npid /\ route' = route
    BY <1>3 DEF Candidate, files
  <2> QED BY <1>0, <1>3, <2>1, <2>2, SignalCalm, SameServers DEF Candidate, Calm
<1>4. CASE CandidateAwait \/ DiscardAwait
  BY <1>0, <1>4, SameServers, GotoType, CalmStep
     DEF CandidateAwait, DiscardAwait, Calm, files, node, LaunchSteps, Labels, TypeInv, TypeOK
<1>5. CASE CandidateClear
  <2>1. /\ npid' = npid /\ route'.next = route.next /\ route'.candidate = None
        /\ w'.pc = "spawn" /\ w.pc \notin LaunchSteps
    BY <1>5, GotoType DEF CandidateClear, node, TypeInv, TypeOK, RouteFile, LaunchSteps, Labels
  <2>2. proc' = proc /\ abandoned' = abandoned
    BY <1>5 DEF CandidateClear, node
  <2> QED BY <2>1, <2>2 DEF ProcInv, Steady, Ours, Present, Heard, Launching, LaunchSteps,
            TypeInv, TypeOK, RouteFile
<1>6. CASE CandidateReady
  <2>1. /\ proc' = proc /\ npid' = npid /\ route' = route /\ w.pc = "ready"
        /\ abandoned' = abandoned /\ ready' = ready
    BY <1>6 DEF CandidateReady, node, files
  <2>0. route.next \in Nat /\ w.pid \in Pids
    BY <2>1, RouteFields DEF TypeInv, TypeOK, LabelInv, LaunchSteps
  <2>2. CASE Goto("record")
    <3>1. w'.pc = "record" /\ w'.pid = w.pid /\ w'.name = w.name
      BY <2>2, GotoType DEF TypeInv, TypeOK, Labels
    <3> QED BY <2>0, <2>1, <3>1 DEF ProcInv, Steady, Ours, Present, Heard, Launching,
              LaunchSteps
  <2>3. CASE w.name \notin ready /\ proc[w.pid].st \in {"failed", "dead"} /\ Return
    <3>1. w'.pc = "idle"
      BY <2>3 DEF Return, Idle, Task
    <3>2. ~Present(w.pid)
      BY <2>1, <2>3 DEF ProcInv, Heard, Present
    <3> QED BY <2>0, <2>1, <3>1, <3>2 DEF ProcInv, Steady, Ours, Present, Heard, Launching,
              LaunchSteps
  <2> QED BY <1>6, <2>2, <2>3 DEF CandidateReady
<1>7. CASE CandidateRecord
  <2>1. /\ proc' = proc /\ npid' = npid /\ route' = route /\ w.pc = "record"
        /\ abandoned' = abandoned
    BY <1>7 DEF CandidateRecord, node
  <2>2. w'.pc = "publish" /\ w'.pid = w.pid /\ w'.name = w.name
    BY <1>7, GotoType DEF CandidateRecord, TypeInv, TypeOK, Labels
  <2>3. route.next \in Nat
    BY RouteFields DEF TypeInv, TypeOK
  <2> QED BY <2>1, <2>2, <2>3 DEF ProcInv, Steady, Ours, Present, Heard, Launching,
            LaunchSteps
<1>8. CASE GiveUp
  <2>1. /\ npid' = npid /\ route' = route /\ proc' = proc /\ w'.pc = "idle"
        /\ w.pc \in LaunchSteps => w.pid \in abandoned'
    BY <1>8 DEF GiveUp, Return, Idle, Task, files, node
  <2>2. \A p \in Pids : Ours(p)' => Ours(p) /\ ~Launching(p)
    BY <1>0, <2>1 DEF Ours, Present, Launching
  <2>3. route.next \in Nat
    BY RouteFields DEF TypeInv, TypeOK
  <2> QED BY <1>0, <2>1, <2>2, <2>3 DEF ProcInv, Steady, Heard, LaunchSteps
<1>9. CASE Discard
  <2>1. w.pc \notin LaunchSteps /\ w'.pc \notin LaunchSteps \cup {"spawn"}
    BY <1>9 DEF Discard, Start, Task, LaunchSteps
  <2>2. npid' = npid /\ route'.next = route.next /\ proc' = proc
    BY <1>9 DEF Discard, node, TypeInv, TypeOK, RouteFile
  <2> QED BY <1>0, <2>1, <2>2, SameServers, CalmStep DEF Calm
<1>10. CASE DiscardStop
  <2>1. w.pc \notin LaunchSteps /\ w'.pc \notin LaunchSteps \cup {"spawn"}
    BY <1>10, GotoType
       DEF DiscardStop, Return, Idle, Task, LaunchSteps, Labels, TypeInv, TypeOK
  <2>2. npid' = npid /\ route' = route
    BY <1>10 DEF DiscardStop, files
  <2>3. Calm
    BY <1>0, <1>10, <2>1, <2>2, SignalCalm, SameServers DEF DiscardStop, Calm
  <2> QED BY <2>3, CalmStep
<1>11. CASE DiscardSave \/ PromoteProcs \/ RollbackProcs \/ PromoteKeep
  <2>1. w.pc \notin LaunchSteps /\ w'.pc \notin LaunchSteps \cup {"spawn"}
    BY <1>11, GotoType
       DEF DiscardSave, PromoteProcs, RollbackProcs, PromoteKeep, Return, Idle, Task,
           LaunchSteps, Labels, TypeInv, TypeOK
  <2>2. npid' = npid /\ route' = route /\ proc' = proc
    BY <1>11 DEF DiscardSave, PromoteProcs, RollbackProcs, PromoteKeep, node
  <2> QED BY <1>0, <2>1, <2>2, SameServers, CalmStep DEF Calm
<1>12. CASE Promote \/ Rollback
  <2>1. w.pc \notin LaunchSteps /\ w'.pc \notin LaunchSteps \cup {"spawn"}
    BY <1>12 DEF Promote, Rollback, Start, Task, LaunchSteps
  <2>2. npid' = npid /\ route' = route /\ proc' = proc
    BY <1>12 DEF Promote, Rollback, files, node
  <2> QED BY <1>0, <2>1, <2>2, SameServers, CalmStep DEF Calm
<1>13. CASE PromoteRoute
  <2>1. w.pc \notin LaunchSteps /\ w'.pc \notin LaunchSteps \cup {"spawn"}
    BY <1>13, GotoType
       DEF PromoteRoute, Return, Idle, Task, LaunchSteps, Labels, TypeInv, TypeOK
  <2>2. npid' = npid /\ route'.next = route.next
    BY <1>13 DEF PromoteRoute, TypeInv, TypeOK, RouteFile
  <2>3. \A p \in Pids : /\ proc'[p].port = proc[p].port /\ proc'[p].name = proc[p].name
                        /\ proc'[p].st = proc[p].st
    BY <1>13 DEF PromoteRoute, TypeInv, TypeOK, Server
  <2>4. \A p \in Pids : Lasts(p) /\ (Heard(p)' => Heard(p))
    BY <2>3 DEF Lasts, Present, Heard
  <2> QED BY <1>0, <2>1, <2>2, <2>4, CalmStep DEF Calm
<1>14. CASE PromoteApprove \/ RollbackRoute
  <2>1. w.pc \notin LaunchSteps /\ w'.pc \notin LaunchSteps \cup {"spawn"}
    BY <1>14 DEF PromoteApprove, RollbackRoute, Return, Idle, Task, LaunchSteps
  <2>2. npid' = npid /\ route'.next = route.next /\ proc' = proc
    BY <1>14 DEF PromoteApprove, RollbackRoute, node, TypeInv, TypeOK, RouteFile
  <2> QED BY <1>0, <2>1, <2>2, SameServers, CalmStep DEF Calm
<1>15. CASE FaultActive \/ Cleanup
  <2>1. npid' = npid /\ route' = route /\ w' = w
    BY <1>15 DEF FaultActive, Cleanup, files
  <2>2. Calm
    BY <1>0, <1>15, <2>1, SignalCalm DEF FaultActive, Cleanup, Calm
  <2> QED BY <2>2, CalmStep
<1>16. CASE Measurements \/ Connections \/ UNCHANGED vars
  <2>1. npid' = npid /\ route' = route /\ w' = w /\ proc' = proc
    BY <1>16 DEF Measurements, Connections, NewBundle, MeasureRequired, MeasureForbidden,
       MeasureHealth, Age, ConnRoute, ConnJoin, ConnEnd, vars, files, node
  <2> QED BY <1>0, <2>1, SameServers, CalmStep DEF Calm
<1> QED
  BY <1>1, <1>2, <1>3, <1>4, <1>5, <1>6, <1>7, <1>8, <1>9, <1>10, <1>11, <1>12, <1>13,
     <1>14, <1>15, <1>16, CalmStep
     DEF Timeout, Kill, Next, Servers, Commands, CandidateSteps, DiscardSteps, PromoteSteps, RollbackSteps

-----------------------------------------------------------------------------
\* Every remembered target owns its port.

LEMMA OwnedStays ==
  ASSUME TypeInv, TypeInv', Steady, NEW port \in Nat, NEW name, Owned(port, name)
  PROVE  Owned(port, name)'
<1>1. route.next \in Nat /\ route'.next \in Nat
  BY RouteFields DEF TypeInv, TypeOK
<1>2. ASSUME NEW p \in Pids, Ours(p)', proc'[p].port = port
      PROVE  proc'[p].name = name
  <2>1. Ours(p) /\ proc[p].port = port
    BY <1>1, <1>2 DEF Steady, Owned
  <2> QED BY <2>1 DEF Steady, Owned, Ours, Present
<1> QED BY <1>1, <1>2 DEF Owned, Steady

\* A step after which only the ports of targets it knew are remembered.
LEMMA OwnKept ==
  ASSUME TypeInv, TypeInv', Steady, OwnInv,
         \A t \in Target : Remembered(t)' =>
            \E s \in Target : Remembered(s) /\ s.port = t.port /\ s.name = t.name
  PROVE  OwnInv'
<1> SUFFICES ASSUME NEW t \in Target, Remembered(t)' PROVE Owned(t.port, t.name)'
  BY DEF OwnInv
<1>1. PICK s \in Target : Remembered(s) /\ s.port = t.port /\ s.name = t.name
  OBVIOUS
<1>2. Owned(t.port, t.name) /\ t.port \in Nat
  BY <1>1, TargetFields DEF OwnInv
<1> QED BY <1>2, OwnedStays

\* The steps that leave the targets of the state files alone.
LEMMA OldKept ==
  ASSUME TypeInv, TypeInv', Steady, OwnInv, route' = route, rb' = rb,
         w'.old \in {w.old, None, route.active}
  PROVE  OwnInv'
<1>1. ASSUME NEW t \in Target, Remembered(t)' PROVE Remembered(t)
  BY <1>1 DEF Remembered
<1> QED BY <1>1, OwnKept

LEMMA OwnStep ==
  ASSUME TypeInv, TypeInv', ProcInv, Steady, OwnInv, [Next]_vars
  PROVE  OwnInv'
<1>1. CASE Servers \/ FaultActive \/ Cleanup \/ Measurements \/ Connections \/ UNCHANGED vars
  <2>1. route' = route /\ rb' = rb /\ w' = w
    BY <1>1 DEF Servers, Listen, Exit, Die, FaultActive, Cleanup, Measurements, Connections,
       NewBundle, MeasureRequired, MeasureForbidden, MeasureHealth, Age, ConnRoute, ConnJoin,
       ConnEnd, vars, files
  <2> QED BY <2>1, OldKept
<1>2. ASSUME NEW v \in Versions, Candidate(v) PROVE OwnInv'
  <2>1. route' = route /\ rb' = rb /\ w'.old = None
    BY <1>2 DEF Candidate, Return, Idle, Task, files
  <2> QED BY <2>1, OldKept
<1>3. CASE CandidateAwait \/ CandidateRecord \/ DiscardAwait \/ RollbackProcs
  <2>1. route' = route /\ rb' = rb /\ w'.old = w.old
    BY <1>3, GotoType
       DEF CandidateAwait, CandidateRecord, DiscardAwait, RollbackProcs, files, Labels,
           TypeInv, TypeOK
  <2> QED BY <2>1, OldKept
<1>4. CASE CandidateSpawn \/ DiscardSave \/ Rollback \/ Promote \/ Timeout \/ Kill
  <2>1. route' = route /\ rb' = rb /\ w'.old \in {None, route.active}
    BY <1>4 DEF CandidateSpawn, DiscardSave, Rollback, Promote, Timeout, Kill, GiveUp, Return,
       Idle, Task, files
  <2> QED BY <2>1, OldKept
<1>5. CASE CandidateReady \/ DiscardStop \/ PromoteProcs
  <2>1. route' = route /\ rb' = rb /\ w'.old \in {w.old, None}
    BY <1>5, GotoType
       DEF CandidateReady, DiscardStop, PromoteProcs, Return, Idle, Task, files, Labels,
           TypeInv, TypeOK
  <2> QED BY <2>1, OldKept
<1>6. CASE CandidateClear \/ Discard
  <2>1. /\ rb' = rb /\ w'.old \in {w.old, None, route.candidate}
        /\ route'.active = route.active /\ route'.rollback = route.rollback
        /\ route'.candidate = None
    BY <1>6, GotoType
       DEF CandidateClear, Discard, Task, Labels, TypeInv, TypeOK, RouteFile
  <2>2. ASSUME NEW t \in Target, Remembered(t)' PROVE Remembered(t)
    BY <2>1, <2>2 DEF Remembered
  <2> QED BY <2>2, OwnKept
<1>7. CASE CandidatePublish
  <2>1. /\ rb' = rb /\ w'.old = None
        /\ route'.active = route.active /\ route'.rollback = route.rollback
    BY <1>7 DEF CandidatePublish, Return, Idle, Task, TypeInv, TypeOK, RouteFile
  <2> SUFFICES ASSUME NEW t \in Target, Remembered(t)' PROVE Owned(t.port, t.name)'
    BY DEF OwnInv
  <2>2. CASE t = route'.candidate
    BY <1>7, <2>2, PublishStep
  <2>3. CASE t # route'.candidate
    <3>1. Remembered(t)
      BY <2>1, <2>3 DEF Remembered
    <3> QED BY <3>1, OwnedStays, TargetFields DEF OwnInv
  <2> QED BY <2>2, <2>3
<1>8. CASE PromoteRoute
  <2>1. /\ rb' = rb /\ w'.old \in {w.old, None}
        /\ route'.active = route.candidate /\ route'.rollback = route.rollback
        /\ route'.candidate = None
    BY <1>8, GotoType
       DEF PromoteRoute, Return, Idle, Task, Labels, TypeInv, TypeOK, RouteFile
  <2>2. ASSUME NEW t \in Target, Remembered(t)' PROVE Remembered(t)
    BY <2>1, <2>2 DEF Remembered
  <2> QED BY <2>2, OwnKept
<1>9. CASE PromoteKeep
  <2>1. route' = route /\ rb'.route = w.old /\ w'.old = w.old
    BY <1>9, GotoType DEF PromoteKeep, Labels, TypeInv, TypeOK
  <2>2. ASSUME NEW t \in Target, Remembered(t)' PROVE Remembered(t)
    BY <2>1, <2>2 DEF Remembered
  <2> QED BY <2>2, OwnKept
<1>10. CASE PromoteApprove
  <2>1. /\ rb' = rb /\ w'.old = None
        /\ route'.active = [route.active EXCEPT !.approved = TRUE]
        /\ route'.rollback \in {w.old, None}
        /\ route'.candidate = route.candidate
    BY <1>10 DEF PromoteApprove, Return, Idle, Task, TypeInv, TypeOK, RouteFile
  <2>2. route.active \in Target
    BY RouteFields DEF TypeInv, TypeOK
  <2>3. ASSUME NEW t \in Target, Remembered(t)', t # route'.active PROVE Remembered(t)
    BY <2>1, <2>3 DEF Remembered
  <2>4. Remembered(route.active)
    BY DEF Remembered
  <2>5. route'.active.port = route.active.port /\ route'.active.name = route.active.name
    BY <2>1, <2>2, TargetFields
  <2> QED BY <2>2, <2>3, <2>4, <2>5, OwnKept
<1>11. CASE RollbackRoute
  <2>1. /\ rb' = rb /\ w'.old = None
        /\ route'.active = rb.route /\ route'.rollback = None
        /\ route'.candidate = route.candidate
        /\ rb # None
    BY <1>11 DEF RollbackRoute, Return, Idle, Task, TypeInv, TypeOK, LabelInv, RouteFile
  <2>2. ASSUME NEW t \in Target, Remembered(t)' PROVE Remembered(t)
    BY <2>1, <2>2 DEF Remembered
  <2> QED BY <2>2, OwnKept
<1> QED
  BY <1>1, <1>2, <1>3, <1>4, <1>5, <1>6, <1>7, <1>8, <1>9, <1>10, <1>11
     DEF Next, Commands, CandidateSteps, DiscardSteps, PromoteSteps, RollbackSteps

\* The router's connection stays with the version it was routed to.
LEMMA ConnStep ==
  ASSUME TypeInv, TypeInv', Steady, OwnInv, ConnInv, [Next]_vars
  PROVE  ConnInv'
<1>1. CASE conn' = conn
  <2>1. PICK port \in Nat, name \in {conn.name} :
                port = conn.port /\ name = conn.name
    BY DEF TypeInv, TypeOK, Conn
  <2>2. conn.pc = "routed" => Owned(port, name)'
    BY <2>1, OwnedStays DEF ConnInv
  <2>3. (conn.pc = "routed" => Owned(conn.port, conn.name))'
    BY <1>1, <2>1, <2>2 DEF Owned
  <2>4. conn.pc = "joined" =>
          /\ proc'[conn.pid].st # "none"
          /\ proc'[conn.pid].name = conn.name \/ conn.pid \in abandoned'
    BY DEF ConnInv, Steady
  <2> QED BY <1>1, <2>3, <2>4 DEF ConnInv
<1>2. ASSUME NEW kind \in Kinds, ConnRoute(kind) PROVE ConnInv'
  <2>1. kind \in {"active", "candidate", "rollback"} /\ route[kind] # None
    BY <1>2 DEF ConnRoute
  <2>2. route[kind] \in Target /\ Remembered(route[kind])
    BY <2>1, RouteFields DEF TypeInv, TypeOK, Remembered
  <2>3. Owned(route[kind].port, route[kind].name)
    BY <2>2 DEF OwnInv
  <2>4. route' = route /\ proc' = proc /\ abandoned' = abandoned
    BY <1>2 DEF ConnRoute, files, node
  <2> QED BY <1>2, <2>3, <2>4 DEF ConnInv, ConnRoute, Owned, Ours, Present
<1>3. CASE ConnJoin
  <2>1. proc' = proc /\ abandoned' = abandoned
    BY <1>3 DEF ConnJoin, node
  <2>2. ASSUME NEW p \in Pids, Holding(p), proc[p].port = conn.port,
               conn' = [conn EXCEPT !.pc = "joined", !.pid = p]
        PROVE  ConnInv'
    <3>1. conn'.pc = "joined" /\ conn'.pid = p /\ conn'.name = conn.name
      BY <2>2 DEF TypeInv, TypeOK, Conn
    <3>2. (proc[p].name = conn.name \/ p \in abandoned) /\ proc[p].st # "none"
      BY <1>3, <2>2 DEF ConnJoin, ConnInv, Owned, Ours, Present, Holding
    <3> QED BY <2>1, <3>1, <3>2 DEF ConnInv
  <2>3. CASE conn' = NoConn
    BY <2>3 DEF ConnInv, NoConn
  <2> QED BY <1>3, <2>2, <2>3 DEF ConnJoin
<1>4. CASE ConnEnd
  BY <1>4 DEF ConnEnd, ConnInv, NoConn
<1> QED
  BY <1>1, <1>2, <1>3, <1>4
     DEF Next, Servers, Commands, CandidateSteps, DiscardSteps, PromoteSteps, RollbackSteps,
         Measurements, Connections, Listen, Exit, Die, Candidate, CandidateAwait,
         CandidateClear, CandidateSpawn, CandidateReady, CandidateRecord, CandidatePublish,
         Discard, DiscardStop, DiscardAwait, DiscardSave, Promote, PromoteProcs, PromoteRoute,
         PromoteKeep, PromoteApprove, Rollback, RollbackProcs, RollbackRoute, FaultActive,
         Cleanup, Timeout, Kill, GiveUp, NewBundle, MeasureRequired, MeasureForbidden, MeasureHealth,
         Age, vars, client

-----------------------------------------------------------------------------
\* Evidence, and what the state files vouch for.

\* An impostor stays one.
LEMMA ImpostorStays ==
  ASSUME TypeInv, Steady, NEW t, Impostor(t)
  PROVE  \E p \in abandoned' : /\ Heard(p)' /\ proc'[p].port = t.port
                               /\ proc'[p].name \in Pqc
<1>1. PICK p \in abandoned : /\ Heard(p) /\ proc[p].port = t.port
                             /\ proc[p].name \in Pqc
  BY DEF Impostor
<1>2. p \in Pids /\ proc[p].st # "none"
  BY <1>1 DEF TypeInv, TypeOK, Heard
<1> QED BY <1>1, <1>2 DEF Steady

\* What a step that neither publishes nor measures does to the evidence.
LEMMA EvidenceKept ==
  ASSUME TypeInv, Steady, EvidenceInv, gens' = gens, bundle' = bundle,
         route'.candidate \in {route.candidate, None}
  PROVE  EvidenceInv'
<1>1. (bundle.neg # None =>
        /\ bundle.neg.name \in Pqc
        /\ bundle.bind = gens /\ route.candidate # None
             => bundle.neg.name = route.candidate.name \/ Impostor(route.candidate))'
  <2> SUFFICES ASSUME bundle.neg # None, bundle.bind = gens, route'.candidate # None,
                      bundle.neg.name # route'.candidate.name
               PROVE  Impostor(route.candidate)'
    BY DEF EvidenceInv
  <2>1. Impostor(route.candidate) /\ route'.candidate = route.candidate
    BY DEF EvidenceInv
  <2> QED BY <2>1, ImpostorStays DEF Impostor
<1> QED BY <1>1 DEF EvidenceInv

LEMMA EvidenceStep ==
  ASSUME TypeInv, TypeInv', Steady, OwnInv, EvidenceInv, [Next]_vars
  PROVE  EvidenceInv'
<1> USE DEF TypeInv, TypeOK
<1>1. CASE gens' = gens /\ bundle' = bundle /\ route' = route
  BY <1>1, EvidenceKept
<1>2. CASE CandidateClear \/ Discard \/ PromoteRoute \/ PromoteApprove \/ RollbackRoute
  <2>1. gens' = gens /\ bundle' = bundle
    BY <1>2 DEF CandidateClear, Discard, PromoteRoute, PromoteApprove, RollbackRoute, client
  <2>2. route'.candidate \in {route.candidate, None}
    BY <1>2 DEF CandidateClear, Discard, PromoteRoute, PromoteApprove, RollbackRoute, RouteFile
  <2> QED BY <2>1, <2>2, EvidenceKept
<1>3. CASE CandidatePublish
  <2>1. /\ route'.candidate.gen = gens + 1 /\ route'.candidate.approved = FALSE
        /\ gens' = gens + 1 /\ bundle' = bundle
    BY <1>3 DEF CandidatePublish, RouteFile, client
  <2>2. bundle.bind \in Nat
    BY DEF Bundle
  <2> QED BY <2>1, <2>2 DEF EvidenceInv
<1>4. CASE NewBundle
  <2>1. /\ bundle'.bind = route.candidate.gen /\ bundle'.neg = None
        /\ route' = route /\ gens' = gens /\ route.candidate # None
    BY <1>4 DEF NewBundle, files
  <2> QED BY <2>1 DEF EvidenceInv
<1>5. CASE MeasureRequired \/ Age
  <2>1. /\ bundle'.bind = bundle.bind /\ bundle'.neg = bundle.neg
        /\ route' = route /\ gens' = gens
    BY <1>5 DEF MeasureRequired, Age, files, Bundle
  <2>2. proc' = proc /\ abandoned' = abandoned
    BY <1>5 DEF MeasureRequired, Age, node
  <2> QED BY <2>1, <2>2 DEF EvidenceInv, Impostor, Heard
<1>6. CASE MeasureForbidden
  <2>1. PICK v \in Answering(route.candidate) \cap Pqc :
          bundle' = [bundle EXCEPT !.neg = Measured(v)]
    BY <1>6 DEF MeasureForbidden
  <2>2. /\ bundle'.bind = bundle.bind /\ bundle'.neg.name = v
        /\ route' = route /\ gens' = gens
    BY <1>6, <2>1 DEF MeasureForbidden, Bundle, Measured, files
  <2>3. v = route.candidate.name \/ Impostor(route.candidate)
    <3>1. route.candidate # None
      BY <2>1 DEF Answering
    <3>2. PICK p \in Pids : Holding(p) /\ proc[p].port = route.candidate.port
                            /\ v = proc[p].name
      BY <2>1, <3>1 DEF Answering
    <3>3. route.candidate \in Target /\ Remembered(route.candidate)
      BY <3>1, RouteFields DEF Remembered
    <3>4. CASE p \in abandoned
      BY <2>1, <3>2, <3>4 DEF Impostor, Holding, Heard
    <3>5. CASE p \notin abandoned
      BY <3>2, <3>3, <3>5 DEF OwnInv, Owned, Ours, Present, Holding
    <3> QED BY <3>4, <3>5
  <2>4. proc' = proc /\ abandoned' = abandoned
    BY <1>6 DEF MeasureForbidden, node
  <2>5. Impostor(route.candidate)' <=> Impostor(route.candidate)
    BY <2>2, <2>4 DEF Impostor, Heard
  <2> QED BY <2>1, <2>2, <2>3, <2>5 DEF EvidenceInv
<1> QED
  BY <1>1, <1>2, <1>3, <1>4, <1>5, <1>6
     DEF Next, Servers, Commands, CandidateSteps, DiscardSteps, PromoteSteps, RollbackSteps,
         Measurements, Connections, Listen, Exit, Die, Candidate, CandidateAwait,
         CandidateSpawn, CandidateReady, CandidateRecord, DiscardStop, DiscardAwait,
         DiscardSave, Promote, PromoteProcs, PromoteKeep, Rollback, RollbackProcs,
         FaultActive, Cleanup, Timeout, Kill, GiveUp, MeasureHealth, ConnRoute, ConnJoin, ConnEnd,
         vars, client, files

\* An approved candidate refuses every classical client, or has an impostor.
LEMMA EvidenceSound ==
  ASSUME EvidenceInv
  PROVE  ApprovalIsSound
  BY DEF EvidenceInv, ApprovalIsSound, Approves, Bound

VouchStates == {"promote", "switch", "keep", "approve", "restore", "restored"}

\* A step that moves no target and takes the worker to none of these steps.
LEMMA VouchKept ==
  ASSUME TypeInv, Steady, VouchInv, route'.active = route.active, rb' = rb,
         trusted' = trusted, misled \subseteq misled',
         \/ w' = w /\ route' = route
         \/ w'.pc \notin VouchStates
  PROVE  VouchInv'
<1>1. (w.pc = "switch" => route.candidate.name \in Pqc \/ Impostor(route.candidate))'
  <2> SUFFICES ASSUME w'.pc = "switch", route'.candidate.name \notin Pqc
               PROVE  Impostor(route.candidate)'
    OBVIOUS
  <2>1. Impostor(route.candidate) /\ route' = route
    BY DEF VouchInv, VouchStates
  <2> QED BY <2>1, ImpostorStays DEF Impostor
<1> QED BY <1>1 DEF VouchInv, Vouched, Secure, VouchStates

LEMMA VouchStep ==
  ASSUME TypeInv, TypeInv', Steady, EvidenceInv, VouchInv, [Next]_vars
  PROVE  VouchInv'
<1> USE DEF TypeInv, TypeOK
<1>0. /\ misled \subseteq misled'
      /\ ~PromoteRoute => misled' = misled
      /\ \A t : Secure(t) => t.name \in Pqc \/ t.gen \in misled'
  BY Histories DEF Secure
<1>1. CASE Servers \/ FaultActive \/ Cleanup \/ Measurements \/ Connections \/ UNCHANGED vars
  <2>1. route' = route /\ rb' = rb /\ w' = w /\ trusted' = trusted
    BY <1>1 DEF Servers, Listen, Exit, Die, FaultActive, Cleanup, Measurements, Connections,
       NewBundle, MeasureRequired, MeasureForbidden, MeasureHealth, Age, ConnRoute, ConnJoin,
       ConnEnd, vars, files
  <2> QED BY <1>0, <2>1, VouchKept
<1>2. ASSUME NEW v \in Versions, Candidate(v) PROVE VouchInv'
  BY <1>0, <1>2, VouchKept DEF Candidate, Return, Idle, Task, files, VouchStates
<1>3. CASE CandidateSteps
  <2>1. w'.pc \notin VouchStates
    BY <1>3, GotoType
       DEF CandidateSteps, CandidateAwait, CandidateClear, CandidateSpawn, CandidateReady,
           CandidateRecord, CandidatePublish, Return, Idle, Task, Labels, VouchStates
  <2>2. route'.active = route.active /\ rb' = rb /\ trusted' = trusted
    BY <1>3
       DEF CandidateSteps, CandidateAwait, CandidateClear, CandidateSpawn, CandidateReady,
           CandidateRecord, CandidatePublish, files, RouteFile
  <2> QED BY <1>0, <2>1, <2>2, VouchKept
<1>4. CASE Discard \/ DiscardSteps \/ Timeout \/ Kill
  <2>1. w'.pc \notin VouchStates
    BY <1>4, GotoType
       DEF Discard, DiscardSteps, DiscardStop, DiscardAwait, DiscardSave, Timeout, Kill,
           GiveUp, Return, Idle, Task, Labels, VouchStates
  <2>2. route'.active = route.active /\ rb' = rb /\ trusted' = trusted
    BY <1>4
       DEF Discard, DiscardSteps, DiscardStop, DiscardAwait, DiscardSave, Timeout, Kill,
           GiveUp, files, RouteFile
  <2> QED BY <1>0, <2>1, <2>2, VouchKept
<1>5. CASE Promote
  <2>1. /\ route' = route /\ rb' = rb /\ trusted' = trusted
        /\ w'.pc = "promote" /\ w'.old = route.active
    BY <1>5 DEF Promote, Task, files
  <2> QED BY <1>0, <2>1 DEF VouchInv, Vouched, Secure
<1>6. CASE PromoteProcs
  <2>1. /\ route' = route /\ rb' = rb /\ trusted' = trusted /\ w.pc = "promote"
        /\ proc' = proc /\ abandoned' = abandoned
    BY <1>6 DEF PromoteProcs, node
  <2>2. CASE Approves /\ Goto("switch")
    <3>1. w'.pc = "switch" /\ w'.old = w.old
      BY <2>2, GotoType DEF Labels
    <3>2. route.candidate.name \in Pqc \/ Impostor(route.candidate)
      BY <2>2, EvidenceSound DEF ApprovalIsSound
    <3>3. Impostor(route.candidate)' <=> Impostor(route.candidate)
      BY <2>1 DEF Impostor, Heard
    <3> QED BY <1>0, <2>1, <3>1, <3>2, <3>3 DEF VouchInv, Vouched, Secure
  <2>3. CASE Return
    BY <1>0, <2>1, <2>3, VouchKept DEF Return, Idle, Task, VouchStates
  <2> QED BY <1>6, <2>2, <2>3 DEF PromoteProcs
<1>7. CASE PromoteRoute
  <2>1. /\ rb' = rb /\ trusted' = trusted /\ w.pc = "switch"
        /\ route'.active = route.candidate
        /\ route.candidate # None
    BY <1>7 DEF PromoteRoute, RouteFile, LabelInv
  <2>2. (w'.pc = "keep" /\ w'.old = w.old) \/ w'.pc = "idle"
    BY <1>7, GotoType DEF PromoteRoute, Return, Idle, Task, Labels
  <2>3. Vouched(route.active)'
    BY <2>1 DEF EvidenceInv, Vouched
  <2>4. Secure(route.active)'
    <3>1. Impostor(route.candidate) => route.candidate.gen \in misled'
      BY <1>7 DEF PromoteRoute
    <3> QED BY <2>1, <3>1 DEF VouchInv, Secure
  <2>5. rb # None => Vouched(rb.route)'
    BY <1>0, <2>1 DEF VouchInv, Vouched, Secure
  <2>6. w'.pc = "keep" => Vouched(w.old)'
    BY <1>0, <2>1, <2>2 DEF VouchInv, Vouched, Secure
  <2> QED BY <2>1, <2>2, <2>3, <2>4, <2>5, <2>6 DEF VouchInv
<1>8. CASE PromoteKeep
  <2>1. /\ route' = route /\ trusted' = trusted /\ w.pc = "keep"
        /\ rb'.route = w.old /\ rb'.approved = w.old.approved
        /\ w'.pc = "approve" /\ w'.old = w.old
    BY <1>8, GotoType DEF PromoteKeep, Labels
  <2> QED BY <1>0, <2>1 DEF VouchInv, Vouched, Secure
<1>9. CASE PromoteApprove
  <2>1. /\ rb' = rb /\ w.pc = "approve" /\ w'.pc = "idle"
        /\ trusted' = trusted \cup {route.active.gen}
        /\ route'.active = [route.active EXCEPT !.approved = TRUE]
    BY <1>9 DEF PromoteApprove, RouteFile, Return, Idle, Task
  <2>2. route'.active.name = route.active.name /\ route'.active.gen = route.active.gen
    BY <2>1, RouteFields, TargetFields
  <2> QED BY <1>0, <2>1, <2>2 DEF VouchInv, Vouched, Secure
<1>10. CASE Rollback
  <2>1. /\ route' = route /\ rb' = rb /\ trusted' = trusted
        /\ w'.pc = "restore" /\ rb.approved
    BY <1>10 DEF Rollback, Task, files
  <2> QED BY <1>0, <2>1 DEF VouchInv, Vouched, Secure
<1>11. CASE RollbackProcs
  <2>1. /\ route' = route /\ rb' = rb /\ trusted' = trusted
        /\ w.pc = "restore" /\ w'.pc = "restored"
    BY <1>11, GotoType DEF RollbackProcs, Labels
  <2> QED BY <1>0, <2>1 DEF VouchInv, Vouched, Secure
<1>12. CASE RollbackRoute
  <2>1. /\ rb' = rb /\ trusted' = trusted /\ w'.pc = "idle"
        /\ route'.active = rb.route /\ rb # None
    BY <1>12 DEF RollbackRoute, RouteFile, Return, Idle, Task, LabelInv
  <2> QED BY <1>0, <2>1 DEF VouchInv, Vouched, Secure
<1> QED
  BY <1>1, <1>2, <1>3, <1>4, <1>5, <1>6, <1>7, <1>8, <1>9, <1>10, <1>11, <1>12
     DEF Next, Commands, PromoteSteps, RollbackSteps

\* Generations.
LEMMA GenKept ==
  ASSUME GenInv, route'.active.gen = route.active.gen, gens' = gens, trusted' = trusted,
         route'.candidate \in {route.candidate, None}
  PROVE  GenInv'
  BY DEF GenInv

LEMMA GenStep ==
  ASSUME TypeInv, TypeInv', EvidenceInv, VouchInv, GenInv, [Next]_vars
  PROVE  GenInv'
<1> USE DEF TypeInv, TypeOK
<1>1. CASE route' = route /\ gens' = gens /\ trusted' = trusted
  BY <1>1, GenKept
<1>2. CASE CandidateClear \/ Discard
  <2>1. /\ gens' = gens /\ trusted' = trusted
        /\ route'.active = route.active /\ route'.candidate = None
    BY <1>2 DEF CandidateClear, Discard, RouteFile
  <2> QED BY <2>1, GenKept
<1>3. CASE CandidatePublish
  <2>1. gens' = gens + 1 /\ trusted' = trusted /\ route'.active = route.active
    BY <1>3 DEF CandidatePublish, RouteFile
  <2>2. route.active.gen \in Nat
    BY RouteFields, TargetFields
  <2>3. \A g \in trusted : g \in Nat
    OBVIOUS
  <2> QED BY <2>1, <2>2, <2>3 DEF GenInv
<1>4. CASE PromoteRoute
  <2>1. /\ gens' = gens /\ trusted' = trusted /\ route.candidate # None
        /\ route'.active = route.candidate /\ route'.candidate = None
    BY <1>4 DEF PromoteRoute, RouteFile, LabelInv
  <2> QED BY <2>1 DEF GenInv, EvidenceInv
<1>5. CASE PromoteApprove
  <2>1. /\ gens' = gens /\ trusted' = trusted \cup {route.active.gen}
        /\ route'.active = [route.active EXCEPT !.approved = TRUE]
        /\ route'.candidate = route.candidate
    BY <1>5 DEF PromoteApprove, RouteFile
  <2>2. route'.active.gen = route.active.gen
    BY <2>1, RouteFields, TargetFields
  <2> QED BY <2>1, <2>2 DEF GenInv
<1>6. CASE RollbackRoute
  <2>1. /\ gens' = gens /\ trusted' = trusted
        /\ route'.active = rb.route /\ route'.candidate = route.candidate
        /\ rb.route.gen \in trusted
    BY <1>6 DEF RollbackRoute, RouteFile, LabelInv, VouchInv, Vouched
  <2> QED BY <2>1 DEF GenInv
<1> QED
  BY <1>1, <1>2, <1>3, <1>4, <1>5, <1>6
     DEF Next, Servers, Commands, CandidateSteps, DiscardSteps, PromoteSteps, RollbackSteps,
         Measurements, Connections, Listen, Exit, Die, Candidate, CandidateAwait,
         CandidateSpawn, CandidateReady, CandidateRecord, DiscardStop, DiscardAwait,
         DiscardSave, Promote, PromoteProcs, PromoteKeep, Rollback, RollbackProcs,
         FaultActive, Cleanup, Timeout, Kill, GiveUp, NewBundle, MeasureRequired, MeasureForbidden,
         MeasureHealth, Age, ConnRoute, ConnJoin, ConnEnd, vars, client, files

-----------------------------------------------------------------------------
\* The invariant and what follows from it.

SafetyInv == ProcInv /\ OwnInv /\ ConnInv /\ EvidenceInv /\ VouchInv /\ GenInv

LEMMA SafetyInit ==
  ASSUME Init
  PROVE  SafetyInv
<1> USE DEF Init
<1>1. ProcInv
  BY DEF ProcInv, Ours, Present, LaunchSteps, Idle, Task, Pids
<1>2. Owned(0, Base)
  BY DEF Owned, Ours, Present
<1>3. OwnInv
  BY <1>2 DEF OwnInv, Remembered, Idle, Task
<1>4. ConnInv /\ EvidenceInv
  BY DEF ConnInv, EvidenceInv, NoConn
<1>5. VouchInv
  BY DEF VouchInv, Vouched, Idle, Task
<1>6. GenInv
  BY DEF GenInv
<1> QED BY <1>1, <1>3, <1>4, <1>5, <1>6 DEF SafetyInv

\* The conjunction of the parts is inductive: it is what every theorem below
\* is read off from.
THEOREM SafetyInvariant == Spec => [](TypeInv /\ SafetyInv)
<1>1. Init => SafetyInv
  BY SafetyInit
<1>2. TypeInv /\ TypeInv' /\ SafetyInv /\ [Next]_vars => SafetyInv'
  <2> SUFFICES ASSUME TypeInv, TypeInv', SafetyInv, [Next]_vars PROVE SafetyInv'
    OBVIOUS
  <2> USE DEF SafetyInv
  <2>1. ProcInv' /\ Steady
    BY ProcStep
  <2>2. OwnInv' /\ ConnInv'
    BY <2>1, OwnStep, ConnStep
  <2>3. EvidenceInv' /\ VouchInv' /\ GenInv'
    BY <2>1, EvidenceStep, VouchStep, GenStep
  <2> QED BY <2>1, <2>2, <2>3
<1> QED BY <1>1, <1>2, TypeInvariant, PTL DEF Spec

\* Evidence that the decision accepts was measured on the candidate it names:
\* an approved candidate refuses every classical client, unless an abandoned
\* launch left another server on its port (gate_worker.py:41, 172, 178-195).
THEOREM ApprovalSound == Spec => []ApprovalIsSound
<1>1. SafetyInv => ApprovalIsSound
  BY EvidenceSound DEF SafetyInv
<1> QED BY <1>1, SafetyInvariant, PTL

\* What rollback.json calls approved was promoted to the end of the release
\* procedure and refuses classical clients, or was measured beside an impostor
\* (release_worker.py:86-98).
THEOREM RollbackTargetTrusted == Spec => []RollbackTargetIsTrusted
<1>1. SafetyInv => RollbackTargetIsTrusted
  BY DEF SafetyInv, VouchInv, Vouched, RollbackTargetIsTrusted
<1> QED BY <1>1, SafetyInvariant, PTL

\* Of two servers that have listened on one port, a launch abandoned one
\* (gate_worker.py:171, 41).
THEOREM PortsFresh == Spec => []PortIsOneServer
<1>1. SafetyInv => PortIsOneServer
  BY DEF SafetyInv, ProcInv, PortIsOneServer, Heard, Ours, Present
<1> QED BY <1>1, SafetyInvariant, PTL

\* A routed connection reaches the version it was routed to, an abandoned server
\* or nothing
\* (gate_worker.py:55-74).
THEOREM RoutingSound == Spec => []RoutedIdentity
<1>1. SafetyInv => RoutedIdentity
  BY DEF SafetyInv, ConnInv, RoutedIdentity
<1> QED BY <1>1, SafetyInvariant, PTL

-----------------------------------------------------------------------------
\* The active route.

\* How one step moves the active route.
LEMMA ActiveMoves ==
  ASSUME TypeInv, SafetyInv, [Next]_vars
  PROVE  \/ /\ UNCHANGED <<trusted, misled>>
            /\ route'.active = route.active
         \/ /\ trusted' = trusted \cup {route.active.gen} /\ UNCHANGED misled
            /\ route'.active.name = route.active.name
            /\ route'.active.gen = route.active.gen
            /\ Secure(route.active)
         \/ /\ UNCHANGED trusted
            /\ route.candidate # None
            /\ route'.active = route.candidate
            /\ Secure(route.active)'
            /\ route.candidate.gen = gens
         \/ /\ UNCHANGED <<trusted, misled>>
            /\ route'.active = rb.route
            /\ Secure(rb.route)
            /\ rb.route.gen \in trusted
<1> USE DEF TypeInv, TypeOK
<1>1. CASE PromoteApprove
  <2>1. /\ trusted' = trusted \cup {route.active.gen} /\ w.pc = "approve" /\ misled' = misled
        /\ route'.active = [route.active EXCEPT !.approved = TRUE]
    BY <1>1 DEF PromoteApprove, RouteFile
  <2>2. route'.active.name = route.active.name /\ route'.active.gen = route.active.gen
    BY <2>1, RouteFields, TargetFields
  <2> QED BY <2>1, <2>2 DEF SafetyInv, VouchInv
<1>2. CASE PromoteRoute
  <2>1. trusted' = trusted /\ w.pc = "switch" /\ route'.active = route.candidate
    BY <1>2 DEF PromoteRoute, RouteFile
  <2>2. Impostor(route.candidate) => route.candidate.gen \in misled'
    BY <1>2 DEF PromoteRoute
  <2> QED BY <2>1, <2>2 DEF SafetyInv, VouchInv, EvidenceInv, LabelInv, Secure
<1>3. CASE RollbackRoute
  <2>1. UNCHANGED <<trusted, misled>> /\ w.pc = "restored" /\ route'.active = rb.route
    BY <1>3 DEF RollbackRoute, RouteFile
  <2> QED BY <2>1 DEF SafetyInv, VouchInv, Vouched, LabelInv
<1>4. CASE CandidateClear \/ Discard \/ CandidatePublish
  BY <1>4 DEF CandidateClear, Discard, CandidatePublish, RouteFile
<1>5. CASE UNCHANGED <<route, trusted, misled>>
  BY <1>5
<1> QED
  BY <1>1, <1>2, <1>3, <1>4, <1>5
     DEF Next, Servers, Commands, CandidateSteps, DiscardSteps, PromoteSteps, RollbackSteps,
         Measurements, Connections, Listen, Exit, Die, Candidate, CandidateAwait,
         CandidateSpawn, CandidateReady, CandidateRecord, DiscardStop, DiscardAwait,
         DiscardSave, Promote, PromoteProcs, PromoteKeep, Rollback, RollbackProcs,
         FaultActive, Cleanup, Timeout, Kill, GiveUp, NewBundle, MeasureRequired, MeasureForbidden,
         MeasureHealth, Age, ConnRoute, ConnJoin, ConnEnd, vars, client, files

\* A PQC-only service is never taken back to a version that is not, nor to one
\* that was not measured beside an impostor (gate_worker.py:197-208,
\* release_worker.py:80-109).
THEOREM NoWayBack == Spec => NeverBackToClassical
<1>1. TypeInv /\ SafetyInv /\ [Next]_vars
        => [route.active.name \in Pqc => Secure(route.active)']_vars
  BY ActiveMoves DEF Secure
<1> QED BY <1>1, SafetyInvariant, PTL DEF Spec, NeverBackToClassical

\* Every behaviour of the worker is one of the contract.
THEOREM ContractHolds == Spec => ImplementsContract
<1>1. Init => Contract!Init
  BY DEF Init, Contract!Init, Secure
<1>2. TypeInv /\ TypeInv' /\ SafetyInv /\ [Next]_vars
        => [Contract!Next]_<<route.active.gen, Secure(route.active), trusted>>
  <2> SUFFICES ASSUME TypeInv, TypeInv', SafetyInv, [Next]_vars
               PROVE  [Contract!Next]_<<route.active.gen, Secure(route.active), trusted>>
    OBVIOUS
  <2>0. route.active.gen \in Nat /\ route'.active.gen \in Nat
    BY RouteFields, TargetFields DEF TypeInv, TypeOK
  <2>1. CASE UNCHANGED <<trusted, misled>> /\ route'.active = route.active
    BY <2>1 DEF Secure
  <2>2. CASE /\ trusted' = trusted \cup {route.active.gen} /\ UNCHANGED misled
             /\ route'.active.name = route.active.name
             /\ route'.active.gen = route.active.gen
             /\ Secure(route.active)
    BY <2>2 DEF Secure, Contract!Next, Contract!Complete
  <2>3. CASE /\ UNCHANGED trusted
             /\ route.candidate # None
             /\ route'.active = route.candidate
             /\ Secure(route.active)'
             /\ route.candidate.gen = gens
    BY <2>0, <2>3 DEF Contract!Next, Contract!Admit, SafetyInv, GenInv
  <2>4. CASE /\ UNCHANGED <<trusted, misled>>
             /\ route'.active = rb.route
             /\ Secure(rb.route)
             /\ rb.route.gen \in trusted
    BY <2>4 DEF Secure, Contract!Next, Contract!Restore
  <2> QED BY <2>1, <2>2, <2>3, <2>4, ActiveMoves
<1> QED BY <1>1, <1>2, SafetyInvariant, PTL DEF Spec, ImplementsContract, Contract!Spec

-----------------------------------------------------------------------------
\* Sessions of servers that were ever active.  This part needs nothing of the
\* ports, and holds whatever a launch leaves behind.

SessionInv ==
  /\ procs.candidate # 0 => ~proc[procs.candidate].served
  /\ w.pc \in LaunchSteps => ~proc[w.pid].served
  /\ w.pc = "switch" => procs.candidate = 0

LEMMA SessionSame ==
  ASSUME TypeInv, TypeInv', SessionInv, procs' = procs,
         \A p \in Pids : proc'[p].served = proc[p].served,
         \/ w'.pc \notin LaunchSteps \cup {"switch"}
         \/ w' = w
         \/ w.pc \in LaunchSteps /\ w'.pid = w.pid /\ w'.pc \in LaunchSteps
  PROVE  SessionInv'
<1>1. w.pc \in LaunchSteps => w.pid \in Pids
  BY DEF TypeInv, LabelInv
<1>2. procs.candidate \in Pids \cup {0}
  BY ProcsFields DEF TypeInv, TypeOK
<1> QED BY <1>1, <1>2 DEF SessionInv, LaunchSteps

LEMMA SessionStep ==
  ASSUME TypeInv, TypeInv', SessionInv, [Next]_vars
  PROVE  SessionInv'
<1> USE DEF TypeInv, TypeOK
<1>1. ASSUME NEW p \in Pids, Listen(p) \/ Exit(p) \/ Die(p) PROVE SessionInv'
  <2>1. \A q \in Pids : proc'[q].served = proc[q].served
    BY <1>1 DEF Listen, Exit, Die, Server
  <2> QED BY <1>1, <2>1, SessionSame DEF Listen, Exit, Die, files
<1>2. ASSUME NEW v \in Versions, Candidate(v) PROVE SessionInv'
  <2>1. \A q \in Pids : proc'[q].served = proc[q].served
    BY <1>2, SignalCalm DEF Candidate
  <2>2. w'.pc \notin LaunchSteps \cup {"switch"}
    BY <1>2 DEF Candidate, Return, Idle, Task, LaunchSteps
  <2> QED BY <1>2, <2>1, <2>2, SessionSame DEF Candidate, files
<1>3. CASE CandidateSpawn
  <2>1. w.pc = "spawn" /\ npid + 1 \in Pids /\ procs' = procs
    BY <1>3 DEF CandidateSpawn, LabelInv, Pids, files
  <2>2. w'.pc = "ready" /\ w'.pid = npid + 1
    BY <1>3 DEF CandidateSpawn, Task
  <2>3. proc'[npid + 1].served = FALSE
    BY <1>3, <2>1 DEF CandidateSpawn
  <2>4. \A q \in Pids : q # npid + 1 => proc'[q] = proc[q]
    BY <1>3, <2>1 DEF CandidateSpawn
  <2>5. procs.candidate \in Pids \cup {0}
    BY ProcsFields
  <2> QED BY <2>1, <2>2, <2>3, <2>4, <2>5 DEF SessionInv
<1>4. CASE CandidateReady
  <2>1. procs' = procs /\ proc' = proc /\ w.pc \in LaunchSteps
    BY <1>4 DEF CandidateReady, files, node, LaunchSteps
  <2>2. \/ w'.pc = "idle"
        \/ w'.pc = "record" /\ w'.pid = w.pid
    BY <1>4, GotoType DEF CandidateReady, Return, Idle, Task, Labels
  <2> QED BY <2>1, <2>2, SessionSame DEF LaunchSteps
<1>5. CASE CandidateRecord
  <2>1. /\ proc' = proc /\ w.pc = "record" /\ w'.pc = "publish" /\ w'.pid = w.pid
        /\ procs'.candidate = w.pid
    BY <1>5, GotoType DEF CandidateRecord, node, Labels, ProcsFile
  <2> QED BY <2>1 DEF SessionInv, LaunchSteps
<1>6. CASE \/ CandidateAwait \/ CandidateClear \/ CandidatePublish \/ Timeout \/ Kill \/ Discard
           \/ DiscardAwait \/ Promote \/ PromoteKeep \/ PromoteApprove \/ Rollback
           \/ RollbackRoute
  <2>1. procs' = procs /\ proc' = proc
    BY <1>6
       DEF CandidateAwait, CandidateClear, CandidatePublish, Timeout, Kill, GiveUp, Discard,
           DiscardAwait, Promote, PromoteKeep, PromoteApprove, Rollback, RollbackRoute,
           files, node
  <2>2. w'.pc \notin LaunchSteps \cup {"switch"}
    BY <1>6, GotoType
       DEF CandidateAwait, CandidateClear, CandidatePublish, Timeout, Kill, GiveUp, Discard,
           DiscardAwait, Promote, PromoteKeep, PromoteApprove, Rollback, RollbackRoute,
           Return, Idle, Task, Labels, LaunchSteps
  <2> QED BY <2>1, <2>2, SessionSame
<1>7. CASE DiscardStop
  <2>1. \A q \in Pids : proc'[q].served = proc[q].served
    BY <1>7, SignalCalm DEF DiscardStop
  <2>2. w'.pc \notin LaunchSteps \cup {"switch"}
    BY <1>7, GotoType DEF DiscardStop, Return, Idle, Task, Labels, LaunchSteps
  <2> QED BY <1>7, <2>1, <2>2, SessionSame DEF DiscardStop, files
<1>8. CASE DiscardSave
  BY <1>8 DEF DiscardSave, SessionInv, Return, Idle, Task, LaunchSteps, ProcsFile
<1>9. CASE PromoteProcs
  <2>1. CASE Approves /\ procs.candidate # 0
    <3>1. procs'.candidate = 0 /\ w'.pc = "switch"
      BY <1>9, <2>1, GotoType DEF PromoteProcs, Labels
    <3> QED BY <3>1 DEF SessionInv, LaunchSteps
  <2>2. CASE ~(Approves /\ procs.candidate # 0)
    <3>1. procs' = procs /\ proc' = proc /\ w'.pc = "idle"
      BY <1>9, <2>2 DEF PromoteProcs, Return, Idle, Task, node
    <3> QED BY <3>1, SessionSame DEF LaunchSteps
  <2> QED BY <2>1, <2>2
<1>10. CASE PromoteRoute
  <2>1. procs' = procs /\ w.pc = "switch" /\ w'.pc \in {"keep", "idle"}
    BY <1>10, GotoType DEF PromoteRoute, Return, Idle, Task, Labels
  <2> QED BY <2>1 DEF SessionInv, LaunchSteps
<1>11. CASE RollbackProcs
  <2>1. /\ procs'.candidate = procs.candidate /\ proc' = proc
        /\ w'.pc = "restored"
    BY <1>11, GotoType DEF RollbackProcs, node, Labels, ProcsFile
  <2> QED BY <2>1 DEF SessionInv, LaunchSteps
<1>12. CASE FaultActive \/ Cleanup
  <2>1. \A q \in Pids : proc'[q].served = proc[q].served
    BY <1>12, SignalCalm DEF FaultActive, Cleanup
  <2> QED BY <1>12, <2>1, SessionSame DEF FaultActive, Cleanup, files
<1>13. CASE Measurements \/ Connections \/ UNCHANGED vars
  <2>1. procs' = procs /\ proc' = proc /\ w' = w
    BY <1>13
       DEF Measurements, Connections, NewBundle, MeasureRequired, MeasureForbidden,
           MeasureHealth, Age, ConnRoute, ConnJoin, ConnEnd, vars, files, node
  <2> QED BY <2>1, SessionSame
<1> QED
  BY <1>1, <1>2, <1>3, <1>4, <1>5, <1>6, <1>7, <1>8, <1>9, <1>10, <1>11, <1>12, <1>13
     DEF Next, Servers, Commands, CandidateSteps, DiscardSteps, PromoteSteps, RollbackSteps

\* Only the fault injection and the cleanup stop a server that was ever the
\* active one (gate_worker.py:203).
THEOREM SessionsKept == Spec => SessionsSurvive
<1>1. Init => SessionInv
  BY DEF Init, SessionInv, LaunchSteps, Idle, Task
<1>2. TypeInv /\ TypeInv' /\ SessionInv /\ [Next]_vars => SessionInv'
  BY SessionStep
<1>3. TypeInv /\ SessionInv /\ [Next]_vars =>
        [\A p \in Pids :
           proc[p].served /\ proc[p].st = "listening" /\ proc'[p].st = "stopping"
             => done' \/ (p = procs.active /\ p # procs.candidate)]_vars
  <2> SUFFICES ASSUME TypeInv, SessionInv, Next, NEW p \in Pids,
                      proc[p].served, proc[p].st = "listening", proc'[p].st = "stopping"
               PROVE  done' \/ (p = procs.active /\ p # procs.candidate)
    OBVIOUS
  <2> USE DEF TypeInv, TypeOK
  <2>1. proc' # proc
    OBVIOUS
  <2>2. ASSUME NEW S, Signal(S) PROVE p \in S
    BY <2>2 DEF Signal
  <2>3. ASSUME NEW v \in Versions, Candidate(v) PROVE FALSE
    <3>1. Signal({procs.candidate}) /\ procs.candidate # 0
      BY <2>1, <2>3 DEF Candidate
    <3>2. p = procs.candidate
      BY <2>2, <3>1
    <3> QED BY <3>1, <3>2 DEF SessionInv
  <2>4. CASE DiscardStop
    <3>1. Signal({procs.candidate}) /\ procs.candidate # 0
      BY <2>1, <2>4 DEF DiscardStop
    <3>2. p = procs.candidate
      BY <2>2, <3>1
    <3> QED BY <3>1, <3>2 DEF SessionInv
  <2>5. CASE FaultActive
    <3>1. p = procs.active /\ p # 0
      BY <2>2, <2>5 DEF FaultActive, Pids
    <3> QED BY <3>1 DEF SessionInv
  <2>6. CASE Cleanup
    BY <2>6 DEF Cleanup
  <2>7. ASSUME NEW q \in Pids, Listen(q) \/ Exit(q) \/ Die(q) PROVE FALSE
    BY <2>7 DEF Listen, Exit, Die, Server
  <2>8. CASE CandidateSpawn
    BY <2>8 DEF CandidateSpawn, Server
  <2>9. CASE PromoteRoute
    BY <2>9 DEF PromoteRoute, Server
  <2> QED
    BY <2>1, <2>3, <2>4, <2>5, <2>6, <2>7, <2>8, <2>9
       DEF Next, Servers, Commands, CandidateSteps, DiscardSteps, PromoteSteps,
           RollbackSteps, Measurements, Connections, CandidateAwait, CandidateClear,
           CandidateReady, CandidateRecord, CandidatePublish, Discard, DiscardAwait,
           DiscardSave, Promote, PromoteProcs, PromoteKeep, PromoteApprove, Rollback,
           RollbackProcs, RollbackRoute, Timeout, Kill, GiveUp, NewBundle, MeasureRequired,
           MeasureForbidden, MeasureHealth, Age, ConnRoute, ConnJoin, ConnEnd, node
<1> QED BY <1>1, <1>2, <1>3, TypeInvariant, PTL DEF Spec, SessionsSurvive

-----------------------------------------------------------------------------
\* Cleanup.

Running(p) == proc[p].st \in {"starting", "listening"}

\* The steps after which the candidate entry of processes.json is overwritten.
Replacing == {"await", "clear", "spawn", "ready", "record", "discarding", "discarded"}

\* Every server that has not been told to stop is in processes.json, or is the
\* one the worker is about to enter, or was lost by a launch; an entry is
\* overwritten when its server has been told to stop.
SweepInv ==
  /\ procs.candidate <= npid
  /\ w.pc \in LaunchSteps => w.pid <= npid
  /\ \A p \in Pids \ lost : Running(p) =>
       p \in Recorded \/ (w.pc \in {"ready", "record"} /\ p = w.pid)
  /\ w.pc \in Replacing => \A p \in Pids : p = procs.candidate => ~Running(p)
  /\ w.pc \notin {"restore", "restored"}
  /\ done => w.pc = "idle" /\ \A p \in Pids \ lost : ~Running(p)

\* A step that starts no server leaves every server its name and port, and runs
\* none that did not run.
LEMMA StillServers ==
  ASSUME TypeInv, [Next]_vars, ~CandidateSpawn
  PROVE  /\ npid' = npid
         /\ \A p \in Pids : /\ proc'[p].name = proc[p].name
                            /\ proc'[p].port = proc[p].port
                            /\ Running(p)' => Running(p)
<1> USE DEF TypeInv, TypeOK
<1>1. ASSUME NEW q \in Pids, Listen(q) \/ Exit(q) \/ Die(q)
      PROVE  /\ npid' = npid
             /\ \A p \in Pids : /\ proc'[p].name = proc[p].name
                                /\ proc'[p].port = proc[p].port
                                /\ Running(p)' => Running(p)
  BY <1>1 DEF Listen, Exit, Die, Running, Server
<1>2. ASSUME NEW S, Signal(S), NEW p \in Pids
      PROVE  /\ proc'[p].name = proc[p].name /\ proc'[p].port = proc[p].port
             /\ Running(p)' => Running(p)
  <2>1. /\ proc[p] \in Server
        /\ AfterSignal[proc[p].st] \in ProcessStates \ {"starting", "listening"}
    BY DEF Server, ProcessStates, AfterSignal
  <2>2. CASE p \in S
    <3>1. proc'[p] = [proc[p] EXCEPT !.st = AfterSignal[proc[p].st]]
      BY <1>2, <2>2 DEF Signal
    <3>2. proc'[p].st = AfterSignal[proc[p].st]
      BY <2>1, <3>1, ServerState
    <3> QED BY <1>2, <2>1, <3>2, SignalCalm DEF Running, Lasts
  <2>3. CASE p \notin S
    BY <1>2, <2>3 DEF Signal, Running
  <2> QED BY <2>2, <2>3
<1>3. CASE FaultActive \/ Cleanup \/ DiscardStop \/ \E v \in Versions : Candidate(v)
  <2>1. npid' = npid
    BY <1>3 DEF FaultActive, Cleanup, DiscardStop, Candidate
  <2>2. proc' = proc \/ \E S : Signal(S)
    BY <1>3 DEF FaultActive, Cleanup, DiscardStop, Candidate
  <2> QED BY <1>2, <2>1, <2>2 DEF Running
<1>4. CASE PromoteRoute
  BY <1>4 DEF PromoteRoute, Running, Server
<1>5. CASE npid' = npid /\ proc' = proc
  BY <1>5 DEF Running
<1> QED
  BY <1>1, <1>3, <1>4, <1>5
     DEF Next, Servers, Commands, CandidateSteps, DiscardSteps, PromoteSteps,
         RollbackSteps, Measurements, Connections, CandidateAwait, CandidateClear,
         CandidateReady, CandidateRecord, CandidatePublish, Discard, DiscardAwait,
         DiscardSave, Promote, PromoteProcs, PromoteKeep, PromoteApprove, Rollback,
         RollbackProcs, RollbackRoute, Timeout, Kill, GiveUp, NewBundle, MeasureRequired,
         MeasureForbidden, MeasureHealth, Age, ConnRoute, ConnJoin, ConnEnd, node, vars

\* What a signal stops does not run.
LEMMA SignalStops ==
  ASSUME TypeInv, NEW S, Signal(S), NEW p \in Pids, p \in S
  PROVE  ~Running(p)'
<1>1. /\ proc[p] \in Server
      /\ AfterSignal[proc[p].st] \in ProcessStates \ {"starting", "listening"}
  BY DEF TypeInv, TypeOK, Server, ProcessStates, AfterSignal
<1>2. proc'[p] = [proc[p] EXCEPT !.st = AfterSignal[proc[p].st]]
  BY DEF Signal
<1>3. proc'[p].st = AfterSignal[proc[p].st]
  BY <1>1, <1>2, ServerState
<1> QED BY <1>1, <1>3 DEF Running

\* The steps that start no server and leave processes.json alone.
LEMMA SweepSame ==
  ASSUME TypeInv, TypeInv', SweepInv, [Next]_vars, ~CandidateSpawn,
         procs' = procs, done' = done,
         \/ w' = w
         \/ /\ ~done
            /\ \/ /\ w.pc \notin {"ready", "record"}
                  /\ w'.pc \in {"idle", "promote", "discard", "keep", "approve"}
               \/ /\ w.pc \in {"await", "clear", "discarding"}
                  /\ w'.pc \in {"clear", "spawn", "discarded"}
               \/ w.pc = "ready" /\ w'.pc = "record" /\ w'.pid = w.pid
               \/ /\ w.pc \in UnrecordedSteps => w.pid \in lost'
                  /\ w'.pc = "idle"
  PROVE  SweepInv'
<1>0. lost \subseteq lost'
  BY Histories
<1>1. /\ npid' = npid
      /\ \A p \in Pids : Running(p)' => Running(p)
  BY StillServers
<1>2. Recorded' = Recorded
  BY DEF Recorded
<1>3. CASE w' = w
  BY <1>0, <1>1, <1>2, <1>3 DEF SweepInv
<1>4. CASE w' # w
  BY <1>0, <1>1, <1>2, <1>4 DEF SweepInv, Replacing, LaunchSteps
<1> QED BY <1>3, <1>4

\* The other steps: a candidate is started, entered, removed or promoted, or
\* servers are stopped.
LEMMA SweepStep ==
  ASSUME Release = FALSE, TypeInv, TypeInv', SweepInv, [Next]_vars
  PROVE  SweepInv'
<1> USE DEF TypeInv, TypeOK
<1>0. /\ w.pc # "idle" => ~done
      /\ lost \subseteq lost'
  BY Histories DEF SweepInv
<1>1. ASSUME NEW p \in Pids, Listen(p) \/ Exit(p) \/ Die(p) PROVE SweepInv'
  <2>1. procs' = procs /\ done' = done /\ w' = w /\ npid' = npid
    BY <1>1 DEF Listen, Exit, Die, files
  <2>2. ~CandidateSpawn
    BY <2>1 DEF CandidateSpawn, Pids
  <2> QED BY <2>1, <2>2, SweepSame
<1>2. CASE CandidateAwait \/ CandidateClear \/ DiscardAwait
  <2>1. procs' = procs /\ done' = done /\ ~CandidateSpawn
    BY <1>2 DEF CandidateAwait, CandidateClear, DiscardAwait, CandidateSpawn, files
  <2>2. w.pc \in {"await", "clear", "discarding"} /\ w'.pc \in {"clear", "spawn", "discarded"}
    BY <1>2, GotoType DEF CandidateAwait, CandidateClear, DiscardAwait, Labels
  <2> QED BY <1>0, <2>1, <2>2, SweepSame
<1>3. CASE CandidatePublish \/ Discard \/ Promote \/ PromoteRoute
                \/ PromoteKeep \/ PromoteApprove
  <2>0. procs' = procs /\ done' = done /\ npid' = npid /\ ~done
    BY <1>0, <1>3 DEF CandidatePublish, Discard, Promote, PromoteRoute,
       PromoteKeep, PromoteApprove, files, node, Start
  <2>1. ~CandidateSpawn
    BY <2>0 DEF CandidateSpawn, Pids
  <2>2. w.pc \notin {"ready", "record"}
    BY <1>3 DEF CandidatePublish, Discard, Promote, PromoteRoute,
       PromoteKeep, PromoteApprove, LaunchSteps, Start
  <2>3. w'.pc \in {"idle", "promote", "discard", "keep", "approve"}
    BY <1>3, GotoType DEF CandidatePublish, Discard, Promote, PromoteRoute,
       PromoteKeep, PromoteApprove, Return, Idle, Task, Labels
  <2> QED BY <2>0, <2>1, <2>2, <2>3, SweepSame
<1>14. CASE Timeout \/ Kill
  <2>1. procs' = procs /\ done' = done /\ npid' = npid /\ w'.pc = "idle" /\ ~done
    BY <1>0, <1>14 DEF Timeout, Kill, GiveUp, files, node, Return, Idle, Task
  <2>2. w.pc \in UnrecordedSteps => w.pid \in lost'
    BY <1>14 DEF Timeout, Kill, GiveUp
  <2>3. ~CandidateSpawn
    BY <2>1 DEF CandidateSpawn, Pids
  <2> QED BY <2>1, <2>2, <2>3, SweepSame
<1>4. CASE Measurements \/ Connections \/ FaultActive \/ UNCHANGED vars
  <2>1. procs' = procs /\ done' = done /\ w' = w /\ npid' = npid
    BY <1>4 DEF Measurements, Connections, NewBundle, MeasureRequired, MeasureForbidden,
       MeasureHealth, Age, ConnRoute, ConnJoin, ConnEnd, FaultActive, vars, files, node
  <2>2. ~CandidateSpawn
    BY <2>1 DEF CandidateSpawn, Pids
  <2> QED BY <2>1, <2>2, SweepSame
<1>5. CASE CandidateReady
  <2>1. procs' = procs /\ done' = done /\ ~CandidateSpawn /\ ~done /\ w.pc = "ready"
    BY <1>0, <1>5 DEF CandidateReady, CandidateSpawn, files
  <2>2. CASE Goto("record")
    BY <2>1, <2>2, GotoType, SweepSame DEF Labels
  <2>3. CASE proc[w.pid].st \in {"failed", "dead"} /\ Return
    <3>1. w'.pc = "idle" /\ ~Running(w.pid)
      BY <2>3 DEF Return, Idle, Task, Running
    <3>2. /\ npid' = npid
          /\ \A p \in Pids : Running(p)' => Running(p)
      BY <2>1, StillServers
    <3>3. Recorded' = Recorded
      BY <2>1 DEF Recorded
    <3> QED BY <1>0, <2>1, <3>1, <3>2, <3>3 DEF SweepInv, Replacing, LaunchSteps
  <2> QED BY <1>5, <2>2, <2>3 DEF CandidateReady
<1>6. CASE CandidateSpawn
  <2>1. /\ w.pc = "spawn" /\ w'.pc = "ready" /\ w'.pid = npid'
        /\ npid' = npid + 1 /\ npid + 1 \in Pids
        /\ procs' = procs /\ done' = done
    BY <1>6 DEF CandidateSpawn, Task, LabelInv, Pids, files
  <2>2. \A p \in Pids : p # npid' => proc'[p] = proc[p]
    BY <1>6, <2>1 DEF CandidateSpawn
  <2>3. \A p \in Pids \ lost : Running(p) => p \in Recorded
    BY <2>1 DEF SweepInv
  <2>4. Recorded' = Recorded
    BY <2>1 DEF Recorded
  <2>5. procs.candidate # npid' /\ procs.candidate <= npid' /\ npid' <= npid'
    BY <2>1, ProcsFields DEF SweepInv, Pids
  <2> QED BY <1>0, <2>1, <2>2, <2>3, <2>4, <2>5 DEF SweepInv, Replacing, LaunchSteps, Running
<1>7. CASE CandidateRecord
  <2>1. /\ w.pc = "record" /\ w'.pc = "publish" /\ w'.pid = w.pid
        /\ proc' = proc /\ npid' = npid /\ done' = done
    BY <1>7, GotoType DEF CandidateRecord, node, Labels
  <2>2. /\ procs'.active = procs.active /\ procs'.candidate = w.pid
        /\ procs'.retired = procs.retired
    BY <1>7 DEF CandidateRecord, ProcsFile
  <2>3. \A p \in Pids : Running(p) => p # procs.candidate
    BY <2>1 DEF SweepInv, Replacing
  <2> QED BY <1>0, <2>1, <2>2, <2>3 DEF SweepInv, Recorded, Replacing, LaunchSteps, Running
<1>8. CASE DiscardSave
  <2>1. /\ w.pc = "discarded" /\ w'.pc = "idle"
        /\ proc' = proc /\ npid' = npid /\ done' = done
    BY <1>8 DEF DiscardSave, node, Return, Idle, Task
  <2>2. /\ procs'.active = procs.active /\ procs'.candidate = 0
        /\ procs'.retired = procs.retired
    BY <1>8 DEF DiscardSave, ProcsFile
  <2>3. \A p \in Pids : Running(p) => p # procs.candidate
    BY <2>1 DEF SweepInv, Replacing
  <2> QED BY <1>0, <2>1, <2>2, <2>3
     DEF SweepInv, Recorded, Replacing, LaunchSteps, Running, Pids
<1>9. CASE PromoteProcs
  <2>1. CASE Approves /\ procs.candidate # 0
    <3>1. /\ w.pc = "promote" /\ w'.pc = "switch"
          /\ proc' = proc /\ npid' = npid /\ done' = done
      BY <1>9, <2>1, GotoType DEF PromoteProcs, node, Labels
    <3>2. /\ procs'.active = procs.candidate /\ procs'.candidate = 0
          /\ procs'.retired = procs.retired \cup {procs.active}
      BY <1>9, <2>1 DEF PromoteProcs
    <3> QED BY <1>0, <3>1, <3>2
     DEF SweepInv, Recorded, Replacing, LaunchSteps, Running, Pids
  <2>2. CASE ~(Approves /\ procs.candidate # 0)
    BY <1>0, <1>9, <2>2, SweepSame DEF PromoteProcs, Return, Idle, Task, CandidateSpawn
  <2> QED BY <2>1, <2>2
<1>10. ASSUME NEW v \in Versions, Candidate(v) PROVE SweepInv'
  <2>1. /\ w.pc = "idle" /\ ~done /\ done' = done /\ npid' = npid /\ procs' = procs
        /\ w'.pc \in {"idle", "clear", "await"}
    BY <1>10 DEF Candidate, Start, Return, Idle, Task, files
  <2>2. ~CandidateSpawn
    BY <2>1 DEF CandidateSpawn
  <2>3. \A p \in Pids : Running(p)' => Running(p)
    BY <2>2, StillServers
  <2>4. \A p \in Pids : p = procs.candidate => ~Running(p)'
    <3>1. procs.candidate # 0 => Signal({procs.candidate})
      BY <1>10 DEF Candidate
    <3> QED BY <3>1, SignalStops DEF Pids
  <2>5. Recorded' = Recorded
    BY <2>1 DEF Recorded
  <2> QED BY <1>0, <2>1, <2>3, <2>4, <2>5 DEF SweepInv, Replacing, LaunchSteps
<1>11. CASE DiscardStop
  <2>1. /\ w.pc = "discard" /\ ~done /\ done' = done /\ npid' = npid /\ procs' = procs
        /\ w'.pc \in {"idle", "discarding"}
    BY <1>0, <1>11, GotoType DEF DiscardStop, Return, Idle, Task, files, Labels
  <2>2. ~CandidateSpawn
    BY <2>1 DEF CandidateSpawn
  <2>3. \A p \in Pids : Running(p)' => Running(p)
    BY <2>2, StillServers
  <2>4. \A p \in Pids : p = procs.candidate => ~Running(p)'
    <3>1. procs.candidate # 0 => Signal({procs.candidate})
      BY <1>11 DEF DiscardStop
    <3> QED BY <3>1, SignalStops DEF Pids
  <2>5. Recorded' = Recorded
    BY <2>1 DEF Recorded
  <2> QED BY <1>0, <2>1, <2>3, <2>4, <2>5 DEF SweepInv, Replacing, LaunchSteps
<1>12. CASE Cleanup
  <2>1. /\ w.pc = "idle" /\ w' = w /\ npid' = npid /\ procs' = procs /\ Signal(Recorded)
    BY <1>12 DEF Cleanup, Start, files
  <2>2. ~CandidateSpawn
    BY <2>1 DEF CandidateSpawn
  <2>3. \A p \in Pids : Running(p)' => Running(p)
    BY <2>2, StillServers
  <2>4. \A p \in Pids \ lost : Running(p) => p \in Recorded
    BY <2>1 DEF SweepInv
  <2>5. \A p \in Pids \ lost : ~Running(p)'
    BY <2>1, <2>3, <2>4, SignalStops
  <2> QED BY <1>0, <2>1, <2>5 DEF SweepInv, Replacing, LaunchSteps
<1>13. CASE Rollback \/ RollbackSteps
  BY <1>13 DEF Rollback, RollbackSteps, RollbackProcs, RollbackRoute, SweepInv
<1> QED
  BY <1>1, <1>2, <1>3, <1>4, <1>5, <1>6, <1>7, <1>8, <1>9, <1>10, <1>11, <1>12, <1>13,
     <1>14 DEF Next, Servers, Commands, CandidateSteps, DiscardSteps, PromoteSteps, RollbackSteps

\* Cleanup leaves no server running that a launch had saved, whatever was cut
\* off by worker kills and whichever servers died, as long as no release has
\* moved the active process back (gate_worker.py:203 to 208).
THEOREM CleanupComplete ==
  ASSUME Release = FALSE
  PROVE  Spec => []CleanupStopsRecorded
<1>1. Init => SweepInv
  BY DEF Init, SweepInv, Running, Recorded, Replacing, LaunchSteps, Idle, Task
<1>2. TypeInv /\ TypeInv' /\ SweepInv /\ [Next]_vars => SweepInv'
  BY SweepStep
<1>3. SweepInv => CleanupStopsRecorded
  BY DEF SweepInv, Running, CleanupStopsRecorded
<1> QED BY <1>1, <1>2, <1>3, TypeInvariant, PTL DEF Spec

-----------------------------------------------------------------------------
\* Agreement of the files.

\* A target, when there is one, is served by this process.
Matched(p, target) == target # None => p \in Pids /\ Serves(p, target)

\* The steps of a promotion, at which the worker remembers what was active.
Deciding == {"promote", "switch", "keep", "approve"}

\* The pids of the state files and of the worker are those of started servers.
KnownInv ==
  /\ procs.active <= npid
  /\ procs.candidate <= npid
  /\ rb # None => rb.pid <= npid
  /\ w.pc \in LaunchSteps \cup Deciding => w.pid <= npid

\* What holds step by step, as long as nothing failed.
ActiveMatch ==
  /\ w.pc \notin {"switch", "restored"} => Matched(procs.active, route.active)
  /\ w.pc = "switch" => procs.candidate = 0 /\ Matched(procs.active, route.candidate)
  /\ w.pc = "restored" => Matched(procs.active, rb.route)

CandidateMatch ==
  w.pc \in {"idle", "await", "promote", "keep", "approve", "restore", "restored"} =>
    /\ (procs.candidate = 0) <=> (route.candidate = None)
    /\ Matched(procs.candidate, route.candidate)

DiscardMatch ==
  /\ w.pc = "discard" => (procs.candidate = 0) <=> (w.old = None)
  /\ w.pc \in {"discard", "discarding", "discarded"} => route.candidate = None

LaunchMatch ==
  /\ w.pc \in LaunchSteps => proc[w.pid].port = route.next
  /\ w.pc = "ready" => proc[w.pid].st \in {"starting", "listening"}
  /\ w.pc = "publish" => procs.candidate = w.pid

FormerMatch ==
  /\ w.pc = "promote" => w.pid = procs.active /\ w.old = route.active
  /\ w.pc \in {"switch", "keep", "approve"} => Matched(w.pid, w.old)
  /\ rb # None => Matched(rb.pid, rb.route)

MatchInv == ActiveMatch /\ CandidateMatch /\ DiscardMatch /\ LaunchMatch /\ FormerMatch
AgreeInv == KnownInv /\ ProcInv /\ (faults = 0 => abandoned = {} /\ MatchInv)

\* A target that is served stays served: servers keep their names and ports.
LEMMA KeepsServing ==
  ASSUME TypeInv, [Next]_vars, NEW p \in Pids, p <= npid
  PROVE  /\ proc'[p].name = proc[p].name
         /\ proc'[p].port = proc[p].port
<1>1. CASE CandidateSpawn
  <2>1. p # npid + 1
    BY DEF Pids, TypeInv, TypeOK
  <2> QED BY <1>1, <2>1 DEF CandidateSpawn, TypeInv, TypeOK
<1>2. CASE ~CandidateSpawn
  BY <1>2, StillServers
<1> QED BY <1>1, <1>2

\* No step makes the files or the worker name a process that was not started.
LEMMA KnownStep ==
  ASSUME TypeInv, TypeInv', KnownInv, [Next]_vars
  PROVE  KnownInv'
<1> USE DEF TypeInv, TypeOK
<1>1. npid \in Nat /\ npid' \in Nat /\ npid <= npid'
  <2>1. npid' = npid \/ npid' = npid + 1
    BY StillServers DEF CandidateSpawn
  <2> QED BY <2>1 DEF Pids
<1>2. /\ procs.active \in Nat /\ procs.candidate \in Nat /\ w.pid \in Nat
      /\ rb # None => rb.pid \in Nat
  <2>1. Pids \cup {0} \subseteq Nat
    BY DEF Pids
  <2>2. procs.active \in Pids /\ procs.candidate \in Pids \cup {0}
    BY ProcsFields
  <2>3. w.pid \in Pids \cup {0}
    BY DEF Worker
  <2>4. rb # None => rb.pid \in Pids
    BY DEF RbFile
  <2> QED BY <2>1, <2>2, <2>3, <2>4
<1>3. CASE procs' = procs /\ rb' = rb
           /\ \/ w' = w
              \/ w'.pc \notin LaunchSteps \cup Deciding
              \/ w'.pid = w.pid /\ w.pc \in LaunchSteps \cup Deciding
              \/ w'.pid = npid'
              \/ w'.pid = procs.active
  BY <1>1, <1>2, <1>3 DEF KnownInv, Deciding
<1>4. CASE \/ CandidateAwait \/ CandidateClear \/ CandidateSpawn \/ CandidateReady
           \/ CandidatePublish
           \/ Timeout \/ Kill \/ Discard \/ DiscardStop \/ DiscardAwait \/ Promote
           \/ PromoteRoute \/ PromoteApprove \/ Rollback \/ RollbackRoute
           \/ \E v \in Versions : Candidate(v)
  <2>1. procs' = procs /\ rb' = rb
    BY <1>4 DEF CandidateAwait, CandidateClear, CandidateSpawn, CandidateReady,
       CandidatePublish, Timeout, Kill, GiveUp, Discard, DiscardStop, DiscardAwait, Promote,
       PromoteRoute, PromoteApprove, Rollback, RollbackRoute, Candidate, files
  <2>2. \/ w'.pc \notin LaunchSteps \cup Deciding
        \/ w'.pid = w.pid /\ w.pc \in LaunchSteps \cup Deciding
        \/ w'.pid = npid'
        \/ w'.pid = procs.active
    BY <1>4, GotoType DEF CandidateAwait, CandidateClear, CandidateSpawn, CandidateReady,
       CandidatePublish, Timeout, Kill, GiveUp, Discard, DiscardStop, DiscardAwait, Promote,
       PromoteRoute, PromoteApprove, Rollback, RollbackRoute, Candidate, Return, Idle, Task,
       Labels, LaunchSteps, Deciding
  <2> QED BY <1>3, <2>1, <2>2
<1>5. CASE Servers \/ Measurements \/ Connections \/ FaultActive \/ Cleanup \/ UNCHANGED vars
  <2>1. procs' = procs /\ rb' = rb /\ w' = w
    BY <1>5 DEF Servers, Listen, Exit, Die, Measurements, Connections, NewBundle,
       MeasureRequired, MeasureForbidden, MeasureHealth, Age, ConnRoute, ConnJoin, ConnEnd,
       FaultActive, Cleanup, vars, files
  <2> QED BY <1>3, <2>1
<1>6. CASE CandidateRecord
  <2>1. /\ rb' = rb /\ w.pc = "record" /\ w'.pc = "publish" /\ w'.pid = w.pid
        /\ procs'.active = procs.active /\ procs'.candidate = w.pid
    BY <1>6, GotoType DEF CandidateRecord, Labels, ProcsFile
  <2> QED BY <1>1, <1>2, <2>1 DEF KnownInv, Deciding, LaunchSteps
<1>7. CASE DiscardSave
  <2>1. /\ rb' = rb /\ w'.pc = "idle"
        /\ procs'.active = procs.active /\ procs'.candidate = 0
    BY <1>7 DEF DiscardSave, Return, Idle, Task, ProcsFile
  <2> QED BY <1>1, <1>2, <2>1 DEF KnownInv, Deciding, LaunchSteps
<1>8. CASE PromoteProcs
  <2>1. CASE Approves /\ procs.candidate # 0
    <3>1. /\ rb' = rb /\ w.pc = "promote" /\ w'.pc = "switch" /\ w'.pid = w.pid
          /\ procs'.active = procs.candidate /\ procs'.candidate = 0
      BY <1>8, <2>1, GotoType DEF PromoteProcs, Labels
    <3> QED BY <1>1, <1>2, <3>1 DEF KnownInv, Deciding, LaunchSteps
  <2>2. CASE ~(Approves /\ procs.candidate # 0)
    BY <1>3, <1>8, <2>2 DEF PromoteProcs, Return, Idle, Task, LaunchSteps, Deciding
  <2> QED BY <2>1, <2>2
<1>9. CASE PromoteKeep
  <2>1. /\ procs' = procs /\ w.pc = "keep" /\ w'.pc = "approve" /\ w'.pid = w.pid
        /\ rb'.pid = w.pid
    BY <1>9, GotoType DEF PromoteKeep, Labels
  <2> QED BY <1>1, <1>2, <2>1 DEF KnownInv, Deciding, LaunchSteps
<1>10. CASE RollbackProcs
  <2>1. /\ rb' = rb /\ w.pc = "restore" /\ w'.pc = "restored"
        /\ procs'.active = rb.pid /\ procs'.candidate = procs.candidate
    BY <1>10, GotoType DEF RollbackProcs, Labels, ProcsFile
  <2> QED BY <1>1, <1>2, <2>1 DEF KnownInv, Deciding, LaunchSteps, LabelInv
<1> QED
  BY <1>4, <1>5, <1>6, <1>7, <1>8, <1>9, <1>10
     DEF Next, Commands, CandidateSteps, DiscardSteps, PromoteSteps, RollbackSteps

\* As long as nothing failed, the server of a launch does not end: its port is
\* free, and no command runs that could signal it.
LEMMA LaunchLives ==
  ASSUME TypeInv, ProcInv, abandoned = {}, LaunchMatch, [Next]_vars, faults' = faults,
         w' = w, w.pc = "ready"
  PROVE  proc'[w.pid].st \in {"starting", "listening"}
<1> USE DEF TypeInv, TypeOK
<1>1. w.pid \in Pids /\ proc[w.pid].st \in {"starting", "listening"}
      /\ proc[w.pid].port = route.next
  BY DEF LabelInv, LaunchSteps, LaunchMatch
<1>2. ASSUME NEW p \in Pids, Listen(p) PROVE proc'[w.pid].st \in {"starting", "listening"}
  <2>1. CASE p # w.pid
    BY <1>1, <1>2, <2>1 DEF Listen
  <2>2. CASE p = w.pid
    <3>1. ASSUME NEW q \in Pids, Holding(q), proc[q].port = route.next PROVE FALSE
      <4>1. proc[q].port \in Nat
        BY DEF Server
      <4>2. q = w.pid
        BY <3>1, <4>1 DEF Holding, Ours, Present, ProcInv, Launching
      <4> QED BY <1>2, <2>2, <3>1, <4>2 DEF Holding, Listen
    <3>2. PortClosed(proc[p].port)
      BY <1>1, <2>2, <3>1 DEF PortClosed
    <3>3. proc' = [proc EXCEPT ![p].st = "listening"]
      BY <1>2, <3>2 DEF Listen
    <3> QED BY <1>1, <2>2, <3>3
  <2> QED BY <2>1, <2>2
<1>3. ASSUME NEW p \in Pids, Exit(p) \/ Die(p)
      PROVE  proc'[w.pid].st \in {"starting", "listening"}
  BY <1>1, <1>3 DEF Exit, Die
<1>4. CASE proc' = proc
  BY <1>1, <1>4
<1> QED
  BY <1>2, <1>3, <1>4
     DEF Next, Servers, Commands, CandidateSteps, DiscardSteps, PromoteSteps,
         RollbackSteps, Measurements, Connections, Candidate, CandidateAwait,
         CandidateClear, CandidateSpawn, CandidateReady, CandidateRecord, CandidatePublish,
         Discard, DiscardStop, DiscardAwait, DiscardSave, Promote, PromoteProcs,
         PromoteRoute, PromoteKeep, PromoteApprove, Rollback, RollbackProcs, RollbackRoute,
         FaultActive, Cleanup, Start, Timeout, Kill, GiveUp, NewBundle, MeasureRequired,
         MeasureForbidden, MeasureHealth, Age, ConnRoute, ConnJoin, ConnEnd, node, vars

\* What the worker's step leaves of a match, with the primes spelt out.
LEMMA MatchNext ==
  ASSUME TypeInv, [Next]_vars, NEW p, NEW t, p <= npid, Matched(p, t)
  PROVE  t # None => p \in Pids /\ proc'[p].name = t.name /\ proc'[p].port = t.port
  BY KeepsServing DEF Matched, Serves

\* Every step that is no fault takes files that match to files that match.
LEMMA MatchStep ==
  ASSUME TypeInv, TypeInv', KnownInv, ProcInv, abandoned = {}, MatchInv, [Next]_vars,
         faults = 0, faults' = 0
  PROVE  MatchInv'
<1> USE DEF TypeInv, TypeOK
<1> DEFINE Kept(p, t) ==
      t # None => p \in Pids /\ proc'[p].name = t.name /\ proc'[p].port = t.port
<1>a. ASSUME NEW p, NEW t, p <= npid, Matched(p, t) PROVE Kept(p, t)
  BY <1>a, MatchNext
<1>b. /\ w.pc \notin {"switch", "restored"} => Kept(procs.active, route.active)
      /\ w.pc = "switch" => procs.candidate = 0 /\ Kept(procs.active, route.candidate)
      /\ w.pc = "restored" => Kept(procs.active, rb.route)
  BY <1>a DEF MatchInv, ActiveMatch, KnownInv
<1>c. w.pc \in {"idle", "await", "promote", "keep", "approve", "restore", "restored"} =>
        /\ (procs.candidate = 0) <=> (route.candidate = None)
        /\ Kept(procs.candidate, route.candidate)
  BY <1>a DEF MatchInv, CandidateMatch, KnownInv
<1>d. /\ w.pc = "discard" => (procs.candidate = 0) <=> (w.old = None)
      /\ w.pc \in {"discard", "discarding", "discarded"} => route.candidate = None
  BY DEF MatchInv, DiscardMatch
<1>e. /\ w.pc \in LaunchSteps => w.pid \in Pids /\ proc[w.pid].port = route.next
                                 /\ proc[w.pid].name = w.name /\ route.candidate = None
      /\ w.pc = "ready" => proc[w.pid].st \in {"starting", "listening"}
      /\ w.pc = "publish" => procs.candidate = w.pid
  BY DEF MatchInv, LaunchMatch, ProcInv, LabelInv
<1>f. /\ w.pc = "promote" => w.pid = procs.active /\ w.old = route.active
      /\ w.pc \in {"switch", "keep", "approve"} => Kept(w.pid, w.old)
      /\ rb # None => Kept(rb.pid, rb.route)
  BY <1>a DEF MatchInv, FormerMatch, KnownInv, Deciding
<1>g. w.pc \in LaunchSteps =>
        proc'[w.pid].port = proc[w.pid].port /\ proc'[w.pid].name = proc[w.pid].name
  BY <1>e, KeepsServing DEF KnownInv, Deciding
<1>h. None \notin Target /\ route.active # None /\ route'.active # None
  BY RouteFields
<1>1. CASE /\ route' = route /\ procs' = procs /\ rb' = rb /\ w' = w
  <2>1. w.pc = "ready" => proc'[w.pid].st \in {"starting", "listening"}
    BY <1>1, LaunchLives DEF MatchInv
  <2> QED BY <1>1, <2>1, <1>b, <1>c, <1>d, <1>e, <1>f, <1>g, <1>h
       DEF MatchInv, ActiveMatch, CandidateMatch, DiscardMatch, LaunchMatch,
       FormerMatch, Matched, Serves, LaunchSteps
<1>2. ASSUME NEW v \in Versions, Candidate(v) PROVE MatchInv'
  <2>1. /\ route' = route /\ procs' = procs /\ rb' = rb
        /\ w.pc = "idle" /\ w'.pc \in {"clear", "idle", "await"}
    BY <1>2 DEF Candidate, Start, Return, Idle, Task, files
  <2> QED BY <2>1, <1>b, <1>c, <1>d, <1>e, <1>f, <1>g, <1>h
       DEF MatchInv, ActiveMatch, CandidateMatch, DiscardMatch, LaunchMatch,
       FormerMatch, Matched, Serves, LaunchSteps
<1>3. CASE CandidateAwait
  <2>1. /\ route' = route /\ procs' = procs /\ rb' = rb
        /\ w.pc = "await" /\ w'.pc = "clear"
    BY <1>3, GotoType DEF CandidateAwait, Labels, files
  <2> QED BY <2>1, <1>b, <1>c, <1>d, <1>e, <1>f, <1>g, <1>h
       DEF MatchInv, ActiveMatch, CandidateMatch, DiscardMatch, LaunchMatch,
       FormerMatch, Matched, Serves, LaunchSteps
<1>4. CASE CandidateClear
  <2>1. /\ route'.active = route.active /\ procs' = procs /\ rb' = rb
        /\ w.pc = "clear" /\ w'.pc = "spawn"
    BY <1>4, GotoType DEF CandidateClear, Labels, RouteFile
  <2> QED BY <2>1, <1>b, <1>c, <1>d, <1>e, <1>f, <1>g, <1>h
       DEF MatchInv, ActiveMatch, CandidateMatch, DiscardMatch, LaunchMatch,
       FormerMatch, Matched, Serves, LaunchSteps
<1>5. CASE CandidateSpawn
  <2>1. /\ route' = route /\ procs' = procs /\ rb' = rb
        /\ w.pc = "spawn" /\ w'.pc = "ready" /\ w'.pid = npid + 1 /\ npid + 1 \in Pids
    BY <1>5 DEF CandidateSpawn, Task, files, LabelInv, Pids
  <2>2. proc'[w'.pid].st = "starting" /\ proc'[w'.pid].port = route.next
    BY <1>5, <2>1 DEF CandidateSpawn
  <2> QED BY <2>1, <2>2, <1>b, <1>c, <1>d, <1>e, <1>f, <1>g, <1>h
       DEF MatchInv, ActiveMatch, CandidateMatch, DiscardMatch, LaunchMatch,
       FormerMatch, Matched, Serves, LaunchSteps
<1>6. CASE CandidateReady
  <2>1. /\ route' = route /\ procs' = procs /\ rb' = rb /\ proc' = proc
        /\ w.pc = "ready"
    BY <1>6 DEF CandidateReady, files, node
  <2>2. w'.pc = "record" /\ w'.pid = w.pid
    BY <1>6, <2>1, <1>e, GotoType DEF CandidateReady, Labels
  <2> QED BY <2>1, <2>2, <1>b, <1>c, <1>d, <1>e, <1>f, <1>g, <1>h
       DEF MatchInv, ActiveMatch, CandidateMatch, DiscardMatch, LaunchMatch,
       FormerMatch, Matched, Serves, LaunchSteps
<1>7. CASE CandidateRecord
  <2>1. /\ route' = route /\ rb' = rb /\ proc' = proc
        /\ procs'.active = procs.active /\ procs'.candidate = w.pid
        /\ w.pc = "record" /\ w'.pc = "publish" /\ w'.pid = w.pid
    BY <1>7, GotoType DEF CandidateRecord, node, Labels, ProcsFile
  <2> QED BY <2>1, <1>b, <1>c, <1>d, <1>e, <1>f, <1>g, <1>h
       DEF MatchInv, ActiveMatch, CandidateMatch, DiscardMatch, LaunchMatch,
       FormerMatch, Matched, Serves, LaunchSteps
<1>8. CASE CandidatePublish
  <2>1. /\ route'.active = route.active /\ procs' = procs /\ rb' = rb
        /\ route'.candidate = [name |-> w.name, port |-> route.next,
                               gen |-> gens + 1, approved |-> FALSE]
        /\ w.pc = "publish" /\ w'.pc = "idle"
    BY <1>8 DEF CandidatePublish, Return, Idle, Task, RouteFile
  <2>2. route'.candidate.name = w.name /\ route'.candidate.port = route.next
    BY <2>1
  <2>4. route'.candidate # None
    BY <1>8, PublishStep
  <2>3. procs.candidate = w.pid /\ w.pid \in Pids /\ w.pid # 0
    BY <2>1, <1>e DEF LaunchSteps, Pids
  <2> QED BY <2>1, <2>2, <2>3, <2>4, <1>b, <1>c, <1>d, <1>e, <1>f, <1>g, <1>h
       DEF MatchInv, ActiveMatch, CandidateMatch, DiscardMatch, LaunchMatch,
       FormerMatch, Matched, Serves, LaunchSteps
<1>9. CASE Timeout \/ Kill
  BY <1>9 DEF Timeout, Kill, GiveUp, Fault
<1>10. CASE Discard
  <2>1. /\ route'.active = route.active /\ route'.candidate = None
        /\ procs' = procs /\ rb' = rb
        /\ w.pc = "idle" /\ w'.pc = "discard" /\ w'.old = route.candidate
    BY <1>10 DEF Discard, Start, Task, RouteFile
  <2> QED BY <2>1, <1>b, <1>c, <1>d, <1>e, <1>f, <1>g, <1>h
       DEF MatchInv, ActiveMatch, CandidateMatch, DiscardMatch, LaunchMatch,
       FormerMatch, Matched, Serves, LaunchSteps
<1>11. CASE DiscardStop
  <2>1. route' = route /\ procs' = procs /\ rb' = rb /\ w.pc = "discard"
    BY <1>11 DEF DiscardStop, files
  <2>2. \/ w'.pc = "idle" /\ procs.candidate = 0
        \/ w'.pc = "discarding"
    BY <1>11, <1>d, GotoType DEF DiscardStop, Return, Idle, Task, Labels
  <2> QED BY <2>1, <2>2, <1>b, <1>c, <1>d, <1>e, <1>f, <1>g, <1>h
       DEF MatchInv, ActiveMatch, CandidateMatch, DiscardMatch, LaunchMatch,
       FormerMatch, Matched, Serves, LaunchSteps
<1>12. CASE DiscardAwait
  <2>1. /\ route' = route /\ procs' = procs /\ rb' = rb
        /\ w.pc = "discarding" /\ w'.pc = "discarded"
    BY <1>12, GotoType DEF DiscardAwait, files, Labels
  <2> QED BY <2>1, <1>b, <1>c, <1>d, <1>e, <1>f, <1>g, <1>h
       DEF MatchInv, ActiveMatch, CandidateMatch, DiscardMatch, LaunchMatch,
       FormerMatch, Matched, Serves, LaunchSteps
<1>13. CASE DiscardSave
  <2>1. /\ route' = route /\ rb' = rb
        /\ procs'.active = procs.active /\ procs'.candidate = 0
        /\ w.pc = "discarded" /\ w'.pc = "idle"
    BY <1>13 DEF DiscardSave, Return, Idle, Task, ProcsFile
  <2> QED BY <2>1, <1>b, <1>c, <1>d, <1>e, <1>f, <1>g, <1>h
       DEF MatchInv, ActiveMatch, CandidateMatch, DiscardMatch, LaunchMatch,
       FormerMatch, Matched, Serves, LaunchSteps
<1>14. CASE Promote
  <2>1. /\ route' = route /\ procs' = procs /\ rb' = rb
        /\ w.pc = "idle" /\ w'.pc = "promote"
        /\ w'.pid = procs.active /\ w'.old = route.active
    BY <1>14 DEF Promote, Start, Task, files
  <2> QED BY <2>1, <1>b, <1>c, <1>d, <1>e, <1>f, <1>g, <1>h
       DEF MatchInv, ActiveMatch, CandidateMatch, DiscardMatch, LaunchMatch,
       FormerMatch, Matched, Serves, LaunchSteps
<1>15. CASE PromoteProcs
  <2>1. route' = route /\ rb' = rb /\ w.pc = "promote"
    BY <1>15 DEF PromoteProcs
  <2>2. CASE Approves /\ procs.candidate # 0
    <3>1. /\ procs'.active = procs.candidate /\ procs'.candidate = 0
          /\ w'.pc = "switch" /\ w'.pid = w.pid /\ w'.old = w.old
      BY <1>15, <2>2, GotoType DEF PromoteProcs, Labels
    <3> QED BY <2>1, <3>1, <1>b, <1>c, <1>d, <1>e, <1>f, <1>g, <1>h
         DEF MatchInv, ActiveMatch, CandidateMatch, DiscardMatch, LaunchMatch,
       FormerMatch, Matched, Serves, LaunchSteps
  <2>3. CASE ~(Approves /\ procs.candidate # 0)
    <3>1. procs' = procs /\ w'.pc = "idle"
      BY <1>15, <2>3 DEF PromoteProcs, Return, Idle, Task
    <3> QED BY <2>1, <3>1, <1>b, <1>c, <1>d, <1>e, <1>f, <1>g, <1>h
         DEF MatchInv, ActiveMatch, CandidateMatch, DiscardMatch, LaunchMatch,
       FormerMatch, Matched, Serves, LaunchSteps
  <2> QED BY <2>2, <2>3
<1>16. CASE PromoteRoute
  <2>1. /\ route'.active = route.candidate /\ route'.candidate = None
        /\ procs' = procs /\ rb' = rb
        /\ w.pc = "switch" /\ w'.pc \in {"keep", "idle"}
        /\ w'.pc = "keep" => w'.pid = w.pid /\ w'.old = w.old
    BY <1>16, GotoType DEF PromoteRoute, Return, Idle, Task, Labels, RouteFile
  <2> QED BY <2>1, <1>b, <1>c, <1>d, <1>e, <1>f, <1>g, <1>h
       DEF MatchInv, ActiveMatch, CandidateMatch, DiscardMatch, LaunchMatch,
       FormerMatch, Matched, Serves, LaunchSteps
<1>17. CASE PromoteKeep
  <2>1. /\ route' = route /\ procs' = procs /\ rb'.route = w.old /\ rb'.pid = w.pid
        /\ w.pc = "keep" /\ w'.pc = "approve" /\ w'.pid = w.pid /\ w'.old = w.old
    BY <1>17, GotoType DEF PromoteKeep, Labels
  <2> QED BY <2>1, <1>b, <1>c, <1>d, <1>e, <1>f, <1>g, <1>h
       DEF MatchInv, ActiveMatch, CandidateMatch, DiscardMatch, LaunchMatch,
       FormerMatch, Matched, Serves, LaunchSteps
<1>18. CASE PromoteApprove
  <2>1. /\ route'.active = [route.active EXCEPT !.approved = TRUE]
        /\ route'.candidate = route.candidate
        /\ procs' = procs /\ rb' = rb
        /\ w.pc = "approve" /\ w'.pc = "idle"
    BY <1>18 DEF PromoteApprove, Return, Idle, Task, RouteFile
  <2>2. route'.active.name = route.active.name /\ route'.active.port = route.active.port
    BY <2>1, RouteFields, TargetFields
  <2> QED BY <2>1, <2>2, <1>b, <1>c, <1>d, <1>e, <1>f, <1>g, <1>h
       DEF MatchInv, ActiveMatch, CandidateMatch, DiscardMatch, LaunchMatch,
       FormerMatch, Matched, Serves, LaunchSteps
<1>19. CASE Rollback
  <2>1. /\ route' = route /\ procs' = procs /\ rb' = rb
        /\ w.pc = "idle" /\ w'.pc = "restore"
    BY <1>19 DEF Rollback, Start, Task, files
  <2> QED BY <2>1, <1>b, <1>c, <1>d, <1>e, <1>f, <1>g, <1>h
       DEF MatchInv, ActiveMatch, CandidateMatch, DiscardMatch, LaunchMatch,
       FormerMatch, Matched, Serves, LaunchSteps
<1>20. CASE RollbackProcs
  <2>1. /\ route' = route /\ rb' = rb /\ rb # None
        /\ procs'.active = rb.pid /\ procs'.candidate = procs.candidate
        /\ w.pc = "restore" /\ w'.pc = "restored"
    BY <1>20, GotoType DEF RollbackProcs, Labels, ProcsFile, LabelInv
  <2> QED BY <2>1, <1>b, <1>c, <1>d, <1>e, <1>f, <1>g, <1>h
       DEF MatchInv, ActiveMatch, CandidateMatch, DiscardMatch, LaunchMatch,
       FormerMatch, Matched, Serves, LaunchSteps
<1>21. CASE RollbackRoute
  <2>1. /\ route'.active = rb.route /\ route'.candidate = route.candidate
        /\ procs' = procs /\ rb' = rb
        /\ w.pc = "restored" /\ w'.pc = "idle"
    BY <1>21 DEF RollbackRoute, Return, Idle, Task, RouteFile
  <2> QED BY <2>1, <1>b, <1>c, <1>d, <1>e, <1>f, <1>g, <1>h
       DEF MatchInv, ActiveMatch, CandidateMatch, DiscardMatch, LaunchMatch,
       FormerMatch, Matched, Serves, LaunchSteps
<1>22. CASE Servers \/ Measurements \/ Connections \/ FaultActive \/ Cleanup \/ UNCHANGED vars
  BY <1>1, <1>22
     DEF Servers, Listen, Exit, Die, Measurements, Connections, NewBundle,
         MeasureRequired, MeasureForbidden, MeasureHealth, Age, ConnRoute, ConnJoin, ConnEnd,
         FaultActive, Cleanup, vars, files
<1> QED
  BY <1>2, <1>3, <1>4, <1>5, <1>6, <1>7, <1>8, <1>9, <1>10, <1>11, <1>12, <1>13, <1>14,
     <1>15, <1>16, <1>17, <1>18, <1>19, <1>20, <1>21, <1>22
     DEF Next, Commands, CandidateSteps, DiscardSteps, PromoteSteps, RollbackSteps

\* As long as nothing failed, the state files agree between commands: whatever
\* commands were given, in any order (gate_worker.py:161-225,
\* release_worker.py:80-109).
THEOREM FilesInAgreement == Spec => []FilesAgree
<1>1. Init => AgreeInv
  <2> SUFFICES ASSUME Init PROVE AgreeInv
    OBVIOUS
  <2>1. KnownInv
    BY DEF Init, KnownInv, Deciding, Idle, Task, LaunchSteps
  <2>2. ProcInv
    BY SafetyInit DEF SafetyInv
  <2>3. 1 \in Pids /\ proc[1].name = Base /\ proc[1].port = 0
    BY DEF Init, Pids
  <2>4. MatchInv
    BY <2>3 DEF Init, Idle, Task, MatchInv, ActiveMatch, CandidateMatch, DiscardMatch,
       LaunchMatch, FormerMatch, Matched, Serves, LaunchSteps
  <2> QED BY <2>1, <2>2, <2>4 DEF AgreeInv, Init
<1>2. TypeInv /\ TypeInv' /\ AgreeInv /\ [Next]_vars => AgreeInv'
  <2> SUFFICES ASSUME TypeInv, TypeInv', AgreeInv, [Next]_vars PROVE AgreeInv'
    OBVIOUS
  <2>1. KnownInv'
    BY KnownStep DEF AgreeInv
  <2>3. ProcInv'
    BY ProcStep DEF AgreeInv
  <2>2. ASSUME faults' = 0 PROVE (abandoned = {} /\ MatchInv)'
    <3>1. faults = 0
      <4>1. faults \in Nat /\ faults' \in {faults, faults + 1}
        BY DEF TypeInv, TypeOK, Next, Servers, Commands, CandidateSteps, DiscardSteps,
           PromoteSteps, RollbackSteps, Measurements, Connections, Listen, Exit, Die,
           Candidate, CandidateAwait, CandidateClear, CandidateSpawn, CandidateReady,
           CandidateRecord, CandidatePublish, Discard, DiscardStop, DiscardAwait,
           DiscardSave, Promote, PromoteProcs, PromoteRoute, PromoteKeep, PromoteApprove,
           Rollback, RollbackProcs, RollbackRoute, FaultActive, Cleanup, Timeout, Kill,
           GiveUp, Fault, NewBundle, MeasureRequired, MeasureForbidden, MeasureHealth, Age,
           ConnRoute, ConnJoin, ConnEnd, vars
      <4> QED BY <2>2, <4>1
    <3>2. ~GiveUp
      BY <2>2, <3>1 DEF GiveUp, Fault
    <3> QED BY <2>2, <3>1, <3>2, Histories, MatchStep DEF AgreeInv
  <2> QED BY <2>1, <2>2, <2>3 DEF AgreeInv
<1>3. TypeInv /\ AgreeInv => FilesAgree
  <2> SUFFICES ASSUME TypeInv, MatchInv, w.pc = "idle"
               PROVE  /\ Serves(procs.active, route.active)
                      /\ (procs.candidate = 0) <=> (route.candidate = None)
                      /\ route.candidate # None => Serves(procs.candidate, route.candidate)
                      /\ rb # None => Serves(rb.pid, rb.route)
    BY DEF AgreeInv, FilesAgree
  <2>1. route.active # None
    BY RouteFields DEF TypeInv, TypeOK
  <2>2. rb # None => rb.route # None
    BY DEF TypeInv, TypeOK, RbFile
  <2> QED
    BY <2>1, <2>2 DEF MatchInv, ActiveMatch, CandidateMatch, FormerMatch, Matched
<1> QED BY <1>1, <1>2, <1>3, TypeInvariant, PTL DEF Spec
===============================================================================
