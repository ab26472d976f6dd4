------------------------ MODULE ReleaseLifecycleProofs ------------------------
(***************************************************************************)
(* Invariants of the deployment worker for every set of versions, any       *)
(* number of processes and any number of faults.                            *)
(***************************************************************************)
EXTENDS ReleaseLifecycle, TLAPS

\* What the worker has in memory at its steps.
LabelInv ==
  /\ w.pc \in {"await", "clear", "spawn"} => npid < MaxPid
  /\ w.pc \in LaunchSteps => w.pid \in Pids
  /\ w.pc = "switch" => route.candidate # None
  /\ w.pc \in {"promote", "switch", "keep", "approve"} =>
       w.old \in Target /\ w.pid \in Pids
  /\ w.pc \in {"restore", "restored"} => rb # None

TypeInv == TypeOK /\ LabelInv

USE NamesAssumption, ModesAssumption, BoundsAssumption, NoneAssumption
USE DEF history, UnrecordedSteps

-----------------------------------------------------------------------------
\* Lemmas on the helpers of the actions.

\* A server whose state changes is a server, with the name and port it had.
LEMMA ServerState ==
  ASSUME NEW q \in Server, NEW s \in ProcessStates
  PROVE  /\ [q EXCEPT !.st = s] \in Server
         /\ [q EXCEPT !.st = s].st = s
         /\ [q EXCEPT !.st = s].name = q.name
         /\ [q EXCEPT !.st = s].port = q.port
         /\ [q EXCEPT !.st = s].served = q.served
  BY DEF Server

LEMMA OneServer ==
  ASSUME proc \in [Pids -> Server], NEW p \in Pids, NEW s \in ProcessStates
  PROVE  [proc EXCEPT ![p].st = s] \in [Pids -> Server]
<1>1. proc[p] \in Server
  OBVIOUS
<1>2. [proc[p] EXCEPT !.st = s] \in Server
  BY <1>1, ServerState
<1> QED BY <1>2

\* Signalling servers leaves every process a process of the node.
LEMMA SignalType ==
  ASSUME proc \in [Pids -> Server], NEW S, Signal(S)
  PROVE  proc' \in [Pids -> Server]
<1>1. ASSUME NEW p \in Pids PROVE AfterSignal[proc[p].st] \in ProcessStates
  BY <1>1 DEF Server, ProcessStates, AfterSignal
<1>2. ASSUME NEW p \in Pids PROVE [proc[p] EXCEPT !.st = AfterSignal[@]] \in Server
  <2>1. proc[p] \in Server
    OBVIOUS
  <2> QED BY <1>1, <2>1, ServerState
<1> QED BY <1>2 DEF Signal

\* A worker that begins a step with these values in memory, returns, or goes on
\* to the step with this label.
LEMMA TaskType ==
  ASSUME NEW label \in Labels, NEW v \in Names, NEW p \in Pids \cup {0},
         NEW t \in Target \cup {None}
  PROVE  Task(label, v, p, t) \in Worker
  BY DEF Task, Worker

LEMMA IdleType == Idle \in Worker /\ Idle.pc = "idle"
<1>1. "idle" \in Labels /\ Base \in Names
  BY DEF Labels, Names
<1>2. Idle \in Worker
  BY <1>1, TaskType DEF Idle
<1> QED BY <1>2 DEF Idle, Task

LEMMA GotoType ==
  ASSUME w \in Worker, NEW label \in Labels, Goto(label)
  PROVE  /\ w' \in Worker
         /\ w'.pc = label
         /\ w'.name = w.name /\ w'.pid = w.pid /\ w'.old = w.old
  BY DEF Goto, Worker

\* The fields of the state files, and what writing one of them keeps.
LEMMA RouteFields ==
  ASSUME NEW r \in RouteFile
  PROVE  /\ r.active \in Target
         /\ r.candidate \in Target \cup {None}
         /\ r.rollback \in Target \cup {None}
         /\ r.next \in Nat
         /\ [r EXCEPT !.candidate = None] \in RouteFile
  BY DEF RouteFile

LEMMA ProcsFields ==
  ASSUME NEW r \in ProcsFile
  PROVE  /\ r.active \in Pids
         /\ r.candidate \in Pids \cup {0}
         /\ r.retired \in SUBSET Pids
         /\ \A p \in Pids \cup {0} : [r EXCEPT !.candidate = p] \in ProcsFile
         /\ \A p \in Pids : [r EXCEPT !.active = p] \in ProcsFile
  BY DEF ProcsFile

\* A version's target, as the worker publishes it, and as it approves it.
LEMMA TargetType ==
  ASSUME NEW v \in Names, NEW port \in Nat, NEW g \in Nat, NEW a \in BOOLEAN
  PROVE  [name |-> v, port |-> port, gen |-> g, approved |-> a] \in Target
  BY DEF Target

LEMMA TargetFields ==
  ASSUME NEW t \in Target
  PROVE  /\ t.name \in Names /\ t.port \in Nat /\ t.gen \in Nat
         /\ t.approved \in BOOLEAN
         /\ [t EXCEPT !.approved = TRUE] \in Target
         /\ [t EXCEPT !.approved = TRUE].name = t.name
         /\ [t EXCEPT !.approved = TRUE].port = t.port
         /\ [t EXCEPT !.approved = TRUE].gen = t.gen
         /\ [t EXCEPT !.approved = TRUE].approved = TRUE
  BY DEF Target

\* What a measurement leaves and what becomes of it with time.
LEMMA MeasuredType ==
  ASSUME TypeOK, NEW v, v \in Capable \/ v \in Pqc
  PROVE  Measured(v) \in Evidence
  BY DEF Measured, Evidence, TypeOK

LEMMA StaleType ==
  ASSUME NEW e \in Evidence \cup {None}
  PROVE  Stale(e) \in Evidence \cup {None}
  BY DEF Stale, Evidence

-----------------------------------------------------------------------------
\* Every variable has its type, and the worker remembers what its steps need:
\* none of the commands reads a field of a null entry of the state files after
\* the checks it made at its start (gate_worker.py:166, 197-208,
\* release_worker.py:80-109).
THEOREM TypeInvariant == Spec => []TypeInv
<1>1. Init => TypeInv
  <2> SUFFICES ASSUME Init PROVE TypeInv
    OBVIOUS
  <2> USE DEF Init
  <2>1. 1 \in Pids /\ Base \in Names
    BY DEF Pids, Names
  <2>2. route \in RouteFile
    BY <2>1, TargetType DEF RouteFile
  <2>3. procs \in ProcsFile /\ bundle \in Bundle /\ conn \in Conn
    BY <2>1 DEF ProcsFile, Bundle, Conn, NoConn
  <2>4. proc \in [Pids -> Server]
    BY <2>1 DEF Server, ProcessStates
  <2>5. w \in Worker
    BY IdleType
  <2>6. LabelInv
    BY IdleType DEF LabelInv, LaunchSteps
  <2> QED BY <2>1, <2>2, <2>3, <2>4, <2>5, <2>6 DEF TypeInv, TypeOK
<1>2. TypeInv /\ [Next]_vars => TypeInv'
  <2> SUFFICES ASSUME TypeInv, [Next]_vars PROVE TypeInv'
    OBVIOUS
  <2> USE DEF TypeInv, TypeOK
  <2>0. /\ route \in RouteFile /\ procs \in ProcsFile /\ w \in Worker
        /\ proc \in [Pids -> Server]
        /\ Base \in Names
        /\ Labels # {} /\ LaunchSteps \subseteq Labels
    BY DEF Names, Labels, LaunchSteps
  <2>1. ASSUME NEW p \in Pids, Listen(p) PROVE TypeInv'
    <3>1. proc' \in [Pids -> Server]
      BY <2>1 DEF Listen, Server, ProcessStates
    <3>2. ready' \subseteq Names
      BY <2>1 DEF Listen, Server
    <3> QED BY <2>1, <3>1, <3>2 DEF Listen, LabelInv, files, client
  <2>2. ASSUME NEW p \in Pids, Exit(p) PROVE TypeInv'
    <3>1. proc' \in [Pids -> Server]
      BY <2>2 DEF Exit, Server, ProcessStates
    <3> QED BY <2>2, <3>1 DEF Exit, LabelInv, files, client
  <2>3. ASSUME NEW p \in Pids, Die(p) PROVE TypeInv'
    <3>1. proc' \in [Pids -> Server]
      BY <2>3 DEF Die, Server, ProcessStates
    <3> QED BY <2>3, <3>1 DEF Die, LabelInv, files, client
  <2>4. ASSUME NEW v \in Versions, Candidate(v) PROVE TypeInv'
    <3>1. proc' \in [Pids -> Server]
      BY <2>4, SignalType DEF Candidate
    <3>2. v \in Names /\ {"clear", "await"} \subseteq Labels
      BY DEF Names, Labels
    <3>3. /\ w' \in Worker
          /\ w'.pc \in {"idle", "clear", "await"}
      BY <2>4, <3>2, IdleType, TaskType DEF Candidate, Return, Task
    <3>4. LabelInv'
      BY <2>4, <3>3 DEF LabelInv, LaunchSteps, Candidate
    <3> QED BY <2>4, <3>1, <3>3, <3>4 DEF Candidate, files, client
  <2>5. CASE CandidateAwait
    <3>1. w' \in Worker /\ w'.pc = "clear"
      BY <2>5, GotoType DEF CandidateAwait, Labels
    <3> QED BY <2>5, <3>1 DEF CandidateAwait, LabelInv, LaunchSteps, files, node, client
  <2>6. CASE CandidateClear
    <3>1. w' \in Worker /\ w'.pc = "spawn"
      BY <2>6, GotoType DEF CandidateClear, Labels
    <3>2. route' \in RouteFile
      BY <2>6, RouteFields DEF CandidateClear
    <3> QED BY <2>6, <3>1, <3>2 DEF CandidateClear, LabelInv, LaunchSteps, node, client
  <2>7. CASE CandidateSpawn
    <3>1. w.name \in Names /\ route.next \in Nat /\ "ready" \in Labels
      BY RouteFields DEF Worker, Labels
    <3>2. npid' \in Pids /\ npid' = npid + 1
      BY <2>7 DEF CandidateSpawn, Pids, LabelInv
    <3>3. [st |-> "starting", name |-> w.name, port |-> route.next,
           served |-> FALSE] \in Server
      BY <3>1 DEF Server, ProcessStates
    <3>4. proc' \in [Pids -> Server]
      BY <2>7, <3>3 DEF CandidateSpawn
    <3>5. w' \in Worker /\ w'.pc = "ready" /\ w'.pid \in Pids
      <4>1. w' = Task("ready", w.name, npid', None)
        BY <2>7 DEF CandidateSpawn
      <4> QED BY <4>1, <3>1, <3>2, TaskType DEF Task
    <3>6. LabelInv'
      BY <3>5 DEF LabelInv
    <3> QED BY <2>7, <3>2, <3>4, <3>5, <3>6 DEF CandidateSpawn, files, client
  <2>8. CASE CandidateReady
    <3>1. CASE Goto("record")
      <4>1. w' \in Worker /\ w'.pc = "record" /\ w'.pid = w.pid
        BY <3>1, GotoType DEF Labels
      <4> QED BY <2>8, <4>1 DEF CandidateReady, LabelInv, LaunchSteps, files, node, client
    <3>2. CASE Return
      <4>1. w' \in Worker /\ w'.pc = "idle"
        BY <3>2, IdleType DEF Return
      <4> QED BY <2>8, <4>1 DEF CandidateReady, LabelInv, LaunchSteps, files, node, client
    <3> QED BY <2>8, <3>1, <3>2 DEF CandidateReady
  <2>9. CASE CandidateRecord
    <3>1. w' \in Worker /\ w'.pc = "publish" /\ w'.pid = w.pid
      BY <2>9, GotoType DEF CandidateRecord, Labels
    <3>2. procs' \in ProcsFile
      BY <2>9, ProcsFields DEF CandidateRecord, LabelInv, LaunchSteps
    <3> QED BY <2>9, <3>1, <3>2 DEF CandidateRecord, LabelInv, LaunchSteps, node, client
  <2>10. CASE CandidatePublish
    <3>1. w' \in Worker /\ w'.pc = "idle"
      BY <2>10, IdleType DEF CandidatePublish, Return
    <3>2. /\ w.name \in Names /\ route.next \in Nat
          /\ gens' \in Nat /\ route.next + 1 \in Nat
      <4>1. w.name \in Names /\ route.next \in Nat
        BY RouteFields DEF Worker
      <4> QED BY <2>10, <4>1 DEF CandidatePublish
    <3>3. PICK t \in Target : route' = [route EXCEPT !.candidate = t, !.next = @ + 1]
      BY <2>10, <3>2, TargetType DEF CandidatePublish
    <3>4. route' \in RouteFile
      BY <3>2, <3>3 DEF RouteFile
    <3>5. LabelInv'
      BY <3>1 DEF LabelInv, LaunchSteps
    <3> QED BY <2>10, <3>1, <3>2, <3>4, <3>5 DEF CandidatePublish, node, client
  <2>11. ASSUME GiveUp PROVE TypeInv'
    <3>1. w' \in Worker /\ w'.pc = "idle"
      BY <2>11, IdleType DEF GiveUp, Return
    <3>2. abandoned' \subseteq Pids /\ lost' \subseteq Pids
      BY <2>11 DEF GiveUp, LabelInv, LaunchSteps
    <3> QED BY <2>11, <3>1, <3>2 DEF GiveUp, Fault, LabelInv, LaunchSteps, files, node, client
  <2>12. Timeout \/ Kill => GiveUp
    BY DEF Timeout, Kill
  <2>13. CASE Discard
    <3>1. w' \in Worker /\ w'.pc = "discard"
      <4>1. route.candidate \in Target \cup {None} /\ "discard" \in Labels
        BY RouteFields DEF Labels
      <4> QED BY <2>13, <4>1, TaskType DEF Discard, Task, Names
    <3>2. route' \in RouteFile
      BY <2>13, RouteFields DEF Discard
    <3> QED BY <2>13, <3>1, <3>2 DEF Discard, LabelInv, LaunchSteps, node, client
  <2>14. CASE DiscardStop
    <3>1. proc' \in [Pids -> Server]
      BY <2>14, SignalType DEF DiscardStop
    <3>2. w' \in Worker /\ w'.pc \in {"idle", "discarding"}
      BY <2>14, IdleType, GotoType DEF DiscardStop, Return, Labels
    <3> QED BY <2>14, <3>1, <3>2 DEF DiscardStop, LabelInv, LaunchSteps, files, client
  <2>15. CASE DiscardAwait
    <3>1. w' \in Worker /\ w'.pc = "discarded"
      BY <2>15, GotoType DEF DiscardAwait, Labels
    <3> QED BY <2>15, <3>1 DEF DiscardAwait, LabelInv, LaunchSteps, files, node, client
  <2>16. CASE DiscardSave
    <3>1. w' \in Worker /\ w'.pc = "idle"
      BY <2>16, IdleType DEF DiscardSave, Return
    <3>2. procs' \in ProcsFile
      BY <2>16, ProcsFields DEF DiscardSave
    <3> QED BY <2>16, <3>1, <3>2 DEF DiscardSave, LabelInv, LaunchSteps, node, client
  <2>17. CASE Promote
    <3>1. procs.active \in Pids /\ route.active \in Target /\ "promote" \in Labels
      BY RouteFields, ProcsFields DEF Labels
    <3>2. w' \in Worker /\ w'.pc = "promote" /\ w'.old \in Target /\ w'.pid \in Pids
      BY <2>17, <3>1, TaskType DEF Promote, Task, Names
    <3> QED BY <2>17, <3>1, <3>2 DEF Promote, LabelInv, LaunchSteps, files, node, client
  <2>18. CASE PromoteProcs
    <3>1. CASE Approves /\ procs.candidate # 0
      <4>1. w' \in Worker /\ w'.pc = "switch" /\ w'.pid = w.pid /\ w'.old = w.old
        BY <2>18, <3>1, GotoType DEF PromoteProcs, Labels
      <4>2. procs' \in ProcsFile
        BY <2>18, <3>1, ProcsFields DEF PromoteProcs, ProcsFile
      <4>3. LabelInv'
        BY <2>18, <3>1, <4>1 DEF PromoteProcs, LabelInv, LaunchSteps, Approves, Bound
      <4> QED BY <2>18, <4>1, <4>2, <4>3 DEF PromoteProcs, node, client
    <3>2. CASE ~(Approves /\ procs.candidate # 0)
      <4>1. w' \in Worker /\ w'.pc = "idle" /\ procs' = procs
        BY <2>18, <3>2, IdleType DEF PromoteProcs, Return
      <4> QED BY <2>18, <4>1 DEF PromoteProcs, LabelInv, LaunchSteps, node, client
    <3> QED BY <3>1, <3>2
  <2>19. CASE PromoteRoute
    <3>1. route' \in RouteFile
      BY <2>19 DEF PromoteRoute, LabelInv, RouteFile
    <3>2. proc' \in [Pids -> Server]
      BY <2>19 DEF PromoteRoute, Server
    <3>3. /\ w' \in Worker /\ w'.pc \in {"keep", "idle"}
          /\ w'.pc = "keep" => w'.pid = w.pid /\ w'.old = w.old
      BY <2>19, IdleType, GotoType DEF PromoteRoute, Return, Labels
    <3>4. LabelInv'
      BY <2>19, <3>3 DEF PromoteRoute, LabelInv, LaunchSteps
    <3>5. misled' \subseteq Nat
      <4>1. route.candidate.gen \in Nat
        BY <2>19, RouteFields, TargetFields DEF PromoteRoute, LabelInv
      <4> QED BY <2>19, <4>1 DEF PromoteRoute
    <3> QED BY <2>19, <3>1, <3>2, <3>3, <3>4, <3>5 DEF PromoteRoute, client
  <2>20. CASE PromoteKeep
    <3>1. /\ w' \in Worker /\ w'.pc = "approve"
          /\ w'.pid = w.pid /\ w'.old = w.old
      BY <2>20, GotoType DEF PromoteKeep, Labels
    <3>2. rb' \in RbFile
      BY <2>20, TargetFields DEF PromoteKeep, LabelInv, RbFile
    <3>3. LabelInv'
      BY <2>20, <3>1 DEF PromoteKeep, LabelInv, LaunchSteps
    <3> QED BY <2>20, <3>1, <3>2, <3>3 DEF PromoteKeep, node, client
  <2>21. CASE PromoteApprove
    <3>1. w' \in Worker /\ w'.pc = "idle"
      BY <2>21, IdleType DEF PromoteApprove, Return
    <3>2. PICK t \in Target, o \in Target \cup {None} :
            route' = [route EXCEPT !.active = t, !.rollback = o]
      <4>1. [route.active EXCEPT !.approved = TRUE] \in Target
        BY RouteFields, TargetFields
      <4>2. route' = [route EXCEPT !.active = [route.active EXCEPT !.approved = TRUE],
                        !.rollback = IF w.old.approved THEN w.old ELSE None]
        BY <2>21 DEF PromoteApprove
      <4>3. (IF w.old.approved THEN w.old ELSE None) \in Target \cup {None}
        BY <2>21 DEF PromoteApprove, LabelInv
      <4> HIDE DEF TypeInv, TypeOK
      <4> QED BY <4>1, <4>2, <4>3
    <3>3. route' \in RouteFile
      BY <3>2 DEF RouteFile
    <3>4. trusted' \subseteq Nat
      <4>1. route.active.gen \in Nat
        BY RouteFields, TargetFields
      <4> QED BY <2>21, <4>1 DEF PromoteApprove
    <3>5. LabelInv'
      BY <3>1 DEF LabelInv, LaunchSteps
    <3> QED BY <2>21, <3>1, <3>3, <3>4, <3>5 DEF PromoteApprove, node, client
  <2>22. CASE Rollback
    <3>1. w' \in Worker /\ w'.pc = "restore"
      BY <2>22, TaskType DEF Rollback, Task, Names, Labels
    <3> QED BY <2>22, <3>1 DEF Rollback, LabelInv, LaunchSteps, files, node, client
  <2>23. CASE RollbackProcs
    <3>1. w' \in Worker /\ w'.pc = "restored"
      BY <2>23, GotoType DEF RollbackProcs, Labels
    <3>2. procs' \in ProcsFile
      BY <2>23, ProcsFields DEF RollbackProcs, LabelInv, RbFile
    <3> QED BY <2>23, <3>1, <3>2 DEF RollbackProcs, LabelInv, LaunchSteps, node, client
  <2>24. CASE RollbackRoute
    <3>1. w' \in Worker /\ w'.pc = "idle"
      BY <2>24, IdleType DEF RollbackRoute, Return
    <3>2. route' \in RouteFile
      BY <2>24 DEF RollbackRoute, LabelInv, RouteFile, RbFile
    <3> QED BY <2>24, <3>1, <3>2 DEF RollbackRoute, LabelInv, LaunchSteps, node, client
  <2>25. CASE FaultActive
    <3>1. proc' \in [Pids -> Server]
      BY <2>25, SignalType DEF FaultActive
    <3> QED BY <2>25, <3>1 DEF FaultActive, LabelInv, files, client
  <2>26. CASE Cleanup
    <3>1. proc' \in [Pids -> Server]
      BY <2>26, SignalType DEF Cleanup
    <3> QED BY <2>26, <3>1 DEF Cleanup, LabelInv, files, client
  <2>27. CASE Measurements
    <3>1. CASE NewBundle
      <4>1. route.candidate.gen \in Nat
        BY <3>1, RouteFields, TargetFields DEF NewBundle
      <4> QED BY <3>1, <4>1 DEF NewBundle, Bundle, LabelInv, files, node
    <3>2. CASE MeasureRequired
      <4>1. bundle' \in Bundle
        BY <3>2, MeasuredType DEF MeasureRequired, Bundle
      <4> QED BY <3>2, <4>1 DEF MeasureRequired, LabelInv, files, node
    <3>3. CASE MeasureForbidden
      <4>1. bundle' \in Bundle
        BY <3>3, MeasuredType DEF MeasureForbidden, Bundle
      <4> QED BY <3>3, <4>1 DEF MeasureForbidden, LabelInv, files, node
    <3>4. CASE MeasureHealth
      <4>1. health' \in Evidence
        BY <3>4, MeasuredType DEF MeasureHealth
      <4> QED BY <3>4, <4>1 DEF MeasureHealth, LabelInv, files, node
    <3>5. CASE Age
      <4>1. bundle' \in Bundle
        <5>1. Stale(bundle.pos) \in Evidence \cup {None}
          BY StaleType DEF Bundle
        <5>2. bundle' = [bundle EXCEPT !.pos = Stale(bundle.pos)]
          BY <3>5 DEF Age, Bundle
        <5> QED BY <5>1, <5>2 DEF Bundle
      <4>2. health' \in Evidence \cup {None}
        BY <3>5, StaleType DEF Age
      <4> QED BY <3>5, <4>1, <4>2 DEF Age, LabelInv, files, node
    <3>6. QED BY <2>27, <3>1, <3>2, <3>3, <3>4, <3>5 DEF Measurements
  <2>28. CASE Connections
    <3>1. ASSUME NEW kind \in Kinds, ConnRoute(kind) PROVE TypeInv'
      <4>1. kind \in {"active", "candidate", "rollback"}
        OBVIOUS
      <4>2. route[kind] \in Target
        BY <3>1, <4>1, RouteFields DEF ConnRoute
      <4>3. conn' \in Conn
        BY <3>1, <4>1, <4>2, TargetFields DEF ConnRoute, Conn
      <4> QED BY <3>1, <4>3 DEF ConnRoute, LabelInv, files, node
    <3>2. NoConn \in Conn
      BY DEF NoConn, Conn, Names
    <3>3. CASE ConnJoin
      <4>1. conn' \in Conn
        BY <3>2, <3>3 DEF ConnJoin, Conn
      <4> QED BY <3>3, <4>1 DEF ConnJoin, LabelInv, files, node
    <3>4. CASE ConnEnd
      BY <3>2, <3>4 DEF ConnEnd, LabelInv, files, node
    <3>5. QED BY <2>28, <3>1, <3>3, <3>4 DEF Connections
  <2>29. CASE UNCHANGED vars
    BY <2>29 DEF vars, files, node, client, LabelInv
  <2>30. QED
    BY <2>1, <2>2, <2>3, <2>4, <2>5, <2>6, <2>7, <2>8, <2>9, <2>10, <2>11,
       <2>12, <2>13, <2>14, <2>15, <2>16, <2>17, <2>18, <2>19, <2>20, <2>21,
       <2>22, <2>23, <2>24, <2>25, <2>26, <2>27, <2>28, <2>29
       DEF Next, Servers, Commands, CandidateSteps, DiscardSteps, PromoteSteps,
           RollbackSteps
<1>3. QED BY <1>1, <1>2, PTL DEF Spec

\* The type invariant that the runs check, for every value of the constants.
THEOREM TypeCorrect == Spec => []TypeOK
<1>1. TypeInv => TypeOK
  BY DEF TypeInv
<1> QED BY <1>1, TypeInvariant, PTL
===============================================================================
