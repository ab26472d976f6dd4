# Formal model of the KPQC TLS DevOps lab

TLA+ modules, TLC configurations and TLAPS proofs for `kpqc-tls-devops-lab`: a lab that
moves a TLS service from classical algorithms to Korean post-quantum ones (KPQC). A
candidate server is started next to the active one, probed by six measuring clients,
judged by a cryptographic policy and, for a release, by a performance policy, and
promoted by rewriting the file that a TCP router reads. A CI job borrows two EC2 nodes
for it and gives them back.

Paths below are relative to `src/`.

## Inventory

| Component | State | Operations | Hard part | What makes it correct |
|---|---|---|---|---|
| Gate policy `scripts/gate_policy.py`, `policies/pqc-required.json` | none | `check`, `evaluate` | infers a configuration from six observed handshakes | approval means no classical way in |
| Deployment worker `scripts/gate_worker.py` | `/state/route.json`, `processes.json`, server processes, `.ready` files | `init-server`, `candidate`, `probe`, `decision`, `promote`, `discard`, `cleanup`; router; monitor | every command is a new process that may die between two saves; servers die; the router reads concurrently | evidence belongs to the candidate it admits; files agree; sessions survive; nothing is left running |
| Release worker `scripts/release_worker.py` | the above and `rollback.json`, `background.json` | `window`, `decision`, `promote`, `rollback`, `fault-active`, `health` | four saves in two programs make one promotion; rollback acts on an old file | the service moves forward to PQC versions and back only to released ones |
| Performance policy `scripts/release_policy.py`, `policies/release-slo.json` | none | `quantile`, `summarize`, `evaluate` | boundaries of quantiles and budgets | every offered attempt counts |
| Recovery controller `scripts/release_experiments.py` | result record | candidate loop, fault, detection, rollback | detection against recovery time | two failed checks lead to a rollback |
| TLS program `scripts/tls_handshake.c` | sockets, contexts | server (prefork, sequential), client (single, load) | time-outs, workers, start and stop files | an idle service survives; clients end |
| Load worker `scripts/systems_worker.py` | `load-state.json`, `load-done.json`, supervisor pid | `load-launch`, `load-start`, `load-progress`, `load-collect`, `cleanup` | files written while others read them | every client is counted once, and ends |
| Handshake and transfer workers `handshake_worker.py`, `aws_worker.py` | `pending.json` | `start`, `clients`, `collect`, `cleanup`; `prepare`, `receive` | one pending server at a time | the collected rows are of the session |
| Lab `scripts/lab.py` | canary router, `seen` documents, processes | `configure`, `serve`, `sign`, `receive`, `execute` | routing changes while connections arrive | share of the canary; no replay |
| CI job `scripts/ci_deploy.py`, `.github/workflows/aws-deploy.yml` | `ci-state.json`, EC2 nodes, ingress rules | `deploy`, `cleanup` | failing calls, lost answers, killed steps, other operators | everything borrowed is given back, and success is not claimed otherwise |
| Publication and analysis `ci_evidence.py`, `audit_release.py`, `report_release.py`, `experiments/scripts/` | files | batch | none | not a concurrent or stateful matter |

Interactions: the controllers (`gate_suite.py`, `release_experiments.py`) call the
workers over SSH, one command at a time. Commands share state only through the JSON
files of `/state`; the measurement worker's server and the lab's servers are processes
of the same kind. The router is a long-running process that reads `route.json` for each
connection. `release_worker` calls `gate_worker.main` inside its own command.
`ci_deploy.py` runs the controllers, and the workflow runs it a second time with
`--cleanup`, whatever happened before. The lab is one process of its own with threads,
sockets and child processes, and uses none of the others.

## Modules

| Module | Models | State and actions |
|---|---|---|
| `GatePolicy` | `gate_policy.py` and its policy file | operators `Check`, `CheckNegative`, `Evaluate` with the code's order of tests |
| `CandidateProbing` | `gate_worker.probe`, negotiation as `tls_handshake.c` configures it, `decision` without bindings | a hidden `config`, the `probes` records, a `Decide` at any time |
| `ReleaseContract` | abstract specification | `gen`, `secure`, `trusted`; `Admit`, `Complete`, `Restore` |
| `ReleaseLifecycle` | `gate_worker.py`, `release_worker.py` | see below |
| `CiDeploy` | `ci_deploy.py`, the two workflow steps | nodes, rules, file, memory, one action per AWS call or save |
| `LoadSession` | `systems_worker.py` (loads), the client of `tls_handshake.c` | controller, supervisor and clients as processes that share files |
| `HandshakeSession` | `handshake_worker.py`, the sequential server of `tls_handshake.c`, the session loop of the two experiment controllers | controller and worker, one server per session, the running client, rows in files |
| `ReleasePolicy` | `release_policy.py` and `policies/release-slo.json` | operators `Quantile`, `Summarize`, `Evaluate` over the counts of a window |
| `ReleaseExperiment` | `release_experiments.py` with the commands of `release_worker.py` it uses | the controller's next command, versions, and time in seconds |
| `Inbox` | `sign`, `receive`, `validate_xml` of `lab.py` | operators with the code's order of checks |
| `MigrationLab` | the rest of `lab.py`: receiver tests, baseline, sessions, rollouts, drills, `Router`, `close` | main thread, accept threads, sockets, the connection a client waits for |
| `CandidateProbingProofs`, `ReleaseLifecycleProofs`, `ReleaseSafetyProofs`, `CiDeployProofs`, `LoadSessionProofs`, `HandshakeSessionProofs`, `ReleaseExperimentProofs`, `MigrationLabProofs` | theorems | |
| `MC...` | values for TLC | |

`CandidateProbing` extends `GatePolicy` for the decision; `ReleaseExperiment` extends
`ReleasePolicy`, and `MigrationLab` extends `Inbox`. `ReleaseContract` is implemented
twice: by the files and processes of `ReleaseLifecycle`, and by the controller of
`ReleaseExperiment`.

### ReleaseLifecycle

`route`, `procs` and `rb` are `route.json`, `processes.json` and `rollback.json`. `proc`
holds the server processes of the node, with the states none, starting, failed (ended
before it had its port), listening, stopping (signalled, port still held) and dead; `w` is the running command with the
values it keeps in memory. A command is cut into its effects: one `os.replace`, one
spawn or one signal per step. Reads that no other writer can change between two effects
belong to the step of the effect. `Kill` ends the command between any two steps and
leaves the files as they are; `Die` ends a server; `Timeout` is the three-second limit
of `wait_listen` and `launch`. A launch that is killed or times out leaves its server
behind, which may still bind the port later, and the next launch gets the same port,
because `gate_worker.py:172` advances it only in memory until line 174. `CandidateReady` looks for the `.ready` file first and
polls the process afterwards, as `launch` does. A generation number stands for the
random `generation` and for `created_at_ns`: both are only compared for equality and
order. Evidence is the version that answered, the generation in place at that time and
whether it is still fresh. For a release it includes the arrival windows, which are
bound to the candidate by the same fields.

The controller is free: it issues commands and takes measurements in any order, keeps
evidence for as long as it likes, and presents it to any command. It is trusted, as the
repository says: it does not make evidence up.

Four history variables change nothing and name what the properties speak of: `trusted`
(generations whose promotion was completed), `abandoned` (servers whose launch ended
before it had published them), `lost` (those of them that are not in `processes.json`
either) and `misled` (generations promoted after an abandoned server that refuses
classical clients had their port: `Impostor`). With `Release` FALSE the commands of the
wrapper are disabled and `promote` ends after the gate's two saves.

### CiDeploy

`pc` is the next call of the running step. `Save` has two effects, truncation and
content, because `save` writes in place; between them the file is `Torn`, and a kill
there leaves it so. Every call may fail, with or without effect. A request whose answer
was lost may be repeated by the AWS CLI and is then answered with "duplicate": the rule
is the job's own but `disowned` (`Authorize`). Another operator may start a stopped node
at any time; one started after the job has looked (`BeforeCheck`) is `late`. `Kill` ends
a step, or the whole job, at any point. No constant switches any of this off.

### LoadSession

`ctl` is the command that the controller runs, `sup` the supervisor that `load-launch`
starts, `client` the load clients with the rows they have recorded. `state`, `finish`,
`ready`, `start` and `stop` are `load-state.json`, `load-done.json`, and the `.ready`,
`.start` and `.stop` files. Both JSON files are written in place, so each write is two
steps with `Torn` between them, and `Torn` is an existing file that does not parse. Ten
seconds of `load-launch` and of the readiness check, 150 of `load-collect` and thirty
beyond the load in `SupWait` are failures that may come at any time; a client's deadline
and its `alarm(600)` are the action `TimeOut`. A client may fail before it is ready, and
at each connection, where `die` ends it without a row. Rows are counted, with their loss
(`CollectRows`, `CollectMissing`), and not described. A launch takes a fresh tag, as the
controllers do, and follows a completed collection; after a failure there is only
`cleanup`. `load-progress` changes nothing.

`FairSpec` adds weak fairness to `Spec`, for each process by itself and for time. The
code justifies it: the supervisor's waits are polls or have a limit, socket calls end
after fifteen seconds (`socket_options`), the clock reaches every deadline, and nothing
else of a client's loop can block. The controller gets no fairness: a load ends although
nobody collects it. Failures get none either.

### HandshakeSession

`ctl` is the controller with the worker command it waits for: the session, the number of
the client, and the answers `cs` and `ss` (client and server rows). `pending` is
`pending.json`, `server` the server process of each session with the number of
connections it has accepted, `backlog` the established connections, whose head is the
one the server handles. A client connects before the server accepts, so the order of the
two ends is open. Both ends write a row; the server's row appears empty (`ServerRow`)
and is complete later (`FinishRow`), which `collect` meets by reading it again. The
sequential accept loop ends the server when no connection comes for fifteen seconds
(`AcceptTimeout`): that is what ends a server which a killed worker never recorded.
A client that fails before the ready byte ends without a row, and the worker's assertion
fails (`ClientGone`); one that fails in the handshake writes a row that says so.
`ShakeFails`, `ServerDies`, `WorkerKilled`, `CloseTimeout` and late or slow steps are
the faults. The two seconds of `start` and the five-second limits of `collect` may
expire while something is missing; it is a fault ("slow") if that would still have
come. Warm and cold clients differ in which process shakes hands, and not in what is
written when.

### ReleasePolicy and ReleaseExperiment

A window is its counts: attempts in time, late, failed, and generated too late.
Measurements are 0 within a limit and 1 beyond it, so that the sorted sequence and
`quantile`'s index (`Position`) decide the percentile exactly as in the code, at every
boundary. `ceil(.95 n)` is `(95 n + 99) \div 100`: the code's floating-point product
errs by too little to round a multiple of twenty up.

In `ReleaseExperiment`, `pc` is the controller's next command. Versions are known by
their place: classical, the slow candidate, two good ones. `clock` counts seconds since
the background load was launched; each command takes at most the seconds of `Seconds`,
and `due` is the time at which the running one must have ended, so `Tick` cannot pass
it. `Arrive` is the load: in each second at least one connection is served by the active
version, or fails. `traffic` keeps the last such second of each, which is all that
`Collect` compares. Every check of the controller is there: the classical baseline and
the idle listener, the probes and the cryptographic policy of each candidate, its
windows and the decision, the promotion of the refused candidate that must fail, the
health after a rejection and after a promotion, the three refused rollbacks, the fault,
its detection and the recovery, the traffic, and the probes after it (`Observe` to
`ProbeRestored`, in the order of `After` and `Goto`). The decision is taken by the
server's clock, which may be `skew` seconds off the one of the controller and the
client: evidence is too old (or from the future) by the server's clock (`Now`, `Secure`,
`Reasons`, `RollbackVerdict`). Faults are noise in a window, a server that dies besides
the injected fault, a health check or probe of a healthy service that fails, a command
that overruns, and a step of the server's clock. The seconds are the code's own time-outs and sleeps; a command that ends on a
second's boundary stands for one that ends within it.

### MigrationLab and Inbox

`main` is the lab's thread: its place, the family, the stage or drill, and the counts of
the stage. Each router has a record (percentage, blocked, counter, events, closed), an
accept `thread`, and a listening socket with a `queue`. Routers are opened one after the
other, and each gets the lowest free descriptor, the one its predecessor closed: `fd`
says whose socket that number denotes now, and `EnterAccept` looks it up when the thread
calls accept, as the kernel does. `shut` are the sockets that were shut down. `conn` is
the one connection the main thread waits for; `queue` also holds connections whose
client has gone, which are counted all the same. `Assign` is the section under the
router's lock, `Relay` the relay thread of that connection. `Retire`, `CloseSocket` and
`Join` are `Router.close`; `KillServer` and `WriteResults` are `Lab.close` and the end
of `main`. Faults: a client fails or exceeds its fifteen seconds (in the queue, taken,
or routed), a server dies or cannot be restarted, a request is slow, a thread is not
scheduled within the two seconds of `join`, a server outlives the five seconds of
`wait`.

`Inbox` takes cryptography as ideal: a bundle records whose key signed which message.
`InboxTests` are the receiver tests of `execute` with the verdicts the code records for
them; a run in which one of them came out differently would fail without a fault, which
`FailureHasCause` excludes.

### Faults and their bounds

In `HandshakeSession`, `ReleaseExperiment` and `MigrationLab` a fault has a kind, every
kind happens at most once in a run, and `MaxFaults` bounds how many kinds do (`Fault`).
In `ReleaseLifecycle` faults are counted. `CiDeploy` and `LoadSession` do not bound
failures at all: in `CiDeploy` every call may fail and every step be killed; in
`LoadSession` the supervisor and the clients may fail at each of their steps, and the
controller's commands at each of their waits and reads.

### Mutants

Next to some definitions stands a second one with a plausible coding error in it
(`BoundToAny`, `PromoteKeepLate`, `DescribeUnrecorded`, ...), introduced by the word
"mutant". No specification uses them. Each property of a passing run has one that, put
in place of the definition, makes TLC find the property violated.

## Runs

Deadlock is not checked, because every system here may stop: the gate after its
decision, the job and the experiments at their end, the worker after cleanup.

| Run | Bounds | Distinct states | Shows |
|---|---|---|---|
| `candidate_probing` | all 36 configurations with at least one group and signature; 4 outcomes of a failing probe | 2.2 million | `ApprovedIsPqcOnly`, `SecureIsNotRefused` |
| `release_lifecycle` | 3 versions (base, PQC, mixed), 4 processes, 1 fault | 1.6 million | `NeverBackToClassical`, `RollbackTargetIsTrusted`, `ImplementsContract`, `SessionsSurvive`, `FilesAgree` |
| `gate_lifecycle` | 4 versions, 3 processes, 2 faults, one client connection | 0.6 million | `ApprovalIsSound`, `PortIsOneServer`, `RoutedIdentity`, `CleanupStopsRecorded` |
| `ci_deploy` | 2 nodes | 25 770 | `FileIsAhead`, `SuccessIsHonest`, `NobodyInterrupted` |
| `load_session` | 2 loads of 2 clients that try 2 connections | 97 506 | `LoadedIsReady`, `CollectedIsComplete`, `NoSilentLoss`, `CleanupEndsLoad`, `EveryLoadEnds` |
| `handshake_session` | 3 sessions of 3 handshakes, 3 faults | 3356 | `RowsPair`, `CleanupEndsServers`, `FailureHasCause`, `EveryServerEnds` |
| `release_experiment` | windows of 100 attempts, 2 per candidate, 2 failed checks, objective 10 s, load 15 s, 1 fault | 466 231 | `PercentileIsExact`, `FailureHasCause`, `ImplementsContract`, `FaultIsAnswered` |
| `migration_lab` | 2 families, 2 samples, 3 signature algorithms, 2 faults | 341 877 | `OwnConnections`, `ShareIsExact`, `NoSilentFailover`, `FailureHasCause`, `FailClosedIsWitnessed`, `Finishes` |
| `severed_probe` | as `candidate_probing` | violation | a cut connection counts as a refusal |
| `rollback_cleanup` | as `release_lifecycle`, no faults | violation | cleanup misses the server a rollback replaced |
| `ci_torn_save` | as `ci_deploy` | violation | the always() step cannot read the file |
| `ci_foreign_rule` | as `ci_deploy` | violation | a rule that existed before is removed |

Each passing run also checks its module's `TypeOK`, except `gate_lifecycle`, which
shares its module with `release_lifecycle`.

### Bounds

`ReleaseLifecycle`: four processes are the base, two promoted versions and one candidate
more: the shortest history in which `rollback.json` has an approved target, is used, and
can be stale. Versions may be started repeatedly, so ports, generations and certificates
do not coincide. A fault is one kill, death or time-out anywhere. Two of them in
`gate_lifecycle` are what an impostor takes: a launch that is given up, and the death of
the candidate that gets the same port next. There the decision may accept evidence mixed
of both servers, which is why `ApprovalIsSound`, `PortIsOneServer` and `RoutedIdentity`
name the abandoned server as their one exception. The properties of `release_lifecycle`
need more processes; they are checked with one fault and proved for any number. The bounds
`MaxPid` and `MaxFaults` are guards of `Candidate` and of the faults, and the theorems
hold for all their values.

`CiDeploy`: two nodes are all the job has. `SuccessIsHonest` and `FileIsAhead` speak of
what the job knows of: `ci_deploy.py:96-102` takes its own rule, whose first answer was
lost, for one that existed, and leaves it open (`disowned`). `NobodyInterrupted` protects
the nodes that were in use when the job looked; one started later is stopped with the
job's own, because line 78 looks once.

`LoadSession`: two loads show what a load may find of the one before; two clients and
two connections each show readiness, waiting and collection in the middle, and a client
that fails after another has gone on. A client at `MaxTries` can only come to its
deadline, which it does in time anyway.

`HandshakeSession`: three handshakes have a first, a middle and a last row; three
sessions have files of two sessions before. Of the kinds of faults any three may meet.

`ReleaseExperiment`: a window of 100 attempts has the boundaries of the budgets (one
failure, 95 and 99 in a hundred), and `Noisy` besides leaves twenty, nineteen and one
successful attempts, where the percentile's index is at an edge. The code takes three
windows of 100 attempts, the run two; `PercentileExact` is proved for all sizes.
Consecutive failures, the rounds of the loop, the objective (10 s) and the load (15 s)
are the code's. The server's clock may step by -5, -1 or 5 seconds.

`MigrationLab`: stages have the code's twenty requests and the code's percentages; two
families are all the code has, and are needed for the reuse of the descriptor. Baseline
requests and sessions are stateless, and two of each suffice. Two faults meet in one
run, such as a client that has gone and a late join.

### Fairness

All liveness is for the steps that the code's own scheduling or time-outs drive; faults
and free choices get no fairness.

- `EveryLoadEnds` (`LoadSession.FairSpec`): weak fairness for each process by itself and
  for time, none for the controller; see above.
- `EveryServerEnds` (`HandshakeSession.Spec`): the controller's loop has a limit at each
  wait, the server's loop runs or ends at its fifteen-second socket time-out, and a file
  that is being written is completed.
- `FaultIsAnswered` (`ReleaseExperiment.Spec`): the controller continues (every command
  it waits for has a time-out), connections arrive, time passes.
- `Finishes` (`MigrationLab.Spec`): the main, accept and relay threads are scheduled;
  every request is answered or ended by its time-out.

## What the violations say

- `gate_policy.py:45-48` takes `ssl_error` 1 for a protocol error of the peer. OpenSSL 3
  reports the same code when the connection is closed within the handshake, which line
  24 excludes. `ApprovedIsPqcOnly` therefore excepts forbidden probes that were cut.
- `release_worker.py:107` overwrites the active pid. `gate_worker.py:203-204` shows how
  a promotion keeps it for cleanup; rollback does not.
- `ci_deploy.py:30` writes in place. `gate_worker.save` replaces atomically.
- `ci_deploy.py:96-102` records a rule before it knows whether the rule is its own: when
  the step ends before the answer, a foreign rule is revoked.

## Proofs

| Theorem | Assumes | Argument |
|---|---|---|
| `ApprovalIsSound` (`CandidateProbingProofs`) | nothing | every record is one the configuration can leave, is unusable, or was cut; a required client's "OK" gives membership of the policy's algorithms, a forbidden client's "OK" gives an empty agreement; together they fix the configuration |
| `SecureIsAdmitted`, `ProbingTypes` (`CandidateProbingProofs`) | nothing | `RecordInv`: the record of each probe that ran to its end is the one negotiation gives |
| `TypeCorrect` | nothing | `TypeInv` adds to `TypeOK` what the labels of a command say about its memory |
| `ApprovalSound`, `RollbackTargetTrusted`, `PortsFresh`, `RoutingSound`, `NoWayBack`, `ContractHolds` | nothing | one inductive invariant, `SafetyInvariant` |
| `SessionsKept` | nothing | `SessionInv`: a server that has been active is never the candidate entry of `processes.json` |
| `CleanupComplete` | `Release = FALSE` (no rollback) | `SweepInv`: a server that is not lost and has not been told to stop is in `processes.json`, or is the one its launch is about to enter |
| `FilesInAgreement` | nothing (`FilesAgree` itself speaks of runs without faults) | `AgreeInv`: which file is ahead at each step of each command |
| `FileAhead`, `ReportSound`, `JobTypes` | nothing | `JobInvariant` |
| `NobodyElseStopped` | nothing | `AloneInv`: while a state that names the nodes is in use, none of them is somebody else's from before |
| `LoadedReady`, `CollectedComplete`, `NoLoss`, `CleanupEnds`, `LoadTypes` | nothing | `LoadInvariant` |
| `SessionTypes`, `SessionRowsPair`, `SessionCleanup` | nothing | `SessionInvariant` |
| `SessionFailureHasCause` | nothing | `CauseInv`, on top of `SessionInvariant`: without a fault the server has a row for every connection it is done with, and ends only after the last |
| `ExperimentTypes`, `ExperimentImplementsContract` | nothing | `ExperimentInvariant` |
| `PercentileExact` | nothing | `PositionBounds`: the percentile's index lies within the attempts in time exactly when these are at least 95 in a hundred |
| `OnlyFaultsFailTheRelease` | `Timely`, see below | `Smooth`: what a run without faults looks like at every command |
| `LabTypes`, `OwnSockets`, `ServedAsChosen` | nothing | `LabInvariant` |
| `ExactShare` | nothing | `ShareInv`: after n events exactly `Share(n, percent)` of them chose PQC: percent/10 of every full ten, and of the rest as many as percent/10 allows |
| `FailClosedShown` | nothing (the property itself excepts runs in which a client ended) | `WitnessInv`: the answer a drill waits for comes from an event of the router that refuses |
| `OnlyFaultsFail` | nothing | `faults = {} => Calm`: everything received so far was decided as expected, and nobody is missing |

They hold for any number of versions, processes, faults, nodes, clients, loads,
connections, sessions, handshakes and families, for windows of any size (with `Timely`,
of at least 100 attempts), and for any sets of configurations. The constants have the assumptions stated where they are
declared, and the runs evaluate them.

The safety properties of `ReleaseLifecycle` are not inductive: nothing in
`ApprovalIsSound` says why an answer on the candidate's port comes from the candidate.
The invariant has these parts. `ProcInv`: a server that no launch abandoned (`Ours`) has
a port below `route.next`, or is being launched, and shares its port with no other such
server. `OwnInv`: the port of each remembered target has been used, and by no server but
those of the target's version and abandoned ones (`Owned`). `ConnInv`: the same for the
connection under way. `EvidenceInv`: evidence of the newest generation was measured on
the candidate's version, or an `Impostor` had its port. `VouchInv`: a command past its
decision holds what the decision established, with the same exception, which `misled`
keeps for later. `GenInv`: the active generation is below every later one, so a
promotion is an `Admit` of the contract. `SessionInv`: see above.

`CleanupStopsRecorded` needs to know that an entry of `processes.json` is only
overwritten after its server has been signalled: `SweepInv` says so at the steps in
front of `CandidateRecord` and `DiscardSave`. With `Release = TRUE` it is false: the run
`rollback_cleanup` violates it without any fault, so that nothing is lost. `FilesAgree` holds only between commands; `AgreeInv` says
at each step what has been written already: after `PromoteProcs` the active process is
the candidate of `route.json`, after `RollbackProcs` it is the one of `rollback.json`.
It also says that a launch does not fail by itself: `ProcInv` makes its port free, and
no command runs meanwhile that could signal the new server.

In `CiDeployProofs`, `FileInv` relates the file to the memory at each step, `AheadInv`
says that what is owed is recorded before it is owed, and `GivenBackInv` what cleanup
has achieved as long as it has recorded no error. A file torn by a kill is read by
cleanup alone, which then fails before any call and claims nothing.

In `LoadSessionProofs`, a file speaks about the processes: a started `load-state.json`
names all clients, all of them ready, and the supervisor never writes it again
(`StateInv`); a complete `load-done.json` means that the supervisor is gone and all
clients have ended with those codes (`FinishInv`). `RowsInv` follows the rows from the
clients' files to the report, and `TriesInv` counts what an attempt without a row costs.

In `HandshakeSessionProofs`, `RowsPair` says nothing of the connections before `Check`.
`OneServer` and `Recorded` say that only the current session's server can be alive and
that `pending.json` names it; `Queue` and `Order` number the waiting connections: the
head is the next one the server has not written a row for; `RowsInOrder` follows the
rows into the files and the answers.

In `ReleaseExperimentProofs`, the invariant says which versions each command may find
(the candidate is newer than the active version, `rollback.json` calls a version
approved only if its promotion was completed) and that windows are made of offered
attempts, so that promotions and rollbacks are the steps of the contract.

In `MigrationLabProofs`, `OwnConnections` is not inductive: nothing in it says that a
thread in front of its accept call will not find the next router's socket. `ThreadInv`
adds that only the current router's thread runs, that the descriptor denotes this
router's socket or none, and none before the next router is opened: `Router.close` joins
the thread first. `ConnInv` places the connection a client waits for: it is the last of
the queue, or the one the thread has taken, or its event is the last one of the router;
so a stale connection counted in between cannot be mistaken for it.

`ShareIsExact` speaks of whole tens. `ShareInv` counts every prefix: the choices of the
n first connections since the last `configure` are a function of n and the percentage,
because the counter, which chooses, counts events too. One step adds one event, so no
induction over the sequence is needed; cardinalities do the counting.

`FailClosedIsWitnessed` joins what the main thread, a client and a router know.
`WitnessInv` says that the router of the fail-closed drill refuses (`Refusing`), that a
connection it has answered is its last event, a refused one (`AnsweredIsWitnessed`), and
that every drill passed so far left such an event (`DrilledIsWitnessed`); events stay.

`OnlyFaultsFail` needs everything the lab expects: `Calm` says which servers are up at
each step, that the receiver has seen the statement exactly from its ninth test on, that
nobody has left a queue (`NobodyGone`), that the router is set as the stage or drill at
hand wants it, and that the stage's counts so far are the router's (`FamilyCalm`, with
`Share`). Lemmas about the receiver (`SignedVerdict`, `AgainVerdict`, `TamperedVerdict`
and those before them) give each of the twelve bundles its verdict; the sum of the
entries is a recursive function of which only the values for three entries are needed.
The assumption `WrongKeyAssumption` says that the wrong-key test's key, which the code
generates besides the algorithms' own, is none of theirs.

`OnlyFaultsFailTheRelease` is about seconds. `ReleaseInv` says which version is active,
restorable and served at each command; `TimeInv` bounds the seconds since the injection
by three for every failed check and three for the recovery; `TrafficInv` says which
versions have answered the load, and until when. The theorem's hypothesis `Timely`
relates the constants: a window has at least 100 attempts, `Consecutive <= Rounds`, the
windows end before the evidence of the first is too old (30 and 300 seconds), the
objective is at least `3 * Consecutive + 3` and the load longer than
`3 * Consecutive + 7`. With the numbers of `release-slo.json` and of the controller (100,
2 of 12, 10 and 15) these are 2 <= 12, 10 >= 9 and 15 > 13. They are the least for two
checks: with 99 attempts, an objective of 8 or a load of 13 seconds, TLC finds a run
without faults that fails.

Model-checked only: liveness (`EveryLoadEnds`, `EveryServerEnds`, `FaultIsAnswered`,
`Finishes`), which is out of the prover's reach. Every other property of a passing run
is stated by a theorem.

## Not modelled

The contents of certificates, keys and TLS records; measurement values other than the
outcome; certificate creation and distribution; SSH, Docker and the transfer of the
image (one step that may fail). Wall-clock limits are nondeterministic time-outs, except
in `ReleaseExperiment`, where the objective is about seconds.

Of modelled components: the prefork workers of the TLS server (a service is one process
that may die at any time) and its memory measurement; the 32 threads of a window (the
window is their counts); the active monitor, which only observes; `tls12-control`, a
self-test; network shaping, CPU limits and diagnostics of the load worker; of the lab
the negative TLS checks (`lab.py:533-545`, stateless requests to servers that are not
changed), key generation, timing and resource records.

Components left out: the file transfer worker (`aws_worker.py`), whose `prepare`,
`receive` and `collect` repeat `HandshakeSession`'s pattern of one pending server and
whose receiver repeats `Inbox`; image identity, a digest of a stream without state;
publication, audit, analysis and figures, which are batch transformations of files; the
local workflow, which builds the image and runs the lab.
