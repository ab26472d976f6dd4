--------------------------- MODULE ReleaseExperiment ---------------------------
(***************************************************************************)
(* The release controller scripts/release_experiments.py with the commands  *)
(* of scripts/release_worker.py it uses: three candidates pass or fail the   *)
(* cryptographic and performance admission, the active service is then       *)
(* killed under a background load, and the controller must find that out and *)
(* restore the previous approved version within the recovery objective.      *)
(*                                                                          *)
(* A version is known by its place: 0 is the classical service, 1 the slow   *)
(* candidate, 2 and 3 the good ones.  Files and worker kills are the subject *)
(* of ReleaseLifecycle; here time is: clock counts seconds since the         *)
(* background load was launched, and a command takes at most the seconds     *)
(* its step is given.  The server's wall clock may differ from the one the   *)
(* controller and the client share by skew seconds.                          *)
(***************************************************************************)
EXTENDS ReleasePolicy, FiniteSets

CONSTANTS
  Consecutive,  \* consecutive_failures_to_rollback
  Objective,    \* recovery_objective_seconds
  Load,         \* seconds the background load offers connections
  MaxFaults     \* bound: faults of different kinds

ASSUME TimesAssumption ==
  /\ Consecutive \in Nat \ {0} /\ Objective \in Nat /\ MaxFaults \in Nat
  /\ Load \in Nat /\ Load > 2

Classical  == 0
Candidates == 1 .. 3
Slow       == 1
Versions   == {Classical} \cup Candidates
Failed     == -1
Servers    == Versions \cup {Failed}
Rounds     == 12
Horizon    == 2 * Load   \* bound: seconds a run is observed
Kinds      == {"noise", "died", "blip", "late", "skew"}
Skews      == {-5, -1, 5}  \* bound: seconds the server's clock steps by
WindowSeconds == 10        \* window_seconds
MaxAge        == 300       \* max_evidence_age_seconds

VARIABLES
  pc,         \* the controller's next command
  cand,       \* the candidate it is busy with
  windows,    \* the performance windows of that candidate
  crypto,     \* its probes satisfy the cryptographic policy
  created,    \* the server's clock at its start, in seconds of the others'
  skew,       \* seconds the server's clock is ahead of the others
  candidate,  \* the candidate of route.json; 0: none
  active,     \* the active version
  rollback,   \* rollback.json: target and approval
  approved,   \* versions whose promotion was completed: release_approved
  alive,      \* versions whose server runs
  clock,      \* seconds since the launch; -1: not launched
  due,        \* when the running command will have ended at the latest
  traffic,    \* the last second in which each version served a background
              \* connection, or one failed; -1: never
  injected,   \* the controller's t0
  failures,   \* consecutive failed health checks
  round,      \* health checks so far
  measured,   \* when the rollback target's health was measured
  faults

basis   == <<crypto, created, skew>>
release == <<windows, candidate, active, rollback, approved>>
time    == <<clock, due, traffic>>
watch   == <<injected, failures, round, measured>>
vars    == <<pc, cand, basis, release, alive, time, watch, faults>>

Init ==
  /\ pc = "baseline" /\ cand = 1 /\ windows = <<>> /\ candidate = 0
  /\ crypto = FALSE /\ created = 0 /\ skew = 0
  /\ active = Classical /\ rollback = [to |-> Classical, approved |-> FALSE]
  /\ approved = {} /\ alive = {Classical}
  /\ clock = -1 /\ due = -1 /\ traffic = [v \in Servers |-> -1]
  /\ injected = 0 /\ failures = 0 /\ round = 0 /\ measured = 0 /\ faults = {}

Fault(kind) ==
  /\ kind \notin faults /\ Cardinality(faults) < MaxFaults
  /\ faults' = faults \cup {kind}

\* The seconds the steps of the fault phase take at most: launching and sleeping
\* two seconds, the injection, a health check that fails (attempt time-out),
\* health_interval, and the commands of the recovery.
Seconds == [lead |-> 3, inject |-> 1, check |-> 2, pause |-> 1, target |-> 1,
            restore |-> 1, recovered |-> 1, collect |-> Horizon]
Goto(label) == pc' = label /\ due' = IF label \in DOMAIN Seconds
                                     THEN clock + Seconds[label] ELSE due
Require(ok, label) == Goto(IF ok THEN label ELSE "failed")

-----------------------------------------------------------------------------
\* Health of a version, as the client sees it, and the cryptographic policy: a
\* server of one of the candidates refuses every classical client.
Healthy(v) == v \in alive
Allows(v)  == Healthy(v) /\ v # Classical

\* A check of the active service that only decides whether the run goes on: the
\* classical baseline, its listener after idling longer than an accept time-out,
\* the service after a rejected and after a promoted candidate.
After == [baseline |-> "idle", idle |-> "candidate", rejected |-> "candidate",
          promoted |-> IF cand = 2 THEN "classical" ELSE "wrong"]

Observe ==
  /\ pc \in DOMAIN After /\ Healthy(active)
  /\ Goto(After[pc])
  /\ cand' = IF pc = "rejected" THEN cand + 1 ELSE cand
  /\ UNCHANGED <<basis, release, alive, clock, traffic, watch, faults>>

\* These and the other health checks fail the run when the service they ask for
\* does not answer.
Asked == IF pc \in {"stale", "target"} THEN rollback.to ELSE active

HealthFails ==
  /\ pc \in DOMAIN After \cup {"wrong", "stale", "target", "probes"}
  /\ Goto("failed")
  /\ UNCHANGED <<cand, basis, release, alive, clock, traffic, watch>>

Unanswered == ~ Healthy(Asked) /\ HealthFails /\ UNCHANGED faults

-----------------------------------------------------------------------------
\* Admission.

\* candidate: the server is started and becomes the route's candidate.
StartCandidate ==
  /\ pc = "candidate"
  /\ candidate' = cand /\ alive' = alive \cup {cand} /\ windows' = <<>> /\ created' = skew
  /\ Goto("probe")
  /\ UNCHANGED <<cand, crypto, skew, active, rollback, approved, clock, traffic, watch, faults>>

\* The six probes of the candidate, as the policy judges them.
Probed(allowed) ==
  /\ pc = "probe"
  /\ crypto' = allowed
  /\ Goto("window")
  /\ UNCHANGED <<cand, created, skew, release, alive, clock, traffic, watch>>

Probe == Probed(Allows(cand)) /\ UNCHANGED faults

\* window: the slow version delays every handshake beyond the limit; of a good
\* one's attempts at most one in a hundred is late or fails, unless the
\* environment is noisy; a dead one serves none.  The client notes the end.
Measured(late, failed, lagging) ==
  Window(Len(windows), late, failed, lagging, WindowSeconds * (Len(windows) + 1))
Outcomes(v) ==
  IF v \notin alive THEN {Measured(0, Expected, 0)}
  ELSE IF v = Slow THEN {Measured(Expected - f, f, 0) : f \in 0 .. 1}
  ELSE {Measured(l, f, 0) : l, f \in 0 .. 1} \ {Measured(1, 1, 0)}
\* Noise leaves up to a hundred, twenty, nineteen or one measurements.
Noisy == {w \in {Measured(l, f, g) : l \in {0, 1, 5, 6}, f \in {0, 1, 6, 80, 81, 99},
                                     g \in {0, 6}} : w.inTime >= 0}

TakeWindow ==
  /\ pc = "window" /\ Len(windows) < RequiredWindows
  /\ \/ \E w \in Outcomes(cand) : windows' = Append(windows, w) /\ UNCHANGED faults
     \/ /\ cand \in alive \ {Slow} /\ Fault("noise")
        /\ \E w \in Noisy : windows' = Append(windows, w)
  /\ UNCHANGED <<pc, cand, basis, candidate, active, rollback, approved, alive, time, watch>>

\* The server judges the evidence by its own clock: the probes, which the client
\* made when the candidate had just been created, and the windows.
Now == WindowSeconds * Len(windows) + skew
Secure  == crypto /\ created <= 0 /\ 0 <= Now /\ Now <= MaxAge
Reasons == Evaluate([binding |-> cand, windows |-> windows], candidate, created, Now, MaxAge)
Admitted == Secure /\ Reasons = {}

\* decision: every candidate meets the cryptographic policy; the slow one must be
\* refused for its latency, a good one admitted.
Decide ==
  /\ pc = "window" /\ Len(windows) = RequiredWindows
  /\ IF cand = Slow THEN Require(Secure /\ "p95" \in Reasons, "bypass")
     ELSE Require(Admitted, "promote")
  /\ UNCHANGED <<cand, basis, release, alive, clock, traffic, watch, faults>>

\* promote decides again.  The refused candidate is tried too, and must fail.
PromotionRefused ==
  /\ pc \in {"bypass", "promote"} /\ ~ Admitted
  /\ Require(pc = "bypass", "discard")
  /\ UNCHANGED <<cand, basis, release, alive, clock, traffic, watch, faults>>

\* The gate's promotion, then rollback.json and the approval.
Promote ==
  /\ pc \in {"bypass", "promote"} /\ Admitted
  /\ active' = candidate /\ candidate' = 0 /\ windows' = <<>>
  /\ rollback' = [to |-> active, approved |-> active \in approved]
  /\ Require(pc = "promote", "approve")
  /\ UNCHANGED <<cand, basis, approved, alive, clock, traffic, watch, faults>>

\* The new version is approved, and must then be the one that answers.
Approve ==
  /\ pc = "approve"
  /\ approved' = approved \cup {active}
  /\ Goto("promoted")
  /\ UNCHANGED <<cand, basis, windows, candidate, active, rollback, alive, clock, traffic,
                 watch, faults>>

Discard ==
  /\ pc = "discard"
  /\ candidate' = 0 /\ alive' = alive \ {cand}
  /\ Goto("rejected")
  /\ UNCHANGED <<cand, basis, windows, active, rollback, approved, clock, traffic, watch,
                 faults>>

-----------------------------------------------------------------------------
\* rollback, with the version whose health is presented and its age by the
\* server's clock.

RollbackVerdictUnapproved(health, age) ==  \* mutant: any target is restored
  IF 0 <= age /\ age <= 5 THEN "restored" ELSE "stale"

RollbackVerdict(health, age) ==
  IF ~ rollback.approved THEN "no target"
  ELSE IF health # rollback.to THEN "not healthy"
  ELSE IF 0 <= age /\ age <= 5 THEN "restored" ELSE "stale"

Rollback(health, age, expect, label) ==
  LET verdict == RollbackVerdict(health, age + skew)
  IN  /\ active' = IF verdict = "restored" THEN rollback.to ELSE active
      /\ Require(verdict = expect, label)
      /\ UNCHANGED <<basis, windows, candidate, rollback, approved, alive, clock, traffic,
                     watch, faults>>

\* Three requests that must be refused, the first after good-v2's promotion.
RefuseClassical ==
  pc = "classical" /\ Rollback(active, 0, "no target", "candidate") /\ cand' = cand + 1
RefuseWrong ==
  pc = "wrong" /\ Healthy(active) /\ Rollback(active, 0, "not healthy", "stale")
               /\ UNCHANGED cand
RefuseStale ==
  pc = "stale" /\ Healthy(rollback.to) /\ Rollback(rollback.to, 10, "stale", "launch")
               /\ UNCHANGED cand

-----------------------------------------------------------------------------
\* Fault and recovery.

\* window-launch, then two seconds of load before the injection.
Launch ==
  /\ pc = "launch"
  /\ clock' = 0 /\ pc' = "lead" /\ due' = Seconds["lead"]
  /\ UNCHANGED <<cand, basis, release, alive, traffic, watch, faults>>

LeadAtOnce ==  \* mutant: the fault is injected without waiting for some load
  /\ pc = "lead"
  /\ injected' = clock
  /\ Goto("inject")
  /\ UNCHANGED <<cand, basis, release, alive, clock, traffic, failures, round, measured, faults>>

Lead ==
  /\ pc = "lead" /\ clock >= 2
  /\ injected' = clock
  /\ Goto("inject")
  /\ UNCHANGED <<cand, basis, release, alive, clock, traffic, failures, round, measured, faults>>

\* fault-active: the active version's process group is terminated.
Inject ==
  /\ pc = "inject"
  /\ alive' = alive \ {active}
  /\ Goto("check")
  /\ UNCHANGED <<cand, basis, release, clock, traffic, watch, faults>>

CheckHealthOnce(ok) ==  \* mutant: every round starts counting anew
  /\ pc = "check"
  /\ failures' = IF ok THEN 0 ELSE 1
  /\ round' = round + 1
  /\ IF failures' >= Consecutive THEN Goto("target")
     ELSE Require(round' < Rounds, "pause")
  /\ UNCHANGED <<cand, basis, release, alive, clock, traffic, injected, measured>>

CheckHealthOn(ok) ==  \* mutant: the loop is not left
  /\ pc = "check"
  /\ failures' = IF ok THEN 0 ELSE failures + 1
  /\ round' = round + 1
  /\ IF round' < Rounds THEN Goto("pause") ELSE Goto("target")
  /\ UNCHANGED <<cand, basis, release, alive, clock, traffic, injected, measured>>

CheckHealth(ok) ==
  /\ pc = "check"
  /\ failures' = IF ok THEN 0 ELSE failures + 1
  /\ round' = round + 1
  /\ IF failures' >= Consecutive THEN Goto("target")
     ELSE Require(round' < Rounds, "pause")
  /\ UNCHANGED <<cand, basis, release, alive, clock, traffic, injected, measured>>

Check == CheckHealth(Healthy(active)) /\ UNCHANGED faults

Pause ==
  /\ pc = "pause"
  /\ Goto("check")
  /\ UNCHANGED <<cand, basis, release, alive, clock, traffic, watch, faults>>

\* health('rollback'), immediately before the rollback request.
MeasureTarget ==
  /\ pc = "target" /\ Healthy(rollback.to)
  /\ measured' = clock
  /\ Goto("restore")
  /\ UNCHANGED <<cand, basis, release, alive, clock, traffic, injected, failures, round, faults>>

Restore ==
  /\ pc = "restore"
  /\ Rollback(rollback.to, clock - measured, "restored", "recovered")
  /\ UNCHANGED cand

Recovered(ok) ==
  /\ pc = "recovered"
  /\ Require(ok /\ clock - injected <= Objective, "collect")
  /\ UNCHANGED <<cand, basis, release, alive, clock, traffic, watch>>

ObserveRecovery == Recovered(Healthy(active)) /\ UNCHANGED faults

\* window-collect: both versions served, no other did, and after the last failure
\* came at least twenty attempts, the last two seconds, served by the target.
Collect ==
  /\ pc = "collect" /\ clock >= Load
  /\ Require(/\ {v \in Versions : traffic[v] >= 0} = {2, 3}
             /\ \A v \in Servers \ {rollback.to} : traffic[v] < Load - 2, "probes")
  /\ UNCHANGED <<cand, basis, release, alive, clock, traffic, watch, faults>>

\* The six probes again: the restored service meets the cryptographic policy.
ProbeRestored ==
  /\ pc = "probes" /\ Healthy(active)
  /\ Require(Allows(active), "passed")
  /\ UNCHANGED <<cand, basis, release, alive, clock, traffic, watch, faults>>

-----------------------------------------------------------------------------
\* The background load and time.

Running == clock >= 0 /\ pc \notin {"passed", "failed"}

\* Ten connections a second: each is served by the version that is active, or
\* fails.
Arrive ==
  LET who == IF Healthy(active) THEN active ELSE Failed
  IN  /\ Running /\ clock < Load
      /\ traffic[who] # clock
      /\ traffic' = [traffic EXCEPT ![who] = clock]
      /\ UNCHANGED <<pc, cand, basis, release, alive, clock, due, watch, faults>>

\* A second passes, with at least one connection, unless a command is due.
Tick ==
  /\ Running /\ clock < Horizon /\ clock < due
  /\ clock < Load => \E v \in Servers : traffic[v] = clock
  /\ clock' = clock + 1
  /\ UNCHANGED <<pc, cand, basis, release, alive, due, traffic, watch, faults>>

\* Faults: a command takes longer than it should, a server dies, a single health
\* check or probe of a healthy service fails, the server's clock steps.
Overrun ==
  /\ Running /\ pc \notin {"collect", "probes"} /\ Fault("late")
  /\ \E s \in {1, 6} : due' = due + s
  /\ UNCHANGED <<pc, cand, basis, release, alive, clock, traffic, watch>>

ServerDies ==
  /\ pc \notin {"passed", "failed"} /\ Fault("died")
  /\ \E v \in alive : alive' = alive \ {v}
  /\ UNCHANGED <<pc, cand, basis, release, time, watch>>

Blip == /\ Fault("blip")
        /\ CheckHealth(FALSE) \/ Recovered(FALSE) \/ Probed(FALSE) \/ HealthFails

ClockSteps ==
  /\ pc \notin {"passed", "failed"} /\ Fault("skew")
  /\ \E s \in Skews : skew' = s
  /\ UNCHANGED <<pc, cand, crypto, created, release, alive, time, watch>>

-----------------------------------------------------------------------------
Control == \/ Observe \/ Unanswered \/ StartCandidate \/ Probe \/ TakeWindow \/ Decide
           \/ PromotionRefused \/ Promote \/ Approve \/ Discard
           \/ RefuseClassical \/ RefuseWrong \/ RefuseStale
           \/ Launch \/ Lead \/ Inject \/ Check \/ Pause \/ MeasureTarget
           \/ Restore \/ ObserveRecovery \/ Collect \/ ProbeRestored
Next == Control \/ Arrive \/ Tick \/ Overrun \/ ServerDies \/ Blip \/ ClockSteps

\* The controller goes on, connections keep arriving and time passes.
Spec == Init /\ [][Next]_vars /\ WF_vars(Control) /\ WF_vars(Arrive) /\ WF_vars(Tick)

-----------------------------------------------------------------------------
Labels == {"baseline", "idle", "candidate", "probe", "window", "bypass", "discard",
           "rejected", "promote", "approve", "promoted", "classical", "wrong", "stale",
           "launch", "lead", "inject", "check", "pause", "target", "restore",
           "recovered", "collect", "probes", "passed", "failed"}
AWindow == [tag : Nat, inTime : Nat, late : Nat, failed : Nat, lagging : Nat,
            bound : BOOLEAN, observed : Nat]

\* Every variable has a value of the intended type, and no more health checks
\* fail in a row than it takes to act.
TypeOK ==
  /\ pc \in Labels /\ cand \in Candidates
  /\ crypto \in BOOLEAN /\ {created, skew} \subseteq Skews \cup {0}
  /\ windows \in Seq(AWindow) /\ candidate \in {0} \cup Candidates
  /\ active \in Versions /\ rollback \in [to : Versions, approved : BOOLEAN]
  /\ approved \subseteq Candidates /\ alive \subseteq Versions
  /\ clock \in -1 .. Horizon /\ due \in Int
  /\ traffic \in [Servers -> -1 .. Load - 1]
  /\ injected \in Nat /\ measured \in Int
  /\ failures \in 0 .. Consecutive /\ round \in 0 .. Rounds
  /\ faults \subseteq Kinds

\* docs/lab-meeting/PROJECT_WALKTHROUGH.ko.md:247: "p95 is the percentile with 95% of
\* the values at or below it".  The percentile of the successful attempts is within
\* the limit exactly if there are any and 95 in a hundred of them are, whatever
\* number failed; and "the 99% condition is stronger than the p95 condition": a
\* window on time also meets the percentile and the failure budget.
PercentileIsExact ==
  \A i \in DOMAIN windows : LET w == windows[i] IN
    /\ P95WithinLimit(w) <=> Good(w) > 0 /\ 100 * w.inTime >= 95 * Good(w)
    /\ OnTime(w) => P95WithinLimit(w) /\ WithinFailureBudget(w)

\* Without noise, late commands, further deaths, failing probes or a clock that
\* steps no check of the run fails: the slow candidate is refused, also by its
\* promotion, and the good ones are admitted, the injected fault is detected and
\* answered within the objective with evidence that is not stale, and the load
\* lasts long enough to show the restored service (twenty attempts after the last
\* failure).
FailureHasCause == pc = "failed" => faults # {}

\* The experiment implements the release contract: the active service moves only
\* to new versions that refuse classical clients, and back only to a version
\* whose release was completed.
Contract == INSTANCE ReleaseContract WITH
  gen <- active, secure <- active # Classical, trusted <- approved

ImplementsContract == Contract!Spec

\* An injected fault is answered: the previous approved version becomes active
\* again, unless another fault intervenes.
FaultIsAnswered == pc = "check" ~> (active = rollback.to \/ faults # {})
================================================================================
