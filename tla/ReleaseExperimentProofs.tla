------------------------ MODULE ReleaseExperimentProofs ------------------------
(***************************************************************************)
(* The release controller: type correctness, the boundary arithmetic of its *)
(* admission policy and the refinement of the release contract, for every    *)
(* window size, number of windows, load, objective and fault bound; and that *)
(* a run fails only after a fault, for all of these that meet Timely.        *)
(***************************************************************************)
EXTENDS ReleaseExperiment, TLAPS

(***************************************************************************)
(* The arithmetic of release_policy.py.                                     *)
(***************************************************************************)

\* A window that says how all attempts ended.
Offered == {w \in AWindow : w.inTime + w.late + w.failed = Expected}

(* quantile's index lies within the values; the values up to k reach it exactly *)
(* when they are at least 95 in a hundred.                                    *)
LEMMA PositionBounds ==
  ASSUME NEW n \in Nat \ {0}
  PROVE  /\ Position(n) \in 1 .. n
         /\ \A k \in Nat : Position(n) <= k <=> 95 * n <= 100 * k
BY DEF Position

(* The percentile rule in the terms of the counts.                            *)
LEMMA PercentileRule ==
  ASSUME NEW w \in Offered
  PROVE  P95WithinLimit(w) <=> Good(w) > 0 /\ 100 * w.inTime >= 95 * Good(w)
<1> DEFINE n  == w.inTime + w.late
           xs == Sorted(w.inTime, w.late)
<1>1. w.inTime \in Nat /\ w.late \in Nat /\ n \in Nat /\ Good(w) = n
  BY DEF Offered, AWindow, Good
<1>2. xs = [i \in 1 .. n |-> IF i <= w.inTime THEN 0 ELSE 1]
  BY DEF Sorted
<1>3. xs \in Seq({0, 1}) /\ Len(xs) = n
  <2>1. xs \in [1 .. n -> {0, 1}]
    BY <1>2
  <2>2. xs \in Seq({0, 1})
    BY <1>1, <2>1
  <2> QED BY <1>1, <2>1, <2>2
<1>4. P95WithinLimit(w) <=> Quantile(xs) = 0
  BY DEF P95WithinLimit
<1>5. CASE n = 0
  <2>1. xs = <<>>
    BY <1>3, <1>5
  <2> HIDE DEF xs
  <2>2. Quantile(xs) = 2
    BY <2>1 DEF Quantile, None
  <2> QED BY <1>1, <1>4, <1>5, <2>2
<1>6. CASE n # 0
  <2>1. Position(n) \in 1 .. n /\ (Position(n) <= w.inTime <=> 95 * n <= 100 * w.inTime)
    BY <1>1, <1>6, PositionBounds
  <2>2. xs[Position(n)] = 0 <=> Position(n) <= w.inTime
    BY <1>2, <2>1
  <2>3. xs # <<>>
    BY <1>3, <1>6
  <2> HIDE DEF xs
  <2>4. Quantile(xs) = xs[Position(n)]
    BY <1>3, <2>3 DEF Quantile
  <2> HIDE DEF n
  <2>5. P95WithinLimit(w) <=> 95 * n <= 100 * w.inTime
    BY <1>4, <2>1, <2>2, <2>4
  <2> QED BY <1>1, <1>6, <2>5
<1> QED BY <1>5, <1>6

(* Hence the on-time rule implies the latency and the failure rule.           *)
LEMMA OnTimeSuffices ==
  ASSUME NEW w \in Offered, OnTime(w)
  PROVE  P95WithinLimit(w) /\ WithinFailureBudget(w)
<1>1. /\ w.inTime \in Nat /\ w.late \in Nat /\ w.failed \in Nat
      /\ w.inTime + w.late + w.failed = Expected
      /\ Good(w) = w.inTime + w.late
  BY DEF Offered, AWindow, Good
<1>2. Expected \in Nat \ {0}
  BY PolicyAssumption
<1>3. 100 * w.inTime >= 99 * Expected
  BY DEF OnTime
<1>4. P95WithinLimit(w)
  BY <1>1, <1>2, <1>3, PercentileRule
<1>5. WithinFailureBudget(w)
  BY <1>1, <1>2, <1>3 DEF WithinFailureBudget
<1> QED BY <1>4, <1>5

(* What a window of the experiment looks like.                                *)
LEMMA WindowsOffered ==
  ASSUME NEW v, windows \in Seq(Offered)
  PROVE  Outcomes(v) \subseteq Offered /\ Noisy \subseteq Offered
<1>1. Expected \in Nat \ {0} /\ Len(windows) \in Nat
  BY PolicyAssumption
<1>2. ASSUME NEW l \in Nat, NEW f \in Nat, NEW g \in Nat, l + f <= Expected
      PROVE  Measured(l, f, g) \in Offered
  BY <1>1, <1>2 DEF Measured, WindowSeconds, Window, Offered, AWindow
<1>3. Outcomes(v) \subseteq Offered
  <2>1. ASSUME NEW f \in 0 .. 1 PROVE Measured(Expected - f, f, 0) \in Offered
    BY <1>1, <1>2
  <2>2. ASSUME NEW l \in 0 .. 1, NEW f \in 0 .. 1, ~ (l = 1 /\ f = 1)
        PROVE  Measured(l, f, 0) \in Offered
    BY <1>1, <1>2, <2>2
  <2>3. Measured(0, Expected, 0) \in Offered
    BY <1>1, <1>2
  <2> QED BY <2>1, <2>2, <2>3 DEF Outcomes
<1>4. Noisy \subseteq Offered
  <2> SUFFICES ASSUME NEW l \in {0, 1, 5, 6}, NEW f \in {0, 1, 6, 80, 81, 99}, NEW g \in {0, 6},
                      Measured(l, f, g).inTime >= 0
               PROVE  Measured(l, f, g) \in Offered
    BY DEF Noisy
  <2>1. l + f <= Expected
    BY <1>1 DEF Measured, Window
  <2> QED BY <1>2, <2>1
<1> QED BY <1>3, <1>4

(***************************************************************************)
(* The invariant: types, and where the controller is with its candidates.   *)
(***************************************************************************)

\* From here on no health check of the detection loop follows.
Ended == {"target", "restore", "recovered", "collect", "probes", "passed", "failed"}

\* Before its promotion a candidate is newer than everything released.
Testing == {"baseline", "idle", "candidate", "probe", "window", "bypass", "discard",
            "rejected", "promote"}

PhaseInv ==
  /\ windows \in Seq(Offered)
  /\ failures = Consecutive \/ round = Rounds => pc \in Ended
  /\ active <= cand /\ \A t \in approved : t <= cand
  /\ pc \in Testing => active < cand /\ \A t \in approved : t < cand
  /\ pc \in {"bypass", "discard", "rejected"} => cand = 1
  /\ pc = "approve" => active = cand
  /\ pc = "classical" => cand = 2
  /\ rollback.approved => rollback.to \in approved

IInv == TypeOK /\ PhaseInv

LEMMA OfferedIsTyped == Seq(Offered) \subseteq Seq(AWindow)
<1> SUFFICES ASSUME NEW s \in Seq(Offered) PROVE s \in Seq(AWindow)
  OBVIOUS
<1>1. Offered \subseteq AWindow
  BY DEF Offered
<1> HIDE DEF Offered
<1>2. Len(s) \in Nat /\ s \in [1 .. Len(s) -> Offered]
  OBVIOUS
<1>3. s \in [1 .. Len(s) -> AWindow]
  BY <1>1, <1>2
<1> QED BY <1>2, <1>3

LEMMA GotoSets ==
  ASSUME NEW label \in Labels, Goto(label), clock \in Int, due \in Int
  PROVE  pc' = label /\ due' \in Int
<1>1. Horizon \in Int
  BY TimesAssumption DEF Horizon
<1>2. ASSUME NEW l \in DOMAIN Seconds PROVE Seconds[l] \in Int
  BY <1>1, <1>2 DEF Seconds
<1> HIDE DEF Seconds
<1> QED BY <1>2 DEF Goto

LEMMA RequireSets ==
  ASSUME NEW label \in Labels, NEW ok, Require(ok, label), clock \in Int, due \in Int
  PROVE  pc' \in {label, "failed"} /\ due' \in Int
BY GotoSets DEF Require, Labels

(* Every step keeps the invariant.                                            *)
LEMMA ObserveStep ==
  ASSUME IInv, Observe \/ ProbeRestored
  PROVE  IInv'
<1> USE DEF IInv, TypeOK, PhaseInv, Versions, Candidates, Classical, basis, release, time, watch
<1>1. CASE Observe
  <2>1. /\ pc \in {"baseline", "idle", "rejected", "promoted"}
        /\ After[pc] \in {"idle", "candidate", "classical", "wrong"}
        /\ After[pc] \in {"idle", "candidate"} <=> pc # "promoted"
        /\ After[pc] = "classical" => cand = 2
    BY <1>1 DEF Observe, After
  <2>2. Goto(After[pc]) /\ cand' = IF pc = "rejected" THEN cand + 1 ELSE cand
    BY <1>1 DEF Observe
  <2>3. pc' = After[pc] /\ due' \in Int
    BY <2>1, <2>2, GotoSets DEF Labels
  <2>4. cand' \in Candidates /\ (pc # "rejected" => cand' = cand) /\ (pc = "rejected" => cand' = 2)
    BY <2>2
  <2>5. UNCHANGED <<basis, release, alive, clock, traffic, watch, faults>>
    BY <1>1 DEF Observe
  <2>6. TypeOK'
    BY <2>1, <2>3, <2>4, <2>5 DEF Labels
  <2>7. active <= cand' /\ \A t \in approved : t <= cand'
    BY <2>4 DEF Testing
  <2>8. pc' \in Testing => active < cand' /\ \A t \in approved : t < cand'
    BY <2>1, <2>3, <2>4 DEF Testing
  <2>9. pc' \notin {"approve", "bypass", "discard", "rejected"} /\ (pc' = "classical" => cand' = 2)
    BY <2>1, <2>3, <2>4
  <2>10. ~ (failures = Consecutive \/ round = Rounds)
    BY <2>1 DEF Ended
  <2>11. PhaseInv'
    BY <2>5, <2>7, <2>8, <2>9, <2>10
  <2> QED BY <2>6, <2>11
<1>2. CASE ProbeRestored
  <2>1. Goto("passed") \/ Goto("failed")
    BY <1>2 DEF ProbeRestored, Require
  <2>2. pc' \in {"passed", "failed"} /\ due' \in Int
    BY <2>1, GotoSets DEF Labels
  <2> QED BY <1>2, <2>2 DEF ProbeRestored, Labels, Ended, Testing
<1> QED BY <1>1, <1>2

LEMMA FailingStep ==
  ASSUME IInv, HealthFails, faults' \subseteq Kinds
  PROVE  IInv'
<1>1. pc' = "failed" /\ due' \in Int
  BY GotoSets DEF HealthFails, Labels, IInv, TypeOK
<1> QED BY <1>1 DEF HealthFails, Labels, Ended, Testing, IInv, TypeOK, PhaseInv, basis, release,
          time, watch

LEMMA ProbedStep ==
  ASSUME IInv, NEW ok \in BOOLEAN, Probed(ok), faults' \subseteq Kinds
  PROVE  IInv'
<1>1. pc' = "window" /\ due' \in Int
  BY GotoSets DEF Probed, Labels, IInv, TypeOK
<1> QED BY <1>1 DEF Probed, Labels, Ended, Testing, IInv, TypeOK, PhaseInv, release, time, watch

LEMMA AdmissionStep ==
  ASSUME IInv, StartCandidate \/ TakeWindow \/ Decide \/ PromotionRefused \/ Promote
               \/ Approve \/ Discard
  PROVE  IInv'
<1> USE DEF IInv, TypeOK, PhaseInv, Versions, Candidates, Classical, Slow, basis, release, time,
            watch
<1>1. CASE StartCandidate
  <2>1. pc' = "probe" /\ due' \in Int
    BY <1>1, GotoSets DEF StartCandidate, Labels
  <2>2. windows' \in Seq(Offered) /\ windows' \in Seq(AWindow)
    BY <1>1 DEF StartCandidate
  <2> QED BY <1>1, <2>1, <2>2 DEF StartCandidate, Labels, Ended, Testing
<1>2. CASE TakeWindow
  <2>1. windows' \in Seq(Offered)
    <3>1. PICK w \in Offered : windows' = Append(windows, w)
      BY <1>2, WindowsOffered DEF TakeWindow
    <3> QED BY <3>1
  <2>2. faults' \subseteq Kinds
    BY <1>2 DEF TakeWindow, Fault, Kinds
  <2>3. windows' \in Seq(AWindow)
    BY <2>1, OfferedIsTyped
  <2> QED BY <1>2, <2>1, <2>2, <2>3 DEF TakeWindow, time, watch
<1>3. ASSUME NEW label \in {"bypass", "promote", "discard"}, NEW ok, Require(ok, label),
             UNCHANGED <<cand, basis, release, alive, clock, traffic, watch, faults>>,
             pc \in {"window", "bypass", "promote"}, label # "promote" => cand = 1
      PROVE  IInv'
  <2>1. pc' \in {label, "failed"} /\ due' \in Int
    BY <1>3, RequireSets DEF Labels
  <2>2. TypeOK'
    BY <1>3, <2>1 DEF Labels
  <2>3. PhaseInv'
    BY <1>3, <2>1 DEF Ended, Testing
  <2> QED BY <2>2, <2>3
<1>4. CASE Decide
  BY <1>3, <1>4 DEF Decide
<1>5. CASE PromotionRefused
  <2>1. CASE pc = "bypass"
    BY <1>3, <1>5, <2>1 DEF PromotionRefused
  <2>2. CASE pc # "bypass"
    <3>1. pc' = "failed" /\ due' \in Int
      BY <1>5, <2>2, GotoSets DEF PromotionRefused, Require, Labels
    <3> QED BY <1>5, <3>1 DEF PromotionRefused, Labels, Ended, Testing
  <2> QED BY <2>1, <2>2
<1>6. CASE Promote
  <2>1. pc' \in {"approve", "failed"} /\ due' \in Int
    BY <1>6, RequireSets DEF Promote, Labels
  <2>2. candidate = cand
    BY <1>6 DEF Promote, Admitted, Reasons, Evaluate
  <2>3. windows' \in Seq(Offered) /\ windows' \in Seq(AWindow)
    BY <1>6 DEF Promote
  <2>4. /\ pc \in {"bypass", "promote"} /\ active' = cand /\ candidate' = 0
        /\ rollback' = [to |-> active, approved |-> active \in approved]
        /\ UNCHANGED <<cand, basis, approved, alive, clock, traffic, watch, faults>>
    BY <1>6, <2>2 DEF Promote
  <2>5. rollback' \in [to : Versions, approved : BOOLEAN]
    BY <2>4
  <2>6. TypeOK'
    BY <2>1, <2>3, <2>4, <2>5 DEF Labels
  <2>7. rollback'.approved => rollback'.to \in approved'
    BY <2>4
  <2>8. PhaseInv'
    BY <2>1, <2>3, <2>4, <2>7 DEF Ended, Testing
  <2> QED BY <2>6, <2>8
<1>7. CASE Approve
  <2>1. pc' = "promoted" /\ due' \in Int
    BY <1>7, GotoSets DEF Approve, Labels
  <2> QED BY <1>7, <2>1 DEF Approve, Labels, Ended, Testing
<1>8. CASE Discard
  <2>1. pc' = "rejected" /\ due' \in Int
    BY <1>8, GotoSets DEF Discard, Labels
  <2> QED BY <1>8, <2>1 DEF Discard, Labels, Ended, Testing
<1> QED BY <1>1, <1>2, <1>4, <1>5, <1>6, <1>7, <1>8

LEMMA RollbackStep ==
  ASSUME IInv, NEW health, NEW age, NEW expect, NEW label \in Labels,
         Rollback(health, age, expect, label)
  PROVE  /\ pc' \in {label, "failed"} /\ due' \in Int
         /\ active' = active \/ active' \in approved
         /\ UNCHANGED <<basis, windows, candidate, rollback, approved, alive, clock, traffic,
                        watch, faults>>
<1>1. Require(RollbackVerdict(health, age + skew) = expect, label)
  BY DEF Rollback
<1>2. pc' \in {label, "failed"} /\ due' \in Int
  BY <1>1, RequireSets DEF IInv, TypeOK
<1>3. RollbackVerdict(health, age + skew) = "restored" => rollback.to \in approved
  BY DEF RollbackVerdict, IInv, PhaseInv
<1> QED BY <1>2, <1>3 DEF Rollback

LEMMA RefusalStep ==
  ASSUME IInv, RefuseClassical \/ RefuseWrong \/ RefuseStale
  PROVE  IInv'
<1>0. RefuseClassical => pc = "classical" /\ cand' = cand + 1
  BY DEF RefuseClassical
<1> USE DEF IInv, TypeOK, PhaseInv, Versions, Candidates, Classical, basis, release, time, watch
<1>1. CASE RefuseClassical
  <2>1. /\ pc' \in {"candidate", "failed"} /\ due' \in Int
        /\ active' = active \/ active' \in approved
        /\ UNCHANGED <<basis, windows, candidate, rollback, approved, alive, clock, traffic,
                       watch, faults>>
    BY <1>1, RollbackStep DEF RefuseClassical, Labels
  <2>2. pc = "classical" /\ cand = 2 /\ cand' = 3
    <3>1. pc = "classical" /\ cand' = cand + 1
      BY <1>0, <1>1
    <3> QED BY <3>1
  <2>3. active' \in Versions /\ active' <= 2 /\ \A t \in approved' : t < 3
    <3>1. active \in Versions /\ active <= 2 /\ \A t \in approved : t \in Versions /\ t <= 2
      BY <2>2
    <3>2. \A t \in approved : t < 3
      BY <3>1
    <3>3. active' = active \/ active' \in approved
      BY <2>1
    <3>4. active' \in Versions /\ active' <= 2
      BY <3>1, <3>3
    <3> QED BY <2>1, <3>2, <3>4
  <2>4. TypeOK'
    BY <2>1, <2>2, <2>3 DEF Labels
  <2>5. PhaseInv'
    BY <2>1, <2>2, <2>3 DEF Ended, Testing
  <2> QED BY <2>4, <2>5
<1>2. ASSUME NEW label \in {"stale", "launch"}, NEW health, NEW age, NEW expect,
             Rollback(health, age, expect, label), UNCHANGED cand,
             pc \in {"wrong", "stale"}
      PROVE  IInv'
  <2>1. /\ pc' \in {label, "failed"} /\ due' \in Int
        /\ active' = active \/ active' \in approved
        /\ UNCHANGED <<basis, windows, candidate, rollback, approved, alive, clock, traffic,
                       watch, faults>>
    BY <1>2, RollbackStep DEF Labels
  <2>2. TypeOK'
    BY <1>2, <2>1 DEF Labels
  <2>3. PhaseInv'
    BY <1>2, <2>1 DEF Ended, Testing
  <2> QED BY <2>2, <2>3
<1> QED BY <1>1, <1>2 DEF RefuseWrong, RefuseStale

LEMMA RecoveryStep ==
  ASSUME IInv, Launch \/ Lead \/ Inject \/ Pause \/ MeasureTarget \/ Restore \/ Collect
  PROVE  IInv'
<1> USE DEF IInv, TypeOK, PhaseInv, Versions, Candidates, Classical, basis, release, time, watch
<1>1. CASE Launch
  <2>1. pc' = "lead" /\ due' = 3 /\ clock' = 0 /\ Horizon \in Nat
    BY <1>1, TimesAssumption DEF Launch, Seconds, Horizon
  <2> QED BY <1>1, <2>1 DEF Launch, Labels, Ended, Testing
<1>2. CASE Lead
  <2>1. pc' = "inject" /\ due' \in Int
    BY <1>2, GotoSets DEF Lead, Labels
  <2> QED BY <1>2, <2>1 DEF Lead, Labels, Ended, Testing
<1>3. CASE Inject
  <2>1. pc' = "check" /\ due' \in Int
    BY <1>3, GotoSets DEF Inject, Labels
  <2> QED BY <1>3, <2>1 DEF Inject, Labels, Ended, Testing
<1>4. CASE Pause
  <2>1. pc' = "check" /\ due' \in Int
    BY <1>4, GotoSets DEF Pause, Labels
  <2> QED BY <1>4, <2>1 DEF Pause, Labels, Ended, Testing
<1>5. CASE MeasureTarget
  <2>1. pc' = "restore" /\ due' \in Int
    BY <1>5, GotoSets DEF MeasureTarget, Labels
  <2> QED BY <1>5, <2>1 DEF MeasureTarget, Labels, Ended, Testing
<1>6. CASE Restore
  <2>1. /\ pc' \in {"recovered", "failed"} /\ due' \in Int
        /\ active' = active \/ active' \in approved
        /\ UNCHANGED <<basis, windows, candidate, rollback, approved, alive, clock, traffic,
                       watch, faults>>
    BY <1>6, RollbackStep DEF Restore, Labels
  <2> QED BY <1>6, <2>1 DEF Restore, Labels, Ended, Testing
<1>7. CASE Collect
  <2>1. Goto("probes") \/ Goto("failed")
    BY <1>7 DEF Collect, Require
  <2>2. pc' \in {"probes", "failed"} /\ due' \in Int
    BY <2>1, GotoSets DEF Labels
  <2> QED BY <1>7, <2>2 DEF Collect, Labels, Ended, Testing
<1> QED BY <1>1, <1>2, <1>3, <1>4, <1>5, <1>6, <1>7

LEMMA HealthStep ==
  ASSUME IInv, NEW ok \in BOOLEAN, CheckHealth(ok) \/ Recovered(ok), faults' \subseteq Kinds
  PROVE  IInv'
<1> USE DEF IInv, TypeOK, PhaseInv, Versions, Candidates, Classical, basis, release, time, watch
<1>1. CASE CheckHealth(ok)
  <2>1. failures < Consecutive /\ round < Rounds /\ pc = "check"
    BY <1>1, TimesAssumption DEF CheckHealth, Ended, Rounds
  <2>2. failures' \in 0 .. Consecutive /\ round' \in 0 .. Rounds
    BY <1>1, <2>1, TimesAssumption DEF CheckHealth, Rounds
  <2>3. CASE failures' >= Consecutive
    <3>1. pc' = "target" /\ due' \in Int
      BY <1>1, <2>3, GotoSets DEF CheckHealth, Labels
    <3> QED BY <1>1, <2>2, <3>1 DEF CheckHealth, Labels, Ended, Testing
  <2>4. CASE ~ (failures' >= Consecutive)
    <3>1. Require(round' < Rounds, "pause")
      BY <1>1, <2>4 DEF CheckHealth
    <3>2. pc' \in {"pause", "failed"} /\ due' \in Int
      BY <3>1, RequireSets DEF Labels
    <3>3. pc' = "pause" => round' < Rounds
      BY <3>1, GotoSets DEF Require, Labels
    <3>4. failures' # Consecutive
      BY <2>2, <2>4, TimesAssumption
    <3> QED BY <1>1, <2>2, <3>2, <3>3, <3>4 DEF CheckHealth, Labels, Ended, Testing, Rounds
  <2> QED BY <2>3, <2>4
<1>2. CASE Recovered(ok)
  <2>1. pc' \in {"collect", "failed"} /\ due' \in Int
    BY <1>2, RequireSets DEF Recovered, Labels
  <2> QED BY <1>2, <2>1 DEF Recovered, Labels, Ended, Testing
<1> QED BY <1>1, <1>2

LEMMA EnvironmentStep ==
  ASSUME IInv, Arrive \/ Tick \/ Overrun \/ ServerDies \/ ClockSteps
  PROVE  IInv'
<1> USE DEF IInv, TypeOK, PhaseInv, Versions, basis, release, time, watch
<1>1. CASE Arrive
  <2>1. clock \in -1 .. Load - 1
    BY <1>1, TimesAssumption DEF Arrive
  <2>2. traffic' \in [Servers -> -1 .. Load - 1]
    BY <1>1, <2>1 DEF Arrive
  <2> QED BY <1>1, <2>2 DEF Arrive
<1>2. CASE Tick
  <2>1. clock' \in -1 .. Horizon
    BY <1>2, TimesAssumption DEF Tick, Horizon
  <2> QED BY <1>2, <2>1 DEF Tick
<1>3. CASE Overrun
  <2>1. due' \in Int /\ faults' \subseteq Kinds
    BY <1>3 DEF Overrun, Fault, Kinds
  <2> QED BY <1>3, <2>1 DEF Overrun
<1>4. CASE ServerDies
  <2>1. alive' \subseteq Versions /\ faults' \subseteq Kinds
    BY <1>4 DEF ServerDies, Fault, Kinds
  <2> QED BY <1>4, <2>1 DEF ServerDies
<1>5. CASE ClockSteps
  <2>1. faults' \subseteq Kinds /\ skew' \in Skews
    BY <1>5 DEF ClockSteps, Fault, Kinds
  <2> QED BY <1>5, <2>1 DEF ClockSteps
<1> QED BY <1>1, <1>2, <1>3, <1>4, <1>5

(* The inductive invariant of the experiment: a candidate under test is newer *)
(* than everything released, and rollback.json approves only released ones.  *)
THEOREM ExperimentInvariant == Spec => []IInv
<1>1. Init => IInv
  <2> SUFFICES ASSUME Init PROVE IInv
    OBVIOUS
  <2>1. windows \in Seq(Offered) /\ windows \in Seq(AWindow)
    BY DEF Init
  <2>2. traffic \in [Servers -> -1 .. Load - 1] /\ clock \in -1 .. Horizon
    BY TimesAssumption DEF Init, Horizon
  <2>5. crypto \in BOOLEAN /\ {created, skew} \subseteq Skews \cup {0}
    BY DEF Init
  <2>6. active \in Versions /\ alive \subseteq Versions /\ candidate \in {0} \cup Candidates
        /\ rollback \in [to : Versions, approved : BOOLEAN] /\ approved \subseteq Candidates
    BY DEF Init, Versions, Classical
  <2>3. TypeOK
    BY <2>1, <2>2, <2>5, <2>6, TimesAssumption DEF Init, TypeOK, Candidates, Labels, Rounds
  <2>4. PhaseInv
    BY <2>1, TimesAssumption DEF Init, PhaseInv, Testing, Rounds, Classical
  <2> QED BY <2>3, <2>4 DEF IInv
<1>2. IInv /\ [Next]_vars => IInv'
  <2> SUFFICES ASSUME IInv, [Next]_vars PROVE IInv'
    OBVIOUS
  <2>1. CASE Next
    <3>1. CASE Check \/ ObserveRecovery \/ Probe \/ Unanswered
      <4>1. faults' \subseteq Kinds
        BY <3>1 DEF Check, ObserveRecovery, Probe, Unanswered, IInv, TypeOK
      <4>2. \A v : Healthy(v) \in BOOLEAN /\ Allows(v) \in BOOLEAN
        BY DEF Healthy, Allows
      <4> QED BY <3>1, <4>1, <4>2, HealthStep, ProbedStep, FailingStep
              DEF Check, ObserveRecovery, Probe, Unanswered
    <3>2. CASE Blip
      <4>1. faults' \subseteq Kinds
        BY <3>2 DEF Blip, Fault, Kinds, IInv, TypeOK
      <4> QED BY <3>2, <4>1, HealthStep, ProbedStep, FailingStep DEF Blip
    <3> QED BY <2>1, <3>1, <3>2, ObserveStep, AdmissionStep, RefusalStep, RecoveryStep,
               EnvironmentStep DEF Next, Control
  <2>2. CASE UNCHANGED vars
    BY <2>2 DEF vars, basis, release, time, watch, IInv, TypeOK, PhaseInv
  <2> QED BY <2>1, <2>2
<1> QED BY <1>1, <1>2, PTL DEF Spec

(* Type correctness of the controller.                                       *)
THEOREM ExperimentTypes == Spec => []TypeOK
<1>1. IInv => TypeOK
  BY DEF IInv
<1> QED BY <1>1, ExperimentInvariant, PTL

(* docs/lab-meeting/PROJECT_WALKTHROUGH.ko.md:247, for every window size and    *)
(* every outcome of its attempts: the percentile's rule is "95 in a hundred of *)
(* the successful ones", and a window on time meets it and the failure budget. *)
THEOREM PercentileExact == Spec => []PercentileIsExact
<1>1. IInv => PercentileIsExact
  <2> SUFFICES ASSUME IInv, NEW i \in DOMAIN windows
               PROVE  /\ P95WithinLimit(windows[i])
                            <=> Good(windows[i]) > 0
                                  /\ 100 * windows[i].inTime >= 95 * Good(windows[i])
                      /\ OnTime(windows[i])
                            => P95WithinLimit(windows[i]) /\ WithinFailureBudget(windows[i])
    BY DEF PercentileIsExact
  <2>1. windows[i] \in Offered
    BY DEF IInv, PhaseInv
  <2> QED BY <2>1, PercentileRule, OnTimeSuffices
<1> QED BY <1>1, ExperimentInvariant, PTL

(* Every step of the controller is a step of the release contract or leaves   *)
(* the active service and the released versions alone.                       *)
LEMMA ContractStep ==
  ASSUME IInv, Next
  PROVE  [Contract!Next]_<<active, active # Classical, approved>>
<1> DEFINE same == UNCHANGED <<active, approved>>
<1>1. same => [Contract!Next]_<<active, active # Classical, approved>>
  OBVIOUS
<1>2. ASSUME active' \in approved, UNCHANGED approved PROVE Contract!Next
  <2>1. active' # Classical
    BY <1>2 DEF IInv, TypeOK, Candidates, Classical
  <2> QED BY <1>2, <2>1 DEF Contract!Next, Contract!Restore
<1>3. ASSUME NEW health, NEW age, NEW expect, NEW label \in Labels,
             Rollback(health, age, expect, label)
      PROVE  [Contract!Next]_<<active, active # Classical, approved>>
  BY <1>1, <1>2, <1>3, RollbackStep
<1>4. CASE Promote
  <2>1. candidate = cand
    BY <1>4 DEF Promote, Admitted, Reasons, Evaluate
  <2>2. active' = cand /\ active' \in Nat /\ active' > active /\ UNCHANGED approved
    BY <1>4, <2>1 DEF Promote, IInv, TypeOK, PhaseInv, Testing, Candidates, Versions, Classical
  <2>3. \A t \in approved : active' > t
    BY <1>4, <2>2 DEF Promote, IInv, TypeOK, PhaseInv, Testing, Candidates
  <2>4. active' # Classical
    BY <2>2 DEF IInv, TypeOK, Candidates, Classical
  <2> QED BY <2>2, <2>3, <2>4 DEF Contract!Next, Contract!Admit
<1>5. CASE Approve
  <2>1. active # Classical
    BY <1>5 DEF Approve, IInv, TypeOK, PhaseInv, Candidates, Classical
  <2> QED BY <1>5, <2>1 DEF Approve, Contract!Next, Contract!Complete
<1>6. CASE RefuseClassical
  BY <1>3, <1>6 DEF RefuseClassical, Labels
<1>7. CASE RefuseWrong
  BY <1>3, <1>7 DEF RefuseWrong, Labels
<1>8. CASE RefuseStale
  BY <1>3, <1>8 DEF RefuseStale, Labels
<1>9. CASE Restore
  BY <1>3, <1>9 DEF Restore, Labels
<1>10. CASE Observe \/ Unanswered \/ StartCandidate \/ Probe \/ TakeWindow \/ Decide
            \/ PromotionRefused \/ Discard \/ Launch \/ Lead \/ Inject \/ Check \/ Pause
            \/ MeasureTarget \/ ObserveRecovery \/ Collect \/ ProbeRestored
  BY <1>1, <1>10 DEF Observe, Unanswered, HealthFails, StartCandidate, Probe, Probed, TakeWindow,
     Decide, PromotionRefused, Discard, Launch, Lead, Inject, Check, CheckHealth, Pause,
     MeasureTarget, ObserveRecovery, Recovered, Collect, ProbeRestored, release
<1>11. CASE Arrive \/ Tick \/ Overrun \/ ServerDies \/ Blip \/ ClockSteps
  BY <1>1, <1>11 DEF Arrive, Tick, Overrun, ServerDies, Blip, ClockSteps, CheckHealth, Recovered,
     Probed, HealthFails, release
<1> QED
  BY <1>4, <1>5, <1>6, <1>7, <1>8, <1>9, <1>10, <1>11 DEF Next, Control

(* The experiment implements the release contract: whatever fails or is late, *)
(* the service is never moved back to a version that was not released.       *)
THEOREM ExperimentImplementsContract == Spec => ImplementsContract
<1>1. Init => Contract!Init
  BY DEF Init, Contract!Init, Classical
<1>2. IInv /\ [Next]_vars => [Contract!Next]_<<active, active # Classical, approved>>
  BY ContractStep DEF vars, release
<1> QED BY <1>1, <1>2, ExperimentInvariant, PTL DEF Spec, ImplementsContract, Contract!Spec

-----------------------------------------------------------------------------
(***************************************************************************)
(* A run without faults.                                                    *)
(***************************************************************************)

\* The numbers a run without faults needs: one late or failed attempt is within
\* the budget, the windows take no longer than evidence may be old, the rounds
\* suffice to act, the steps from the injection to the recovered service fit into
\* the objective, and the load goes on for more than two seconds after the last
\* connection that may fail.  Those of policies/release-slo.json meet it (100
\* attempts, 3 windows, 2 failures, 10 seconds), as does the controller's load of
\* 15 seconds.
Timely ==
  /\ Expected >= 100 /\ Consecutive <= Rounds
  /\ WindowSeconds * RequiredWindows <= MaxAge
  /\ Objective >= 3 * Consecutive + 3
  /\ Load > 3 * Consecutive + 7

\* What the windows of a version look like without noise.
Usual(v, i, w) ==
  /\ w.tag = i - 1 /\ w.lagging = 0 /\ w.bound /\ w.observed = WindowSeconds * i
  /\ w.inTime + w.late + w.failed = Expected
  /\ IF v = Slow THEN w.inTime = 0 ELSE w.late + w.failed <= 1

\* Which versions are active, released and served, at every command.
Tested   == {"baseline", "idle", "candidate", "probe", "window", "bypass", "discard",
             "rejected", "promote"}
Restorable == rollback.to = 2 /\ rollback.approved /\ 2 \in alive
ReleaseInv ==
  /\ pc # "failed"
  /\ pc \in Tested =>
       /\ active = IF cand = 3 THEN 2 ELSE 0
       /\ active \in alive
       /\ cand = 3 => 2 \in alive /\ 2 \in approved
       /\ pc \in {"baseline", "idle", "bypass", "discard", "rejected"} => cand = 1
       /\ cand = 1 => pc # "promote"
  /\ pc \in {"probe", "window", "bypass", "promote"} =>
       /\ candidate = cand /\ cand \in alive
       /\ \A i \in DOMAIN windows : Usual(cand, i, windows[i])
       /\ Len(windows) <= RequiredWindows
       /\ pc # "probe" => crypto
       /\ pc \in {"bypass", "promote"} => Len(windows) = RequiredWindows
  /\ pc \in {"approve", "promoted"} =>
       /\ active = cand /\ cand \in alive
       /\ \/ cand = 2 /\ ~ rollback.approved
          \/ cand = 3 /\ Restorable
       /\ pc = "promoted" => cand \in approved
  /\ pc = "classical" => active = 2 /\ 2 \in alive /\ 2 \in approved /\ ~ rollback.approved
  /\ pc \in {"wrong", "stale", "launch", "lead", "inject"} =>
       active = 3 /\ 3 \in alive /\ Restorable
  /\ pc \in {"check", "pause", "target", "restore"} =>
       active = 3 /\ 3 \notin alive /\ Restorable
  /\ pc \in {"recovered", "collect", "probes"} => active = 2 /\ Restorable

\* How many seconds may have passed, at every command.
Idle == Tested \cup {"approve", "promoted", "classical", "wrong", "stale", "launch"}
Detecting == {"inject", "check", "pause", "target", "restore"}
TimeInv ==
  /\ pc \in Idle => clock = -1
  /\ pc \in Idle \cup {"lead", "inject"} => failures = 0 /\ round = 0
  /\ pc = "lead" => 0 <= clock /\ clock <= due /\ due = 3
  /\ pc \in Detecting \cup {"recovered"} => clock <= due /\ injected \in 0 .. 3 /\ clock >= 0
  /\ pc = "inject" => due <= injected + 1
  /\ pc \in {"check", "pause"} => failures = round /\ round < Consecutive
  /\ pc = "check" => due <= injected + 3 * round + 3
  /\ pc = "pause" => due <= injected + 3 * round + 1
  /\ pc = "target" => due <= injected + 3 * Consecutive + 1
  /\ pc = "restore" => /\ due <= injected + 3 * Consecutive + 2
                       /\ measured <= clock /\ due <= measured + 1
  /\ pc = "recovered" => due <= injected + 3 * Consecutive + 3

\* Which versions have served the background load, and until when.
TrafficInv ==
  /\ traffic[0] = -1 /\ traffic[1] = -1
  /\ pc \in Idle \cup {"lead"} \cup Detecting =>
       traffic[2] = -1 /\ \A v \in Servers : traffic[v] <= clock
  /\ pc = "lead" => traffic[Failed] = -1 /\ (clock > 0 => traffic[3] >= 0)
  /\ pc \in Detecting \cup {"recovered", "collect", "probes"} => traffic[3] >= 0
  /\ pc \in {"recovered", "collect", "probes"} =>
       /\ traffic[3] <= 3 * Consecutive + 5 /\ traffic[Failed] <= 3 * Consecutive + 5
       /\ traffic[2] < 0 => clock <= 3 * Consecutive + 6
Smooth == ReleaseInv /\ TimeInv /\ TrafficInv

\* The hosts' clocks agree.
ClocksAgree == skew = 0 /\ created = 0

(* What the admission makes of usual windows.                                *)
LEMMA UsualOutcomes ==
  ASSUME NEW v \in alive, NEW w \in Outcomes(v), Len(windows) \in Nat, Expected >= 100
  PROVE  Usual(v, Len(windows) + 1, w)
<1>1. Expected \in Nat
  BY PolicyAssumption
<1>2. CASE v = Slow
  <2>1. PICK f \in 0 .. 1 : w = Measured(Expected - f, f, 0)
    BY <1>2 DEF Outcomes
  <2>2. /\ w.tag = Len(windows) /\ w.lagging = 0 /\ w.bound
        /\ w.observed = WindowSeconds * (Len(windows) + 1)
        /\ w.late = Expected - f /\ w.failed = f /\ w.inTime = Expected - (Expected - f) - f
    BY <2>1 DEF Measured, Window
  <2> QED BY <1>1, <1>2, <2>2 DEF Usual
<1>3. CASE v # Slow
  <2>1. PICK l \in 0 .. 1, f \in 0 .. 1 : w = Measured(l, f, 0) /\ w # Measured(1, 1, 0)
    BY <1>3 DEF Outcomes
  <2>2. /\ w.tag = Len(windows) /\ w.lagging = 0 /\ w.bound
        /\ w.observed = WindowSeconds * (Len(windows) + 1)
        /\ w.late = l /\ w.failed = f /\ w.inTime = Expected - l - f
    BY <2>1 DEF Measured, Window
  <2>3. l + f <= 1
    BY <2>1
  <2> QED BY <1>1, <1>3, <2>2, <2>3 DEF Usual
<1> QED BY <1>2, <1>3

LEMMA GoodWindow ==
  ASSUME NEW w \in Offered, w.late + w.failed <= 1, w.lagging = 0, w.bound, Expected >= 100
  PROVE  Summarize(w) = {}
<1>1. /\ w.inTime \in Nat /\ w.late \in Nat /\ w.failed \in Nat /\ Expected \in Nat
      /\ w.inTime + w.late + w.failed = Expected
  BY PolicyAssumption DEF Offered, AWindow
<1>2. OnTime(w)
  BY <1>1 DEF OnTime
<1>3. P95WithinLimit(w) /\ WithinFailureBudget(w)
  BY <1>2, OnTimeSuffices
<1> DEFINE rows == Good(w) + w.failed
           xs == Sorted(rows - w.lagging, w.lagging)
<1>4. rows = Expected /\ rows - w.lagging = Expected
  BY <1>1 DEF Good
<1>5. Quantile(xs) = 0
  <2>1. xs = [i \in 1 .. Expected |-> IF i <= Expected THEN 0 ELSE 1]
    BY <1>1, <1>4 DEF Sorted
  <2>2. Len(xs) = Expected /\ xs # <<>> /\ \A i \in 1 .. Expected : xs[i] = 0
    <3>1. xs \in [1 .. Expected -> {0, 1}]
      BY <2>1
    <3>2. xs \in Seq({0, 1}) /\ Len(xs) = Expected
      BY <1>1, <3>1
    <3> QED BY <1>1, <2>1, <3>2
  <2>3. Position(Expected) \in 1 .. Expected
    BY <1>1, PositionBounds
  <2> HIDE DEF xs
  <2> QED BY <2>2, <2>3 DEF Quantile
<1> DEFINE c == [incomplete |-> rows = Expected, mismatch |-> w.bound,
                 failures |-> WithinFailureBudget(w), onTime |-> OnTime(w),
                 p95 |-> P95WithinLimit(w), generator |-> Quantile(xs) = 0]
<1>6. Summarize(w) = {r \in DOMAIN c : ~ c[r]}
  BY DEF Summarize
<1>7. /\ c.incomplete /\ c.mismatch /\ c.failures /\ c.onTime /\ c.p95 /\ c.generator
  BY <1>2, <1>3, <1>4, <1>5
<1>8. DOMAIN c = {"incomplete", "mismatch", "failures", "onTime", "p95", "generator"}
  OBVIOUS
<1> HIDE DEF c
<1> QED BY <1>6, <1>7, <1>8

LEMMA SlowWindow ==
  ASSUME NEW w \in Offered, w.inTime = 0 PROVE "p95" \in Summarize(w)
<1>1. w.late \in Nat
  BY DEF Offered, AWindow
<1> DEFINE xs == Sorted(w.inTime, w.late)
<1>2. xs = [i \in 1 .. w.late |-> IF i <= 0 THEN 0 ELSE 1]
  BY <1>1 DEF Sorted
<1>3. Quantile(xs) # 0
  <2>1. CASE w.late = 0
    <3>1. xs = <<>>
      BY <1>2, <2>1
    <3> QED BY <3>1 DEF Quantile, None
  <2>2. CASE w.late # 0
    <3>1. Len(xs) = w.late /\ xs # <<>> /\ \A i \in 1 .. w.late : xs[i] = 1
      <4>1. xs \in [1 .. w.late -> {0, 1}]
        BY <1>2
      <4>2. xs \in Seq({0, 1}) /\ Len(xs) = w.late
        BY <1>1, <4>1
      <4> QED BY <1>1, <1>2, <2>2, <4>2
    <3>2. Position(w.late) \in 1 .. w.late
      BY <1>1, <2>2, PositionBounds
    <3> HIDE DEF xs
    <3> QED BY <3>1, <3>2 DEF Quantile
  <2> QED BY <2>1, <2>2
<1>4. ~ P95WithinLimit(w)
  BY <1>3 DEF P95WithinLimit
<1> DEFINE rows == Good(w) + w.failed
           c == [incomplete |-> rows = Expected, mismatch |-> w.bound,
                 failures |-> WithinFailureBudget(w), onTime |-> OnTime(w),
                 p95 |-> P95WithinLimit(w),
                 generator |-> Quantile(Sorted(rows - w.lagging, w.lagging)) = 0]
<1>5. Summarize(w) = {r \in DOMAIN c : ~ c[r]}
  BY DEF Summarize
<1>6. "p95" \in DOMAIN c /\ ~ c["p95"]
  BY <1>4
<1> HIDE DEF c
<1> QED BY <1>5, <1>6

LEMMA UsualReasons ==
  ASSUME windows \in Seq(Offered), candidate = cand, Len(windows) = RequiredWindows,
         \A i \in DOMAIN windows : Usual(cand, i, windows[i]), Timely, ClocksAgree
  PROVE  /\ IF cand = Slow THEN "p95" \in Reasons ELSE Reasons = {}
         /\ crypto => Secure
<1> DEFINE ws == windows
           stale(w) == ~ (created <= w.observed /\ w.observed <= Now) \/ Now - w.observed > MaxAge
           twice    == {r \in {"duplicate"} : \E i, j \in DOMAIN ws : i # j /\ ws[i].tag = ws[j].tag}
           old      == {r \in {"stale"} : \E i \in DOMAIN ws : stale(ws[i])}
           rest     == UNION {Summarize(ws[i]) : i \in DOMAIN ws}
<1>1. Reasons = twice \cup old \cup rest
  BY DEF Reasons, Evaluate
<1>2. \A i \in DOMAIN ws : ws[i] \in Offered /\ i \in Nat /\ i <= RequiredWindows
  OBVIOUS
<1>3. /\ Now = 10 * RequiredWindows /\ created = 0 /\ Expected >= 100
      /\ RequiredWindows \in Nat \ {0} /\ 10 * RequiredWindows <= MaxAge /\ MaxAge = 300
  BY PolicyAssumption DEF Now, ClocksAgree, Timely, WindowSeconds, MaxAge
<1>4. crypto => Secure
  BY <1>3 DEF Secure
<1>5. CASE cand = Slow
  <2>1. 1 \in DOMAIN ws
    BY PolicyAssumption
  <2>2. "p95" \in Summarize(ws[1])
    BY <1>2, <1>5, <2>1, SlowWindow DEF Usual
  <2> QED BY <1>1, <1>4, <1>5, <2>1, <2>2
<1>6. CASE cand # Slow
  <2>1. twice = {}
    <3>1. \A i \in DOMAIN ws : ws[i].tag = i - 1
      BY DEF Usual
    <3> QED BY <1>2, <3>1
  <2>2. old = {}
    <3>1. ASSUME NEW i \in DOMAIN ws PROVE ~ stale(ws[i])
      <4>1. ws[i].observed = 10 * i
        BY DEF Usual, WindowSeconds
      <4>2. 10 * i <= 10 * RequiredWindows /\ i \in Nat
        BY <1>2, <1>3
      <4> QED BY <1>3, <4>1, <4>2
    <3> QED BY <3>1
  <2>3. rest = {}
    <3>1. \A i \in DOMAIN ws : Summarize(ws[i]) = {}
      BY <1>2, <1>3, <1>6, GoodWindow DEF Usual
    <3> QED BY <3>1
  <2> QED BY <1>1, <1>4, <1>6, <2>1, <2>2, <2>3
<1> QED BY <1>5, <1>6

LEMMA Timed ==
  ASSUME NEW label, Goto(label)
  PROVE  /\ pc' = label
         /\ label \in {"inject", "pause", "target", "restore", "recovered"} => due' = clock + 1
         /\ label = "check" => due' = clock + 2
BY DEF Goto, Seconds

(* Before the launch no time passes.                                         *)
LEMMA StillIdle ==
  ASSUME TimeInv, TrafficInv, pc \in Idle, pc' \in Idle,
         UNCHANGED <<clock, traffic, failures, round>>
  PROVE  TimeInv' /\ TrafficInv'
BY DEF TimeInv, TrafficInv, Idle, Tested, Detecting

\* Whoever is asked for its health is there.
LEMMA SmoothAnswers == ASSUME IInv, Smooth PROVE ~ Unanswered
<1> SUFFICES ASSUME HealthFails PROVE Healthy(Asked)
  BY DEF Unanswered
<1>1. pc \in {"baseline", "idle", "rejected", "promoted", "wrong", "stale", "target", "probes"}
  BY DEF HealthFails, After
<1> QED BY <1>1 DEF Healthy, Asked, Smooth, ReleaseInv, Tested, Restorable

LEMMA SmoothObserve ==
  ASSUME IInv, Smooth, Observe PROVE Smooth'
<1>1. /\ pc \in {"baseline", "idle", "rejected", "promoted"} /\ Goto(After[pc])
      /\ cand' = IF pc = "rejected" THEN cand + 1 ELSE cand
      /\ UNCHANGED <<windows, candidate, active, rollback, approved, alive, clock, traffic,
                     failures, round>>
  BY DEF Observe, After, release, watch
<1>2. pc' = After[pc]
  BY <1>1, Timed
<1>3. cand \in {1, 2, 3}
  BY DEF IInv, TypeOK, Candidates
<1>4. CASE pc # "promoted"
  <2>1. active = 0 /\ active \in alive /\ cand = 1
    BY <1>1, <1>4 DEF Smooth, ReleaseInv, Tested
  <2>2. /\ pc' \in {"idle", "candidate"} /\ cand' \in {1, 2}
        /\ pc' = "idle" => cand' = 1
    BY <1>1, <1>2, <1>4, <2>1 DEF After
  <2>3. ReleaseInv'
    BY <1>1, <2>1, <2>2 DEF ReleaseInv, Tested
  <2>4. TimeInv' /\ TrafficInv'
    BY <1>1, <1>4, <2>2, StillIdle DEF Smooth, Idle, Tested
  <2> QED BY <2>3, <2>4 DEF Smooth
<1>5. CASE pc = "promoted"
  <2>1. /\ active = cand /\ cand \in alive /\ cand \in approved
        /\ \/ cand = 2 /\ ~ rollback.approved
           \/ cand = 3 /\ Restorable
    BY <1>5 DEF Smooth, ReleaseInv
  <2>2. pc' = IF cand = 2 THEN "classical" ELSE "wrong"
    BY <1>2, <1>5 DEF After
  <2>3. ReleaseInv'
    BY <1>1, <2>1, <2>2 DEF ReleaseInv, Tested, Restorable
  <2>4. TimeInv' /\ TrafficInv'
    BY <1>1, <1>5, <2>2, StillIdle DEF Smooth, Idle
  <2> QED BY <2>3, <2>4 DEF Smooth
<1> QED BY <1>4, <1>5

LEMMA SmoothTest ==
  ASSUME IInv, Timely, Smooth, ClocksAgree, faults' = {},
         StartCandidate \/ Probe \/ TakeWindow \/ Decide
  PROVE  Smooth'
<1>1. /\ pc \in {"candidate", "probe", "window"} /\ pc \in Tested
      /\ UNCHANGED <<cand, active, rollback, approved, clock, traffic, failures, round>>
  BY DEF StartCandidate, Probe, Probed, TakeWindow, Decide, Tested, release, watch, time
<1>2. /\ active = IF cand = 3 THEN 2 ELSE 0
      /\ active \in alive
      /\ cand = 3 => 2 \in alive /\ 2 \in approved
      /\ cand \in {1, 2, 3}
  BY <1>1 DEF Smooth, ReleaseInv, IInv, TypeOK, Candidates
<1>3. pc' \in Tested => TimeInv' /\ TrafficInv'
  BY <1>1, StillIdle DEF Smooth, Idle, Tested
<1>4. CASE StartCandidate
  <2>1. pc' = "probe" /\ candidate' = cand /\ alive' = alive \cup {cand} /\ windows' = <<>>
    BY <1>4, Timed DEF StartCandidate
  <2>2. Len(windows') <= RequiredWindows /\ DOMAIN windows' = {}
    BY <2>1, PolicyAssumption
  <2>3. ReleaseInv'
    BY <1>1, <1>2, <2>1, <2>2 DEF ReleaseInv, Tested
  <2> QED BY <1>3, <2>1, <2>3 DEF Smooth, Tested
<1>5. CASE Probe
  <2>1. /\ pc = "probe" /\ pc' = "window" /\ crypto' = Allows(cand)
        /\ UNCHANGED <<windows, candidate, alive>>
    BY <1>5, Timed DEF Probe, Probed, release
  <2>2. /\ candidate = cand /\ cand \in alive /\ Len(windows) <= RequiredWindows
        /\ \A i \in DOMAIN windows : Usual(cand, i, windows[i])
    BY <2>1 DEF Smooth, ReleaseInv
  <2>3. Allows(cand)
    BY <1>2, <2>2 DEF Allows, Healthy, Classical
  <2>4. \A i \in DOMAIN windows' : Usual(cand, i, windows'[i])
    BY <2>1, <2>2
  <2>5. Len(windows') <= RequiredWindows
    BY <2>1, <2>2, PolicyAssumption
  <2>6. ReleaseInv'
    BY <1>1, <1>2, <2>1, <2>2, <2>3, <2>4, <2>5 DEF ReleaseInv, Tested, Usual
  <2> QED BY <1>3, <2>1, <2>6 DEF Smooth, Tested
<1>6. CASE TakeWindow
  <2>1. /\ pc = "window" /\ UNCHANGED <<pc, crypto, candidate, alive>>
        /\ Len(windows) < RequiredWindows
        /\ \E w \in Outcomes(cand) : windows' = Append(windows, w)
    BY <1>6 DEF TakeWindow, Fault, basis
  <2>2. PICK w \in Outcomes(cand) : windows' = Append(windows, w)
    BY <2>1
  <2>3. windows \in Seq(Offered) /\ Len(windows) \in Nat /\ RequiredWindows \in Nat
    BY PolicyAssumption DEF IInv, PhaseInv
  <2>4. /\ candidate = cand /\ cand \in alive /\ crypto
        /\ \A i \in DOMAIN windows : Usual(cand, i, windows[i])
    BY <2>1 DEF Smooth, ReleaseInv
  <2>5. w \in Offered /\ Usual(cand, Len(windows) + 1, w)
    BY <2>3, <2>4, UsualOutcomes, WindowsOffered DEF Timely
  <2>6. ASSUME NEW i \in DOMAIN Append(windows, w) PROVE Usual(cand, i, Append(windows, w)[i])
    <3>1. CASE i = Len(windows) + 1
      <4>1. Append(windows, w)[i] = w
        BY <2>3, <3>1
      <4> QED BY <2>5, <3>1, <4>1
    <3>2. CASE i # Len(windows) + 1
      <4>1. i \in DOMAIN windows /\ Append(windows, w)[i] = windows[i]
        BY <2>3, <2>5, <3>2
      <4> QED BY <2>4, <4>1
    <3> QED BY <3>1, <3>2
  <2>7. Len(Append(windows, w)) <= RequiredWindows
    BY <2>1, <2>3, <2>5
  <2>8. \A i \in DOMAIN windows' : Usual(cand, i, windows'[i])
    BY <2>2, <2>6
  <2>9. ReleaseInv'
    BY <1>1, <1>2, <2>1, <2>2, <2>4, <2>7, <2>8 DEF ReleaseInv, Tested, Usual
  <2> QED BY <1>3, <2>1, <2>9 DEF Smooth, Tested
<1>7. CASE Decide
  <2>1. /\ pc = "window" /\ Len(windows) = RequiredWindows
        /\ UNCHANGED <<crypto, windows, candidate, alive>>
        /\ candidate = cand /\ cand \in alive /\ crypto
        /\ \A i \in DOMAIN windows : Usual(cand, i, windows[i])
    BY <1>7 DEF Decide, Smooth, ReleaseInv, basis, release
  <2>2. Secure /\ IF cand = Slow THEN "p95" \in Reasons ELSE Reasons = {}
    BY <2>1, UsualReasons DEF IInv, PhaseInv
  <2>3. pc' = IF cand = Slow THEN "bypass" ELSE "promote"
    BY <1>7, <2>2, Timed DEF Decide, Require, Admitted
  <2>4. \A i \in DOMAIN windows' : Usual(cand, i, windows'[i])
    BY <2>1
  <2>5. Len(windows') = RequiredWindows /\ Len(windows') <= RequiredWindows
    BY <2>1, PolicyAssumption
  <2>6. cand = Slow <=> cand = 1
    BY DEF Slow
  <2>7. ReleaseInv'
    BY <1>1, <1>2, <2>1, <2>3, <2>4, <2>5, <2>6 DEF ReleaseInv, Tested, Usual
  <2> QED BY <1>3, <2>3, <2>7 DEF Smooth, Tested
<1> QED BY <1>4, <1>5, <1>6, <1>7

(* The refused candidate's promotion fails, the admitted one's does not.       *)
LEMMA AdmittedOnMerit ==
  ASSUME IInv, Timely, Smooth, ClocksAgree, pc \in {"bypass", "promote"}
  PROVE  Admitted <=> pc = "promote"
<1>1. /\ candidate = cand /\ crypto /\ Len(windows) = RequiredWindows
      /\ \A i \in DOMAIN windows : Usual(cand, i, windows[i])
      /\ cand = 1 <=> pc = "bypass"
  BY DEF Smooth, ReleaseInv, Tested
<1>2. Secure /\ IF cand = Slow THEN "p95" \in Reasons ELSE Reasons = {}
  BY <1>1, UsualReasons DEF IInv, PhaseInv
<1> QED BY <1>1, <1>2 DEF Admitted, Slow

LEMMA SmoothRejection ==
  ASSUME IInv, Timely, Smooth, ClocksAgree, PromotionRefused \/ Discard PROVE Smooth'
<1>1. CASE PromotionRefused
  <2>1. /\ pc \in {"bypass", "promote"} /\ ~ Admitted /\ Require(pc = "bypass", "discard")
        /\ UNCHANGED <<cand, windows, candidate, active, rollback, approved, alive, clock,
                       traffic, failures, round>>
    BY <1>1 DEF PromotionRefused, release, watch
  <2>2. pc = "bypass"
    BY <2>1, AdmittedOnMerit
  <2>3. pc' = "discard"
    BY <2>1, <2>2, Timed DEF Require
  <2>4. active = 0 /\ active \in alive /\ cand = 1
    BY <2>2 DEF Smooth, ReleaseInv, Tested
  <2>5. ReleaseInv'
    BY <2>1, <2>3, <2>4 DEF ReleaseInv, Tested
  <2>6. TimeInv' /\ TrafficInv'
    BY <2>1, <2>2, <2>3, StillIdle DEF Smooth, Idle, Tested
  <2> QED BY <2>5, <2>6 DEF Smooth
<1>2. CASE Discard
  <2>1. /\ pc = "discard" /\ pc' = "rejected" /\ alive' = alive \ {cand}
        /\ UNCHANGED <<cand, active, rollback, approved, clock, traffic, failures, round>>
    BY <1>2, Timed DEF Discard, watch
  <2>2. active = 0 /\ active \in alive /\ cand = 1
    BY <2>1 DEF Smooth, ReleaseInv, Tested
  <2>3. ReleaseInv'
    BY <2>1, <2>2 DEF ReleaseInv, Tested
  <2>4. TimeInv' /\ TrafficInv'
    BY <2>1, StillIdle DEF Smooth, Idle, Tested
  <2> QED BY <2>3, <2>4 DEF Smooth
<1> QED BY <1>1, <1>2

LEMMA SmoothRelease ==
  ASSUME IInv, Timely, Smooth, ClocksAgree, Promote \/ Approve \/ RefuseClassical PROVE Smooth'
<1>1. pc \in Idle /\ UNCHANGED <<clock, traffic, failures, round>>
  BY DEF Promote, Approve, RefuseClassical, Rollback, Idle, Tested, watch
<1>2. pc' \in Idle => TimeInv' /\ TrafficInv'
  BY <1>1, StillIdle DEF Smooth
<1>3. cand \in {1, 2, 3} /\ rollback \in [to : Versions, approved : BOOLEAN]
      /\ approved \subseteq {1, 2, 3}
  BY DEF IInv, TypeOK, Candidates
<1>4. CASE Promote
  <2>1. /\ pc \in {"bypass", "promote"} /\ active' = candidate /\ UNCHANGED <<cand, approved, alive>>
        /\ rollback' = [to |-> active, approved |-> active \in approved]
        /\ Require(pc = "promote", "approve") /\ Admitted
    BY <1>4 DEF Promote
  <2>2. pc = "promote" /\ pc' = "approve"
    <3>1. pc = "promote"
      BY <2>1, AdmittedOnMerit
    <3> QED BY <2>1, <3>1, Timed DEF Require
  <2>3. /\ candidate = cand /\ cand \in alive /\ cand \in {2, 3}
        /\ active = IF cand = 3 THEN 2 ELSE 0
        /\ cand = 3 => 2 \in alive /\ 2 \in approved
    BY <1>3, <2>2 DEF Smooth, ReleaseInv, Tested
  <2>4. rollback'.to = active /\ (rollback'.approved <=> active \in approved)
    BY <2>1
  <2>5. cand = 2 => ~ rollback'.approved
    BY <1>3, <2>3, <2>4
  <2>6. cand = 3 => Restorable'
    BY <2>1, <2>3, <2>4 DEF Restorable
  <2>7. ReleaseInv'
    BY <2>1, <2>2, <2>3, <2>5, <2>6 DEF ReleaseInv, Tested
  <2> QED BY <1>2, <2>2, <2>7 DEF Smooth, Idle
<1>5. CASE Approve
  <2>1. /\ pc = "approve" /\ approved' = approved \cup {active}
        /\ UNCHANGED <<cand, active, rollback, alive>> /\ pc' = "promoted"
    BY <1>5, Timed DEF Approve
  <2>2. /\ active = cand /\ cand \in alive
        /\ \/ cand = 2 /\ ~ rollback.approved
           \/ cand = 3 /\ Restorable
    BY <2>1 DEF Smooth, ReleaseInv
  <2>3. ReleaseInv'
    BY <2>1, <2>2 DEF ReleaseInv, Tested, Restorable
  <2> QED BY <1>2, <2>1, <2>3 DEF Smooth, Idle
<1>6. CASE RefuseClassical
  <2>1. /\ pc = "classical" /\ cand = 2 /\ cand' = cand + 1
        /\ active = 2 /\ 2 \in alive /\ 2 \in approved /\ ~ rollback.approved
    BY <1>6 DEF RefuseClassical, Smooth, ReleaseInv, IInv, PhaseInv
  <2>2. RollbackVerdict(active, 0 + skew) = "no target"
    BY <2>1 DEF RollbackVerdict
  <2>3. /\ active' = active /\ Require(TRUE, "candidate") /\ UNCHANGED <<approved, alive>>
    BY <1>6, <2>2 DEF RefuseClassical, Rollback
  <2>4. pc' = "candidate" /\ cand' = 3
    BY <2>1, <2>3, Timed DEF Require
  <2>5. ReleaseInv'
    BY <2>1, <2>3, <2>4 DEF ReleaseInv, Tested
  <2> QED BY <1>2, <2>4, <2>5 DEF Smooth, Idle, Tested
<1> QED BY <1>4, <1>5, <1>6

LEMMA SmoothRefusal ==
  ASSUME IInv, Smooth, ClocksAgree, RefuseWrong \/ RefuseStale PROVE Smooth'
<1>1. /\ pc \in {"wrong", "stale"} /\ active = 3 /\ 3 \in alive /\ Restorable
  BY DEF RefuseWrong, RefuseStale, Smooth, ReleaseInv
<1>2. /\ pc' \in {"stale", "launch"} /\ active' = active
      /\ UNCHANGED <<rollback, alive, clock, traffic, failures, round>>
  <2>1. CASE RefuseWrong
    <3>1. RollbackVerdict(active, 0 + skew) = "not healthy"
      BY <1>1 DEF RollbackVerdict, Restorable
    <3> QED BY <2>1, <3>1, Timed DEF RefuseWrong, Rollback, Require, watch
  <2>2. CASE RefuseStale
    <3>1. RollbackVerdict(rollback.to, 10 + skew) = "stale"
      BY <1>1 DEF RollbackVerdict, Restorable, ClocksAgree
    <3> QED BY <2>2, <3>1, Timed DEF RefuseStale, Rollback, Require, watch
  <2> QED BY <2>1, <2>2
<1>3. TimeInv' /\ TrafficInv'
  BY <1>1, <1>2, StillIdle DEF Smooth, Idle
<1>4. ReleaseInv'
  BY <1>1, <1>2 DEF ReleaseInv, Tested, Restorable
<1> QED BY <1>3, <1>4 DEF Smooth

(* The launch and the fault: the background load is served by version 3 until *)
(* it is killed.                                                             *)
LEMMA SmoothFault ==
  ASSUME IInv, Smooth, Launch \/ Lead \/ Inject PROVE Smooth'
<1>1. /\ active = 3 /\ 3 \in alive /\ Restorable /\ UNCHANGED <<active, rollback, traffic>>
      /\ failures = 0 /\ round = 0 /\ UNCHANGED <<failures, round>>
  BY DEF Launch, Lead, Inject, Smooth, ReleaseInv, TimeInv, Idle, Tested, release, watch
<1>2. clock \in Int /\ due \in Int /\ traffic \in [Servers -> Int] /\ Consecutive \in Nat \ {0}
  BY TimesAssumption DEF IInv, TypeOK
<1>3. CASE Launch
  <2>1. /\ pc = "launch" /\ pc' = "lead" /\ clock' = 0 /\ due' = 3 /\ UNCHANGED alive
    BY <1>3 DEF Launch, Seconds
  <2>2. /\ clock = -1 /\ traffic[0] = -1 /\ traffic[1] = -1 /\ traffic[2] = -1
        /\ \A v \in Servers : traffic[v] <= clock
    BY <2>1 DEF Smooth, TimeInv, TrafficInv, Idle
  <2>3. traffic[Failed] = -1
    <3>1. Failed \in Servers /\ Failed \in Int
      BY DEF Servers, Failed
    <3>2. traffic[Failed] \in -1 .. Load - 1
      BY <3>1 DEF IInv, TypeOK
    <3> QED BY <2>2, <3>1, <3>2, TimesAssumption
  <2>4. ReleaseInv'
    BY <1>1, <2>1 DEF ReleaseInv, Tested, Restorable
  <2>5. TimeInv'
    BY <1>1, <2>1 DEF TimeInv, Idle, Tested, Detecting
  <2>6. \A v \in Servers : traffic[v] <= 0
    BY <1>2, <2>2
  <2>7. TrafficInv'
    BY <1>1, <2>1, <2>2, <2>3, <2>6 DEF TrafficInv, Idle, Tested, Detecting
  <2> QED BY <2>4, <2>5, <2>7 DEF Smooth
<1>4. CASE Lead
  <2>1. /\ pc = "lead" /\ pc' = "inject" /\ clock' = clock /\ clock >= 2
        /\ due' = clock + 1 /\ injected' = clock /\ UNCHANGED alive
    BY <1>4, Timed DEF Lead, Goto
  <2>2. /\ clock <= 3 /\ traffic[0] = -1 /\ traffic[1] = -1 /\ traffic[2] = -1
        /\ traffic[3] >= 0 /\ \A v \in Servers : traffic[v] <= clock
    BY <1>2, <2>1 DEF Smooth, TimeInv, TrafficInv
  <2>3. ReleaseInv'
    BY <1>1, <2>1 DEF ReleaseInv, Tested, Restorable
  <2>4. TimeInv'
    <3>1. injected' \in 0 .. 3 /\ due' <= injected' + 1 /\ clock' <= due' /\ clock' >= 0
      BY <1>2, <2>1, <2>2
    <3> QED BY <1>1, <2>1, <3>1 DEF TimeInv, Idle, Tested, Detecting
  <2>5. TrafficInv'
    BY <1>1, <2>1, <2>2 DEF TrafficInv, Idle, Tested, Detecting
  <2> QED BY <2>3, <2>4, <2>5 DEF Smooth
<1>5. CASE Inject
  <2>1. /\ pc = "inject" /\ pc' = "check" /\ clock' = clock /\ due' = clock + 2
        /\ injected' = injected /\ alive' = alive \ {3}
    BY <1>1, <1>5, Timed DEF Inject, watch
  <2>2. clock <= due /\ injected \in 0 .. 3 /\ clock >= 0 /\ due <= injected + 1
    BY <2>1 DEF Smooth, TimeInv, Detecting
  <2>3. ReleaseInv'
    BY <1>1, <2>1 DEF ReleaseInv, Tested, Restorable
  <2>4. TimeInv'
    <3>1. due' <= injected' + 3 * round' + 3 /\ clock' <= due' /\ round' < Consecutive
      BY <1>1, <1>2, <2>1, <2>2
    <3> QED BY <1>1, <2>1, <2>2, <3>1 DEF TimeInv, Idle, Tested, Detecting
  <2>5. /\ traffic[0] = -1 /\ traffic[1] = -1 /\ traffic[2] = -1 /\ traffic[3] >= 0
        /\ \A v \in Servers : traffic[v] <= clock
    BY <2>1 DEF Smooth, TrafficInv, Detecting
  <2>6. TrafficInv'
    BY <1>1, <2>1, <2>5 DEF TrafficInv, Idle, Tested, Detecting
  <2> QED BY <2>3, <2>4, <2>6 DEF Smooth
<1> QED BY <1>3, <1>4, <1>5

(* Every failed check counts, so the target is asked for after Consecutive   *)
(* rounds of at most three seconds.                                          *)
LEMMA SmoothDetection ==
  ASSUME IInv, Timely, Smooth, Check \/ Pause \/ MeasureTarget PROVE Smooth'
<1>1. /\ active = 3 /\ 3 \notin alive /\ Restorable
      /\ UNCHANGED <<active, rollback, alive, clock, traffic, injected>>
      /\ pc \in {"check", "pause", "target"}
  BY DEF Check, CheckHealth, Pause, MeasureTarget, Smooth, ReleaseInv, release, watch
<1>2. /\ clock \in Int /\ due \in Int /\ Consecutive \in Nat \ {0} /\ round \in Nat
      /\ measured \in Int /\ injected \in 0 .. 3 /\ clock <= due /\ clock >= 0 /\ Rounds \in Nat
  BY <1>1, TimesAssumption DEF IInv, TypeOK, Rounds, Smooth, TimeInv, Detecting
<1>3. pc' \in {"check", "pause", "target", "restore"} => ReleaseInv'
  BY <1>1 DEF ReleaseInv, Tested, Restorable
<1>4. pc' \in {"check", "pause", "target", "restore"} => TrafficInv'
  BY <1>1 DEF Smooth, TrafficInv, Idle, Tested, Detecting
<1>5. CASE Check
  <2>1. pc = "check" /\ CheckHealth(Healthy(active)) /\ ~ Healthy(active)
    BY <1>1, <1>5 DEF Check, CheckHealth, Healthy
  <2>2. /\ failures' = failures + 1 /\ round' = round + 1
        /\ IF failures' >= Consecutive THEN Goto("target")
           ELSE Require(round' < Rounds, "pause")
    BY <2>1 DEF CheckHealth
  <2>3. failures = round /\ round < Consecutive /\ due <= injected + 3 * round + 3
    BY <2>1 DEF Smooth, TimeInv
  <2>4. failures' = round' /\ round' <= Consecutive
    BY <1>2, <2>2, <2>3
  <2>5. CASE failures' >= Consecutive
    <3>1. pc' = "target" /\ due' = clock + 1 /\ round' = Consecutive
      BY <1>2, <2>2, <2>4, <2>5, Timed
    <3>2. due' <= injected + 3 * Consecutive + 1 /\ clock <= due'
      BY <1>2, <2>2, <2>3, <3>1
    <3>3. TimeInv'
      BY <1>1, <1>2, <3>1, <3>2 DEF TimeInv, Idle, Tested, Detecting
    <3> QED BY <1>3, <1>4, <3>1, <3>3 DEF Smooth
  <2>6. CASE ~ (failures' >= Consecutive)
    <3>1. round' < Consecutive /\ round' < Rounds
      BY <1>2, <2>2, <2>4, <2>6 DEF Timely
    <3>2. pc' = "pause" /\ due' = clock + 1
      BY <2>2, <2>6, <3>1, Timed DEF Require
    <3>3. due' <= injected + 3 * round' + 1 /\ clock <= due'
      BY <1>2, <2>2, <2>3, <3>2
    <3>4. TimeInv'
      BY <1>1, <1>2, <2>4, <3>1, <3>2, <3>3 DEF TimeInv, Idle, Tested, Detecting
    <3> QED BY <1>3, <1>4, <3>2, <3>4 DEF Smooth
  <2> QED BY <2>5, <2>6
<1>6. CASE Pause
  <2>1. pc = "pause" /\ pc' = "check" /\ due' = clock + 2 /\ UNCHANGED <<failures, round>>
    BY <1>6, Timed DEF Pause, watch
  <2>2. failures = round /\ round < Consecutive /\ due <= injected + 3 * round + 1
    BY <2>1 DEF Smooth, TimeInv
  <2>3. due' <= injected + 3 * round + 3 /\ clock <= due'
    BY <1>2, <2>1, <2>2
  <2>4. TimeInv'
    BY <1>1, <1>2, <2>1, <2>2, <2>3 DEF TimeInv, Idle, Tested, Detecting
  <2> QED BY <1>3, <1>4, <2>1, <2>4 DEF Smooth
<1>7. CASE MeasureTarget
  <2>2. pc = "target" /\ pc' = "restore" /\ due' = clock + 1 /\ measured' = clock
    BY <1>7, Timed DEF MeasureTarget
  <2>3. due <= injected + 3 * Consecutive + 1
    BY <2>2 DEF Smooth, TimeInv
  <2>4. /\ due' <= injected + 3 * Consecutive + 2 /\ clock <= due'
        /\ due' <= measured' + 1 /\ measured' <= clock
    BY <1>2, <2>2, <2>3
  <2>5. TimeInv'
    BY <1>1, <1>2, <2>2, <2>4 DEF TimeInv, Idle, Tested, Detecting
  <2> QED BY <1>3, <1>4, <2>2, <2>5 DEF Smooth
<1> QED BY <1>5, <1>6, <1>7

(* The target's health is at most a second old, so it is restored; the load   *)
(* of two more seconds shows that it serves.                                 *)
LEMMA SmoothRecovery ==
  ASSUME IInv, Timely, Smooth, ClocksAgree,
         Restore \/ ObserveRecovery \/ Collect \/ ProbeRestored
  PROVE  Smooth'
<1>1. Restorable /\ UNCHANGED <<rollback, alive, clock, traffic, injected>>
  BY DEF Restore, Rollback, ObserveRecovery, Recovered, Collect, ProbeRestored, Smooth,
         ReleaseInv, release, watch
<1>2. /\ clock \in Int /\ due \in Int /\ Consecutive \in Nat \ {0} /\ Load \in Nat
      /\ measured \in Int /\ injected \in Nat /\ Objective \in Nat
      /\ traffic \in [Servers -> Int]
  BY TimesAssumption DEF IInv, TypeOK
<1>3. CASE Restore
  <2>1. /\ pc = "restore" /\ clock <= due /\ injected \in 0 .. 3 /\ clock >= 0
        /\ due <= injected + 3 * Consecutive + 2 /\ due <= measured + 1 /\ measured <= clock
    BY <1>3 DEF Restore, Smooth, TimeInv, Detecting
  <2>2. 0 <= clock - measured + skew /\ clock - measured + skew <= 5
    BY <1>2, <2>1 DEF ClocksAgree
  <2>3. RollbackVerdict(rollback.to, clock - measured + skew) = "restored"
    BY <1>1, <2>2 DEF RollbackVerdict, Restorable
  <2>4. active' = 2 /\ Require(TRUE, "recovered")
    BY <1>1, <1>3, <2>3 DEF Restore, Rollback, Restorable
  <2>5. pc' = "recovered" /\ due' = clock + 1
    BY <2>4, Timed DEF Require
  <2>6. ReleaseInv'
    BY <1>1, <2>4, <2>5 DEF ReleaseInv, Tested, Restorable
  <2>7. due' <= injected + 3 * Consecutive + 3 /\ clock <= due' /\ clock <= 3 * Consecutive + 5
    BY <1>2, <2>1, <2>5
  <2>8. TimeInv'
    BY <1>1, <2>1, <2>5, <2>7 DEF TimeInv, Idle, Tested, Detecting
  <2>9. /\ traffic[0] = -1 /\ traffic[1] = -1 /\ traffic[3] >= 0
        /\ \A v \in Servers : traffic[v] <= clock
    BY <2>1 DEF Smooth, TrafficInv, Detecting
  <2>10. 3 \in Servers /\ Failed \in Servers
    BY DEF Servers, Versions, Candidates
  <2>11. traffic[3] <= 3 * Consecutive + 5 /\ traffic[Failed] <= 3 * Consecutive + 5
    BY <1>2, <2>7, <2>9, <2>10
  <2>12. clock <= 3 * Consecutive + 6
    BY <1>2, <2>7
  <2>13. TrafficInv'
    BY <1>1, <2>5, <2>9, <2>11, <2>12 DEF TrafficInv, Idle, Tested, Detecting
  <2> QED BY <2>6, <2>8, <2>13 DEF Smooth
<1>4. CASE ObserveRecovery
  <2>1. /\ pc = "recovered" /\ active = 2 /\ UNCHANGED active
        /\ Require(Healthy(active) /\ clock - injected <= Objective, "collect")
    BY <1>4 DEF ObserveRecovery, Recovered, Smooth, ReleaseInv, release
  <2>2. clock <= due /\ due <= injected + 3 * Consecutive + 3
    BY <2>1 DEF Smooth, TimeInv
  <2>3. clock - injected <= Objective
    BY <1>2, <2>2 DEF Timely
  <2>4. pc' = "collect"
    BY <1>1, <2>1, <2>3, Timed DEF Require, Healthy, Restorable
  <2>5. ReleaseInv'
    BY <1>1, <2>1, <2>4 DEF ReleaseInv, Tested, Restorable
  <2>6. TimeInv'
    BY <2>4 DEF TimeInv, Idle, Tested, Detecting
  <2>7. TrafficInv'
    BY <1>1, <2>1, <2>4 DEF Smooth, TrafficInv, Idle, Tested, Detecting
  <2> QED BY <2>5, <2>6, <2>7 DEF Smooth
<1>5. CASE Collect
  <2>1. pc = "collect" /\ clock >= Load
    BY <1>5 DEF Collect
  <2>2. /\ traffic[0] = -1 /\ traffic[1] = -1 /\ traffic[3] >= 0
        /\ traffic[3] <= 3 * Consecutive + 5 /\ traffic[Failed] <= 3 * Consecutive + 5
        /\ traffic[2] < 0 => clock <= 3 * Consecutive + 6
    BY <2>1 DEF Smooth, TrafficInv
  <2>3. traffic[2] \in Int /\ traffic[3] \in Int /\ traffic[Failed] \in Int
    BY <1>2 DEF Servers, Versions, Candidates, Failed
  <2>4. traffic[2] >= 0
    BY <1>2, <2>1, <2>2, <2>3 DEF Timely
  <2>5. {v \in Versions : traffic[v] >= 0} = {2, 3}
    <3>1. Versions = {0, 1, 2, 3}
      BY DEF Versions, Classical, Candidates
    <3> QED BY <2>2, <2>4, <3>1
  <2>6. traffic[3] < Load - 2 /\ traffic[Failed] < Load - 2 /\ -1 < Load - 2
    BY <1>2, <2>2, <2>3 DEF Timely
  <2>7. \A v \in Servers \ {rollback.to} : traffic[v] < Load - 2
    <3>1. Servers \ {rollback.to} = {0, 1, 3, Failed}
      BY <1>1 DEF Restorable, Servers, Versions, Classical, Candidates, Failed
    <3> QED BY <2>2, <2>6, <3>1
  <2>8. pc' = "probes" /\ active = 2 /\ UNCHANGED active
    BY <1>5, <2>1, <2>5, <2>7, Timed DEF Collect, Require, Smooth, ReleaseInv, release
  <2>9. ReleaseInv'
    BY <1>1, <2>8 DEF ReleaseInv, Tested, Restorable
  <2> QED BY <1>1, <2>2, <2>8, <2>9 DEF Smooth, TimeInv, TrafficInv, Idle, Tested, Detecting
<1>6. CASE ProbeRestored
  <2>1. pc = "probes" /\ Healthy(active) /\ Require(Allows(active), "passed")
    BY <1>6 DEF ProbeRestored
  <2>2. Allows(active)
    BY <2>1 DEF Allows, Classical, Smooth, ReleaseInv
  <2>3. pc' = "passed"
    BY <2>1, <2>2, Timed DEF Require
  <2>4. traffic[0] = -1 /\ traffic[1] = -1
    BY DEF Smooth, TrafficInv
  <2> QED BY <1>1, <2>3, <2>4 DEF Smooth, ReleaseInv, TimeInv, TrafficInv, Idle, Tested, Detecting
<1> QED BY <1>3, <1>4, <1>5, <1>6

(* A connection reaches version 3 until it is killed, then nobody, then       *)
(* version 2.                                                                *)
LEMMA SmoothArrival ==
  ASSUME IInv, Smooth, Arrive PROVE Smooth'
<1>1. /\ clock >= 0 /\ pc \notin {"passed", "failed"}
      /\ UNCHANGED <<pc, cand, basis, release, alive, clock, due, watch>>
      /\ traffic' = [traffic EXCEPT ![IF Healthy(active) THEN active ELSE Failed] = clock]
  BY DEF Arrive, Running
<1>2. clock \in Int /\ traffic \in [Servers -> Int] /\ pc \in Labels
  BY DEF IInv, TypeOK
<1>3. pc \notin Idle
  BY <1>1, <1>2 DEF Smooth, TimeInv
<1>4. ReleaseInv' /\ TimeInv'
  <2>1. UNCHANGED <<windows, candidate, active, rollback, approved, failures, round, injected, crypto,
                    measured>>
    BY <1>1 DEF basis, release, watch
  <2>2. ReleaseInv'
    BY <1>1, <2>1 DEF Smooth, ReleaseInv, Restorable, Usual
  <2>3. TimeInv'
    BY <1>1, <2>1 DEF Smooth, TimeInv
  <2> QED BY <2>2, <2>3
<1>5. /\ traffic[0] = -1 /\ traffic[1] = -1
      /\ {0, 1, 2, 3, Failed} \subseteq Servers /\ Failed = -1
  BY DEF Smooth, TrafficInv, Servers, Versions, Classical, Candidates, Failed
<1>6. CASE pc \in {"lead", "inject"}
  <2>1. traffic' = [traffic EXCEPT ![3] = clock]
    BY <1>1, <1>6 DEF Smooth, ReleaseInv, Healthy
  <2>2. /\ traffic[2] = -1 /\ \A v \in Servers : traffic[v] <= clock
        /\ pc = "lead" => traffic[Failed] = -1
    BY <1>6 DEF Smooth, TrafficInv, Detecting
  <2>3. /\ traffic'[0] = -1 /\ traffic'[1] = -1 /\ traffic'[2] = -1 /\ traffic'[3] = clock
        /\ traffic'[Failed] = traffic[Failed]
        /\ \A v \in Servers : traffic'[v] <= clock
    BY <1>2, <1>5, <2>1, <2>2
  <2>4. TrafficInv'
    BY <1>1, <1>6, <2>2, <2>3 DEF TrafficInv, Idle, Tested, Detecting
  <2> QED BY <1>4, <2>4 DEF Smooth
<1>7. CASE pc \in {"check", "pause", "target", "restore"}
  <2>1. traffic' = [traffic EXCEPT ![Failed] = clock]
    BY <1>1, <1>7 DEF Smooth, ReleaseInv, Healthy
  <2>2. /\ traffic[2] = -1 /\ traffic[3] >= 0 /\ \A v \in Servers : traffic[v] <= clock
    BY <1>7 DEF Smooth, TrafficInv, Detecting
  <2>3. /\ traffic'[0] = -1 /\ traffic'[1] = -1 /\ traffic'[2] = -1 /\ traffic'[3] >= 0
        /\ \A v \in Servers : traffic'[v] <= clock
    BY <1>2, <1>5, <2>1, <2>2
  <2>4. TrafficInv'
    BY <1>1, <1>7, <2>3 DEF TrafficInv, Idle, Tested, Detecting
  <2> QED BY <1>4, <2>4 DEF Smooth
<1>8. CASE pc \in {"recovered", "collect", "probes"}
  <2>1. traffic' = [traffic EXCEPT ![2] = clock]
    BY <1>1, <1>8 DEF Smooth, ReleaseInv, Healthy, Restorable
  <2>2. /\ traffic[3] >= 0
        /\ traffic[3] <= 3 * Consecutive + 5 /\ traffic[Failed] <= 3 * Consecutive + 5
    BY <1>8 DEF Smooth, TrafficInv
  <2>3. /\ traffic'[0] = -1 /\ traffic'[1] = -1 /\ traffic'[2] = clock
        /\ traffic'[3] = traffic[3] /\ traffic'[Failed] = traffic[Failed]
    BY <1>2, <1>5, <2>1
  <2>4. ~ (traffic'[2] < 0)
    BY <1>1, <1>2, <2>3
  <2>5. TrafficInv'
    BY <1>1, <1>8, <2>2, <2>3, <2>4 DEF TrafficInv, Idle, Tested, Detecting
  <2> QED BY <1>4, <2>5 DEF Smooth
<1> QED BY <1>1, <1>2, <1>3, <1>6, <1>7, <1>8 DEF Labels, Idle, Tested

(* A second passes only when a connection came in it: so somebody served or   *)
(* failed in every second of the load.                                       *)
LEMMA SmoothTick ==
  ASSUME IInv, Timely, Smooth, Tick PROVE Smooth'
<1>1. /\ clock >= 0 /\ pc \notin {"passed", "failed"} /\ clock < due /\ clock' = clock + 1
      /\ clock < Load => \E v \in Servers : traffic[v] = clock
      /\ UNCHANGED <<pc, cand, basis, release, alive, due, traffic, watch>>
  BY DEF Tick, Running
<1>2. /\ clock \in Int /\ due \in Int /\ traffic \in [Servers -> Int] /\ pc \in Labels
      /\ Load \in Nat /\ Consecutive \in Nat \ {0}
  BY TimesAssumption DEF IInv, TypeOK
<1>3. pc \notin Idle
  BY <1>1, <1>2 DEF Smooth, TimeInv
<1>4. UNCHANGED <<windows, candidate, active, rollback, approved, failures, round, injected, crypto,
                  measured>>
  BY <1>1 DEF basis, release, watch
<1>5. ReleaseInv'
  BY <1>1, <1>4 DEF Smooth, ReleaseInv, Restorable, Usual
<1>6. clock' <= due /\ clock' >= 0 /\ clock' > 0
  BY <1>1, <1>2
<1>7. TimeInv'
  <2>1. measured <= clock => measured <= clock'
    BY <1>1, <1>2 DEF IInv, TypeOK
  <2> QED BY <1>1, <1>3, <1>4, <1>6, <2>1 DEF Smooth, TimeInv
<1>8. /\ traffic[0] = -1 /\ traffic[1] = -1 /\ Servers = {0, 1, 2, 3, Failed}
  BY DEF Smooth, TrafficInv, Servers, Versions, Classical, Candidates, Failed
<1>9. (\A v \in Servers : traffic[v] <= clock) => \A v \in Servers : traffic[v] <= clock'
  BY <1>1, <1>2
<1>10. CASE pc = "lead"
  <2>1. /\ traffic[2] = -1 /\ traffic[Failed] = -1 /\ \A v \in Servers : traffic[v] <= clock
    BY <1>10 DEF Smooth, TrafficInv
  <2>2. due = 3 /\ clock < Load
    BY <1>1, <1>2, <1>10, TimesAssumption DEF Smooth, TimeInv
  <2>3. traffic[3] >= 0
    BY <1>1, <1>2, <1>8, <2>1, <2>2
  <2>4. TrafficInv'
    BY <1>1, <1>8, <1>9, <1>10, <2>1, <2>3 DEF TrafficInv, Idle, Tested, Detecting
  <2> QED BY <1>5, <1>7, <2>4 DEF Smooth
<1>11. CASE pc \in Detecting
  <2>1. /\ traffic[2] = -1 /\ traffic[3] >= 0 /\ \A v \in Servers : traffic[v] <= clock
    BY <1>11 DEF Smooth, TrafficInv
  <2>2. TrafficInv'
    BY <1>1, <1>8, <1>9, <1>11, <2>1 DEF TrafficInv, Idle, Tested, Detecting
  <2> QED BY <1>5, <1>7, <2>2 DEF Smooth
<1>12. CASE pc \in {"recovered", "collect", "probes"}
  <2>1. /\ traffic[3] >= 0
        /\ traffic[3] <= 3 * Consecutive + 5 /\ traffic[Failed] <= 3 * Consecutive + 5
        /\ traffic[2] < 0 => clock <= 3 * Consecutive + 6
    BY <1>12 DEF Smooth, TrafficInv
  <2>2. ASSUME traffic[2] < 0 PROVE clock' <= 3 * Consecutive + 6
    <3>1. clock < Load
      BY <1>2, <2>1, <2>2 DEF Timely
    <3>2. PICK v \in {0, 1, 2, 3, Failed} : traffic[v] = clock
      BY <1>1, <1>8, <3>1
    <3>3. v = 3 \/ v = Failed
      BY <1>1, <1>2, <1>8, <2>2, <3>2
    <3>4. clock <= 3 * Consecutive + 5
      BY <2>1, <3>2, <3>3
    <3> QED BY <1>1, <1>2, <3>4
  <2>3. TrafficInv'
    BY <1>1, <1>8, <1>12, <2>1, <2>2 DEF TrafficInv, Idle, Tested, Detecting
  <2> QED BY <1>5, <1>7, <2>3 DEF Smooth
<1> QED BY <1>1, <1>2, <1>3, <1>10, <1>11, <1>12 DEF Labels, Idle, Tested, Detecting

LEMMA SmoothInit ==
  ASSUME Init PROVE Smooth
<1>1. /\ pc = "baseline" /\ cand = 1 /\ active = 0 /\ clock = -1 /\ failures = 0 /\ round = 0
      /\ active \in alive
  BY DEF Init, Classical
<1>2. ReleaseInv
  BY <1>1 DEF ReleaseInv, Tested
<1>3. TimeInv
  BY <1>1 DEF TimeInv, Idle, Tested, Detecting
<1>4. \A v \in Servers : traffic[v] = -1
  BY DEF Init
<1>5. 0 \in Servers /\ 1 \in Servers /\ 2 \in Servers
  BY DEF Servers, Versions, Candidates, Classical
<1>6. TrafficInv
  BY <1>1, <1>4, <1>5 DEF TrafficInv, Idle, Tested, Detecting
<1> QED BY <1>2, <1>3, <1>6 DEF Smooth

(* A fault is never forgotten, and only one of its kind changes the clocks.    *)
LEMMA FaultsRemain ==
  ASSUME Next, faults # {} PROVE faults' # {}
BY DEF Next, Control, Observe, Unanswered, HealthFails, StartCandidate, Probe, Probed, TakeWindow,
   Decide, PromotionRefused, Promote, Approve, Discard, RefuseClassical, RefuseWrong,
   RefuseStale, Rollback, Launch, Lead, Inject, Check, CheckHealth, Pause, MeasureTarget,
   Restore, ObserveRecovery, Recovered, Collect, ProbeRestored, Arrive, Tick,
   Overrun, ServerDies, Blip, ClockSteps, Fault

LEMMA ClocksStay ==
  ASSUME Next, ClocksAgree, faults' = {} PROVE ClocksAgree'
<1>1. ~ (Overrun \/ ServerDies \/ Blip \/ ClockSteps)
  BY DEF Overrun, ServerDies, Blip, ClockSteps, Fault
<1>2. CASE StartCandidate
  BY <1>2 DEF StartCandidate, ClocksAgree
<1>3. CASE Control /\ ~ StartCandidate
  <2>1. UNCHANGED <<created, skew>>
    BY <1>3 DEF Control, Observe, Unanswered, HealthFails, Probe, Probed, TakeWindow,
       Decide, PromotionRefused, Promote, Approve, Discard, RefuseClassical, RefuseWrong,
       RefuseStale, Rollback, Launch, Lead, Inject, Check, CheckHealth, Pause, MeasureTarget,
       Restore, ObserveRecovery, Recovered, Collect, ProbeRestored, basis
  <2> QED BY <2>1 DEF ClocksAgree
<1>4. CASE Arrive \/ Tick
  BY <1>4 DEF Arrive, Tick, ClocksAgree, basis
<1> QED BY <1>1, <1>2, <1>3, <1>4 DEF Next

\* What holds of a run without faults.
Quiet == Smooth /\ ClocksAgree

LEMMA SmoothStep ==
  ASSUME IInv, Timely, faults = {} => Quiet, [Next]_vars PROVE faults' = {} => Quiet'
<1> SUFFICES ASSUME faults' = {} PROVE Quiet'
  OBVIOUS
<1>1. CASE UNCHANGED vars
  <2>1. UNCHANGED <<pc, cand, crypto, created, skew, windows, candidate, active, rollback,
                    approved, alive, clock, due, traffic, injected, failures, round, measured,
                    faults>>
    BY <1>1 DEF vars, basis, release, time, watch
  <2>2. ReleaseInv'
    BY <2>1 DEF Quiet, Smooth, ReleaseInv, Restorable, Usual
  <2>3. TimeInv' /\ TrafficInv' /\ ClocksAgree'
    BY <2>1 DEF Quiet, Smooth, TimeInv, TrafficInv, ClocksAgree
  <2> QED BY <2>2, <2>3 DEF Quiet, Smooth
<1>2. CASE Next
  <2>1. Smooth /\ ClocksAgree
    BY <1>2, FaultsRemain DEF Quiet
  <2>2. ~ (Overrun \/ ServerDies \/ Blip \/ ClockSteps)
    BY DEF Overrun, ServerDies, Blip, ClockSteps, Fault
  <2>3. ~ Unanswered
    BY <2>1, SmoothAnswers
  <2>4. Smooth'
    <3>1. CASE Observe
      BY <2>1, <3>1, SmoothObserve
    <3>2. CASE StartCandidate \/ Probe \/ TakeWindow \/ Decide
      BY <2>1, <3>2, SmoothTest
    <3>3. CASE PromotionRefused \/ Discard
      BY <2>1, <3>3, SmoothRejection
    <3>4. CASE Promote \/ Approve \/ RefuseClassical
      BY <2>1, <3>4, SmoothRelease
    <3>5. CASE RefuseWrong \/ RefuseStale
      BY <2>1, <3>5, SmoothRefusal
    <3>6. CASE Launch \/ Lead \/ Inject
      BY <2>1, <3>6, SmoothFault
    <3>7. CASE Check \/ Pause \/ MeasureTarget
      BY <2>1, <3>7, SmoothDetection
    <3>8. CASE Restore \/ ObserveRecovery \/ Collect \/ ProbeRestored
      BY <2>1, <3>8, SmoothRecovery
    <3>9. CASE Arrive
      BY <2>1, <3>9, SmoothArrival
    <3>10. CASE Tick
      BY <2>1, <3>10, SmoothTick
    <3> QED
      BY <1>2, <2>2, <2>3, <3>1, <3>2, <3>3, <3>4, <3>5, <3>6, <3>7, <3>8, <3>9, <3>10
         DEF Next, Control
  <2> QED BY <1>2, <2>1, <2>4, ClocksStay DEF Quiet
<1> QED BY <1>1, <1>2

(* The experiment fails only after a fault: with the numbers of Timely a run  *)
(* whose environment is quiet, whose clocks agree, whose commands and probes  *)
(* succeed in time and whose servers die only by the injected fault is never  *)
(* judged failed.                                                            *)
THEOREM OnlyFaultsFailTheRelease ==
  ASSUME Timely PROVE Spec => []FailureHasCause
<1> DEFINE Candid == faults = {} => Quiet
<1>1. Init => Candid
  BY SmoothInit DEF Quiet, ClocksAgree, Init
<1>2. IInv /\ Candid /\ [Next]_vars => Candid'
  BY SmoothStep
<1>3. Candid => FailureHasCause
  BY DEF FailureHasCause, Quiet, Smooth, ReleaseInv
<1> QED BY <1>1, <1>2, <1>3, ExperimentInvariant, PTL DEF Spec
===============================================================================
