----------------------------- MODULE ReleasePolicy -----------------------------
(***************************************************************************)
(* scripts/release_policy.py: the admission arithmetic over the windows of  *)
(* offered attempts.  A window is known by how many of its attempts         *)
(* completed in time, completed late or failed, and how many were generated *)
(* too late; its sorted measurements are 0 (within the limit) or 1 (beyond).*)
(***************************************************************************)
EXTENDS Integers, Sequences

CONSTANTS
  Expected,        \* attempts a window offers: arrival rate times seconds
  RequiredWindows  \* windows an admission needs

ASSUME PolicyAssumption == Expected \in Nat \ {0} /\ RequiredWindows \in Nat \ {0}

\* A window of offered attempts; observed is the time of its end.
Window(tag, late, failed, lagging, observed) ==
  [tag |-> tag, inTime |-> Expected - late - failed, late |-> late,
   failed |-> failed, lagging |-> lagging, bound |-> TRUE, observed |-> observed]

Sorted(within, beyond) ==
  [i \in 1 .. within + beyond |-> IF i <= within THEN 0 ELSE 1]

PositionRoundedDown(n) == IF n = 1 THEN 1 ELSE (95 * n) \div 100  \* mutant: not up
\* The place of the 95th percentile among n sorted values.
Position(n) == (95 * n + 99) \div 100

None == 2
Quantile(xs) == IF xs = <<>> THEN None ELSE xs[Position(Len(xs))]

Good(w) == w.inTime + w.late
WithinFailureBudget(w) == 100 * (Expected - Good(w)) <= Expected
OnTime(w) == 100 * w.inTime >= 99 * Expected
P95WithinLimit(w) == Quantile(Sorted(w.inTime, w.late)) = 0

\* summarize: the reasons against one window.
Summarize(w) ==
  LET rows == Good(w) + w.failed
      criteria == [incomplete |-> rows = Expected, mismatch |-> w.bound,
                   failures |-> WithinFailureBudget(w), onTime |-> OnTime(w),
                   p95 |-> P95WithinLimit(w),
                   generator |-> Quantile(Sorted(rows - w.lagging, w.lagging)) = 0]
  IN  {r \in DOMAIN criteria : ~ criteria[r]}

\* evaluate: the reasons against a candidate; none of them admits it.  maxAge is
\* max_evidence_age_seconds.
Evaluate(evidence, candidate, created, now, maxAge) ==
  LET ws == evidence.windows
      stale(w) == ~ (created <= w.observed /\ w.observed <= now) \/ now - w.observed > maxAge
  IN  IF evidence.binding # candidate THEN {"candidate"}
      ELSE IF Len(ws) # RequiredWindows THEN {"missing"}
      ELSE {r \in {"duplicate"} : \E i, j \in DOMAIN ws : i # j /\ ws[i].tag = ws[j].tag}
           \cup {r \in {"stale"} : \E i \in DOMAIN ws : stale(ws[i])}
           \cup UNION {Summarize(ws[i]) : i \in DOMAIN ws}
================================================================================
