----------------------------- MODULE Confidence -----------------------------
(***************************************************************************)
(* packages/policy/src/confidence.ts: evidence weight, times freshness      *)
(* decay, times divergence penalty, as a score from 0 to 100.  Weights and  *)
(* penalties are in tenths and the decay is a fraction <<n, d>>, so that    *)
(* the product is exact; the code multiplies doubles, which can differ only *)
(* where the product lies within a rounding error of a half.                *)
(***************************************************************************)
EXTENDS Integers

EVIDENCE_WEIGHT == [SignedInspection |-> 10, IdentifierScan |-> 4]
Tiers == DOMAIN EVIDENCE_WEIGHT

FRESHNESS_FLOOR == <<1, 5>>
divergencePenalty(hasOpenDivergence) == IF hasOpenDivergence THEN 1 ELSE 10

\* Mutation: the decay does not stop at the end of the window.
decayOn(age, window) ==
  IF window <= 0 THEN FRESHNESS_FLOOR
  ELSE IF age <= 0 THEN <<1, 1>>
  ELSE <<5 * window - 4 * age, 5 * window>>

freshnessDecay(age, window) ==
  IF window <= 0 THEN FRESHNESS_FLOOR
  ELSE IF age <= 0 THEN <<1, 1>>
  ELSE IF age >= window THEN FRESHNESS_FLOOR
  ELSE <<5 * window - 4 * age, 5 * window>>

\* Math.round, for a fraction that is not negative.
round(n, d) == (2 * n + d) \div (2 * d)

ageSeconds(now, attestedAt) == IF now >= attestedAt THEN now - attestedAt ELSE 0

computeConfidence(tier, attestedAt, now, window, hasOpenDivergence) ==
  LET decay == freshnessDecay(ageSeconds(now, attestedAt), window) IN
  round(EVIDENCE_WEIGHT[tier] * divergencePenalty(hasOpenDivergence) * decay[1], decay[2])
=============================================================================
