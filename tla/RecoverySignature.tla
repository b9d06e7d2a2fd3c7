------------------------- MODULE RecoverySignature -------------------------
(***************************************************************************)
(* The advisory cores the live reads and shadow mode share: the expected   *)
(* recovery signature (backend/app/services/recovery_signature.py), the    *)
(* comparable-conditions gate (services/comparable_conditions.py) and the  *)
(* sensor-trust gate (services/sensor_trust.py), as pure functions of a    *)
(* window of observations.                                                 *)
(*                                                                         *)
(* An observation is [fault, reading]: the fault code of the cycle, or     *)
(* NoCode, and the readings of the metrics the cycle carries, in an        *)
(* integer unit of each metric.  Fractions are kept in thousandths.        *)
(***************************************************************************)
EXTENDS Integers, Sequences, FiniteSets, FiniteSetsExt

CONSTANTS
  NoCode,         \* the fault_code of a cycle without a fault
  Conditions,     \* the contract's conditions [signal, op, bound, base, code]
  Precursor,      \* PRECURSOR_KEY, the metric of the degradation precursor
  RiseTolerance,  \* _PRECURSOR_RISE_TOL, in the precursor's unit
  GradeSpan,      \* _PRECURSOR_GRADE_SPAN, in the precursor's unit
  MinSamples,     \* classify_sensor(min_samples)
  Plausible,      \* PLAUSIBLE: [metric -> <<lowest, highest>>]
  RequiredStable  \* cycles of a full window, 30 in shadow mode

\* A RecoveryCondition row, as far as it is read here.
IsCondition(c) ==
  /\ c.op \in {"lte", "lt", "gte", "gt", "within_pct", "declining", "not_recur", "count_gte"}
  /\ DOMAIN c = {"signal", "op"} \cup
       CASE c.op = "declining"  -> {}
         [] c.op = "not_recur"  -> {"code"}
         [] c.op = "within_pct" -> {"bound", "base"}
         [] OTHER               -> {"bound"}

ASSUME SignatureAssumption ==
  /\ \A c \in Conditions : IsCondition(c)
  /\ {RiseTolerance, GradeSpan, MinSamples, RequiredStable} \subseteq Nat \ {0}

-----------------------------------------------------------------------------
(***************************************************************************)
(* Sensor trust: classify_sensor().  No caller passes a calibration date,  *)
(* a replacement or a mapping change, so these checks never fail.          *)
(***************************************************************************)
TotalOf(vals) == MapThenSumSet(LAMBDA i : vals[i], DOMAIN vals)
SquaresOf(vals) == MapThenSumSet(LAMBDA i : vals[i] * vals[i], DOMAIN vals)

Impossible(metric, vals) ==
  \E i \in DOMAIN vals : vals[i] < Plausible[metric][1] \/ vals[i] > Plausible[metric][2]

Flat(vals) == \A i, j \in DOMAIN vals : vals[i] = vals[j]

\* The coefficient of variation exceeds 0.6, written without the root.
Noisy(vals) ==
  100 * (Len(vals) * SquaresOf(vals) - TotalOf(vals) * TotalOf(vals))
    > 36 * TotalOf(vals) * TotalOf(vals)

ClassifySensor(metric, vals) ==
  IF Len(vals) < MinSamples THEN "unknown"
  ELSE IF Impossible(metric, vals) \/ Flat(vals) THEN "untrusted"
  ELSE IF Noisy(vals) THEN "degraded"
  ELSE "trusted"

TrustRank == [untrusted |-> 0, unknown |-> 1, degraded |-> 2, trusted |-> 3]

WorstTrust(statuses) ==
  CHOOSE s \in statuses : \A t \in statuses : TrustRank[s] <= TrustRank[t]

-----------------------------------------------------------------------------
(***************************************************************************)
(* Comparable conditions: classify_context().  A context is a function     *)
(* from the dimensions that were captured to their values; _DIMS gives     *)
(* each dimension its weight and, when it is a number, its tolerance.      *)
(***************************************************************************)
KeyDims == {"product", "machine_mode", "load", "sensor_health", "speed_pct"}
MinorDims == {"ambient_c"}

Distance(a, b) == IF a < b THEN b - a ELSE a - b

DimStatus(d, baseline, observed) ==
  IF d \notin DOMAIN baseline \cap DOMAIN observed THEN "unknown"
  ELSE CASE d = "speed_pct" ->   \* shifted by more than a tenth
              IF 10 * Distance(observed[d], baseline[d]) > baseline[d] THEN "shift" ELSE "match"
         [] d = "ambient_c" ->   \* shifted by more than six degrees
              IF Distance(observed[d], baseline[d]) > 6 THEN "shift" ELSE "match"
         [] OTHER -> IF observed[d] = baseline[d] THEN "match" ELSE "shift"

ClassifyContext(baseline, observed) ==
  LET with(dims, status) == {d \in dims : DimStatus(d, baseline, observed) = status}
      relevant == KeyDims \cup MinorDims
  IN  IF with(relevant, "unknown") = relevant THEN "UNKNOWN"
      ELSE IF with(KeyDims, "shift") # {} THEN "NOT_COMPARABLE"
      ELSE IF with(MinorDims, "shift") \cup with(relevant, "unknown") # {}
           THEN "PARTIALLY_COMPARABLE"
      ELSE "COMPARABLE"

-----------------------------------------------------------------------------
(***************************************************************************)
(* The expected signature and its score: expected_signature() and          *)
(* score_observations().                                                   *)
(***************************************************************************)
Readings(obs, metric) ==
  LET has(o) == metric \in DOMAIN o.reading
      seen == SelectSeq(obs, has)
  IN  [i \in 1 .. Len(seen) |-> seen[i].reading[metric]]

\* _passes(), on the ops a scalar condition of the signature has.
InSpec(c, v) ==
  CASE c.op = "lte" -> v <= c.bound
    [] c.op = "lt"  -> v < c.bound
    [] c.op = "gte" -> v >= c.bound
    [] c.op = "gt"  -> v > c.bound
    [] c.op = "within_pct" -> 100 * Distance(v, c.base) <= c.bound * c.base

Clamp(x) == IF x > 1000 THEN 1000 ELSE IF x < -1000 THEN -1000 ELSE x

\* The signals of the signature: the conditions with a direction, and the
\* precursor every profile carries.
PrecursorSignal == [signal |-> Precursor, op |-> "slope_lte"]
Signals == {c \in Conditions : c.op # "count_gte"} \cup {PrecursorSignal}

\* The weights are halves: 0.5, 1.0 and 3.5 in the code.
Weight(s) ==
  CASE s.op = "slope_lte" -> 7 [] s.op = "not_recur" -> 2 [] OTHER -> 1

FaultIn(obs) == \E i \in DOMAIN obs : obs[i].fault # NoCode
Trend(vals) == vals[Len(vals)] - vals[1]
PrecursorRising(obs) ==
  LET vals == Readings(obs, Precursor)
  IN  Len(vals) >= 2 /\ Trend(vals) > RiseTolerance

\* A signal is scored when the window carries enough readings of it.
Scored(s, obs) ==
  CASE s.op = "not_recur" -> TRUE
    [] s.op \in {"slope_lte", "declining"} -> Len(Readings(obs, s.signal)) >= 2
    [] OTHER -> Len(Readings(obs, s.signal)) >= 1

Agreement(s, obs) ==
  LET vals == Readings(obs, s.signal)
      excess == Trend(vals) - RiseTolerance
      judged == Cardinality({i \in DOMAIN vals : InSpec(s, vals[i])})
  IN  CASE s.op = "slope_lte" ->
             Clamp(1000 - ((IF excess > 0 THEN excess ELSE 0) * 2000) \div GradeSpan)
        [] s.op = "not_recur" ->
             IF \E i \in DOMAIN obs : obs[i].fault = s.code THEN -1000 ELSE 1000
        [] s.op = "declining" -> IF Trend(vals) <= 0 THEN 1000 ELSE -1000
        [] OTHER -> (2000 * judged) \div Len(vals) - 1000

Alignment(obs) ==
  LET scored == {s \in Signals : Scored(s, obs)}
  IN  IF scored = {} THEN 0
      ELSE MapThenSumSet(LAMBDA s : Weight(s) * Agreement(s, obs), scored)
             \div MapThenSumSet(Weight, scored)

TrailingClean(obs) ==
  Cardinality({i \in DOMAIN obs : \A j \in i .. Len(obs) : obs[j].fault = NoCode})

EnoughCycles(obs) ==
  Len(obs) >= 3 /\ 3 * Len(obs) >= RequiredStable

\* The rung of the ladder, with the streak the caller has: the window's, or
\* the trailing clean run when there is no window row.  The cap for a rising
\* precursor is part of the top rung's own condition.
Rung(obs, streak) ==
  LET aligns == Alignment(obs) >= 600
      improved == \E s \in Signals : Scored(s, obs) /\ Agreement(s, obs) > 0
  IN  IF ~EnoughCycles(obs) THEN "insufficient_evidence"
      ELSE IF aligns /\ streak >= RequiredStable /\ ~FaultIn(obs) /\ ~PrecursorRising(obs)
           THEN "strongly_consistent"
      ELSE IF aligns THEN "consistent_with_intervention"
      ELSE IF improved THEN "recovery_observed"
      ELSE "insufficient_evidence"
=============================================================================
