--------------------------- MODULE ClosureAdvice ---------------------------
(***************************************************************************)
(* The risk that closing now would be a false closure, as it is shown to   *)
(* the human who approves (services/false_closure_risk.py), with the trust *)
(* in a piece of evidence that it reads (services/evidence_quality.py).    *)
(* Advisory: neither gates anything.  Fractions are kept in thousandths,   *)
(* weights in hundredths.                                                  *)
(***************************************************************************)
EXTENDS Disposition, FiniteSets, FiniteSetsExt

\* The live forecast has no value: no active window, or no precursor in it.
NoForecast == -1

-----------------------------------------------------------------------------
(***************************************************************************)
(* Evidence: an item is [source, measured, standing, stale].               *)
(***************************************************************************)
Item == [ source : {"sensor", "human", "document", "system", "other"},
          measured : BOOLEAN,                  \* value_num is given
          standing : {"valid", "pending", "refused"},
          stale : BOOLEAN ]                    \* older than the requirement allows

\* _tier() and the weight of the tier.
Weight(item) ==
  CASE item.source = "sensor"   -> IF item.measured THEN 1000 ELSE 400
    [] item.source = "human"    -> IF item.measured THEN 850 ELSE 600
    [] item.source = "document" -> 500
    [] item.source = "system"   -> 400
    [] item.source = "other"    -> IF item.measured THEN 600 ELSE 400

\* classify(): refused evidence is worth nothing; each discount halves.
Trust(item) ==
  CASE item.standing = "refused" -> 0
    [] item.standing = "pending" -> Weight(item) \div (IF item.stale THEN 4 ELSE 2)
    [] item.standing = "valid"   -> Weight(item) \div (IF item.stale THEN 2 ELSE 1)

-----------------------------------------------------------------------------
\* _p_relapse(): never certain either way.
PRelapse(precursor, slope) ==
  LET steep == IF 10 * slope > 1000 THEN 1000 ELSE 10 * slope
      blend == (7 * precursor + 3 * steep) \div 10
  IN  IF blend > 980 THEN 980 ELSE IF blend < 20 THEN 20 ELSE blend

Within(x) == IF x < 0 THEN 0 ELSE IF x > 1000 THEN 1000 ELSE x

ComparabilityRisk(comp) ==
  CASE comp = "COMPARABLE"           -> 0
    [] comp = "PARTIALLY_COMPARABLE" -> 400
    [] comp = "NOT_COMPARABLE"       -> 1000
    [] comp = "UNKNOWN"              -> 700

\* Mutant: the margin in stable cycles counts, not the shortfall.
Shortfall_Margin(streak) == Within((1000 * streak) \div Required)

Shortfall(streak) == Within((1000 * (Required - streak)) \div Required)

\* A factor that cannot be computed is left out.
NotComputed == -1

\* The factors of the facts f (the contract's latest window is the active one),
\* of the alignment of the signature, of the forecast, and of the trust in the
\* valid evidence.
Factors(f, alignment, relapse, trusts) ==
  [ signature     |-> Within(1000 - (alignment + 1000) \div 2),
    comparability |-> ComparabilityRisk(f.comp),
    streak        |-> Shortfall(f.streak),
    precursor     |-> IF relapse = NoForecast THEN NotComputed ELSE Within(relapse),
    evidence      |-> IF trusts = {} THEN NotComputed ELSE Within(1000 - Min(trusts)) ]

\* _W
FactorWeight ==
  [signature |-> 45, comparability |-> 30, streak |-> 15, precursor |-> 30, evidence |-> 10]

FaultInWindow(f) == \E i \in DOMAIN f.obs : f.obs[i].fault # NoFault

\* assess_false_closure_risk(): the contributions, each rounded, are added up; a
\* fault in the window, whatever its code, overrides them.
Total(x) == x.signature + x.comparability + x.streak + x.precursor + x.evidence

Blend(value) ==
  LET weight == [k \in DOMAIN value |-> IF value[k] = NotComputed THEN 0 ELSE FactorWeight[k]]
      den    == Total(weight)
  IN  Total([k \in DOMAIN value |-> (2 * weight[k] * value[k] + den) \div (2 * den)])

Risk(f, alignment, relapse, trusts) ==
  LET blend == Blend(Factors(f, alignment, relapse, trusts))
  IN  Within(IF FaultInWindow(f) /\ blend < 900 THEN 900 ELSE blend)

Band(risk) ==
  IF risk >= 600 THEN "high" ELSE IF risk >= 250 THEN "elevated" ELSE "low"

\* The recommendation, by what it tells the human to do.
Advice(f, risk) ==
  IF FaultInWindow(f) THEN "do not close"
  ELSE CASE Band(risk) = "low"      -> "closure is well supported"
         [] Band(risk) = "elevated" -> "keep monitoring"
         [] Band(risk) = "high"     -> "do not close"
=============================================================================
