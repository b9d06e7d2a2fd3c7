------------------------- MODULE ContractEvaluation -------------------------
(***************************************************************************)
(* The deterministic evaluation of a recovery contract: backend/app/       *)
(* services/evaluator.py, with the quality gate of services/quality.py and *)
(* the policy predicates of services/policy.py.  Everything here is a pure *)
(* function of the observations of the active window, its stable streak,   *)
(* the first-piece evidence and the quality release.                       *)
(*                                                                         *)
(* A reading is kept only as far as the conditions tell readings apart:    *)
(* which fault code it carries, for each scalar condition whether the      *)
(* value passes, fails or is absent, and whether the temperature is below  *)
(* that of the window's first observation.                                 *)
(***************************************************************************)
EXTENDS Integers, Sequences

CONSTANTS
  ScalarKeys,     \* keys of the scalar conditions (vibration_rms, cycle_time, scrap)
  Deadline,       \* [ScalarKeys -> deadline in cycles, or NoDeadline]
  TrendDeadline,  \* deadline of the DECLINING temperature condition, in cycles
  Faults,         \* the fault codes a machine can raise
  ContractFault,  \* the fault code of the NOT_RECUR condition
  Required,       \* required_stable_cycles of the window
  NoFault, NoDeadline

ASSUME EvaluationAssumption ==
  /\ Required \in Nat \ {0}
  /\ ContractFault \in Faults
  /\ NoFault \notin Faults
  /\ TrendDeadline \in Nat
  /\ Deadline \in [ScalarKeys -> Nat \cup {NoDeadline}]
  /\ NoDeadline \notin Nat

Reading == [ fault  : Faults \cup {NoFault},
             value  : [ScalarKeys -> {"pass", "fail", "absent"}],
             cooler : BOOLEAN ]

-----------------------------------------------------------------------------
\* is_stable_observation(): any fault makes a cycle unstable, and so does a
\* scalar that fails; a scalar without a reading is skipped.  Quality, trend,
\* count and NOT_RECUR conditions are not point-in-time checks.
IsStable(o) ==
  /\ o.fault = NoFault
  /\ \A k \in ScalarKeys : o.value[k] # "fail"

\* Mutants: an unstable cycle leaves the streak as it was, or takes one off it.
NextStreak_NoReset(streak, o) == IF IsStable(o) THEN streak + 1 ELSE streak
NextStreak_Decays(streak, o) == IF IsStable(o) THEN streak + 1 ELSE streak - 1

\* The streak after one more observation (cycle_engine.advance_cycle()).
NextStreak(streak, o) == IF IsStable(o) THEN streak + 1 ELSE 0

Latest(obs) == obs[Len(obs)]

WindowComplete(streak) == streak >= Required

\* A condition that holds is PASSING until the window is complete.
Held(streak) == IF WindowComplete(streak) THEN "PASSED" ELSE "PASSING"

\* _evaluate_condition(), op NOT_RECUR.
FaultRecurred(obs) == \E i \in 1 .. Len(obs) : obs[i].fault = ContractFault

\* Mutant: evaluated on the observations read before the latest was stored.
FaultStatus_Stale(obs, streak) ==
  IF \E i \in 1 .. Len(obs) - 1 : obs[i].fault = ContractFault THEN "VIOLATED"
  ELSE Held(streak)

FaultStatus(obs, streak) ==
  CASE FaultRecurred(obs)                          -> "VIOLATED"
    [] ~FaultRecurred(obs) /\ WindowComplete(streak) -> "PASSED"
    [] ~FaultRecurred(obs) /\ ~WindowComplete(streak) ->
         IF obs = <<>> THEN "PENDING" ELSE "PASSING"

\* _evaluate_condition(), op DECLINING.
TrendStatus(obs, streak) ==
  CASE Len(obs) < 2                              -> "PENDING"
    [] Len(obs) >= 2 /\ Latest(obs).cooler       -> Held(streak)
    [] Len(obs) >= 2 /\ ~Latest(obs).cooler      ->
         IF Len(obs) >= TrendDeadline THEN "VIOLATED" ELSE "PENDING"

\* _evaluate_condition(), op COUNT_GTE.
CountStatus(streak) ==
  CASE streak >= Required               -> "PASSED"
    [] streak < Required /\ streak > 0  -> "PASSING"
    [] streak < Required /\ streak <= 0 -> "PENDING"

\* _evaluate_condition(), the scalar comparisons: judged on the latest
\* reading, and violated once the deadline has passed without any of the first
\* deadline observations having met the condition.
MetInDeadline(k, obs) ==
  \E i \in 1 .. Len(obs) : i <= Deadline[k] /\ obs[i].value[k] = "pass"

DeadlineMissed(k, obs) ==
  /\ Deadline[k] # NoDeadline
  /\ Len(obs) >= Deadline[k]
  /\ ~MetInDeadline(k, obs)

ScalarStatus(k, obs, streak) ==
  IF obs = <<>> THEN "BLOCKED"
  ELSE CASE Latest(obs).value[k] = "absent" -> "BLOCKED"
         [] Latest(obs).value[k] = "pass"   -> Held(streak)
         [] Latest(obs).value[k] = "fail"   ->
              IF DeadlineMissed(k, obs) THEN "VIOLATED" ELSE "PENDING"

\* Mutant: evidence that was fresh once is good for ever.
FirstPieceStatus_EverValid(firstPiece) ==
  IF firstPiece # "missing" THEN "PASSED" ELSE "BLOCKED"

\* _evaluate_condition(), kind QUALITY: satisfied by validated evidence that is
\* still fresh when the verdict is computed, never by telemetry.
FirstPieceStatus(firstPiece) == IF firstPiece = "fresh" THEN "PASSED" ELSE "BLOCKED"

-----------------------------------------------------------------------------
\* evaluate(), the statuses of all conditions of the contract.
Violated(obs, streak) ==
  \/ FaultStatus(obs, streak) = "VIOLATED"
  \/ TrendStatus(obs, streak) = "VIOLATED"
  \/ \E k \in ScalarKeys : ScalarStatus(k, obs, streak) = "VIOLATED"

TechnicalPass(obs, streak, firstPiece) ==
  /\ obs # <<>>
  /\ WindowComplete(streak)
  /\ FaultStatus(obs, streak) = "PASSED"
  /\ TrendStatus(obs, streak) = "PASSED"
  /\ CountStatus(streak) = "PASSED"
  /\ \A k \in ScalarKeys : ScalarStatus(k, obs, streak) = "PASSED"
  /\ FirstPieceStatus(firstPiece) = "PASSED"

\* Mutant: the quality condition alone releases.
QualityReleaseSatisfied_Unapproved(firstPiece, release) ==
  FirstPieceStatus(firstPiece) = "PASSED"

\* quality_release_satisfied(): the quality engineer's approval stands and the
\* quality condition is PASSED.
QualityReleaseSatisfied(firstPiece, release) ==
  /\ release = "APPROVED"
  /\ FirstPieceStatus(firstPiece) = "PASSED"

\* evaluate(), the verdict: a violation wins over everything.
Verdict(obs, streak, firstPiece, release) ==
  IF Violated(obs, streak) THEN "violated"
  ELSE IF /\ TechnicalPass(obs, streak, firstPiece)
          /\ QualityReleaseSatisfied(firstPiece, release)
       THEN "verified"
       ELSE "monitoring"

=============================================================================
