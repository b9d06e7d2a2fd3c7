------------------------- MODULE VerificationWindow -------------------------
(***************************************************************************)
(* One verification window on its own: cycles are observed one at a time   *)
(* (backend/app/services/cycle_engine.py), the streak is kept              *)
(* incrementally, and the contract is evaluated after every cycle, while   *)
(* the quality engineer's evidence and decision come and go between the    *)
(* cycles.  The evaluation is compared with a definition of recovery that  *)
(* knows nothing of streaks, statuses or the order they are computed in.   *)
(***************************************************************************)
EXTENDS Replay

CONSTANTS
  MaxCycles,  \* bound: observations in a window
  Earlier     \* the windows the incident may have had before this one, in order

ASSUME WindowAssumption ==
  /\ MaxCycles \in Nat
  /\ \A before \in Earlier : before \in Seq(Seq(Reading))

VARIABLES
  obs,         \* the window's observations, by cycle_index
  streak,      \* RecoveryWindow.stable_streak
  firstPiece,  \* first_piece_quality evidence: "missing", "fresh" or "stale"
  release,     \* status of the quality_release approval requirement
  verdict      \* EvaluationResult.verdict of the last advance_cycle()

vars == <<obs, streak, firstPiece, release, verdict>>

TypeOK ==
  /\ obs \in Seq(Reading) /\ Len(obs) <= MaxCycles
  /\ streak \in 0 .. Len(obs)
  /\ firstPiece \in {"missing", "fresh", "stale"}
  /\ release \in {"PENDING", "APPROVED", "REJECTED"}
  /\ verdict \in {"monitoring", "violated", "verified"}

Init ==
  /\ obs = <<>> /\ streak = 0
  /\ firstPiece = "missing" /\ release = "PENDING"
  /\ verdict = "monitoring"

-----------------------------------------------------------------------------
\* The first observation is its own reference, so its temperature is not below it.
Possible(o) == obs = <<>> => ~o.cooler

\* advance_cycle(): append the observation, update the streak, evaluate.  The
\* workflow advances no further once the contract is violated or verified.
AdvanceCycle(o) ==
  /\ verdict = "monitoring"
  /\ Len(obs) < MaxCycles
  /\ Possible(o)
  /\ obs' = Append(obs, o)
  /\ streak' = NextStreak(streak, o)
  /\ verdict' = Verdict(obs', streak', firstPiece, release)
  /\ UNCHANGED <<firstPiece, release>>

\* submit_evidence for first_piece_quality that validates.  An item that does
\* not validate leaves the requirement as it was: any valid item satisfies it.
SubmitFirstPiece ==
  /\ firstPiece' = "fresh"
  /\ UNCHANGED <<obs, streak, release, verdict>>

\* The validated item ages past freshness_max_s (evidence.is_fresh_at()).
FirstPieceAges ==
  /\ firstPiece = "fresh"
  /\ firstPiece' = "stale"
  /\ UNCHANGED <<obs, streak, release, verdict>>

\* record_human_approval on quality_release; a later decision replaces it.
DecideRelease(status) ==
  /\ release' = status
  /\ UNCHANGED <<obs, streak, firstPiece, verdict>>

Next ==
  \/ \E o \in Reading : AdvanceCycle(o)
  \/ SubmitFirstPiece
  \/ FirstPieceAges
  \/ \E status \in {"APPROVED", "REJECTED"} : DecideRelease(status)

Spec == Init /\ [][Next]_vars

-----------------------------------------------------------------------------
\* The last n observations are all stable.
StableSuffix(n) ==
  /\ n <= Len(obs)
  /\ \A i \in Len(obs) - n + 1 .. Len(obs) : IsStable(obs[i])

\* The counter kept across advance_cycle() calls (cycle_engine.py) is the
\* length of the longest run of stable cycles that ends at the last cycle.
StreakIsLongestStableSuffix ==
  /\ StableSuffix(streak)
  /\ streak < Len(obs) => ~StableSuffix(streak + 1)

\* k cycles in a row up to cycle i of a window are stable.
StableRun(o, i, k) == k <= i /\ \A j \in i - k + 1 .. i : IsStable(o[j])

\* Of the windows of an incident, one is marked complete exactly at the first cycle
\* that completed one, whichever window that is.
MarksTheFirstCompletion(windows) ==
  \A v \in DOMAIN windows : \A i \in DOMAIN windows[v] :
    [window |-> v, cycle |-> i, kind |-> "window_complete"] \in Markers(windows) <=>
      /\ StableRun(windows[v], i, Required)
      /\ \A u \in 1 .. v : \A j \in DOMAIN windows[u] :
           StableRun(windows[u], j, Required) => u = v /\ i <= j

\* A replay tells what happened (recovery_twin.py: "the scrub matches the
\* verdict").  Its streak ends where the live one is; over this window and those
\* before it, a completion is marked exactly once if a window ever was complete, at
\* the first such cycle of them all (that a later window is complete is not marked);
\* a window of another length is called a false close exactly if it would have been
\* full before the first fault; a window called safe is none of these; one that was
\* verified is not called incomplete, nor one that saw the contract's fault verified.
ReplayTellsWhatHappened ==
  /\ Streaks(obs)[Len(obs)] = streak
  /\ \A before \in Earlier : MarksTheFirstCompletion(Append(before, obs))
  /\ \A k \in 1 .. MaxCycles :
       SweepOutcome(obs, k) = "false_close" <=>
         \E i \in 1 .. FirstRelapse(obs) - 1 : StableRun(obs, i, k)
  /\ SafelyCalibrated(obs) => SweepOutcome(obs, Required) # "false_close"
  /\ verdict = "verified" => SweepOutcome(obs, Required) # "incomplete"
  /\ FaultRecurred(obs) => SweepOutcome(obs, Required) # "verified"

\* What docs/RECOVERY_CONTRACT.md calls verified, said of the observations
\* alone: enough consecutive stable cycles, no recurrence in the whole window,
\* every reading good at the last cycle, and quality released.
Recovered ==
  /\ StableSuffix(Required)
  /\ \A i \in 1 .. Len(obs) : obs[i].fault # ContractFault
  /\ Len(obs) >= 2 /\ Latest(obs).cooler
  /\ \A k \in ScalarKeys : Latest(obs).value[k] = "pass"
  /\ firstPiece = "fresh" /\ release = "APPROVED"

\* evaluate() says verified exactly when the machine has recovered: the
\* verdict of a cycle is neither too generous nor ever withheld.
VerifiedIffRecovered ==
  [][obs' # obs => (verdict' = "verified" <=> Recovered')]_vars

\* A recurrence is reported at the cycle it happens, also in a window that is
\* already complete and only waits for the quality release.
RelapseIsNeverMasked == FaultRecurred(obs) => verdict = "violated"

=============================================================================
