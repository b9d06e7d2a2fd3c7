--------------------------- MODULE VerifiedClosure ---------------------------
(***************************************************************************)
(* What the recovery loop promises, with nothing of how it keeps the       *)
(* promise: work is prepared, then observed cycle by cycle; it is closed   *)
(* only out of an observation with enough consecutive good cycles, no      *)
(* relapse and quality released at that very cycle; it fails at most       *)
(* MaxFailures times before it is handed over to people.                   *)
(***************************************************************************)
EXTENDS Naturals

CONSTANTS Required, MaxFailures

VARIABLES
  phase,     \* "preparing", "observing", "closed", "unproven" or "escalated"
  run,       \* consecutive good cycles up to now
  relapsed,  \* the fault has come back under observation
  quality,   \* quality is released, on an inspection that is still fresh
  failures   \* observations that have failed

vars == <<phase, run, relapsed, quality, failures>>

Init ==
  /\ phase = "preparing" /\ run = 0 /\ relapsed = FALSE
  /\ quality = FALSE /\ failures = 0

\* Quality may be released, withdrawn or go stale between any two cycles.
QualityChanges ==
  /\ quality' \in BOOLEAN
  /\ UNCHANGED <<phase, run, relapsed, failures>>

StartObserving ==
  /\ phase = "preparing"
  /\ phase' = "observing" /\ run' = 0 /\ relapsed' = FALSE
  /\ UNCHANGED <<quality, failures>>

\* What one cycle may do to the run of good cycles.
Cycle ==
  /\ phase = "observing"
  /\ run' \in {0, run + 1}
  /\ relapsed' \in BOOLEAN

KeepObserving ==
  /\ Cycle
  /\ ~relapsed'
  /\ UNCHANGED <<phase, quality, failures>>

Close ==
  /\ Cycle
  /\ run' >= Required /\ ~relapsed' /\ quality
  /\ phase' = "closed"
  /\ UNCHANGED <<quality, failures>>

\* All conditions hold, but the improvement cannot be attributed to the repair.
Decline ==
  /\ Cycle
  /\ run' >= Required /\ ~relapsed' /\ quality
  /\ phase' = "unproven"
  /\ UNCHANGED <<quality, failures>>

\* A failed observation: new work, which quality has yet to release.
Fail ==
  /\ Cycle
  /\ failures < MaxFailures
  /\ phase' = "preparing" /\ failures' = failures + 1 /\ quality' = FALSE

GiveUp ==
  /\ Cycle
  /\ failures = MaxFailures
  /\ phase' = "escalated"
  /\ UNCHANGED <<quality, failures>>

Next ==
  \/ QualityChanges \/ StartObserving \/ KeepObserving
  \/ Close \/ Decline \/ Fail \/ GiveUp

Spec == Init /\ [][Next]_vars

=============================================================================
