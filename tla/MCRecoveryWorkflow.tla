------------------------- MODULE MCRecoveryWorkflow -------------------------
(***************************************************************************)
(* RecoveryWorkflow with one scalar condition, two stable cycles required, *)
(* at most three cycles in a window, and a telemetry source that delivers  *)
(* a good cycle that cools, a good one that does not, a cycle out of range,*)
(* the incident's own fault and a secondary fault; and with one decision   *)
(* announced and one knowledge candidate drafted by hand at any time.      *)
(***************************************************************************)
EXTENDS RecoveryWorkflow

CONSTANTS vibration, f27, e12, none, forever, measurement, firstpiece

MCScalarKeys == {vibration}
MCDeadline   == [k \in MCScalarKeys |-> 2]
MCFaults     == {f27, e12}
MCEvidence   == {measurement}

Cycle(fault, value, cooler) ==
  [fault |-> fault, value |-> [k \in MCScalarKeys |-> value], cooler |-> cooler]

MCReadings ==
  { Cycle(none, "pass", TRUE), Cycle(none, "pass", FALSE),
    Cycle(none, "fail", FALSE), Cycle(f27, "pass", FALSE), Cycle(e12, "pass", TRUE) }
=============================================================================
