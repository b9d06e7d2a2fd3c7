------------------------- MODULE MCRecoveryRecords -------------------------
(***************************************************************************)
(* RecoveryRecords with one machine condition that passes or is late, one  *)
(* stable cycle required, one reopening before escalation, one debt, one   *)
(* lesson drafted by hand, early or late, beside the one of the closure,   *)
(* and one handoff, before or after the mission ends.                      *)
(***************************************************************************)
EXTENDS RecoveryRecords

CONSTANTS vibration, f27, none, forever, measurement, firstpiece

MCScalarKeys     == {vibration}
MCProductionKeys == {}
MCSafety         == {}
MCDeadline       == [k \in MCScalarKeys |-> 2]
MCFaults         == {f27}
MCEvidence       == {}
MCWaivers        == { {vibration} }

Cycle(fault, value, cooler) ==
  [fault |-> fault, cooler |-> cooler, value |-> [k \in MCScalarKeys |-> value]]

MCReadings ==
  { Cycle(none, "pass", TRUE), Cycle(none, "fail", FALSE), Cycle(f27, "pass", FALSE) }
=============================================================================
