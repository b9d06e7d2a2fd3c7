--------------------------- MODULE MCRecoveryDebt ---------------------------
(***************************************************************************)
(* RecoveryDebt with a machine condition that fails when the fault comes   *)
(* back and a production condition on an interlock, which cannot be        *)
(* waived, two stable cycles required, one reopening before escalation and *)
(* two debts: enough for a debt to cross a reopening, to expire in every   *)
(* state, and for a second one to be granted after the first has ended.    *)
(***************************************************************************)
EXTENDS RecoveryDebt

CONSTANTS vibration, interlock, f27, none, forever, measurement, firstpiece

MCScalarKeys     == {vibration, interlock}
MCProductionKeys == {interlock}
MCSafety         == {interlock}
MCDeadline       == [k \in MCScalarKeys |-> IF k = vibration THEN 2 ELSE forever]
MCFaults         == {f27}
MCEvidence       == {measurement}
MCWaivers        == { {vibration, "temperature_trend"}, {vibration, "fault"},
                      {"first_piece"}, {interlock} }

Cycle(fault, value, cooler) ==
  [fault |-> fault, cooler |-> cooler,
   value |-> [k \in MCScalarKeys |-> IF k = vibration THEN value ELSE "pass"]]

MCReadings ==
  { Cycle(none, "pass", TRUE), Cycle(none, "pass", FALSE), Cycle(f27, "fail", FALSE) }
=============================================================================
