---------------------------- MODULE MissionSpine ----------------------------
(***************************************************************************)
(* Two projections of a mission for the people who run it: the seven       *)
(* stages of services/mission_spine.py, and the confidence and the         *)
(* recommendations of services/evidence_planner.py.  Both put the facts f  *)
(* of Disposition together again, in an order of their own; f is that of   *)
(* an incident with a contract, which has an intervention too.             *)
(***************************************************************************)
EXTENDS Disposition, FiniteSets

Decided(f) == AssessDisposition(f) \in {"VERIFIED", "FAILED", "ESCALATION_REQUIRED"}

ContractReviewed(f) == f.state # "RECOVERY_CONTRACT_DRAFTED"

\* Mutant: the verification stage waits for one cycle more than the window.
Done_OneMoreCycle(f) ==
  << TRUE, TRUE, ContractReviewed(f), HardInvariants(f).evidence,
     f.streak > Required, Decided(f), CanClose(f) >>

\* Intake, Reconstruction, Recovery Contract, Evidence Plan, Verification,
\* Release Decision, Qualification Record.
Done(f) ==
  << TRUE, TRUE, ContractReviewed(f), HardInvariants(f).evidence,
     WindowComplete(f.streak), Decided(f), CanClose(f) >>

\* The first stage that is not done is the current one; a mission is complete
\* when there is none.
Complete(f) == LET done == Done(f) IN \A i \in DOMAIN done : done[i]

-----------------------------------------------------------------------------
\* plan_evidence(): what it recommends, before the list is cut to the six best.
BlockedKeys(f) == {k \in TelemetryKeys : Status(f, k) = "BLOCKED"}

Recommended(f) ==
  LET inv == HardInvariants(f)
  IN  (IF inv.approvals THEN {} ELSE {"quality approval"})
        \cup (IF inv.window THEN {} ELSE {"more cycles"})
        \cup (IF f.sensor \in {"UNTRUSTED", "UNKNOWN"} THEN {"sensor"} ELSE {})
        \cup (IF f.comp # "COMPARABLE" THEN {"comparable run", "operator confirmation"} ELSE {})
        \cup BlockedKeys(f)
        \cup (IF ~inv.quality /\ inv.window THEN {"inspection"} ELSE {})

\* current_confidence, in hundredths.
Confidence(f) ==
  LET inv == HardInvariants(f)
      met == Cardinality({h \in DOMAIN inv : inv[h]})
      comp == CASE f.comp = "COMPARABLE" -> 100
                [] f.comp = "PARTIALLY_COMPARABLE" -> 85
                [] OTHER -> 60
      sensor == IF f.sensor = "TRUSTED" THEN 100 ELSE 80
  IN  (met * comp * sensor) \div (100 * Cardinality(DOMAIN inv))
=============================================================================
