---------------------------- MODULE Disposition ----------------------------
(***************************************************************************)
(* What the read-only services say of an incident: services/disposition.py,*)
(* the canonical ceiling of services/recovery_policy.py, the eight release *)
(* domains of services/release_matrix.py and the status of the certificate *)
(* of services/certificate.py.  None of them changes a state; each puts    *)
(* together facts that were decided elsewhere, in an order of its own.     *)
(*                                                                         *)
(* The facts are a record f with the fields                                *)
(*   state       Incident.state                                            *)
(*   obs, streak observations and streak of the current contract's active  *)
(*               window (none, 0 when there is no active window)           *)
(*   firstPiece  evidence of the quality condition                         *)
(*   release     status of the quality_release approval                    *)
(*   technician  status of the latest intervention                         *)
(*   comp        comparability class of the contract's last window         *)
(*   sensor      worst sensor trust in that window                         *)
(*   debt        the active recovery debt: "none", "active" or "expired"   *)
(***************************************************************************)
EXTENDS IncidentStates, ContractEvaluation

CONSTANT ProductionKeys   \* the scalar conditions of kind PRODUCTION

ASSUME DispositionAssumption ==
  /\ ProductionKeys \subseteq ScalarKeys
  \* contract_templates.py gives every condition a key of its own.
  /\ ScalarKeys \cap {"fault", "temperature_trend", "stable_cycles"} = {}

SensorStatus == {"UNTRUSTED", "UNKNOWN", "DEGRADED", "TRUSTED"}

-----------------------------------------------------------------------------
(***************************************************************************)
(* The statuses evaluate() gives the conditions, by kind.                  *)
(***************************************************************************)
MachineKeys == (ScalarKeys \ ProductionKeys) \cup {"fault", "temperature_trend"}
ProcessKeys == ProductionKeys \cup {"stable_cycles"}
TelemetryKeys == MachineKeys \cup ProcessKeys

Status(f, k) ==
  CASE k = "fault"             -> FaultStatus(f.obs, f.streak)
    [] k = "temperature_trend" -> TrendStatus(f.obs, f.streak)
    [] k = "stable_cycles"     -> CountStatus(f.streak)
    [] OTHER                   -> ScalarStatus(k, f.obs, f.streak)

VerdictOf(f) == Verdict(f.obs, f.streak, f.firstPiece, f.release)
AllPassed(f, keys) == keys # {} /\ \A k \in keys : Status(f, k) = "PASSED"
AnyViolated(f, keys) == \E k \in keys : Status(f, k) = "VIOLATED"
QualityPassed(f) == FirstPieceStatus(f.firstPiece) = "PASSED"
Released(f) == QualityReleaseSatisfied(f.firstPiece, f.release)

\* The five hard closure invariants.  The blocked keys evaluate() reports are
\* those of machine and production conditions only.
HardInvariants(f) ==
  [ machine   |-> AllPassed(f, TelemetryKeys),
    quality   |-> QualityPassed(f),
    window    |-> WindowComplete(f.streak),
    evidence  |-> \A k \in TelemetryKeys : Status(f, k) # "BLOCKED",
    approvals |-> Released(f) ]

\* _telemetry_status()
TelemetryStatus(f) ==
  IF AnyViolated(f, TelemetryKeys) THEN "failed"
  ELSE IF WindowComplete(f.streak) /\ AllPassed(f, TelemetryKeys) THEN "stable"
  ELSE "monitoring"

\* _quality_status(): a hold needs a quality condition that is VIOLATED, which
\* _evaluate_condition() never makes one, or a recorded decision "deny", which
\* RecordApprovalInput does not accept: it records "approve" or "reject".
RecordedDecisions(f) ==
  CASE f.release = "APPROVED" -> {"approve"}
    [] f.release = "REJECTED" -> {"reject"}
    [] OTHER                  -> {}

QualityStatus(f) ==
  IF Released(f) THEN "released"
  ELSE IF "deny" \in RecordedDecisions(f) \/ FirstPieceStatus(f.firstPiece) = "VIOLATED"
       THEN "hold"
       ELSE "pending"

-----------------------------------------------------------------------------
\* derive_effective_recovery_confidence(): the policy result.  A violated or
\* unmet hard gate dominates; then the comparability class is the ceiling.
PolicyResult(comp, evidenceStatus) ==
  CASE evidenceStatus = "FAILED"       -> "FAILED"
    [] evidenceStatus = "INSUFFICIENT" -> "INSUFFICIENT_EVIDENCE"
    [] evidenceStatus = "ELIGIBLE"     ->
         IF comp \in {"COMPARABLE", "PARTIALLY_COMPARABLE"} THEN "VERIFIED"
         ELSE "INSUFFICIENT_EVIDENCE"

\* The hard-gate state that is fed to the policy; "NONE" while cycles are still
\* gathered.
EvidenceStatus(f, verdict) ==
  CASE verdict = "violated"   -> "FAILED"
    [] verdict = "verified"   -> "ELIGIBLE"
    [] verdict = "monitoring" ->
         IF WindowComplete(f.streak) /\ AllPassed(f, TelemetryKeys)
         THEN "INSUFFICIENT" ELSE "NONE"

\* Work reported complete, but the machine or quality says otherwise.
Conflict(f, verdict) ==
  /\ f.technician = "COMPLETED"
  /\ TelemetryStatus(f) = "failed" \/ QualityStatus(f) = "hold"
  /\ verdict # "verified"

\* The classification before the sensor gate: the first rule that applies.
Classify(f) ==
  LET verdict  == VerdictOf(f)
      evidence == EvidenceStatus(f, verdict)
  IN  IF f.state = "ESCALATED" THEN "ESCALATION_REQUIRED"
      ELSE IF verdict = "violated" THEN "FAILED"
      ELSE IF f.debt = "expired" THEN "ESCALATION_REQUIRED"
      ELSE IF f.debt = "active" THEN "CONDITIONAL"
      ELSE IF QualityStatus(f) = "hold" /\ TelemetryStatus(f) = "stable"
           THEN "ESCALATION_REQUIRED"
      ELSE IF Conflict(f, verdict) THEN "ESCALATION_REQUIRED"
      ELSE IF evidence # "NONE" THEN PolicyResult(f.comp, evidence)
      ELSE "IN_PROGRESS"

\* Mutant: an untrusted sensor no longer caps a verified recovery.
AssessDisposition_NoSensorGate(f) == Classify(f)

\* assess_disposition(): the sensor gate caps an otherwise verified recovery.
AssessDisposition(f) ==
  LET disposition == Classify(f)
  IN  IF disposition = "VERIFIED" /\ f.sensor \in {"UNTRUSTED", "UNKNOWN"}
      THEN "INSUFFICIENT_EVIDENCE" ELSE disposition

CanClose(f) == AssessDisposition(f) = "VERIFIED"

-----------------------------------------------------------------------------
(***************************************************************************)
(* assess_release_matrix(): the status of each release domain.             *)
(***************************************************************************)
Equipment(f) ==
  IF AnyViolated(f, MachineKeys) THEN "blocked"
  ELSE IF f.sensor \in {"UNTRUSTED", "UNKNOWN"} THEN "insufficient"
  ELSE IF AllPassed(f, MachineKeys) THEN "pass" ELSE "monitoring"

Process(f) ==
  IF AnyViolated(f, ProcessKeys) THEN "blocked"
  ELSE IF WindowComplete(f.streak) /\ AllPassed(f, ProcessKeys)
       THEN "pass" ELSE "monitoring"

QualityDomain(f) ==
  IF ~QualityPassed(f) THEN "monitoring"
  ELSE IF Released(f) THEN "pass" ELSE "blocked"

ComparabilityDomain(f) ==
  CASE f.comp = "COMPARABLE"           -> "pass"
    [] f.comp = "PARTIALLY_COMPARABLE" -> "warn"
    [] OTHER                           -> "insufficient"

ReleaseMatrix(f) ==
  LET fresh == HardInvariants(f).evidence
  IN  [ Equipment     |-> Equipment(f),
        Process       |-> Process(f),
        Quality       |-> QualityDomain(f),
        Comparability |-> ComparabilityDomain(f),
        Evidence      |-> IF fresh THEN "pass" ELSE "blocked",
        Freshness     |-> IF fresh THEN "pass" ELSE "warn",
        Safety        |-> "pass",
        Authorization |-> IF Released(f) THEN "pass" ELSE "blocked" ]

Blocking(f) ==
  {d \in DOMAIN ReleaseMatrix(f) : ReleaseMatrix(f)[d] \in {"blocked", "insufficient"}}

\* build_certificate(), the status: it looks at the incident's state and the
\* comparability ceiling, at no evaluation of its own.
CertificateStatus(f, reopened) ==
  IF f.state = "VERIFIED_RECOVERY"
  THEN IF PolicyResult(f.comp, "ELIGIBLE") = "VERIFIED" THEN "certified" ELSE "not_certified"
  ELSE IF reopened > 0 THEN "reopened" ELSE "pending"

=============================================================================
