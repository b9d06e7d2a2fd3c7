-------------------------- MODULE RecoveryWorkflow --------------------------
(***************************************************************************)
(* The life of one incident: backend/app/workflow/recovery_service.py with *)
(* what its operations call, reopening.py, contract_builder.py, services/  *)
(* windows.py, cycle_engine.py and evidence.py.                            *)
(*                                                                         *)
(* One action is one HTTP request.  A request runs in one session that is  *)
(* committed at its end and rolled back when anything in it raises, so a   *)
(* request that fails changes nothing and is no step here.  A request for  *)
(* n cycles is n AdvanceCycle steps.  Evidence and approvals are those of  *)
(* the incident's current contract; nothing reads those of an earlier one. *)
(***************************************************************************)
EXTENDS IncidentStates, ContractEvaluation, FiniteSets

CONSTANTS
  Readings,            \* what the telemetry source can deliver
  MonitoringEvidence,  \* evidence keys required_before = "monitoring"
  FirstPiece,          \* the key first_piece_quality, before = "quality_release"
  IncidentFault,       \* Incident.fault_code, or NoFault
  EscalateAfter,       \* EscalationPolicySpec.escalate_after_failures
  MaxCycles,           \* bound: observations in one window
  MaxAnnounced,        \* bound: decisions announced by hand
  MaxDrafted           \* bound: knowledge candidates drafted by hand

ASSUME WorkflowAssumption ==
  /\ Readings \subseteq Reading
  /\ FirstPiece \notin MonitoringEvidence
  /\ EscalateAfter \in Nat
  /\ MaxCycles \in Nat /\ MaxAnnounced \in Nat /\ MaxDrafted \in Nat

VARIABLES
  state,          \* Incident.state, or "NO_INCIDENT" before the alert is triaged
  reopened,       \* Incident.reopened_count
  contracts,      \* RecoveryContract rows in order; the last is the current one
  evidence,       \* per requirement of the current contract, its best valid item
  approvals,      \* per approval key of the current contract, its status
  keyed,          \* the ledger holds appr-<release_contingency requirement>
  interventions,  \* Intervention rows in order of creation
  windows,        \* RecoveryWindow rows in order of creation
  obs, streak,    \* observations and stable_streak of the active window
  lots,           \* disposition of the order's affected lots
  reserved,       \* InventoryPart.reserved of the bearing
  outcome,        \* Incident.outcome_type
  published       \* events and knowledge candidates of this incident, by origin

paperVars == <<evidence, approvals, keyed>>
effectVars == <<lots, reserved, outcome, published>>
vars == <<state, reopened, contracts, interventions, windows, obs, streak,
          paperVars, effectVars>>

EvidenceKeys == MonitoringEvidence \cup {FirstPiece}
ApprovalKeys == {"contract_review", "release_contingency", "quality_release"}
Comparability == {"COMPARABLE", "PARTIALLY_COMPARABLE", "NOT_COMPARABLE", "UNKNOWN"}
APPROVER_ROLES == {"SUPERVISOR", "QUALITY_ENGINEER", "PLANT_ADMIN"}

\* Rows, by what is read of them: of the EvidenceItems of a requirement whether
\* one is valid and how old it is, of an ApprovalRequirement its status as the
\* latest decision left it, of a MaterialLot its disposition.
EvidenceItem == {"missing", "fresh", "stale"}
ApprovalRequirement == {"none", "PENDING", "APPROVED", "REJECTED"}
MaterialLot == {"HOLD", "RELEASED"}
Outcome == {"NONE", "VERIFIED", "INSUFFICIENT_EVIDENCE", "ESCALATED"}

Contract == [ version : {1, 2},
              status : {"draft", "active", "violated", "fulfilled"},
              superseded_by : Nat ]     \* 0: not superseded
Intervention == [ sequence : {1, 2},
                  status : {"PROPOSED", "IN_PROGRESS", "COMPLETED"} ]
\* What is told of an incident: the reopenings that were announced, the verified
\* recoveries finalize() announced and the candidates it drafted as the agent, and
\* those the tools route added in the name of a user (the actor of the audit row).
Told == {"reopened", "verified", "knowledge", "announced by hand", "drafted by hand"}

Window == [ contract : Nat, sequence : {1, 2},
            status : {"open", "monitoring", "failed"} ]

TypeOK ==
  /\ state \in WorkflowState \cup {"NO_INCIDENT"}
  /\ reopened \in Nat
  /\ contracts \in Seq(Contract)
  /\ evidence \in [EvidenceKeys -> EvidenceItem]
  /\ approvals \in [ApprovalKeys -> ApprovalRequirement]
  /\ keyed \in BOOLEAN
  /\ interventions \in Seq(Intervention)
  /\ windows \in Seq(Window)
  /\ obs \in Seq(Readings)
  /\ streak \in Nat
  /\ lots \in MaterialLot
  /\ reserved \in Nat
  /\ outcome \in Outcome
  /\ published \in [Told -> Nat]

-----------------------------------------------------------------------------
NoEvidence == [k \in EvidenceKeys |-> "missing"]
NoApprovals == [k \in ApprovalKeys |-> "none"]

\* build_v1_spec() and build_v2_spec(): the approvals each version asks for.
RequiredApprovals(version) ==
  LET human == IF version = 1 THEN "contract_review" ELSE "release_contingency"
  IN  [k \in ApprovalKeys |->
         IF k \in {human, "quality_release"} THEN "PENDING" ELSE "none"]

NewContract(v) == [version |-> v, status |-> "draft", superseded_by |-> 0]

\* persist_contract() refuses a contract that does not test the incident's fault.
ContractTestsFault == IncidentFault \in {NoFault, ContractFault}

\* _contract(): the incident's current contract, which must exist.
Current == Len(contracts)
HasContract == Current > 0

\* Mutant: ORDER BY sequence ASC.
CurrentIntervention_First(i) == i \in DOMAIN interventions /\ i = 1

\* _current_intervention(): ORDER BY sequence DESC, first row.  Rows of equal
\* sequence have no order the query fixes.
CurrentIntervention(i) ==
  /\ i \in DOMAIN interventions
  /\ \A j \in DOMAIN interventions : interventions[j].sequence <= interventions[i].sequence

\* get_active_window() of the current contract.
IsActive(w) == w.contract = Current /\ w.status \in {"open", "monitoring"}

\* Mutant: the incident's first window, whatever its contract and status.
ActiveWindow_First(i) == i \in DOMAIN windows /\ i = 1

ActiveWindow(i) ==
  /\ i \in DOMAIN windows /\ IsActive(windows[i])
  /\ \A j \in DOMAIN windows : IsActive(windows[j]) => windows[j].sequence <= windows[i].sequence

\* missing_required(contract, "monitoring") is empty: for every key a valid item
\* exists, however old (no as_of is passed).
EvidenceComplete == \A k \in MonitoringEvidence : evidence[k] # "missing"

Init ==
  /\ state = "NO_INCIDENT" /\ reopened = 0
  /\ contracts = <<>> /\ interventions = <<>> /\ windows = <<>>
  /\ obs = <<>> /\ streak = 0
  /\ evidence = NoEvidence /\ approvals = NoApprovals /\ keyed = FALSE
  /\ lots = "HOLD" /\ reserved = 0 /\ outcome = "NONE"
  /\ published = [e \in Told |-> 0]

-----------------------------------------------------------------------------
\* triage_from_alert(): one alert, one incident (the dedupe key), an
\* intervention proposed by the agent.
TriageFromAlert ==
  /\ state = "NO_INCIDENT"
  /\ CanTransition("ALERT_TRIAGED", "INTERVENTION_PROPOSED", "AGENT")
  /\ state' = "INTERVENTION_PROPOSED"
  /\ interventions' = <<[sequence |-> 1, status |-> "PROPOSED"]>>
  /\ UNCHANGED <<reopened, contracts, windows, obs, streak, paperVars, effectVars>>

\* accept_diagnosis()
AcceptDiagnosis(role) ==
  /\ state = "INTERVENTION_PROPOSED"
  /\ CanTransition(state, "INTERVENTION_RECORDED", role)
  /\ state' = "INTERVENTION_RECORDED"
  /\ \E i \in DOMAIN interventions :
       /\ CurrentIntervention(i)
       /\ interventions' = [interventions EXCEPT ![i].status = "COMPLETED"]
  /\ UNCHANGED <<reopened, contracts, windows, obs, streak, paperVars, effectVars>>

\* draft_contract(): V1 with its requirements; the agent asks for the evidence.
DraftContract ==
  /\ state = "INTERVENTION_RECORDED"
  /\ ContractTestsFault
  /\ CanTransition(state, "RECOVERY_CONTRACT_DRAFTED", "AGENT")
  /\ state' = "RECOVERY_CONTRACT_DRAFTED"
  /\ contracts' = Append(contracts, NewContract(1))
  /\ evidence' = NoEvidence /\ approvals' = RequiredApprovals(1) /\ keyed' = FALSE
  /\ UNCHANGED <<reopened, interventions, windows, obs, streak, effectVars>>

\* review_contract(): the role performs the first transition, the system the second.
ReviewContract(role) ==
  /\ state \in WorkflowState
  /\ CanTransition(state, "RECOVERY_CONTRACT_REVIEWED", role)
  /\ CanTransition("RECOVERY_CONTRACT_REVIEWED", "AWAITING_REQUIRED_EVIDENCE", "SYSTEM")
  /\ state' = "AWAITING_REQUIRED_EVIDENCE"
  /\ UNCHANGED <<reopened, contracts, interventions, windows, obs, streak,
                 paperVars, effectVars>>

\* submit_evidence() with an item validate_item() accepts.  Any one valid item
\* satisfies the requirement, so a rejected item changes nothing that is read.
\* The evidence route's key makes a second item of one user a replay, no step; the
\* tools route, or another user of the role, can submit again at any time.
SubmitEvidence(k) ==
  /\ HasContract
  /\ evidence' = [evidence EXCEPT ![k] = "fresh"]
  /\ UNCHANGED <<state, reopened, contracts, interventions, windows, obs, streak,
                 approvals, keyed, effectVars>>

\* The newest valid item of k passes freshness_max_s (is_fresh_at()).
EvidenceAges(k) ==
  /\ evidence[k] = "fresh"
  /\ evidence' = [evidence EXCEPT ![k] = "stale"]
  /\ UNCHANGED <<state, reopened, contracts, interventions, windows, obs, streak,
                 approvals, keyed, effectVars>>

\* record_human_approval, by the required role.  The approvals route passes the
\* key appr-<requirement> and replays a remembered one; the tools route passes
\* a key of the client's choice or none, so a later decision replaces it.
\* Whether the key is remembered matters only to ApproveContingency.
DecideApproval(k, status, withKey) ==
  /\ approvals[k] # "none"
  /\ approvals' = [approvals EXCEPT ![k] = status]
  /\ IF withKey /\ k = "release_contingency" THEN ~keyed /\ keyed' = TRUE
                                             ELSE keyed' = keyed
  /\ UNCHANGED <<state, reopened, contracts, interventions, windows, obs, streak,
                 evidence, effectVars>>

-----------------------------------------------------------------------------
\* The common end of start_monitoring() and complete_contingency(): two
\* transitions by the system, the contract activated, a window opened.
OpenWindow(sequence) ==
  /\ state \in WorkflowState
  /\ CanWalk(<<state, "READY_FOR_MONITORING", "MONITORING_RECOVERY">>, "SYSTEM")
  /\ state' = "MONITORING_RECOVERY"
  /\ contracts' = [contracts EXCEPT ![Current].status = "active"]
  /\ windows' = Append(windows, [contract |-> Current, sequence |-> sequence,
                                 status |-> "open"])
  /\ obs' = <<>> /\ streak' = 0

\* start_monitoring(): from any state with a legal transition.  A contract
\* without a contract_review requirement needs no review.
StartMonitoring ==
  /\ HasContract
  /\ EvidenceComplete
  /\ approvals["contract_review"] \in {"none", "APPROVED"}
  /\ OpenWindow(1)
  /\ UNCHANGED <<reopened, interventions, paperVars, effectVars>>

\* approve_contingency(): the gateway call records the approval, or replays the
\* remembered decision whatever it was; then the grants are applied.
ApproveContingency(role) ==
  /\ HasContract
  /\ role \in APPROVER_ROLES
  /\ approvals["release_contingency"] # "none"
  /\ IF keyed THEN UNCHANGED approvals
     ELSE /\ role = "SUPERVISOR"
          /\ approvals' = [approvals EXCEPT !["release_contingency"] = "APPROVED"]
  /\ keyed' = TRUE
  /\ reserved' = reserved + 1
  /\ \E i \in DOMAIN interventions :
       /\ CurrentIntervention(i)
       /\ interventions' = [interventions EXCEPT ![i].status = "IN_PROGRESS"]
  /\ state \in WorkflowState
  /\ CanTransition(state, "CONTINGENCY_IN_PROGRESS", role)
  /\ state' = "CONTINGENCY_IN_PROGRESS"
  /\ UNCHANGED <<reopened, contracts, windows, obs, streak, evidence, lots,
                 outcome, published>>

\* complete_contingency(): from any state with a legal transition.
CompleteContingency ==
  /\ HasContract
  /\ EvidenceComplete
  /\ \E i \in DOMAIN interventions :
       /\ CurrentIntervention(i)
       /\ interventions' = [interventions EXCEPT ![i].status = "COMPLETED"]
  /\ OpenWindow(2)
  /\ UNCHANGED <<reopened, paperVars, effectVars>>

-----------------------------------------------------------------------------
\* escalate()
Escalate(w) ==
  /\ CanTransition(state, "ESCALATED", "AGENT")
  /\ state' = "ESCALATED" /\ outcome' = "ESCALATED"
  /\ windows' = [windows EXCEPT ![w].status = "monitoring"]
  /\ UNCHANGED <<reopened, contracts, interventions, paperVars, lots, reserved,
                 published>>

\* Mutant: a second reopening finds the contingency of the first and reuses it.
ParkContingency_Reuses ==
  interventions' =
    IF \E i \in DOMAIN interventions : interventions[i].sequence = 2
    THEN interventions
    ELSE Append(interventions, [sequence |-> 2, status |-> "PROPOSED"])

ParkContingency ==
  interventions' = Append(interventions, [sequence |-> 2, status |-> "PROPOSED"])

\* reopen_with_contingency(), through the gateway as the agent: the contract
\* violated and superseded, its window failed, a contingency intervention and
\* contract V2 drafted, the incident parked until a supervisor approves.
Reopen(w) ==
  /\ ContractTestsFault
  /\ CanWalk(<<state, "RECOVERY_CONDITION_FAILED", "RECOVERY_FAILED",
               "INCIDENT_REOPENED", "CONTINGENCY_AWAITING_APPROVAL">>, "AGENT")
  /\ state' = "CONTINGENCY_AWAITING_APPROVAL"
  /\ reopened' = reopened + 1
  /\ contracts' = Append([contracts EXCEPT ![Current].status = "violated",
                                           ![Current].superseded_by = Current + 1],
                         NewContract(2))
  /\ windows' = [windows EXCEPT ![w].status = "failed"]
  /\ ParkContingency
  /\ evidence' = NoEvidence /\ approvals' = RequiredApprovals(2) /\ keyed' = FALSE
  /\ published' = [published EXCEPT !["reopened"] = @ + 1]
  /\ UNCHANGED <<lots, reserved, outcome>>

\* finalize() when the comparable-conditions ceiling permits VERIFIED.
Certify(w) ==
  /\ CanTransition(state, "VERIFIED_RECOVERY", "SYSTEM")
  /\ state' = "VERIFIED_RECOVERY" /\ outcome' = "VERIFIED"
  /\ lots' = "RELEASED"
  /\ contracts' = [contracts EXCEPT ![Current].status = "fulfilled"]
  /\ windows' = [windows EXCEPT ![w].status = "monitoring"]
  /\ published' = [published EXCEPT !["verified"] = @ + 1, !["knowledge"] = @ + 1]
  /\ UNCHANGED <<reopened, interventions, paperVars, reserved>>

\* finalize() when it does not: closure is blocked and nothing is released.
BlockClosure(w) ==
  /\ CanTransition(state, "INSUFFICIENT_EVIDENCE", "SYSTEM")
  /\ state' = "INSUFFICIENT_EVIDENCE" /\ outcome' = "INSUFFICIENT_EVIDENCE"
  /\ windows' = [windows EXCEPT ![w].status = "monitoring"]
  /\ UNCHANGED <<reopened, contracts, interventions, paperVars, lots, reserved,
                 published>>

\* derive_effective_recovery_confidence() on eligible evidence.
PolicyPermits(comparability) == comparability \in {"COMPARABLE", "PARTIALLY_COMPARABLE"}

StillMonitoring(w) ==
  /\ state' = state
  /\ windows' = [windows EXCEPT ![w].status = "monitoring"]
  /\ UNCHANGED <<reopened, contracts, interventions, paperVars, effectVars>>

\* Mutant: one reopening too many.
ShouldEscalate_OffByOne == reopened > EscalateAfter

\* should_escalate(): it looks at the reopenings before this failure.
ShouldEscalate == reopened >= EscalateAfter

\* advance() by one cycle: observe, evaluate, and act on the verdict.
\* should_reopen() holds on every violation under the default policy.
AdvanceCycle(o, comparability) ==
  /\ HasContract
  /\ state = "MONITORING_RECOVERY"
  /\ Len(obs) < MaxCycles
  /\ obs = <<>> => ~o.cooler
  /\ obs' = Append(obs, o)
  /\ streak' = NextStreak(streak, o)
  /\ LET verdict == Verdict(obs', streak', evidence[FirstPiece],
                            approvals["quality_release"])
     IN  \E w \in DOMAIN windows :
           /\ ActiveWindow(w)
           /\ \/ verdict = "violated" /\ ShouldEscalate /\ Escalate(w)
              \/ verdict = "violated" /\ ~ShouldEscalate /\ Reopen(w)
              \/ verdict = "verified" /\ PolicyPermits(comparability) /\ Certify(w)
              \/ verdict = "verified" /\ ~PolicyPermits(comparability) /\ BlockClosure(w)
              \/ verdict = "monitoring" /\ StillMonitoring(w)

-----------------------------------------------------------------------------
\* publish_recovery_decision over the tools route: any role, any state, and any
\* decision_type, verified_recovery included, with no policy and no transition.
AnnounceByHand ==
  /\ state # "NO_INCIDENT"
  /\ published["announced by hand"] < MaxAnnounced
  /\ published' = [published EXCEPT !["announced by hand"] = @ + 1]
  /\ UNCHANGED <<state, reopened, contracts, interventions, windows, obs, streak,
                 paperVars, lots, reserved, outcome>>

\* create_knowledge_candidate over the tools route, likewise.
DraftByHand ==
  /\ state # "NO_INCIDENT"
  /\ published["drafted by hand"] < MaxDrafted
  /\ published' = [published EXCEPT !["drafted by hand"] = @ + 1]
  /\ UNCHANGED <<state, reopened, contracts, interventions, windows, obs, streak,
                 paperVars, lots, reserved, outcome>>

Next ==
  \/ TriageFromAlert
  \/ \E role \in HumanRole : AcceptDiagnosis(role)
  \/ DraftContract
  \/ \E role \in HumanRole : ReviewContract(role)
  \/ \E k \in EvidenceKeys : SubmitEvidence(k) \/ EvidenceAges(k)
  \/ \E k \in ApprovalKeys, status \in {"APPROVED", "REJECTED"}, withKey \in BOOLEAN :
       DecideApproval(k, status, withKey)
  \/ StartMonitoring
  \/ \E role \in HumanRole : ApproveContingency(role)
  \/ CompleteContingency
  \/ \E o \in Readings, c \in Comparability : AdvanceCycle(o, c)
  \/ AnnounceByHand
  \/ DraftByHand

Spec == Init /\ [][Next]_vars

-----------------------------------------------------------------------------
(***************************************************************************)
(* Properties.                                                             *)
(***************************************************************************)
\* The incident is monitored on exactly one open window, the one of its current
\* contract, and every earlier contract has had its window failed: cycles are
\* never counted on a window that a reopening left behind (get_active_window()).
MonitoringHasItsWindow ==
  /\ state = "MONITORING_RECOVERY" =>
       Cardinality({i \in DOMAIN windows : IsActive(windows[i])}) = 1
  /\ \A i \in DOMAIN windows : windows[i].status = "failed" <=>
       contracts[windows[i].contract].status = "violated"
  /\ \A i, j \in DOMAIN windows : windows[i].contract = windows[j].contract => i = j

\* reopened_count, the chain of superseded contracts, the interventions and
\* the failed windows all tell the same history, and every reopening was
\* announced exactly once (reopening.py).
ReopeningLeavesOneTrail ==
  /\ HasContract => Len(contracts) = reopened + 1
  /\ HasContract => Len(interventions) = reopened + 1
  /\ Cardinality({i \in DOMAIN windows : windows[i].status = "failed"}) = reopened
  /\ published["reopened"] = reopened
  /\ \A i \in DOMAIN contracts :
       IF i < Current
       THEN contracts[i].status = "violated" /\ contracts[i].superseded_by = i + 1
       ELSE contracts[i].status # "violated" /\ contracts[i].superseded_by = 0

\* finalize() is all or nothing: lots leave HOLD, the contract is fulfilled and
\* finalize()'s own announcement and its own knowledge candidate exist, once each,
\* exactly in a verified incident; one blocked by the ceiling has none of it.  Of
\* what users announce and draft over the tools route, in any state, it says nothing.
ClosureIsAllOrNothing ==
  /\ lots = "RELEASED" <=> state = "VERIFIED_RECOVERY"
  /\ outcome = "VERIFIED" <=> state = "VERIFIED_RECOVERY"
  /\ (\E i \in DOMAIN contracts : contracts[i].status = "fulfilled")
       <=> state = "VERIFIED_RECOVERY"
  /\ published["verified"] = IF state = "VERIFIED_RECOVERY" THEN 1 ELSE 0
  /\ published["knowledge"] = published["verified"]

\* An incident is closed only by a cycle that ends Required consecutive stable
\* ones of the current contract's window, after no recurrence of the fault in
\* that window, with the first piece still fresh and quality released.  Quality
\* may be withdrawn, evidence may age and reopenings may intervene at any time.
EarnedClosure ==
  state' = "VERIFIED_RECOVERY" /\ state # "VERIFIED_RECOVERY" =>
    /\ Len(obs') >= Required
    /\ \A i \in Len(obs') - Required + 1 .. Len(obs') : IsStable(obs'[i])
    /\ \A i \in 1 .. Len(obs') : obs'[i].fault # ContractFault
    /\ evidence[FirstPiece] = "fresh"
    /\ approvals["quality_release"] = "APPROVED"

ClosureIsEarned == [][EarnedClosure]_vars

\* Recovery that keeps failing ends: at most EscalateAfter reopenings, each with
\* at most one bearing reserved, and an incident is escalated only by one more
\* failure after the last of them.
FailuresAreBounded ==
  /\ reopened <= EscalateAfter
  /\ reserved <= reopened
  /\ state = "ESCALATED" => reopened = EscalateAfter

\* History is preserved across a reopening (docs/STATE_MACHINE.md): no row is
\* ever removed, a violated contract and a failed window never change again,
\* and the first intervention, once completed, is never touched by a later one.
HistoryKept ==
  /\ Len(contracts') >= Len(contracts) /\ Len(windows') >= Len(windows)
  /\ Len(interventions') >= Len(interventions)
  /\ \A i \in DOMAIN contracts :
       contracts[i].status \in {"violated", "fulfilled"} => contracts'[i] = contracts[i]
  /\ \A i \in DOMAIN windows : windows[i].status = "failed" => windows'[i] = windows[i]
  /\ HasContract => interventions'[1] = interventions[1]

HistoryIsPreserved == [][HistoryKept]_vars

-----------------------------------------------------------------------------
(***************************************************************************)
(* The workflow implements the abstract promise of VerifiedClosure.        *)
(***************************************************************************)
Phase ==
  CASE state = "MONITORING_RECOVERY"   -> "observing"
    [] state = "VERIFIED_RECOVERY"     -> "closed"
    [] state = "INSUFFICIENT_EVIDENCE" -> "unproven"
    [] state = "ESCALATED"             -> "escalated"
    [] OTHER                           -> "preparing"

QualityReleased ==
  evidence[FirstPiece] = "fresh" /\ approvals["quality_release"] = "APPROVED"

Closure == INSTANCE VerifiedClosure
             WITH MaxFailures <- EscalateAfter,
                  phase <- Phase, run <- streak, relapsed <- FaultRecurred(obs),
                  quality <- QualityReleased, failures <- reopened

\* Every behaviour of the eighteen-state workflow is one of the five-phase
\* promise: no path of requests closes an incident otherwise than from an
\* observation that earned it, or lets it fail without end.
ImplementsVerifiedClosure == Closure!Spec

-----------------------------------------------------------------------------
(***************************************************************************)
(* What the documentation says and the code does not keep.                 *)
(***************************************************************************)
\* README.md, step 4: the contingency requires fresh approval.  Contingency work
\* is started only on an approval requirement that is APPROVED at that moment.
ContingencyIsApproved ==
  [][state' = "CONTINGENCY_IN_PROGRESS" /\ state # "CONTINGENCY_IN_PROGRESS" =>
       approvals'["release_contingency"] = "APPROVED"]_vars

=============================================================================
