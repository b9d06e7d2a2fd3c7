----------------------- MODULE RecoveryWorkflow_proofs -----------------------
(***************************************************************************)
(* Proofs about RecoveryWorkflow, for every set of readings and evidence   *)
(* keys, every number of required cycles and of allowed reopenings.        *)
(***************************************************************************)
EXTENDS RecoveryWorkflow, SequenceTheorems, FiniteSetTheorems, TLAPS

\* Enumerations are always expanded.
USE DEF EvidenceItem, ApprovalRequirement, MaterialLot, Outcome

-----------------------------------------------------------------------------
(* What the transition table says of the moves the operations make.        *)

\* A window can only be opened from two states (state_machine.py, ALLOWED).
LEMMA IntoMonitoring ==
  ASSUME NEW s \in WorkflowState, "READY_FOR_MONITORING" \in ALLOWED[s]
  PROVE  s \in {"AWAITING_REQUIRED_EVIDENCE", "CONTINGENCY_IN_PROGRESS"}
BY DEF ALLOWED, WorkflowState

\* Contingency work only follows a parked reopening.
LEMMA IntoContingency ==
  ASSUME NEW s \in WorkflowState, "CONTINGENCY_IN_PROGRESS" \in ALLOWED[s]
  PROVE  s = "CONTINGENCY_AWAITING_APPROVAL"
BY DEF ALLOWED, WorkflowState

\* Only a drafted contract is reviewed.
LEMMA IntoReview ==
  ASSUME NEW s \in WorkflowState, "RECOVERY_CONTRACT_REVIEWED" \in ALLOWED[s]
  PROVE  s = "RECOVERY_CONTRACT_DRAFTED"
BY DEF ALLOWED, WorkflowState

-----------------------------------------------------------------------------
(* Type correctness.                                                       *)

LEMMA PapersTyped ==
  ASSUME NEW v \in {1, 2}
  PROVE  /\ NoEvidence \in [EvidenceKeys -> EvidenceItem]
         /\ NoApprovals \in [ApprovalKeys -> ApprovalRequirement]
         /\ RequiredApprovals(v) \in
              [ApprovalKeys -> ApprovalRequirement]
         /\ NewContract(v) \in Contract
BY DEF NoEvidence, NoApprovals, RequiredApprovals, NewContract, Contract

LEMMA StreakTyped ==
  ASSUME NEW n \in Nat, NEW o
  PROVE  NextStreak(n, o) \in Nat
BY DEF NextStreak

\* Changing one field of one row leaves a table of rows.
LEMMA RowsTyped ==
  /\ \A s \in Seq(Contract) : \A i \in DOMAIN s, st \in {"active", "fulfilled"} :
       [s EXCEPT ![i].status = st] \in Seq(Contract)
  /\ \A s \in Seq(Contract) : \A i \in DOMAIN s, n \in Nat :
       [s EXCEPT ![i].status = "violated", ![i].superseded_by = n] \in Seq(Contract)
  /\ \A s \in Seq(Intervention) : \A i \in DOMAIN s, st \in {"IN_PROGRESS", "COMPLETED"} :
       [s EXCEPT ![i].status = st] \in Seq(Intervention)
  /\ \A s \in Seq(Window) : \A i \in DOMAIN s, st \in {"monitoring", "failed"} :
       [s EXCEPT ![i].status = st] \in Seq(Window)
<1>1. ASSUME NEW s \in Seq(Contract), NEW i \in DOMAIN s, NEW st \in {"active", "fulfilled"}
      PROVE  [s EXCEPT ![i].status = st] \in Seq(Contract)
  <2>1. s[i] \in Contract /\ i \in 1 .. Len(s)
    BY <1>1, LenProperties
  <2>2. [s[i] EXCEPT !.status = st] \in Contract
    BY <1>1, <2>1 DEF Contract
  <2> QED  BY <1>1, <2>1, <2>2, ExceptSeq
<1>2. ASSUME NEW s \in Seq(Contract), NEW i \in DOMAIN s, NEW n \in Nat
      PROVE  [s EXCEPT ![i].status = "violated", ![i].superseded_by = n] \in Seq(Contract)
  <2>1. s[i] \in Contract /\ i \in 1 .. Len(s)
    BY <1>2, LenProperties
  <2>2. [s[i] EXCEPT !.status = "violated", !.superseded_by = n] \in Contract
    BY <1>2, <2>1 DEF Contract
  <2>3. [s EXCEPT ![i].status = "violated", ![i].superseded_by = n]
          = [s EXCEPT ![i] = [s[i] EXCEPT !.status = "violated", !.superseded_by = n]]
    BY <1>2, <2>1, LenProperties DEF Contract
  <2> QED  BY <1>2, <2>1, <2>2, <2>3, ExceptSeq
<1>3. ASSUME NEW s \in Seq(Intervention), NEW i \in DOMAIN s,
             NEW st \in {"IN_PROGRESS", "COMPLETED"}
      PROVE  [s EXCEPT ![i].status = st] \in Seq(Intervention)
  <2>1. s[i] \in Intervention /\ i \in 1 .. Len(s)
    BY <1>3, LenProperties
  <2>2. [s[i] EXCEPT !.status = st] \in Intervention
    BY <1>3, <2>1 DEF Intervention
  <2> QED  BY <1>3, <2>1, <2>2, ExceptSeq
<1>4. ASSUME NEW s \in Seq(Window), NEW i \in DOMAIN s, NEW st \in {"monitoring", "failed"}
      PROVE  [s EXCEPT ![i].status = st] \in Seq(Window)
  <2>1. s[i] \in Window /\ i \in 1 .. Len(s)
    BY <1>4, LenProperties
  <2>2. [s[i] EXCEPT !.status = st] \in Window
    BY <1>4, <2>1 DEF Window
  <2> QED  BY <1>4, <2>1, <2>2, ExceptSeq
<1> QED  BY <1>1, <1>2, <1>3, <1>4

LEMMA CountersTyped ==
  ASSUME NEW S, NEW f \in [S -> Nat], NEW d \in S, NEW e \in S
  PROVE  /\ [f EXCEPT ![d] = @ + 1] \in [S -> Nat]
         /\ [f EXCEPT ![d] = @ + 1, ![e] = @ + 1] \in [S -> Nat]
OBVIOUS

LEMMA CurrentIsARow ==
  ASSUME TypeOK, HasContract
  PROVE  Current \in DOMAIN contracts /\ Current \in Nat
BY LenProperties DEF TypeOK, HasContract, Current

\* The window that OpenWindow appends, and the rows Reopen appends.
LEMMA NewRowsTyped ==
  /\ \A c \in Nat, q \in {1, 2} : [contract |-> c, sequence |-> q, status |-> "open"] \in Window
  /\ [sequence |-> 2, status |-> "PROPOSED"] \in Intervention
  /\ <<[sequence |-> 1, status |-> "PROPOSED"]>> \in Seq(Intervention)
BY DEF Window, Intervention

LEMMA OpenWindowTyped ==
  ASSUME TypeOK, HasContract, NEW q \in {1, 2}, OpenWindow(q)
  PROVE  /\ state' \in WorkflowState
         /\ contracts' \in Seq(Contract) /\ windows' \in Seq(Window)
         /\ obs' \in Seq(Readings) /\ streak' \in Nat
<1>1. state' \in WorkflowState /\ streak' \in Nat /\ obs' \in Seq(Readings)
  BY DEF OpenWindow, WorkflowState
<1>2. contracts' \in Seq(Contract)
  BY CurrentIsARow, RowsTyped DEF OpenWindow, TypeOK
<1>3. windows' \in Seq(Window)
  BY CurrentIsARow, NewRowsTyped, AppendProperties DEF OpenWindow, TypeOK
<1> QED  BY <1>1, <1>2, <1>3

LEMMA AdvanceTyped ==
  ASSUME TypeOK, NEW o \in Readings, NEW c \in Comparability, AdvanceCycle(o, c)
  PROVE  TypeOK'
<1>1. obs' \in Seq(Readings) /\ streak' \in Nat
  BY AppendProperties, StreakTyped DEF AdvanceCycle, TypeOK
<1>2. PICK w \in DOMAIN windows :
        Escalate(w) \/ Reopen(w) \/ Certify(w) \/ BlockClosure(w) \/ StillMonitoring(w)
  BY DEF AdvanceCycle
<1>3. Current \in DOMAIN contracts /\ Current + 1 \in Nat
  BY CurrentIsARow DEF AdvanceCycle
<1>4. /\ [windows EXCEPT ![w].status = "monitoring"] \in Seq(Window)
      /\ [windows EXCEPT ![w].status = "failed"] \in Seq(Window)
  BY RowsTyped DEF TypeOK
<1>5. CASE Escalate(w)
  BY <1>1, <1>4, <1>5 DEF TypeOK, Escalate, paperVars, WorkflowState
<1>6. CASE Reopen(w)
  <2>1. contracts' \in Seq(Contract)
    <3>1. [contracts EXCEPT ![Current].status = "violated",
                            ![Current].superseded_by = Current + 1] \in Seq(Contract)
      BY <1>3, RowsTyped DEF TypeOK
    <3> QED  BY <1>6, <3>1, PapersTyped, AppendProperties DEF Reopen
  <2>2. interventions' \in Seq(Intervention)
    BY <1>6, NewRowsTyped, AppendProperties DEF Reopen, ParkContingency, TypeOK
  <2>3. state' \in WorkflowState /\ reopened' \in Nat /\ keyed' \in BOOLEAN
    <3>1. state' = "CONTINGENCY_AWAITING_APPROVAL" /\ reopened' = reopened + 1 /\ keyed' = FALSE
      BY <1>6 DEF Reopen
    <3>2. reopened' \in Nat
      BY <3>1 DEF TypeOK
    <3> QED  BY <3>1, <3>2 DEF WorkflowState
  <2>4. published' \in [Told -> Nat]
    <3>1. published' = [published EXCEPT !["reopened"] = @ + 1]
      BY <1>6 DEF Reopen
    <3>2. published \in [Told -> Nat]
      BY DEF TypeOK
    <3> QED  BY <3>1, <3>2, CountersTyped DEF Told
  <2>5. windows' \in Seq(Window)
    BY <1>4, <1>6 DEF Reopen
  <2>6. /\ evidence' \in [EvidenceKeys -> EvidenceItem]
        /\ approvals' \in [ApprovalKeys -> ApprovalRequirement]
    BY <1>6, PapersTyped DEF Reopen
  <2>7. UNCHANGED <<lots, reserved, outcome>>
    BY <1>6 DEF Reopen
  <2> QED  BY <1>1, <2>1, <2>2, <2>3, <2>4, <2>5, <2>6, <2>7 DEF TypeOK
<1>7. CASE Certify(w)
  <2>1. contracts' \in Seq(Contract)
    BY <1>3, <1>7, RowsTyped DEF Certify, TypeOK
  <2>2. published' \in [Told -> Nat]
    <3>1. published' = [published EXCEPT !["verified"] = @ + 1, !["knowledge"] = @ + 1]
      BY <1>7 DEF Certify
    <3>2. published \in [Told -> Nat]
      BY DEF TypeOK
    <3> QED  BY <3>1, <3>2, CountersTyped DEF Told
  <2>3. windows' \in Seq(Window)
    BY <1>4, <1>7 DEF Certify
  <2>4. state' = "VERIFIED_RECOVERY" /\ outcome' = "VERIFIED" /\ lots' = "RELEASED"
        /\ UNCHANGED <<reopened, interventions, evidence, approvals, keyed, reserved>>
    BY <1>7 DEF Certify, paperVars
  <2> QED  BY <1>1, <2>1, <2>2, <2>3, <2>4 DEF TypeOK, WorkflowState
<1>8. CASE BlockClosure(w)
  BY <1>1, <1>4, <1>8 DEF TypeOK, BlockClosure, paperVars, WorkflowState
<1>9. CASE StillMonitoring(w)
  BY <1>1, <1>4, <1>9 DEF TypeOK, StillMonitoring, paperVars, effectVars
<1> QED  BY <1>2, <1>5, <1>6, <1>7, <1>8, <1>9

\* What a user announces or drafts over the tools route changes its own count only.
ByHand == AnnounceByHand \/ DraftByHand

LEMMA ToldNames ==
  /\ "reopened" \in Told /\ "verified" \in Told /\ "knowledge" \in Told
  /\ Init => /\ published["reopened"] = 0 /\ published["verified"] = 0
             /\ published["knowledge"] = 0
<1>1. "reopened" \in Told /\ "verified" \in Told /\ "knowledge" \in Told
  BY DEF Told
<1> QED  BY <1>1 DEF Init

LEMMA ByHandOnlyCounts ==
  ASSUME TypeOK, ByHand
  PROVE  /\ UNCHANGED <<state, reopened, contracts, evidence, approvals, keyed,
                         interventions, windows, obs, streak, lots, reserved, outcome>>
         /\ published' \in [Told -> Nat]
         /\ \A e \in {"reopened", "verified", "knowledge"} : published'[e] = published[e]
<1>1. PICK h \in {"announced by hand", "drafted by hand"} :
        published' = [published EXCEPT ![h] = @ + 1]
  BY DEF ByHand, AnnounceByHand, DraftByHand
<1>2. h \in Told /\ published \in [Told -> Nat]
      /\ {"reopened", "verified", "knowledge"} \subseteq Told
  BY DEF Told, TypeOK
<1>3. published' \in [Told -> Nat]
  BY <1>1, <1>2, CountersTyped
<1>4. \A e \in {"reopened", "verified", "knowledge"} : published'[e] = published[e]
  BY <1>1, <1>2
<1>5. UNCHANGED <<state, reopened, contracts, evidence, approvals, keyed,
                  interventions, windows, obs, streak, lots, reserved, outcome>>
  BY DEF ByHand, AnnounceByHand, DraftByHand, paperVars
<1> QED  BY <1>3, <1>4, <1>5

LEMMA TypeStep == TypeOK /\ [Next]_vars => TypeOK'
<1> SUFFICES ASSUME TypeOK, [Next]_vars PROVE TypeOK'
  OBVIOUS
<1> USE DEF paperVars, effectVars
<1>1. CASE TriageFromAlert
  BY <1>1, NewRowsTyped DEF TypeOK, TriageFromAlert, WorkflowState
<1>2. ASSUME NEW role \in HumanRole, AcceptDiagnosis(role) PROVE TypeOK'
  <2>1. PICK i \in DOMAIN interventions :
          interventions' = [interventions EXCEPT ![i].status = "COMPLETED"]
    BY <1>2 DEF AcceptDiagnosis
  <2>2. interventions' \in Seq(Intervention)
    BY <2>1, RowsTyped DEF TypeOK
  <2>3. state' \in WorkflowState
        /\ UNCHANGED <<reopened, contracts, windows, obs, streak, paperVars, effectVars>>
    BY <1>2 DEF AcceptDiagnosis, WorkflowState
  <2> QED  BY <2>2, <2>3 DEF TypeOK
<1>3. CASE DraftContract
  BY <1>3, PapersTyped, AppendProperties DEF TypeOK, DraftContract, WorkflowState
<1>4. ASSUME NEW role \in HumanRole, ReviewContract(role) PROVE TypeOK'
  BY <1>4 DEF TypeOK, ReviewContract, WorkflowState
<1>5. ASSUME NEW k \in EvidenceKeys, SubmitEvidence(k) \/ EvidenceAges(k) PROVE TypeOK'
  BY <1>5 DEF TypeOK, SubmitEvidence, EvidenceAges
<1>6. ASSUME NEW k \in ApprovalKeys, NEW status \in {"APPROVED", "REJECTED"},
             NEW withKey \in BOOLEAN, DecideApproval(k, status, withKey)
      PROVE  TypeOK'
  BY <1>6 DEF TypeOK, DecideApproval
<1>7. CASE StartMonitoring
  BY <1>7, OpenWindowTyped DEF TypeOK, StartMonitoring
<1>8. ASSUME NEW role \in HumanRole, ApproveContingency(role) PROVE TypeOK'
  <2>1. PICK i \in DOMAIN interventions :
          interventions' = [interventions EXCEPT ![i].status = "IN_PROGRESS"]
    BY <1>8 DEF ApproveContingency
  <2>2. interventions' \in Seq(Intervention)
    BY <2>1, RowsTyped DEF TypeOK
  <2>3. approvals' \in [ApprovalKeys -> ApprovalRequirement]
    BY <1>8 DEF ApproveContingency, TypeOK
  <2>4. state' \in WorkflowState /\ keyed' \in BOOLEAN /\ reserved' \in Nat
        /\ UNCHANGED <<reopened, contracts, windows, obs, streak, evidence, lots,
                       outcome, published>>
    BY <1>8 DEF ApproveContingency, TypeOK, WorkflowState
  <2> QED  BY <2>2, <2>3, <2>4 DEF TypeOK
<1>9. CASE CompleteContingency
  <2>1. PICK i \in DOMAIN interventions :
          interventions' = [interventions EXCEPT ![i].status = "COMPLETED"]
    BY <1>9 DEF CompleteContingency
  <2>2. interventions' \in Seq(Intervention)
    BY <2>1, RowsTyped DEF TypeOK
  <2>3. HasContract /\ OpenWindow(2) /\ UNCHANGED <<reopened, paperVars, effectVars>>
    BY <1>9 DEF CompleteContingency
  <2> QED  BY <2>2, <2>3, OpenWindowTyped DEF TypeOK
<1>10. ASSUME NEW o \in Readings, NEW c \in Comparability, AdvanceCycle(o, c) PROVE TypeOK'
  BY <1>10, AdvanceTyped
<1>11. CASE ByHand
  BY <1>11, ByHandOnlyCounts DEF TypeOK
<1>12. CASE UNCHANGED vars
  BY <1>12 DEF TypeOK, vars
<1> QED
  BY <1>1, <1>2, <1>3, <1>4, <1>5, <1>6, <1>7, <1>8, <1>9, <1>10, <1>11, <1>12
     DEF Next, ByHand

LEMMA InitTyped == Init => TypeOK
<1> SUFFICES ASSUME Init PROVE TypeOK
  OBVIOUS
<1>1. contracts \in Seq(Contract) /\ interventions \in Seq(Intervention)
      /\ windows \in Seq(Window) /\ obs \in Seq(Readings)
  BY EmptySeq DEF Init
<1>2. published \in [Told -> Nat]
  BY DEF Init, Told
<1>3. /\ evidence \in [EvidenceKeys -> EvidenceItem]
      /\ approvals \in [ApprovalKeys -> ApprovalRequirement]
  BY PapersTyped DEF Init
<1> QED  BY <1>1, <1>2, <1>3 DEF Init, TypeOK

\* Every state of an incident is one its tables can hold.
THEOREM TypeCorrect == Spec => []TypeOK
BY InitTyped, TypeStep, PTL DEF Spec

-----------------------------------------------------------------------------
(* Repeated failure ends.                                                  *)

\* FailuresAreBounded is not inductive: that a parked reopening still has its
\* bearing to reserve must be added, since approve_contingency() reserves one.
BoundInv ==
  /\ FailuresAreBounded
  /\ state = "CONTINGENCY_AWAITING_APPROVAL" => reserved < reopened

LEMMA BoundAdvance ==
  ASSUME TypeOK, BoundInv, NEW o \in Readings, NEW c \in Comparability, AdvanceCycle(o, c)
  PROVE  BoundInv'
<1> USE DEF BoundInv, FailuresAreBounded
<1>1. reopened \in Nat /\ reserved \in Nat /\ EscalateAfter \in Nat
  BY WorkflowAssumption DEF TypeOK
<1>2. state = "MONITORING_RECOVERY"
  BY DEF AdvanceCycle
<1>3. PICK w \in DOMAIN windows :
        \/ ShouldEscalate /\ Escalate(w)
        \/ ~ShouldEscalate /\ Reopen(w)
        \/ Certify(w) \/ BlockClosure(w) \/ StillMonitoring(w)
  BY DEF AdvanceCycle
<1>4. CASE ShouldEscalate /\ Escalate(w)
  <2>1. state' = "ESCALATED" /\ UNCHANGED <<reopened, reserved>>
    BY <1>4 DEF Escalate
  <2> QED  BY <1>1, <1>4, <2>1 DEF ShouldEscalate
<1>5. CASE ~ShouldEscalate /\ Reopen(w)
  <2>1. state' = "CONTINGENCY_AWAITING_APPROVAL" /\ reopened' = reopened + 1
        /\ UNCHANGED reserved
    BY <1>5 DEF Reopen
  <2> QED  BY <1>1, <1>5, <2>1 DEF ShouldEscalate
<1>6. CASE Certify(w) \/ BlockClosure(w) \/ StillMonitoring(w)
  <2>1. state' \in {"VERIFIED_RECOVERY", "INSUFFICIENT_EVIDENCE", "MONITORING_RECOVERY"}
        /\ UNCHANGED <<reopened, reserved>>
    BY <1>2, <1>6 DEF Certify, BlockClosure, StillMonitoring, effectVars
  <2> QED  BY <1>1, <2>1
<1> QED  BY <1>3, <1>4, <1>5, <1>6

LEMMA BoundStep == TypeOK /\ BoundInv /\ [Next]_vars => BoundInv'
<1> SUFFICES ASSUME TypeOK, BoundInv, [Next]_vars PROVE BoundInv'
  OBVIOUS
<1> USE DEF BoundInv, FailuresAreBounded
<1>1. ASSUME UNCHANGED <<reopened, reserved>>,
             state' \notin {"CONTINGENCY_AWAITING_APPROVAL", "ESCALATED"} \/ state' = state
      PROVE  BoundInv'
  BY <1>1
<1>2. CASE TriageFromAlert
  BY <1>1, <1>2 DEF TriageFromAlert, effectVars
<1>3. ASSUME NEW role \in HumanRole, AcceptDiagnosis(role) PROVE BoundInv'
  BY <1>1, <1>3 DEF AcceptDiagnosis, effectVars
<1>4. CASE DraftContract
  BY <1>1, <1>4 DEF DraftContract, effectVars
<1>5. ASSUME NEW role \in HumanRole, ReviewContract(role) PROVE BoundInv'
  BY <1>1, <1>5 DEF ReviewContract, effectVars
<1>6. ASSUME NEW k \in EvidenceKeys, SubmitEvidence(k) \/ EvidenceAges(k) PROVE BoundInv'
  BY <1>1, <1>6 DEF SubmitEvidence, EvidenceAges, effectVars
<1>7. ASSUME NEW k \in ApprovalKeys, NEW status \in {"APPROVED", "REJECTED"},
             NEW withKey \in BOOLEAN, DecideApproval(k, status, withKey)
      PROVE  BoundInv'
  BY <1>1, <1>7 DEF DecideApproval, effectVars
<1>8. CASE StartMonitoring
  BY <1>1, <1>8 DEF StartMonitoring, OpenWindow, effectVars
<1>9. ASSUME NEW role \in HumanRole, ApproveContingency(role) PROVE BoundInv'
  <2>1. state = "CONTINGENCY_AWAITING_APPROVAL"
    BY <1>9, IntoContingency DEF ApproveContingency, CanTransition
  <2>2. state' = "CONTINGENCY_IN_PROGRESS" /\ reserved' = reserved + 1 /\ UNCHANGED reopened
    BY <1>9 DEF ApproveContingency
  <2> QED  BY <2>1, <2>2 DEF TypeOK
<1>10. CASE CompleteContingency
  BY <1>1, <1>10 DEF CompleteContingency, OpenWindow, effectVars
<1>11. ASSUME NEW o \in Readings, NEW c \in Comparability, AdvanceCycle(o, c) PROVE BoundInv'
  BY <1>11, BoundAdvance
<1>12. CASE ByHand
  BY <1>1, <1>12, ByHandOnlyCounts
<1>13. CASE UNCHANGED vars
  BY <1>1, <1>13 DEF vars, effectVars
<1> QED
  BY <1>2, <1>3, <1>4, <1>5, <1>6, <1>7, <1>8, <1>9, <1>10, <1>11, <1>12, <1>13
     DEF Next, ByHand

\* Whatever a plant does with an incident, it is reopened at most EscalateAfter
\* times, reserves at most one bearing for each, and is escalated only when a
\* failure follows the last of them (policy.should_escalate(), reopening.py).
THEOREM FailuresBounded == Spec => []FailuresAreBounded
<1>1. Init => BoundInv
  BY WorkflowAssumption DEF Init, BoundInv, FailuresAreBounded
<1>2. BoundInv => FailuresAreBounded
  BY DEF BoundInv
<1> QED  BY <1>1, <1>2, BoundStep, TypeCorrect, PTL DEF Spec

-----------------------------------------------------------------------------
(* Closure is earned.                                                      *)

\* What the verdict "verified" means, and what rules the others out (evaluate()).
LEMMA VerdictVerified ==
  ASSUME NEW h, NEW n, NEW f, NEW r, Verdict(h, n, f, r) = "verified"
  PROVE  n >= Required /\ ~FaultRecurred(h) /\ f = "fresh" /\ r = "APPROVED"
<1>1. ~Violated(h, n) /\ TechnicalPass(h, n, f) /\ QualityReleaseSatisfied(f, r)
  BY DEF Verdict
<1>2. n >= Required
  BY <1>1 DEF TechnicalPass, WindowComplete
<1>3. ~FaultRecurred(h)
  BY <1>1 DEF Violated, FaultStatus
<1>4. f = "fresh" /\ r = "APPROVED"
  BY <1>1 DEF QualityReleaseSatisfied, FirstPieceStatus
<1> QED  BY <1>2, <1>3, <1>4

LEMMA VerdictMonitoring ==
  ASSUME NEW h, NEW n, NEW f, NEW r, Verdict(h, n, f, r) = "monitoring"
  PROVE  ~FaultRecurred(h)
<1>1. ~Violated(h, n)
  BY DEF Verdict
<1> QED  BY <1>1 DEF Violated, FaultStatus

\* The counter in the window row never runs ahead of the observations it counts.
StreakInv ==
  /\ streak <= Len(obs)
  /\ \A i \in Len(obs) - streak + 1 .. Len(obs) : IsStable(obs[i])

LEMMA StreakStep == TypeOK /\ StreakInv /\ [Next]_vars => StreakInv'
<1> SUFFICES ASSUME TypeOK, StreakInv, [Next]_vars PROVE StreakInv'
  OBVIOUS
<1>1. ASSUME UNCHANGED <<obs, streak>> PROVE StreakInv'
  BY <1>1 DEF StreakInv
<1>2. ASSUME NEW q, OpenWindow(q) PROVE StreakInv'
  <2>1. obs' = <<>> /\ streak' = 0
    BY <1>2 DEF OpenWindow
  <2> QED  BY <2>1 DEF StreakInv
<1>3. ASSUME NEW o \in Readings, NEW c \in Comparability, AdvanceCycle(o, c) PROVE StreakInv'
  <2>1. obs' = Append(obs, o) /\ streak' = NextStreak(streak, o)
    BY <1>3 DEF AdvanceCycle
  <2>2. obs \in Seq(Readings) /\ streak \in Nat /\ Len(obs) \in Nat
    BY LenProperties DEF TypeOK
  <2>3. /\ Len(obs') = Len(obs) + 1 /\ obs'[Len(obs) + 1] = o
        /\ \A i \in 1 .. Len(obs) : obs'[i] = obs[i]
    BY <2>1, <2>2, AppendProperties
  <2>4. CASE IsStable(o)
    <3>1. streak' = streak + 1
      BY <2>1, <2>4 DEF NextStreak
    <3> QED  BY <2>2, <2>3, <2>4, <3>1 DEF StreakInv
  <2>5. CASE ~IsStable(o)
    <3>1. streak' = 0
      BY <2>1, <2>5 DEF NextStreak
    <3> QED  BY <2>2, <2>3, <3>1 DEF StreakInv
  <2> QED  BY <2>4, <2>5
<1>4. ASSUME Next PROVE StreakInv'
  <2>1. \/ UNCHANGED <<obs, streak>>
        \/ \E q \in {1, 2} : OpenWindow(q)
        \/ \E o \in Readings, c \in Comparability : AdvanceCycle(o, c)
    BY <1>4 DEF Next, TriageFromAlert, AcceptDiagnosis, DraftContract, ReviewContract,
                SubmitEvidence, EvidenceAges, DecideApproval, StartMonitoring,
                ApproveContingency, CompleteContingency, AnnounceByHand, DraftByHand
  <2> QED  BY <1>1, <1>2, <1>3, <2>1
<1>5. CASE UNCHANGED vars
  BY <1>1, <1>5 DEF vars
<1> QED  BY <1>4, <1>5

LEMMA StreakInvariant == Spec => []StreakInv
<1>1. Init => StreakInv
  BY DEF Init, StreakInv
<1> QED  BY <1>1, StreakStep, TypeCorrect, PTL DEF Spec

\* No operation but advance() closes an incident.
LEMMA ClosedByAdvance ==
  ASSUME [Next]_vars, state' = "VERIFIED_RECOVERY", state # "VERIFIED_RECOVERY"
  PROVE  \E o \in Readings, c \in Comparability, w \in DOMAIN windows :
           /\ AdvanceCycle(o, c)
           /\ Verdict(obs', streak', evidence[FirstPiece],
                      approvals["quality_release"]) = "verified"
           /\ Certify(w)
<1>1. Next
  BY DEF vars
<1>2. PICK o \in Readings, c \in Comparability : AdvanceCycle(o, c)
  BY <1>1 DEF Next, TriageFromAlert, AcceptDiagnosis, DraftContract, ReviewContract,
              SubmitEvidence, EvidenceAges, DecideApproval, StartMonitoring,
              ApproveContingency, CompleteContingency, OpenWindow, AnnounceByHand,
              DraftByHand
<1>3. PICK w \in DOMAIN windows :
        \/ Escalate(w) \/ Reopen(w) \/ BlockClosure(w) \/ StillMonitoring(w)
        \/ /\ Verdict(obs', streak', evidence[FirstPiece],
                      approvals["quality_release"]) = "verified"
           /\ Certify(w)
  BY <1>2 DEF AdvanceCycle
<1>4. ~(Escalate(w) \/ Reopen(w) \/ BlockClosure(w) \/ StillMonitoring(w))
  BY DEF Escalate, Reopen, BlockClosure, StillMonitoring
<1> QED  BY <1>2, <1>3, <1>4

\* An incident becomes verified only at a cycle that ends Required consecutive
\* stable ones, with no recurrence in the window, the first piece fresh and quality
\* released at that very moment, for every telemetry source and every path that
\* led there (advance(), evaluate(), finalize()).
THEOREM ClosureEarned == Spec => ClosureIsEarned
<1>1. TypeOK /\ TypeOK' /\ StreakInv' /\ [Next]_vars => [EarnedClosure]_vars
  <2> SUFFICES ASSUME TypeOK, TypeOK', StreakInv', [Next]_vars,
                      state' = "VERIFIED_RECOVERY", state # "VERIFIED_RECOVERY"
               PROVE  /\ Len(obs') >= Required
                      /\ \A i \in Len(obs') - Required + 1 .. Len(obs') : IsStable(obs'[i])
                      /\ \A i \in 1 .. Len(obs') : obs'[i].fault # ContractFault
                      /\ evidence[FirstPiece] = "fresh"
                      /\ approvals["quality_release"] = "APPROVED"
    BY DEF EarnedClosure
  <2>1. Verdict(obs', streak', evidence[FirstPiece], approvals["quality_release"])
          = "verified"
    BY ClosedByAdvance
  <2>2. /\ streak' >= Required /\ ~FaultRecurred(obs')
        /\ evidence[FirstPiece] = "fresh" /\ approvals["quality_release"] = "APPROVED"
    BY <2>1, VerdictVerified
  <2>3. streak' \in Nat /\ Len(obs') \in Nat /\ Required \in Nat
    BY LenProperties, EvaluationAssumption DEF TypeOK
  <2>4. \A i \in Len(obs') - Required + 1 .. Len(obs') : IsStable(obs'[i])
    BY <2>2, <2>3 DEF StreakInv
  <2>5. \A i \in 1 .. Len(obs') : obs'[i].fault # ContractFault
    BY <2>2 DEF FaultRecurred
  <2> QED  BY <2>2, <2>3, <2>4, <2>5 DEF StreakInv
<1> QED  BY <1>1, StreakInvariant, TypeCorrect, PTL DEF Spec, ClosureIsEarned

-----------------------------------------------------------------------------
(* Closure is all or nothing.                                              *)

Fulfilled == \E i \in DOMAIN contracts : contracts[i].status = "fulfilled"

\* What changing the status of one contract row, or appending a draft, does to
\* the statuses of all rows.
LEMMA StatusOfRows ==
  ASSUME NEW s \in Seq(Contract)
  PROVE  /\ \A i \in DOMAIN s, st \in STRING :
              /\ DOMAIN [s EXCEPT ![i].status = st] = DOMAIN s
              /\ \A j \in DOMAIN s :
                   [s EXCEPT ![i].status = st][j].status = IF j = i THEN st ELSE s[j].status
         /\ \A i \in DOMAIN s, st \in STRING, n \in Nat :
              /\ DOMAIN [s EXCEPT ![i].status = st, ![i].superseded_by = n] = DOMAIN s
              /\ \A j \in DOMAIN s :
                   [s EXCEPT ![i].status = st, ![i].superseded_by = n][j].status
                     = IF j = i THEN st ELSE s[j].status
<1>1. s \in [1 .. Len(s) -> Contract] /\ DOMAIN s = 1 .. Len(s)
  BY LenProperties
<1>2. \A j \in DOMAIN s : s[j] \in Contract
  BY <1>1
<1>3. ASSUME NEW i \in DOMAIN s, NEW st \in STRING, NEW j \in DOMAIN s
      PROVE  [s EXCEPT ![i].status = st][j].status = IF j = i THEN st ELSE s[j].status
  <2>1. CASE j = i
    <3>1. [s EXCEPT ![i].status = st][j] = [s[i] EXCEPT !.status = st]
      BY <1>1, <2>1
    <3>2. [s[i] EXCEPT !.status = st].status = st
      BY <1>2 DEF Contract
    <3> QED  BY <2>1, <3>1, <3>2
  <2>2. CASE j # i
    BY <1>1, <2>2
  <2> QED  BY <2>1, <2>2
<1>4. ASSUME NEW i \in DOMAIN s, NEW st \in STRING, NEW n \in Nat, NEW j \in DOMAIN s
      PROVE  [s EXCEPT ![i].status = st, ![i].superseded_by = n][j].status
               = IF j = i THEN st ELSE s[j].status
  <2>1. CASE j = i
    <3>1. [s EXCEPT ![i].status = st, ![i].superseded_by = n][j]
            = [s[i] EXCEPT !.status = st, !.superseded_by = n]
      BY <1>1, <2>1
    <3>2. [s[i] EXCEPT !.status = st, !.superseded_by = n].status = st
      BY <1>2 DEF Contract
    <3> QED  BY <2>1, <3>1, <3>2
  <2>2. CASE j # i
    BY <1>1, <2>2
  <2> QED  BY <2>1, <2>2
<1>5. \A i \in DOMAIN s, st \in STRING, n \in Nat :
        /\ DOMAIN [s EXCEPT ![i].status = st] = DOMAIN s
        /\ DOMAIN [s EXCEPT ![i].status = st, ![i].superseded_by = n] = DOMAIN s
  OBVIOUS
<1> QED  BY <1>3, <1>4, <1>5

LEMMA NothingFulfilledByAppend ==
  ASSUME NEW s \in Seq(Contract), NEW v \in {1, 2},
         \A j \in DOMAIN s : s[j].status # "fulfilled"
  PROVE  \A j \in DOMAIN Append(s, NewContract(v)) :
           Append(s, NewContract(v))[j].status # "fulfilled"
<1> DEFINE t == Append(s, NewContract(v))
<1>1. NewContract(v) \in Contract /\ NewContract(v).status = "draft"
  BY PapersTyped DEF NewContract
<1>2. t \in Seq(Contract) /\ Len(t) = Len(s) + 1 /\ t[Len(s) + 1] = NewContract(v)
      /\ \A j \in 1 .. Len(s) : t[j] = s[j]
  BY <1>1, AppendProperties
<1>3. DOMAIN t = 1 .. Len(s) + 1 /\ DOMAIN s = 1 .. Len(s) /\ Len(s) \in Nat
  BY <1>2, LenProperties
<1>4. ASSUME NEW j \in DOMAIN t PROVE t[j].status # "fulfilled"
  <2>1. j \in 1 .. Len(s) \/ j = Len(s) + 1
    BY <1>3
  <2> QED  BY <1>1, <1>2, <1>3, <2>1
<1> QED  BY <1>4

\* Closing does everything that closing is.
LEMMA ClosureByCertify ==
  ASSUME TypeOK, ClosureIsAllOrNothing, state = "MONITORING_RECOVERY", HasContract,
         NEW w \in DOMAIN windows, Certify(w)
  PROVE  ClosureIsAllOrNothing'
<1>1. Current \in DOMAIN contracts /\ contracts \in Seq(Contract)
  BY CurrentIsARow DEF TypeOK
<1>2. contracts' = [contracts EXCEPT ![Current].status = "fulfilled"]
  BY DEF Certify
<1>3. Fulfilled'
  BY <1>1, <1>2, StatusOfRows DEF Fulfilled
<1>4. published["verified"] = 0 /\ published["knowledge"] = 0
  BY DEF ClosureIsAllOrNothing
<1>5. published \in [Told -> Nat]
  BY DEF TypeOK
<1>6. published' = [published EXCEPT !["verified"] = @ + 1, !["knowledge"] = @ + 1]
  BY DEF Certify
<1>7. published'["verified"] = 1 /\ published'["knowledge"] = 1
  BY <1>4, <1>5, <1>6, ToldNames
<1>8. state' = "VERIFIED_RECOVERY" /\ lots' = "RELEASED" /\ outcome' = "VERIFIED"
  BY DEF Certify
<1> QED  BY <1>3, <1>7, <1>8 DEF ClosureIsAllOrNothing, Fulfilled

\* Any other step of the workflow leaves an open incident wholly open.
LEMMA ClosureElsewhere ==
  ASSUME ClosureIsAllOrNothing, state # "VERIFIED_RECOVERY", state' # "VERIFIED_RECOVERY",
         lots' = lots, outcome' # "VERIFIED", ~Fulfilled',
         published'["verified"] = published["verified"],
         published'["knowledge"] = published["knowledge"]
  PROVE  ClosureIsAllOrNothing'
BY DEF ClosureIsAllOrNothing, Fulfilled

LEMMA ClosureAdvance ==
  ASSUME TypeOK, ClosureIsAllOrNothing, NEW o \in Readings, NEW c \in Comparability,
         AdvanceCycle(o, c)
  PROVE  ClosureIsAllOrNothing'
<1>1. state = "MONITORING_RECOVERY" /\ HasContract
  BY DEF AdvanceCycle
<1>2. PICK w \in DOMAIN windows :
        Escalate(w) \/ Reopen(w) \/ Certify(w) \/ BlockClosure(w) \/ StillMonitoring(w)
  BY DEF AdvanceCycle
<1>3. ~Fulfilled /\ outcome # "VERIFIED"
  BY <1>1 DEF ClosureIsAllOrNothing, Fulfilled
<1>4. CASE Certify(w)
  BY <1>1, <1>4, ClosureByCertify
<1>5. CASE Reopen(w)
  <2> DEFINE t == [contracts EXCEPT ![Current].status = "violated",
                                    ![Current].superseded_by = Current + 1]
  <2>1. contracts \in Seq(Contract) /\ Current \in DOMAIN contracts /\ Current + 1 \in Nat
    BY <1>1, CurrentIsARow DEF TypeOK
  <2>2. t \in Seq(Contract)
    BY <2>1, RowsTyped
  <2>3. \A j \in DOMAIN t : t[j].status # "fulfilled"
    BY <1>3, <2>1, StatusOfRows DEF Fulfilled
  <2>4. contracts' = Append(t, NewContract(2))
    BY <1>5 DEF Reopen
  <2>5. ~Fulfilled'
    <3> HIDE DEF t
    <3> QED  BY <2>2, <2>3, <2>4, NothingFulfilledByAppend DEF Fulfilled
  <2>6. published' = [published EXCEPT !["reopened"] = @ + 1]
    BY <1>5 DEF Reopen
  <2>7. published'["verified"] = published["verified"]
        /\ published'["knowledge"] = published["knowledge"]
    BY <2>6 DEF TypeOK
  <2>8. state' = "CONTINGENCY_AWAITING_APPROVAL" /\ UNCHANGED <<lots, outcome>>
    BY <1>5 DEF Reopen
  <2> QED  BY <1>1, <1>3, <2>5, <2>7, <2>8, ClosureElsewhere
<1>6. CASE Escalate(w) \/ BlockClosure(w) \/ StillMonitoring(w)
  <2>1. /\ state' \in {"ESCALATED", "INSUFFICIENT_EVIDENCE", "MONITORING_RECOVERY"}
        /\ outcome' \in {"ESCALATED", "INSUFFICIENT_EVIDENCE", outcome}
        /\ UNCHANGED <<contracts, lots, published>>
    BY <1>1, <1>6 DEF Escalate, BlockClosure, StillMonitoring, effectVars
  <2>2. ~Fulfilled'
    BY <1>3, <2>1 DEF Fulfilled
  <2> QED  BY <1>1, <1>3, <2>1, <2>2, ClosureElsewhere
<1> QED  BY <1>2, <1>4, <1>5, <1>6

LEMMA ClosureStep == TypeOK /\ ClosureIsAllOrNothing /\ [Next]_vars => ClosureIsAllOrNothing'
<1> SUFFICES ASSUME TypeOK, ClosureIsAllOrNothing, [Next]_vars
             PROVE  ClosureIsAllOrNothing'
  OBVIOUS
<1>1. ASSUME UNCHANGED <<contracts, lots, outcome, published>>,
             \/ state' = state
             \/ state' # "VERIFIED_RECOVERY" /\ state # "VERIFIED_RECOVERY"
      PROVE  ClosureIsAllOrNothing'
  BY <1>1 DEF ClosureIsAllOrNothing
<1>2. CASE DraftContract
  <2>1. ~Fulfilled /\ outcome # "VERIFIED" /\ state = "INTERVENTION_RECORDED"
    BY <1>2 DEF DraftContract, ClosureIsAllOrNothing, Fulfilled
  <2>2. state' = "RECOVERY_CONTRACT_DRAFTED" /\ UNCHANGED <<lots, outcome, published>>
        /\ contracts' = Append(contracts, NewContract(1))
    BY <1>2 DEF DraftContract, effectVars
  <2>3. ~Fulfilled'
    BY <2>1, <2>2, NothingFulfilledByAppend DEF TypeOK, Fulfilled
  <2> QED  BY <2>1, <2>2, <2>3, ClosureElsewhere
<1>3. ASSUME NEW q \in {1, 2}, OpenWindow(q), HasContract, UNCHANGED effectVars
      PROVE  ClosureIsAllOrNothing'
  <2>1. state # "VERIFIED_RECOVERY" /\ state' = "MONITORING_RECOVERY"
    <3>1. state \in WorkflowState /\ state' = "MONITORING_RECOVERY"
          /\ CanWalk(<<state, "READY_FOR_MONITORING", "MONITORING_RECOVERY">>, "SYSTEM")
      BY <1>3 DEF OpenWindow
    <3>2. "READY_FOR_MONITORING" \in ALLOWED[state]
      BY <3>1 DEF CanWalk, CanTransition
    <3> QED  BY <3>1, <3>2, IntoMonitoring
  <2>2. ~Fulfilled /\ outcome # "VERIFIED"
    BY <2>1 DEF ClosureIsAllOrNothing, Fulfilled
  <2>3. contracts' = [contracts EXCEPT ![Current].status = "active"]
    BY <1>3 DEF OpenWindow
  <2>4. ~Fulfilled'
    <3>1. contracts \in Seq(Contract) /\ Current \in DOMAIN contracts
      BY <1>3, CurrentIsARow DEF TypeOK
    <3> QED  BY <2>2, <2>3, <3>1, StatusOfRows DEF Fulfilled
  <2> QED  BY <1>3, <2>1, <2>2, <2>4, ClosureElsewhere DEF effectVars
<1>4. CASE TriageFromAlert
  BY <1>1, <1>4 DEF TriageFromAlert, effectVars
<1>5. ASSUME NEW role \in HumanRole, AcceptDiagnosis(role) PROVE ClosureIsAllOrNothing'
  BY <1>1, <1>5 DEF AcceptDiagnosis, effectVars
<1>6. ASSUME NEW role \in HumanRole, ReviewContract(role) PROVE ClosureIsAllOrNothing'
  <2>1. state = "RECOVERY_CONTRACT_DRAFTED" /\ state' = "AWAITING_REQUIRED_EVIDENCE"
        /\ UNCHANGED <<contracts, effectVars>>
    BY <1>6, IntoReview DEF ReviewContract, CanTransition
  <2> QED  BY <1>1, <2>1 DEF effectVars
<1>7. ASSUME NEW k \in EvidenceKeys, SubmitEvidence(k) \/ EvidenceAges(k)
      PROVE  ClosureIsAllOrNothing'
  BY <1>1, <1>7 DEF SubmitEvidence, EvidenceAges, effectVars
<1>8. ASSUME NEW k \in ApprovalKeys, NEW status \in {"APPROVED", "REJECTED"},
             NEW withKey \in BOOLEAN, DecideApproval(k, status, withKey)
      PROVE  ClosureIsAllOrNothing'
  BY <1>1, <1>8 DEF DecideApproval, effectVars
<1>9. ASSUME NEW role \in HumanRole, ApproveContingency(role) PROVE ClosureIsAllOrNothing'
  <2>1. state = "CONTINGENCY_AWAITING_APPROVAL" /\ state' = "CONTINGENCY_IN_PROGRESS"
        /\ UNCHANGED <<contracts, lots, outcome, published>>
    BY <1>9, IntoContingency DEF ApproveContingency, CanTransition
  <2> QED  BY <1>1, <2>1
<1>10. CASE StartMonitoring
  BY <1>3, <1>10 DEF StartMonitoring
<1>11. CASE CompleteContingency
  BY <1>3, <1>11 DEF CompleteContingency
<1>12. ASSUME NEW o \in Readings, NEW c \in Comparability, AdvanceCycle(o, c)
       PROVE  ClosureIsAllOrNothing'
  BY <1>12, ClosureAdvance
<1>13. CASE ByHand
  BY <1>13, ByHandOnlyCounts DEF ClosureIsAllOrNothing
<1>14. CASE UNCHANGED vars
  BY <1>1, <1>14 DEF vars, effectVars
<1> QED
  BY <1>2, <1>4, <1>5, <1>6, <1>7, <1>8, <1>9, <1>10, <1>11, <1>12, <1>13, <1>14
     DEF Next, ByHand

\* In every reachable state the lots are released and the contract fulfilled
\* exactly when the incident is verified, and finalize() has made its own
\* announcement and its own knowledge candidate exactly then, once each: it never
\* does part.  Users may announce and draft by hand besides, in any state.
THEOREM ClosureAllOrNothing == Spec => []ClosureIsAllOrNothing
<1>1. Init => ClosureIsAllOrNothing
  BY ToldNames DEF Init, ClosureIsAllOrNothing
<1> QED  BY <1>1, ClosureStep, TypeCorrect, PTL DEF Spec

-----------------------------------------------------------------------------
(* The workflow implements VerifiedClosure.                                *)

LEMMA PhaseOfState ==
  /\ state = "MONITORING_RECOVERY"   => Phase = "observing"
  /\ state = "VERIFIED_RECOVERY"     => Phase = "closed"
  /\ state = "INSUFFICIENT_EVIDENCE" => Phase = "unproven"
  /\ state = "ESCALATED"             => Phase = "escalated"
  /\ state \notin {"MONITORING_RECOVERY", "VERIFIED_RECOVERY", "INSUFFICIENT_EVIDENCE",
                   "ESCALATED"} => Phase = "preparing"
BY DEF Phase

LEMMA PhaseOfNextState ==
  /\ state' = "MONITORING_RECOVERY"   => Phase' = "observing"
  /\ state' = "VERIFIED_RECOVERY"     => Phase' = "closed"
  /\ state' = "INSUFFICIENT_EVIDENCE" => Phase' = "unproven"
  /\ state' = "ESCALATED"             => Phase' = "escalated"
  /\ state' \notin {"MONITORING_RECOVERY", "VERIFIED_RECOVERY", "INSUFFICIENT_EVIDENCE",
                    "ESCALATED"} => Phase' = "preparing"
BY DEF Phase

\* Between two cycles, only quality changes for the promise.
LEMMA RefineQuality ==
  ASSUME Phase' = Phase, UNCHANGED <<obs, streak, reopened>>
  PROVE  Closure!QualityChanges
BY DEF Closure!QualityChanges, QualityReleased, FaultRecurred

LEMMA RefineOpen ==
  ASSUME NEW q \in {1, 2}, OpenWindow(q), UNCHANGED <<paperVars, reopened>>
  PROVE  Closure!StartObserving
<1>1. state \in WorkflowState /\ state' = "MONITORING_RECOVERY" /\ obs' = <<>> /\ streak' = 0
      /\ CanWalk(<<state, "READY_FOR_MONITORING", "MONITORING_RECOVERY">>, "SYSTEM")
  BY DEF OpenWindow
<1>2. "READY_FOR_MONITORING" \in ALLOWED[state]
  BY <1>1 DEF CanWalk, CanTransition
<1>3. Phase = "preparing" /\ Phase' = "observing"
  BY <1>1, <1>2, IntoMonitoring, PhaseOfState, PhaseOfNextState
<1>4. FaultRecurred(obs)' = FALSE
  BY <1>1 DEF FaultRecurred
<1>5. UNCHANGED <<QualityReleased, reopened>>
  BY DEF QualityReleased, paperVars
<1> QED  BY <1>1, <1>3, <1>4, <1>5 DEF Closure!StartObserving

LEMMA RefineAdvance ==
  ASSUME TypeOK, FailuresAreBounded, NEW o \in Readings, NEW c \in Comparability,
         AdvanceCycle(o, c)
  PROVE  Closure!Next
<1>1. state = "MONITORING_RECOVERY" /\ streak' = NextStreak(streak, o)
  BY DEF AdvanceCycle
<1>2. Closure!Cycle
  BY <1>1, PhaseOfState DEF Closure!Cycle, NextStreak, FaultRecurred
<1>3. reopened \in Nat /\ reopened <= EscalateAfter /\ EscalateAfter \in Nat
  BY WorkflowAssumption DEF TypeOK, FailuresAreBounded
<1> DEFINE v == Verdict(obs', streak', evidence[FirstPiece], approvals["quality_release"])
<1>4. PICK w \in DOMAIN windows :
        \/ ShouldEscalate /\ Escalate(w)
        \/ ~ShouldEscalate /\ Reopen(w)
        \/ v = "verified" /\ (Certify(w) \/ BlockClosure(w))
        \/ v = "monitoring" /\ StillMonitoring(w)
  BY DEF AdvanceCycle
<1>5. CASE ShouldEscalate /\ Escalate(w)
  <2>1. state' = "ESCALATED" /\ UNCHANGED <<reopened, paperVars>>
    BY <1>5 DEF Escalate
  <2>2. reopened = EscalateAfter /\ UNCHANGED QualityReleased
    BY <1>3, <1>5, <2>1 DEF QualityReleased, paperVars, ShouldEscalate
  <2> QED  BY <1>2, <2>1, <2>2, PhaseOfNextState DEF Closure!Next, Closure!GiveUp
<1>6. CASE ~ShouldEscalate /\ Reopen(w)
  <2>1. state' = "CONTINGENCY_AWAITING_APPROVAL" /\ reopened' = reopened + 1
        /\ evidence' = NoEvidence
    BY <1>6 DEF Reopen
  <2>2. QualityReleased' = FALSE
    BY <2>1 DEF QualityReleased, NoEvidence, EvidenceKeys
  <2>3. Phase' = "preparing"
    BY <2>1, PhaseOfNextState
  <2> QED  BY <1>2, <1>3, <1>6, <2>1, <2>2, <2>3 DEF Closure!Next, Closure!Fail, ShouldEscalate
<1>7. CASE v = "verified" /\ (Certify(w) \/ BlockClosure(w))
  <2>1. state' \in {"VERIFIED_RECOVERY", "INSUFFICIENT_EVIDENCE"}
        /\ UNCHANGED <<reopened, paperVars>>
    BY <1>7 DEF Certify, BlockClosure
  <2>2. streak' >= Required /\ ~FaultRecurred(obs)' /\ QualityReleased
    BY <1>7, VerdictVerified DEF QualityReleased, FaultRecurred
  <2>3. UNCHANGED QualityReleased
    BY <2>1 DEF QualityReleased, paperVars
  <2> QED  BY <1>2, <2>1, <2>2, <2>3, PhaseOfNextState
           DEF Closure!Next, Closure!Close, Closure!Decline
<1>8. CASE v = "monitoring" /\ StillMonitoring(w)
  <2>1. state' = state /\ UNCHANGED <<reopened, paperVars>>
    BY <1>8 DEF StillMonitoring
  <2>2. ~FaultRecurred(obs)'
    BY <1>8, VerdictMonitoring DEF FaultRecurred
  <2>3. UNCHANGED <<Phase, QualityReleased>>
    BY <2>1 DEF QualityReleased, paperVars, Phase
  <2> QED  BY <1>2, <2>1, <2>2, <2>3 DEF Closure!Next, Closure!KeepObserving
<1> QED  BY <1>4, <1>5, <1>6, <1>7, <1>8

LEMMA RefineStep ==
  TypeOK /\ FailuresAreBounded /\ [Next]_vars => [Closure!Next]_(Closure!vars)
<1> SUFFICES ASSUME TypeOK, FailuresAreBounded, [Next]_vars
             PROVE  [Closure!Next]_(Closure!vars)
  OBVIOUS
<1>1. ASSUME Phase' = Phase, UNCHANGED <<obs, streak, reopened>> PROVE Closure!Next
  BY <1>1, RefineQuality DEF Closure!Next
<1>2. CASE TriageFromAlert
  BY <1>1, <1>2, PhaseOfState, PhaseOfNextState DEF TriageFromAlert
<1>3. ASSUME NEW role \in HumanRole, AcceptDiagnosis(role) PROVE Closure!Next
  BY <1>1, <1>3, PhaseOfState, PhaseOfNextState DEF AcceptDiagnosis
<1>4. CASE DraftContract
  BY <1>1, <1>4, PhaseOfState, PhaseOfNextState DEF DraftContract
<1>5. ASSUME NEW role \in HumanRole, ReviewContract(role) PROVE Closure!Next
  <2>1. state = "RECOVERY_CONTRACT_DRAFTED" /\ state' = "AWAITING_REQUIRED_EVIDENCE"
        /\ UNCHANGED <<obs, streak, reopened>>
    BY <1>5, IntoReview DEF ReviewContract, CanTransition
  <2> QED  BY <1>1, <2>1, PhaseOfState, PhaseOfNextState
<1>6. ASSUME NEW k \in EvidenceKeys, SubmitEvidence(k) \/ EvidenceAges(k) PROVE Closure!Next
  BY <1>1, <1>6 DEF SubmitEvidence, EvidenceAges, Phase
<1>7. ASSUME NEW k \in ApprovalKeys, NEW status \in {"APPROVED", "REJECTED"},
             NEW withKey \in BOOLEAN, DecideApproval(k, status, withKey)
      PROVE  Closure!Next
  BY <1>1, <1>7 DEF DecideApproval, Phase
<1>8. CASE StartMonitoring
  BY <1>8, RefineOpen DEF StartMonitoring, Closure!Next
<1>9. ASSUME NEW role \in HumanRole, ApproveContingency(role) PROVE Closure!Next
  <2>1. state = "CONTINGENCY_AWAITING_APPROVAL" /\ state' = "CONTINGENCY_IN_PROGRESS"
        /\ UNCHANGED <<obs, streak, reopened>>
    BY <1>9, IntoContingency DEF ApproveContingency, CanTransition
  <2> QED  BY <1>1, <2>1, PhaseOfState, PhaseOfNextState
<1>10. CASE CompleteContingency
  BY <1>10, RefineOpen DEF CompleteContingency, Closure!Next
<1>11. ASSUME NEW o \in Readings, NEW c \in Comparability, AdvanceCycle(o, c)
       PROVE  Closure!Next
  BY <1>11, RefineAdvance
<1>12. CASE ByHand
  BY <1>1, <1>12, ByHandOnlyCounts DEF Phase
<1>13. CASE UNCHANGED vars
  BY <1>13 DEF vars, paperVars, effectVars, Closure!vars, Phase, QualityReleased, FaultRecurred
<1> QED
  BY <1>2, <1>3, <1>4, <1>5, <1>6, <1>7, <1>8, <1>9, <1>10, <1>11, <1>12, <1>13
     DEF Next, ByHand

\* Every behaviour of the eighteen-state workflow keeps the five-phase promise
\* of VerifiedClosure: closed only out of an observation that earned it, with
\* quality released at that cycle, and handed over after EscalateAfter failures.
THEOREM WorkflowImplementsClosure == Spec => ImplementsVerifiedClosure
<1>1. Init => Closure!Init
  <2> SUFFICES ASSUME Init PROVE Closure!Init
    OBVIOUS
  <2>1. Phase = "preparing"
    BY PhaseOfState DEF Init
  <2>2. FaultRecurred(obs) = FALSE
    BY DEF Init, FaultRecurred
  <2>3. QualityReleased = FALSE
    BY DEF Init, QualityReleased, NoEvidence, EvidenceKeys
  <2> QED  BY <2>1, <2>2, <2>3 DEF Init, Closure!Init
<1> QED  BY <1>1, RefineStep, TypeCorrect, FailuresBounded, PTL
         DEF Spec, ImplementsVerifiedClosure, Closure!Spec
-----------------------------------------------------------------------------
(* One trail per reopening, one window per contract.                       *)

\* The states before the contract is drafted, and those whose contract has had
\* its window opened; in between the current contract waits for its window.  An
\* escalated incident may have been either (a recovery debt may be breached while
\* the contract waits).
Early == {"NO_INCIDENT", "INTERVENTION_PROPOSED", "INTERVENTION_RECORDED"}
Waiting == {"RECOVERY_CONTRACT_DRAFTED", "AWAITING_REQUIRED_EVIDENCE",
            "CONTINGENCY_AWAITING_APPROVAL", "CONTINGENCY_IN_PROGRESS"}
Opened == {"MONITORING_RECOVERY", "VERIFIED_RECOVERY", "INSUFFICIENT_EVIDENCE"}

\* The states an incident passes through, and the rows of its tables in each.
\* The n-th contract has the n-th window and the n-th intervention; the first
\* `reopened` of each belong to failures.
StatesInv ==
  /\ state \in Early \cup Waiting \cup Opened \cup {"ESCALATED"}
  /\ state \in Early <=> contracts = <<>>
  /\ state \in {"RECOVERY_CONTRACT_DRAFTED"} \cup Early => reopened = 0
  /\ state \in {"CONTINGENCY_AWAITING_APPROVAL", "CONTINGENCY_IN_PROGRESS"} => reopened > 0
  /\ published["reopened"] = reopened

InterventionsInv ==
  /\ state = "NO_INCIDENT" => interventions = <<>>
  /\ state = "INTERVENTION_PROPOSED" => Len(interventions) = 1
  /\ state = "INTERVENTION_RECORDED" \/ HasContract =>
       /\ Len(interventions) = reopened + 1
       /\ interventions[1].status = "COMPLETED"
  /\ \A i \in DOMAIN interventions : interventions[i].sequence = IF i = 1 THEN 1 ELSE 2

ContractsInv ==
  /\ HasContract => Len(contracts) = reopened + 1
  /\ \A i \in DOMAIN contracts :
       IF i <= reopened
       THEN contracts[i].status = "violated" /\ contracts[i].superseded_by = i + 1
       ELSE contracts[i].status # "violated" /\ contracts[i].superseded_by = 0

WindowsInv ==
  /\ state \in Early \cup Waiting => Len(windows) = reopened
  /\ state \in Opened => Len(windows) = reopened + 1
  /\ Len(windows) \in {reopened, reopened + 1}
  /\ \A i \in DOMAIN windows :
       /\ windows[i].contract = i
       /\ windows[i].status = "failed" <=> i <= reopened

TrailInv == StatesInv /\ InterventionsInv /\ ContractsInv /\ WindowsInv

\* One field of one row changes, and nothing else of the table.
Stamp(s, i, st) == [s EXCEPT ![i].status = st]
Supersede(s, i, n) == [s EXCEPT ![i].status = "violated", ![i].superseded_by = n]

LEMMA ContractStamped ==
  ASSUME NEW s \in Seq(Contract), NEW i \in DOMAIN s, NEW st,
         NEW t, t = Stamp(s, i, st)
  PROVE  /\ Len(t) = Len(s) /\ DOMAIN t = DOMAIN s
         /\ \A j \in DOMAIN s : j # i => t[j] = s[j]
         /\ t[i].status = st /\ t[i].superseded_by = s[i].superseded_by
<1>1. s[i] \in Contract /\ DOMAIN s = 1 .. Len(s) /\ Len(s) \in Nat
  BY LenProperties
<1>2. DOMAIN t = DOMAIN s /\ t[i] = [s[i] EXCEPT !.status = st]
      /\ \A j \in DOMAIN s : j # i => t[j] = s[j]
  BY DEF Stamp, Supersede
<1>3. Len(t) = Len(s)
  BY <1>1, <1>2
<1>4. t[i].status = st /\ t[i].superseded_by = s[i].superseded_by
  BY <1>1, <1>2 DEF Contract
<1> QED  BY <1>2, <1>3, <1>4

LEMMA ContractSuperseded ==
  ASSUME NEW s \in Seq(Contract), NEW i \in DOMAIN s, NEW n,
         NEW t, t = Supersede(s, i, n)
  PROVE  /\ Len(t) = Len(s) /\ DOMAIN t = DOMAIN s
         /\ \A j \in DOMAIN s : j # i => t[j] = s[j]
         /\ t[i].status = "violated" /\ t[i].superseded_by = n
<1>1. s[i] \in Contract /\ DOMAIN s = 1 .. Len(s) /\ Len(s) \in Nat
  BY LenProperties
<1>2. DOMAIN t = DOMAIN s
      /\ t[i] = [s[i] EXCEPT !.status = "violated", !.superseded_by = n]
      /\ \A j \in DOMAIN s : j # i => t[j] = s[j]
  BY DEF Stamp, Supersede
<1>3. Len(t) = Len(s)
  BY <1>1, <1>2
<1>4. t[i].status = "violated" /\ t[i].superseded_by = n
  BY <1>1, <1>2 DEF Contract
<1> QED  BY <1>2, <1>3, <1>4

LEMMA InterventionStamped ==
  ASSUME NEW s \in Seq(Intervention), NEW i \in DOMAIN s, NEW st,
         NEW t, t = Stamp(s, i, st)
  PROVE  /\ Len(t) = Len(s) /\ DOMAIN t = DOMAIN s
         /\ \A j \in DOMAIN s : j # i => t[j] = s[j]
         /\ t[i].status = st /\ t[i].sequence = s[i].sequence
         /\ s[i].status = st => t = s
<1>1. s[i] \in Intervention /\ DOMAIN s = 1 .. Len(s) /\ Len(s) \in Nat
  BY LenProperties
<1>2. DOMAIN t = DOMAIN s /\ t[i] = [s[i] EXCEPT !.status = st]
      /\ \A j \in DOMAIN s : j # i => t[j] = s[j]
  BY DEF Stamp, Supersede
<1>3. Len(t) = Len(s)
  BY <1>1, <1>2
<1>4. t[i].status = st /\ t[i].sequence = s[i].sequence
  BY <1>1, <1>2 DEF Intervention
<1>5. s[i].status = st => t = s
  <2> SUFFICES ASSUME s[i].status = st PROVE t = s
    OBVIOUS
  <2>1. [s[i] EXCEPT !.status = st] = s[i]
    BY <1>1 DEF Intervention
  <2> QED  BY <1>1, <2>1 DEF Stamp
<1> QED  BY <1>2, <1>3, <1>4, <1>5

LEMMA WindowStamped ==
  ASSUME NEW s \in Seq(Window), NEW i \in DOMAIN s, NEW st,
         NEW t, t = Stamp(s, i, st)
  PROVE  /\ Len(t) = Len(s) /\ DOMAIN t = DOMAIN s
         /\ \A j \in DOMAIN s : j # i => t[j] = s[j]
         /\ t[i].status = st /\ t[i].contract = s[i].contract
<1>1. s[i] \in Window /\ DOMAIN s = 1 .. Len(s) /\ Len(s) \in Nat
  BY LenProperties
<1>2. DOMAIN t = DOMAIN s /\ t[i] = [s[i] EXCEPT !.status = st]
      /\ \A j \in DOMAIN s : j # i => t[j] = s[j]
  BY DEF Stamp, Supersede
<1>3. Len(t) = Len(s)
  BY <1>1, <1>2
<1>4. t[i].status = st /\ t[i].contract = s[i].contract
  BY <1>1, <1>2 DEF Window
<1> QED  BY <1>2, <1>3, <1>4

\* One row is added at the end.
LEMMA RowAppended ==
  ASSUME NEW S, NEW s \in Seq(S), NEW r \in S, NEW t, t = Append(s, r)
  PROVE  /\ t \in Seq(S) /\ Len(s) \in Nat
         /\ Len(t) = Len(s) + 1 /\ DOMAIN s = 1 .. Len(s) /\ DOMAIN t = 1 .. Len(s) + 1
         /\ t[Len(s) + 1] = r /\ \A j \in DOMAIN s : t[j] = s[j]
BY AppendProperties, LenProperties

\* The sizes of the tables, used everywhere below.
LEMMA TableSizes ==
  ASSUME TypeOK
  PROVE  /\ Len(contracts) \in Nat /\ DOMAIN contracts = 1 .. Len(contracts)
         /\ Len(windows) \in Nat /\ DOMAIN windows = 1 .. Len(windows)
         /\ Len(interventions) \in Nat /\ DOMAIN interventions = 1 .. Len(interventions)
         /\ contracts \in Seq(Contract) /\ windows \in Seq(Window)
         /\ interventions \in Seq(Intervention) /\ reopened \in Nat
         /\ contracts = <<>> <=> Len(contracts) = 0
BY LenProperties, EmptySeq DEF TypeOK

\* The intervention a step works on is the first one only before any reopening,
\* and then it is completed already.
LEMMA CurrentInterventionStamped ==
  ASSUME TypeOK, InterventionsInv, HasContract,
         NEW i \in DOMAIN interventions, CurrentIntervention(i),
         NEW st \in {"IN_PROGRESS", "COMPLETED"}, reopened > 0 \/ st = "COMPLETED",
         interventions' = Stamp(interventions, i, st)
  PROVE  /\ Len(interventions') = Len(interventions)
         /\ interventions'[1] = interventions[1]
         /\ \A j \in DOMAIN interventions' :
              interventions'[j].sequence = IF j = 1 THEN 1 ELSE 2
<1>1. /\ Len(interventions) = reopened + 1 /\ interventions[1].status = "COMPLETED"
      /\ \A j \in DOMAIN interventions :
           interventions[j].sequence = IF j = 1 THEN 1 ELSE 2
  BY DEF InterventionsInv
<1>2. reopened > 0 => i # 1
  <2> SUFFICES ASSUME reopened > 0, i = 1 PROVE FALSE
    OBVIOUS
  <2>1. 2 \in DOMAIN interventions
    BY <1>1, TableSizes
  <2>2. interventions[2].sequence = 2 /\ interventions[1].sequence = 1
    BY <1>1, <2>1
  <2> QED  BY <2>1, <2>2 DEF CurrentIntervention
<1>3. reopened = 0 => i = 1
  BY <1>1, TableSizes
<1>4. 1 \in DOMAIN interventions
  BY <1>1, TableSizes
<1>5. interventions \in Seq(Intervention) /\ reopened \in Nat
  BY TableSizes
<1>6. /\ Len(interventions') = Len(interventions) /\ DOMAIN interventions' = DOMAIN interventions
      /\ \A j \in DOMAIN interventions : j # i => interventions'[j] = interventions[j]
      /\ interventions'[i].sequence = interventions[i].sequence
      /\ interventions[i].status = st => interventions' = interventions
  BY <1>5, InterventionStamped
<1>7. interventions'[1] = interventions[1]
  <2>1. CASE reopened > 0
    BY <1>2, <1>4, <1>6, <2>1
  <2>2. CASE reopened = 0
    BY <1>1, <1>3, <1>6, <2>2
  <2> QED  BY <1>5, <2>1, <2>2
<1>8. \A j \in DOMAIN interventions :
        interventions'[j].sequence = interventions[j].sequence
  BY <1>6
<1> QED  BY <1>1, <1>6, <1>7, <1>8

\* A step that leaves the tables alone and stays in its part of the life.
LEMMA TrailUntouched ==
  ASSUME TrailInv, UNCHANGED <<reopened, contracts, interventions, windows>>,
         published'["reopened"] = published["reopened"],
         \/ state' = state
         \/ state = "RECOVERY_CONTRACT_DRAFTED" /\ state' = "AWAITING_REQUIRED_EVIDENCE"
  PROVE  TrailInv' /\ HistoryKept
BY DEF TrailInv, StatesInv, InterventionsInv, ContractsInv, WindowsInv, HistoryKept,
       Early, Waiting, Opened, HasContract, Current

\* The current contract gets its window.
LEMMA TrailOpen ==
  ASSUME TypeOK, TrailInv, ClosureIsAllOrNothing, HasContract, NEW q \in {1, 2}, OpenWindow(q),
         UNCHANGED <<reopened, published>>,
         \/ interventions' = interventions
         \/ \E i \in DOMAIN interventions :
              /\ CurrentIntervention(i)
              /\ interventions' = Stamp(interventions, i, "COMPLETED")
  PROVE  TrailInv' /\ HistoryKept
<1> DEFINE row == [contract |-> Current, sequence |-> q, status |-> "open"]
<1>1. /\ state' = "MONITORING_RECOVERY"
      /\ contracts' = Stamp(contracts, Current, "active")
      /\ windows' = Append(windows, row)
  BY DEF OpenWindow, Stamp
<1>2. state \in {"AWAITING_REQUIRED_EVIDENCE", "CONTINGENCY_IN_PROGRESS"}
  <2>1. state \in WorkflowState
        /\ CanWalk(<<state, "READY_FOR_MONITORING", "MONITORING_RECOVERY">>, "SYSTEM")
    BY DEF OpenWindow
  <2>2. "READY_FOR_MONITORING" \in ALLOWED[state]
    BY <2>1 DEF CanWalk, CanTransition
  <2> QED  BY <2>1, <2>2, IntoMonitoring
<1>3. Len(contracts) = reopened + 1 /\ Len(windows) = reopened /\ reopened \in Nat
  BY <1>2, TableSizes DEF TrailInv, ContractsInv, WindowsInv, Early, Waiting, HasContract, Current
<1>4. Current \in DOMAIN contracts /\ Current = reopened + 1
  BY <1>3, TableSizes DEF Current
<1>5. /\ Len(contracts') = Len(contracts) /\ DOMAIN contracts' = DOMAIN contracts
      /\ \A j \in DOMAIN contracts : j # Current => contracts'[j] = contracts[j]
      /\ contracts'[Current].status = "active"
      /\ contracts'[Current].superseded_by = contracts[Current].superseded_by
  <2>1. PICK s, i, t : s = contracts /\ i = Current /\ t = contracts'
    OBVIOUS
  <2>2. s \in Seq(Contract) /\ i \in DOMAIN s /\ t = Stamp(s, i, "active")
    BY <1>1, <1>4, <2>1, TableSizes
  <2>3. /\ Len(t) = Len(s) /\ DOMAIN t = DOMAIN s
        /\ \A j \in DOMAIN s : j # i => t[j] = s[j]
        /\ t[i].status = "active" /\ t[i].superseded_by = s[i].superseded_by
    BY <2>2, ContractStamped
  <2> QED  BY <2>1, <2>3
<1>6. /\ Len(windows') = Len(windows) + 1 /\ DOMAIN windows' = 1 .. Len(windows) + 1
      /\ windows'[Len(windows) + 1] = row /\ \A j \in DOMAIN windows : windows'[j] = windows[j]
  BY <1>1, <1>4, TableSizes, NewRowsTyped, RowAppended
<1>7. /\ Len(interventions') = Len(interventions)
      /\ interventions'[1] = interventions[1]
      /\ \A j \in DOMAIN interventions' :
           interventions'[j].sequence = IF j = 1 THEN 1 ELSE 2
  <2>1. CASE interventions' = interventions
    BY <2>1 DEF TrailInv, InterventionsInv
  <2>2. ASSUME NEW i \in DOMAIN interventions, CurrentIntervention(i),
               interventions' = Stamp(interventions, i, "COMPLETED")
        PROVE  <1>7!:
    BY <2>2, CurrentInterventionStamped DEF TrailInv
  <2> QED  BY <2>1, <2>2
<1>8. StatesInv'
  <2>1. contracts' # <<>> /\ reopened' = reopened /\ published' = published
    BY <1>3, <1>5
  <2> QED  BY <1>1, <2>1 DEF TrailInv, StatesInv, Early, Waiting, Opened
<1>9. InterventionsInv'
  <2>1. Len(interventions) = reopened + 1 /\ interventions[1].status = "COMPLETED"
    BY DEF TrailInv, InterventionsInv
  <2> QED  BY <1>1, <1>7, <2>1 DEF InterventionsInv
<1>10. ContractsInv'
  <2>1. \A i \in DOMAIN contracts :
          IF i <= reopened
          THEN contracts[i].status = "violated" /\ contracts[i].superseded_by = i + 1
          ELSE contracts[i].status # "violated" /\ contracts[i].superseded_by = 0
    BY DEF TrailInv, ContractsInv
  <2>2. ~(Current <= reopened) /\ "active" # "violated"
    BY <1>3, <1>4
  <2> QED  BY <1>3, <1>4, <1>5, <2>1, <2>2 DEF ContractsInv
<1>11. WindowsInv'
  <2>1. \A i \in DOMAIN windows :
          windows[i].contract = i /\ (windows[i].status = "failed" <=> i <= reopened)
    BY DEF TrailInv, WindowsInv
  <2>2. DOMAIN windows = 1 .. reopened /\ ~(reopened + 1 <= reopened)
    BY <1>3, TableSizes
  <2>3. ASSUME NEW i \in DOMAIN windows'
        PROVE  windows'[i].contract = i /\ (windows'[i].status = "failed" <=> i <= reopened)
    <3>1. CASE i = reopened + 1
      BY <1>3, <1>4, <1>6, <2>2, <3>1
    <3>2. CASE i # reopened + 1
      <4>1. i \in DOMAIN windows
        BY <1>3, <1>6, <2>2, <3>2
      <4> QED  BY <1>6, <2>1, <4>1
    <3> QED  BY <3>1, <3>2
  <2> QED  BY <1>1, <1>3, <1>6, <2>3 DEF WindowsInv, Opened, Early, Waiting
<1>12. HistoryKept
  <2>1. contracts[Current].status \notin {"violated", "fulfilled"}
    BY <1>2, <1>3, <1>4 DEF ClosureIsAllOrNothing, TrailInv, ContractsInv
  <2> QED  BY <1>3, <1>5, <1>6, <1>7, <2>1, TableSizes DEF HistoryKept
<1> QED  BY <1>8, <1>9, <1>10, <1>11, <1>12 DEF TrailInv

\* A monitored window fails, its contract is superseded, and the contingency
\* gets the next row of each table but the windows.
LEMMA TrailReopen ==
  ASSUME TypeOK, TrailInv, ClosureIsAllOrNothing, HasContract,
         state = "MONITORING_RECOVERY",
         NEW w \in DOMAIN windows, windows[w].contract = Current, Reopen(w)
  PROVE  TrailInv' /\ HistoryKept
<1> DEFINE row == [sequence |-> 2, status |-> "PROPOSED"]
<1>0. PICK old : old = Supersede(contracts, Current, Current + 1)
  OBVIOUS
<1>1. /\ state' = "CONTINGENCY_AWAITING_APPROVAL" /\ reopened' = reopened + 1
      /\ contracts' = Append(old, NewContract(2))
      /\ windows' = Stamp(windows, w, "failed")
      /\ interventions' = Append(interventions, row)
      /\ published' = [published EXCEPT !["reopened"] = @ + 1]
  BY <1>0 DEF Reopen, ParkContingency, Stamp, Supersede
<1>2. /\ Len(contracts) = reopened + 1 /\ Len(windows) = reopened + 1
      /\ Len(interventions) = reopened + 1 /\ reopened \in Nat
  BY TableSizes DEF TrailInv, ContractsInv, WindowsInv, InterventionsInv, Opened
<1>3. Current \in DOMAIN contracts /\ Current = reopened + 1
  BY <1>2, TableSizes DEF Current
<1>4. /\ Len(old) = Len(contracts) /\ DOMAIN old = DOMAIN contracts
      /\ \A j \in DOMAIN contracts : j # Current => old[j] = contracts[j]
      /\ old[Current].status = "violated" /\ old[Current].superseded_by = Current + 1
  <2>1. contracts \in Seq(Contract)
    BY TableSizes
  <2> QED  BY <1>0, <1>3, <2>1, ContractSuperseded
<1>5. old \in Seq(Contract)
  <2>1. contracts \in Seq(Contract) /\ Current + 1 \in Nat
    BY <1>2, <1>3, TableSizes
  <2>2. [contracts EXCEPT ![Current].status = "violated",
                          ![Current].superseded_by = Current + 1] \in Seq(Contract)
    BY <1>3, <2>1, RowsTyped
  <2> QED  BY <1>0, <2>2 DEF Supersede
<1>6. /\ Len(contracts') = reopened + 2 /\ DOMAIN contracts' = 1 .. reopened + 2
      /\ contracts'[reopened + 2] = NewContract(2)
      /\ \A j \in DOMAIN contracts : contracts'[j] = old[j]
  BY <1>1, <1>2, <1>4, <1>5, PapersTyped, RowAppended
<1>7. /\ Len(interventions') = reopened + 2 /\ DOMAIN interventions' = 1 .. reopened + 2
      /\ interventions'[reopened + 2] = row
      /\ \A j \in DOMAIN interventions : interventions'[j] = interventions[j]
  BY <1>1, <1>2, TableSizes, NewRowsTyped, RowAppended
<1>8. /\ Len(windows') = Len(windows) /\ DOMAIN windows' = DOMAIN windows
      /\ \A j \in DOMAIN windows : j # w => windows'[j] = windows[j]
      /\ windows'[w].status = "failed" /\ windows'[w].contract = windows[w].contract
  <2>1. windows \in Seq(Window) /\ windows' = Stamp(windows, w, "failed")
    BY <1>1, TableSizes
  <2> QED  BY <2>1, WindowStamped
<1>9. w = reopened + 1
  BY <1>3 DEF TrailInv, WindowsInv
<1>10. published'["reopened"] = reopened'
  BY <1>1 DEF TypeOK, TrailInv, StatesInv, Told
<1>11. StatesInv'
  <2>1. contracts' # <<>> /\ reopened' > 0
    BY <1>1, <1>2, <1>6
  <2> QED  BY <1>1, <1>10, <2>1 DEF StatesInv, Early, Waiting, Opened
<1>12. InterventionsInv'
  <2>1. /\ interventions[1].status = "COMPLETED" /\ 1 \in DOMAIN interventions
        /\ \A j \in DOMAIN interventions :
             interventions[j].sequence = IF j = 1 THEN 1 ELSE 2
    BY <1>2, TableSizes DEF TrailInv, InterventionsInv
  <2>2. ASSUME NEW j \in DOMAIN interventions'
        PROVE  interventions'[j].sequence = IF j = 1 THEN 1 ELSE 2
    <3>1. CASE j = reopened + 2
      BY <1>2, <1>7, <3>1
    <3>2. CASE j # reopened + 2
      <4>1. j \in DOMAIN interventions
        BY <1>2, <1>7, <3>2, TableSizes
      <4> QED  BY <1>7, <2>1, <4>1
    <3> QED  BY <3>1, <3>2
  <2>3. Len(interventions') = reopened' + 1 /\ interventions'[1].status = "COMPLETED"
    BY <1>1, <1>2, <1>7, <2>1
  <2> QED  BY <1>1, <2>2, <2>3 DEF InterventionsInv
<1>13. ContractsInv'
  <2>1. \A i \in DOMAIN contracts : i <= reopened =>
          contracts[i].status = "violated" /\ contracts[i].superseded_by = i + 1
    BY DEF TrailInv, ContractsInv
  <2>2. ASSUME NEW j \in DOMAIN contracts'
        PROVE  IF j <= reopened'
               THEN contracts'[j].status = "violated" /\ contracts'[j].superseded_by = j + 1
               ELSE contracts'[j].status # "violated" /\ contracts'[j].superseded_by = 0
    <3>1. CASE j = reopened + 2
      <4>1. NewContract(2).status = "draft" /\ NewContract(2).superseded_by = 0
        BY DEF NewContract
      <4> QED  BY <1>1, <1>2, <1>6, <3>1, <4>1
    <3>2. CASE j = reopened + 1
      BY <1>1, <1>2, <1>3, <1>4, <1>6, <3>2
    <3>3. CASE j \notin {reopened + 1, reopened + 2}
      <4>1. j \in DOMAIN contracts /\ j <= reopened /\ j # Current
        BY <1>2, <1>3, <1>6, <3>3, TableSizes
      <4>2. contracts'[j] = contracts[j]
        BY <1>4, <1>6, <4>1
      <4> QED  BY <1>1, <1>2, <2>1, <4>1, <4>2
    <3> QED  BY <3>1, <3>2, <3>3
  <2> QED  BY <1>1, <1>2, <1>6, <2>2 DEF ContractsInv
<1>14. WindowsInv'
  <2>1. \A i \in DOMAIN windows :
          windows[i].contract = i /\ (windows[i].status = "failed" <=> i <= reopened)
    BY DEF TrailInv, WindowsInv
  <2>2. ASSUME NEW i \in DOMAIN windows'
        PROVE  windows'[i].contract = i /\ (windows'[i].status = "failed" <=> i <= reopened')
    <3>1. CASE i = w
      <4>1. windows'[i].contract = i /\ windows'[i].status = "failed"
        BY <1>8, <2>1, <3>1
      <4>2. i <= reopened'
        BY <1>1, <1>2, <1>9, <3>1
      <4> QED  BY <4>1, <4>2
    <3>2. CASE i # w
      <4>1. i \in DOMAIN windows /\ i <= reopened
        BY <1>2, <1>8, <1>9, <3>2, TableSizes
      <4> QED  BY <1>1, <1>2, <1>8, <2>1, <3>2, <4>1
    <3> QED  BY <3>1, <3>2
  <2> QED  BY <1>1, <1>2, <1>8, <2>2 DEF WindowsInv, Opened
<1>15. HistoryKept
  <2>1. contracts[Current].status \notin {"violated", "fulfilled"}
    BY <1>2, <1>3 DEF ClosureIsAllOrNothing, TrailInv, ContractsInv
  <2>2. windows[w].status # "failed"
    BY <1>2, <1>9 DEF TrailInv, WindowsInv
  <2>3. interventions'[1] = interventions[1]
    BY <1>2, <1>7, TableSizes
  <2>4. \A i \in DOMAIN contracts : i # Current => contracts'[i] = contracts[i]
    BY <1>4, <1>6
  <2> QED  BY <1>2, <1>6, <1>7, <1>8, <2>1, <2>2, <2>3, <2>4, TableSizes DEF HistoryKept
<1> QED  BY <1>11, <1>12, <1>13, <1>14, <1>15 DEF TrailInv

\* A cycle that reopens nothing marks the window monitored, and may fulfil the
\* current contract.
LEMMA TrailCycle ==
  ASSUME TypeOK, TrailInv, HasContract, state = "MONITORING_RECOVERY",
         state' \in Opened \cup {"ESCALATED"},
         NEW w \in DOMAIN windows, windows[w].contract = Current,
         windows' = Stamp(windows, w, "monitoring"),
         contracts' = contracts \/ contracts' = Stamp(contracts, Current, "fulfilled"),
         ClosureIsAllOrNothing,
         published'["reopened"] = published["reopened"],
         UNCHANGED <<reopened, interventions>>
  PROVE  TrailInv' /\ HistoryKept
<1>1. /\ Len(contracts) = reopened + 1 /\ Len(windows) = reopened + 1 /\ reopened \in Nat
  BY TableSizes DEF TrailInv, ContractsInv, WindowsInv, Opened
<1>2. Current \in DOMAIN contracts /\ Current = reopened + 1
  BY <1>1, TableSizes DEF Current
<1>3. w = reopened + 1
  BY <1>2 DEF TrailInv, WindowsInv
<1>4. /\ Len(windows') = Len(windows) /\ DOMAIN windows' = DOMAIN windows
      /\ \A j \in DOMAIN windows : j # w => windows'[j] = windows[j]
      /\ windows'[w].status = "monitoring" /\ windows'[w].contract = windows[w].contract
  <2>1. windows \in Seq(Window)
    BY TableSizes
  <2> QED  BY <2>1, WindowStamped
<1>5. contracts[Current].status \notin {"violated", "fulfilled"}
      /\ contracts[Current].superseded_by = 0
  BY <1>1, <1>2 DEF ClosureIsAllOrNothing, TrailInv, ContractsInv
<1>6. /\ Len(contracts') = Len(contracts) /\ DOMAIN contracts' = DOMAIN contracts
      /\ \A j \in DOMAIN contracts : j # Current => contracts'[j] = contracts[j]
      /\ contracts'[Current].status # "violated" /\ contracts'[Current].superseded_by = 0
  <2>1. CASE contracts' = contracts
    BY <1>5, <2>1
  <2>2. CASE contracts' = Stamp(contracts, Current, "fulfilled")
    <3>1. contracts \in Seq(Contract)
      BY TableSizes
    <3>2. /\ Len(contracts') = Len(contracts) /\ DOMAIN contracts' = DOMAIN contracts
          /\ \A j \in DOMAIN contracts : j # Current => contracts'[j] = contracts[j]
          /\ contracts'[Current].status = "fulfilled"
          /\ contracts'[Current].superseded_by = contracts[Current].superseded_by
      BY <1>2, <2>2, <3>1, ContractStamped
    <3> QED  BY <1>5, <3>2
  <2> QED  BY <2>1, <2>2
<1>7. StatesInv'
  <2>1. contracts' # <<>> /\ reopened' = reopened
    BY <1>1, <1>6
  <2> QED  BY <2>1 DEF TrailInv, StatesInv, Early, Waiting, Opened
<1>8. InterventionsInv'
  BY DEF TrailInv, InterventionsInv, HasContract, Current, Opened
<1>9. ContractsInv'
  <2>1. \A i \in DOMAIN contracts : i <= reopened =>
          contracts[i].status = "violated" /\ contracts[i].superseded_by = i + 1
    BY DEF TrailInv, ContractsInv
  <2>2. DOMAIN contracts = 1 .. reopened + 1
    BY <1>1, TableSizes
  <2> QED  BY <1>1, <1>2, <1>6, <2>1, <2>2 DEF ContractsInv
<1>10. WindowsInv'
  <2>1. \A i \in DOMAIN windows :
          windows[i].contract = i /\ (windows[i].status = "failed" <=> i <= reopened)
    BY DEF TrailInv, WindowsInv
  <2> QED  BY <1>1, <1>3, <1>4, <2>1 DEF TrailInv, WindowsInv, Opened, Early, Waiting
<1>11. HistoryKept
  BY <1>1, <1>3, <1>4, <1>5, <1>6, TableSizes DEF HistoryKept, TrailInv, WindowsInv
<1> QED  BY <1>7, <1>8, <1>9, <1>10, <1>11 DEF TrailInv

LEMMA TrailAdvance ==
  ASSUME TypeOK, TrailInv, ClosureIsAllOrNothing, NEW o \in Readings, NEW c \in Comparability,
         AdvanceCycle(o, c)
  PROVE  TrailInv' /\ HistoryKept
<1>1. HasContract /\ state = "MONITORING_RECOVERY"
  BY DEF AdvanceCycle
<1>2. PICK w \in DOMAIN windows :
        /\ ActiveWindow(w)
        /\ Escalate(w) \/ Reopen(w) \/ Certify(w) \/ BlockClosure(w) \/ StillMonitoring(w)
  BY DEF AdvanceCycle
<1>3. windows[w].contract = Current
  BY <1>2 DEF ActiveWindow, IsActive
<1>4. CASE Reopen(w)
  BY <1>1, <1>3, <1>4, TrailReopen
<1>5. CASE Certify(w)
  <2>1. /\ state' \in Opened /\ windows' = Stamp(windows, w, "monitoring")
        /\ contracts' = Stamp(contracts, Current, "fulfilled")
        /\ UNCHANGED <<reopened, interventions>>
    BY <1>5 DEF Certify, Stamp, Opened
  <2>2. published'["reopened"] = published["reopened"]
    BY <1>5 DEF Certify, TypeOK, Told
  <2> QED  BY <1>1, <1>3, <2>1, <2>2, TrailCycle
<1>6. CASE Escalate(w) \/ BlockClosure(w) \/ StillMonitoring(w)
  <2>1. /\ state' \in Opened \cup {"ESCALATED"}
        /\ windows' = Stamp(windows, w, "monitoring")
        /\ UNCHANGED <<reopened, contracts, interventions, published>>
    BY <1>1, <1>6 DEF Escalate, BlockClosure, StillMonitoring, effectVars, Stamp, Opened
  <2> QED  BY <1>1, <1>3, <2>1, TrailCycle
<1> QED  BY <1>2, <1>4, <1>5, <1>6

LEMMA TrailStep ==
  TypeOK /\ ClosureIsAllOrNothing /\ TrailInv /\ [Next]_vars => TrailInv' /\ HistoryKept
<1> SUFFICES ASSUME TypeOK, ClosureIsAllOrNothing, TrailInv, [Next]_vars
             PROVE  TrailInv' /\ HistoryKept
  OBVIOUS
<1>1. CASE TriageFromAlert
  <2>1. /\ state = "NO_INCIDENT" /\ state' = "INTERVENTION_PROPOSED"
        /\ interventions' = <<[sequence |-> 1, status |-> "PROPOSED"]>>
        /\ UNCHANGED <<reopened, contracts, windows, published>>
    BY <1>1 DEF TriageFromAlert, effectVars
  <2>2. contracts = <<>> /\ interventions = <<>>
    BY <2>1 DEF TrailInv, StatesInv, InterventionsInv, Early
  <2>3. StatesInv' /\ ContractsInv' /\ WindowsInv'
    BY <2>1, <2>2 DEF TrailInv, StatesInv, ContractsInv, WindowsInv, Early, Waiting, Opened,
                      HasContract, Current
  <2>4. InterventionsInv'
    BY <2>1, <2>2 DEF InterventionsInv, HasContract, Current
  <2>5. HistoryKept
    BY <2>1, <2>2, TableSizes DEF HistoryKept, HasContract, Current
  <2> QED  BY <2>3, <2>4, <2>5 DEF TrailInv
<1>2. ASSUME NEW role \in HumanRole, AcceptDiagnosis(role) PROVE TrailInv' /\ HistoryKept
  <2>1. PICK i \in DOMAIN interventions :
          interventions' = Stamp(interventions, i, "COMPLETED")
    BY <1>2 DEF AcceptDiagnosis, Stamp
  <2>2. /\ state = "INTERVENTION_PROPOSED" /\ state' = "INTERVENTION_RECORDED"
        /\ UNCHANGED <<reopened, contracts, windows, published>>
    BY <1>2 DEF AcceptDiagnosis, effectVars
  <2>3. /\ Len(interventions) = 1 /\ contracts = <<>> /\ reopened = 0
        /\ \A j \in DOMAIN interventions : interventions[j].sequence = IF j = 1 THEN 1 ELSE 2
    BY <2>2 DEF TrailInv, StatesInv, InterventionsInv, Early
  <2>4. i = 1 /\ interventions \in Seq(Intervention)
    BY <2>3, TableSizes
  <2>5. /\ Len(interventions') = 1 /\ DOMAIN interventions' = DOMAIN interventions
        /\ interventions'[1].status = "COMPLETED"
        /\ interventions'[1].sequence = interventions[1].sequence
    BY <2>1, <2>3, <2>4, InterventionStamped
  <2>6. DOMAIN interventions = {1}
    BY <2>3, TableSizes
  <2>7. StatesInv' /\ ContractsInv' /\ WindowsInv'
    BY <2>2, <2>3 DEF TrailInv, StatesInv, ContractsInv, WindowsInv, Early, Waiting, Opened,
                      HasContract, Current
  <2>8. InterventionsInv'
    BY <2>2, <2>3, <2>5, <2>6 DEF InterventionsInv
  <2>9. HistoryKept
    BY <2>2, <2>3, <2>5, TableSizes DEF HistoryKept, HasContract, Current
  <2> QED  BY <2>7, <2>8, <2>9 DEF TrailInv
<1>3. CASE DraftContract
  <2>1. /\ state = "INTERVENTION_RECORDED" /\ state' = "RECOVERY_CONTRACT_DRAFTED"
        /\ contracts' = Append(contracts, NewContract(1))
        /\ UNCHANGED <<reopened, interventions, windows, published>>
    BY <1>3 DEF DraftContract, effectVars
  <2>2. contracts = <<>> /\ reopened = 0 /\ Len(contracts) = 0
    BY <2>1, TableSizes DEF TrailInv, StatesInv, Early
  <2>3. /\ Len(contracts') = 1 /\ DOMAIN contracts' = 1 .. 1 /\ contracts'[1] = NewContract(1)
    BY <2>1, <2>2, TableSizes, PapersTyped, RowAppended
  <2>4. NewContract(1).status = "draft" /\ NewContract(1).superseded_by = 0
    BY DEF NewContract
  <2>5. StatesInv'
    <3>1. contracts' # <<>>
      BY <2>3
    <3> QED  BY <2>1, <2>2, <3>1 DEF TrailInv, StatesInv, Early, Waiting, Opened
  <2>6. InterventionsInv'
    BY <2>1, <2>2 DEF TrailInv, InterventionsInv
  <2>7. ContractsInv'
    BY <2>1, <2>2, <2>3, <2>4 DEF ContractsInv
  <2>8. WindowsInv'
    BY <2>1 DEF TrailInv, WindowsInv, Opened, Early, Waiting
  <2>9. HistoryKept
    BY <2>1, <2>2, <2>3, TableSizes DEF HistoryKept, HasContract, Current
  <2> QED  BY <2>5, <2>6, <2>7, <2>8, <2>9 DEF TrailInv
<1>4. ASSUME NEW role \in HumanRole, ReviewContract(role) PROVE TrailInv' /\ HistoryKept
  <2>1. state = "RECOVERY_CONTRACT_DRAFTED" /\ state' = "AWAITING_REQUIRED_EVIDENCE"
        /\ UNCHANGED <<reopened, contracts, interventions, windows, published>>
    BY <1>4, IntoReview DEF ReviewContract, CanTransition, effectVars
  <2> QED  BY <2>1, TrailUntouched
<1>5. ASSUME NEW k \in EvidenceKeys, SubmitEvidence(k) \/ EvidenceAges(k)
      PROVE  TrailInv' /\ HistoryKept
  BY <1>5, TrailUntouched DEF SubmitEvidence, EvidenceAges, effectVars
<1>6. ASSUME NEW k \in ApprovalKeys, NEW status \in {"APPROVED", "REJECTED"},
             NEW withKey \in BOOLEAN, DecideApproval(k, status, withKey)
      PROVE  TrailInv' /\ HistoryKept
  BY <1>6, TrailUntouched DEF DecideApproval, effectVars
<1>7. CASE StartMonitoring
  BY <1>7, TrailOpen DEF StartMonitoring, effectVars
<1>8. ASSUME NEW role \in HumanRole, ApproveContingency(role) PROVE TrailInv' /\ HistoryKept
  <2>1. PICK i \in DOMAIN interventions :
          /\ CurrentIntervention(i)
          /\ interventions' = Stamp(interventions, i, "IN_PROGRESS")
    BY <1>8 DEF ApproveContingency, Stamp
  <2>2. /\ HasContract /\ state = "CONTINGENCY_AWAITING_APPROVAL"
        /\ state' = "CONTINGENCY_IN_PROGRESS"
        /\ UNCHANGED <<reopened, contracts, windows, published>>
    BY <1>8, IntoContingency DEF ApproveContingency, CanTransition
  <2>3. reopened > 0
    BY <2>2 DEF TrailInv, StatesInv
  <2>4. /\ Len(interventions') = Len(interventions)
        /\ interventions'[1] = interventions[1]
        /\ \A j \in DOMAIN interventions' :
             interventions'[j].sequence = IF j = 1 THEN 1 ELSE 2
    BY <2>1, <2>2, <2>3, CurrentInterventionStamped DEF TrailInv
  <2>5. StatesInv' /\ ContractsInv' /\ WindowsInv'
    BY <2>2, <2>3 DEF TrailInv, StatesInv, ContractsInv, WindowsInv, Early, Waiting, Opened,
                      HasContract, Current
  <2>6. InterventionsInv'
    BY <2>2, <2>4 DEF TrailInv, InterventionsInv
  <2>7. HistoryKept
    BY <2>2, <2>4, TableSizes DEF HistoryKept
  <2> QED  BY <2>5, <2>6, <2>7 DEF TrailInv
<1>9. CASE CompleteContingency
  <2>1. PICK i \in DOMAIN interventions :
          /\ CurrentIntervention(i)
          /\ interventions' = Stamp(interventions, i, "COMPLETED")
    BY <1>9 DEF CompleteContingency, Stamp
  <2>2. HasContract /\ OpenWindow(2) /\ UNCHANGED <<reopened, published>>
    BY <1>9 DEF CompleteContingency, effectVars
  <2> QED  BY <2>1, <2>2, TrailOpen
<1>10. ASSUME NEW o \in Readings, NEW c \in Comparability, AdvanceCycle(o, c)
       PROVE  TrailInv' /\ HistoryKept
  BY <1>10, TrailAdvance
<1>11. CASE ByHand
  BY <1>11, ByHandOnlyCounts, TrailUntouched
<1>12. CASE UNCHANGED vars
  BY <1>12, TrailUntouched DEF vars, effectVars
<1> QED
  BY <1>1, <1>2, <1>3, <1>4, <1>5, <1>6, <1>7, <1>8, <1>9, <1>10, <1>11, <1>12
     DEF Next, ByHand

LEMMA TrailInvariant == Spec => []TrailInv
<1>1. Init => TrailInv
  BY ToldNames DEF Init, TrailInv, StatesInv, InterventionsInv, ContractsInv, WindowsInv, Early,
         Waiting, Opened, HasContract, Current
<1> QED  BY <1>1, TrailStep, TypeCorrect, ClosureAllOrNothing, PTL DEF Spec

\* No step of any request removes a row, or rewrites a contract that was decided,
\* a window that failed or the first, completed intervention.
THEOREM HistoryPreserved == Spec => HistoryIsPreserved
<1>1. TypeOK /\ ClosureIsAllOrNothing /\ TrailInv /\ [Next]_vars => [HistoryKept]_vars
  BY TrailStep
<1> QED  BY <1>1, TrailInvariant, TypeCorrect, ClosureAllOrNothing, PTL
         DEF Spec, HistoryIsPreserved

LEMMA TrailTellsReopenings == TypeOK /\ TrailInv => ReopeningLeavesOneTrail
<1> SUFFICES ASSUME TypeOK, TrailInv PROVE ReopeningLeavesOneTrail
  OBVIOUS
<1>1. /\ reopened \in Nat /\ Len(windows) >= reopened /\ DOMAIN windows = 1 .. Len(windows)
      /\ \A i \in DOMAIN windows : windows[i].status = "failed" <=> i <= reopened
  <2>1. Len(windows) \in {reopened, reopened + 1}
        /\ \A i \in DOMAIN windows : windows[i].status = "failed" <=> i <= reopened
    BY DEF TrailInv, WindowsInv
  <2> QED  BY <2>1, TableSizes
<1>2. {i \in DOMAIN windows : windows[i].status = "failed"} = 1 .. reopened
  BY <1>1
<1>3. Cardinality(1 .. reopened) = reopened
  BY <1>1, FS_Interval
<1>4. ASSUME NEW i \in DOMAIN contracts
      PROVE  IF i < Current
             THEN contracts[i].status = "violated" /\ contracts[i].superseded_by = i + 1
             ELSE contracts[i].status # "violated" /\ contracts[i].superseded_by = 0
  <2>1. HasContract /\ i \in 1 .. Len(contracts)
    BY TableSizes DEF HasContract, Current
  <2>2. Current = reopened + 1
    BY <2>1 DEF Current, TrailInv, ContractsInv
  <2> QED  BY <1>1, <2>1, <2>2, TableSizes DEF TrailInv, ContractsInv
<1> QED  BY <1>2, <1>3, <1>4
         DEF ReopeningLeavesOneTrail, TrailInv, StatesInv, ContractsInv, InterventionsInv

\* In every reachable state the reopenings counted, announced, superseded and
\* failed are the same, one by one: none is half recorded.
THEOREM ReopeningsLeaveOneTrail == Spec => []ReopeningLeavesOneTrail
BY TrailTellsReopenings, TrailInvariant, TypeCorrect, PTL

LEMMA TrailTellsWindows == TypeOK /\ TrailInv => MonitoringHasItsWindow
<1> SUFFICES ASSUME TypeOK, TrailInv PROVE MonitoringHasItsWindow
  OBVIOUS
<1>1. /\ reopened \in Nat /\ DOMAIN windows = 1 .. Len(windows)
      /\ state \in Opened => Len(windows) = reopened + 1
      /\ Len(windows) \in {reopened, reopened + 1}
      /\ \A i \in DOMAIN windows :
           windows[i].contract = i /\ (windows[i].status = "failed" <=> i <= reopened)
  BY TableSizes DEF TrailInv, WindowsInv
<1>2. ASSUME state = "MONITORING_RECOVERY"
      PROVE  Cardinality({i \in DOMAIN windows : IsActive(windows[i])}) = 1
  <2>1. Len(windows) = reopened + 1
    BY <1>1, <1>2 DEF Opened
  <2>2. Current = reopened + 1
    BY <1>2 DEF Current, TrailInv, StatesInv, ContractsInv, HasContract, Early, Opened
  <2>3. \A i \in DOMAIN windows : windows[i].status \in {"open", "monitoring", "failed"}
    <3>1. \A i \in DOMAIN windows : windows[i] \in Window
      BY TableSizes, ElementOfSeq
    <3> QED  BY <3>1 DEF Window
  <2>4. {i \in DOMAIN windows : IsActive(windows[i])} = {reopened + 1}
    BY <1>1, <2>1, <2>2, <2>3 DEF IsActive
  <2> QED  BY <2>4, FS_Singleton
<1>3. ASSUME NEW i \in DOMAIN windows
      PROVE  windows[i].status = "failed" <=>
               contracts[windows[i].contract].status = "violated"
  <2>1. HasContract
    <3>1. state \notin Early
      <4> SUFFICES ASSUME state \in Early PROVE FALSE
        OBVIOUS
      <4>1. reopened = 0 /\ Len(windows) = reopened
        BY DEF TrailInv, StatesInv, WindowsInv
      <4> QED  BY <1>1, <1>3, <4>1
    <3> QED  BY <3>1, TableSizes DEF TrailInv, StatesInv, HasContract, Current
  <2>2. Len(contracts) = reopened + 1
    BY <2>1 DEF TrailInv, ContractsInv
  <2>3. i \in DOMAIN contracts
    <3>1. DOMAIN contracts = 1 .. Len(contracts)
      BY TableSizes
    <3>2. /\ reopened \in Nat /\ i \in 1 .. Len(windows)
          /\ Len(windows) = reopened \/ Len(windows) = reopened + 1
      <4>1. DOMAIN windows = 1 .. Len(windows) /\ reopened \in Nat
        BY TableSizes
      <4>2. Len(windows) \in {reopened, reopened + 1}
        BY DEF TrailInv, WindowsInv
      <4> QED  BY <1>3, <4>1, <4>2
    <3>3. i \in 1 .. reopened + 1
      BY <3>2
    <3> QED  BY <2>2, <3>1, <3>3
  <2>4. contracts[i].status = "violated" <=> i <= reopened
    BY <2>3 DEF TrailInv, ContractsInv
  <2> QED  BY <1>1, <1>3, <2>4
<1>4. \A i, j \in DOMAIN windows : windows[i].contract = windows[j].contract => i = j
  BY <1>1
<1> QED  BY <1>2, <1>3, <1>4 DEF MonitoringHasItsWindow

\* A monitored incident always has exactly one window that counts, that of the
\* contract in force, whatever number of reopenings came before.
THEOREM MonitoringOnItsWindow == Spec => []MonitoringHasItsWindow
BY TrailTellsWindows, TrailInvariant, TypeCorrect, PTL

=============================================================================
