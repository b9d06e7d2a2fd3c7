-------------------------- MODULE RecoveryRecords --------------------------
(***************************************************************************)
(* What is written down about an incident for people who were not there:   *)
(* the lesson a recovery teaches (derive_knowledge_candidate() in tools/   *)
(* registry.py, reviewed through services/knowledge.py) and the handoff to *)
(* the next shift (services/shift_handoff.py), and what it is told while   *)
(* it lasts (services/notifications.py), composed with the workflow and    *)
(* its debts.  Also the reopen_incident tool, which any role may call and  *)
(* which relies on the evaluation to refuse.                               *)
(***************************************************************************)
EXTENDS RecoveryDebt

CONSTANT MaxHandoffs   \* bound: handoffs written

ASSUME RecordsAssumption == MaxHandoffs \in Nat

VARIABLES
  firstFault,  \* least cycle_index of a faulted observation of the incident, or 0
  lessons,     \* KnowledgeCandidate rows in order of creation
  handoffs,    \* ShiftHandoff rows, each with what it says of this incident
  inbox        \* Notification rows in order of dispatch, read or not

recordVars == <<debtVars, firstFault, lessons, handoffs, inbox>>

LessonStatus == {"PENDING_REVIEW", "APPROVED", "REJECTED"}

Lesson == [ successful : Nat, failed : Nat,    \* Intervention indexes; 0: none
            recurrence : Nat,                  \* recurrence_cycle; 0: not known
            closing : BOOLEAN,                 \* drafted by finalize()
            status : LessonStatus ]

\* The states in which a handoff leaves the incident out (_TERMINAL), and what a
\* handoff keeps of it: "open", or nothing, for which the state stands here.
LeftOut == {"VERIFIED_RECOVERY", "CANCELLED", "ESCALATED", "INSUFFICIENT_EVIDENCE"}
Handoff == [ incident : LeftOut \cup {"NO_INCIDENT", "open"}, acknowledged : BOOLEAN ]

Notice == [ to : {"SUPERVISOR", "TECHNICIAN", "PLANT_ADMIN"},
            kind : {"diagnosis_proposed", "approval_required", "evidence_required",
                    "reopened", "verified", "insufficient_evidence", "escalated"} ]

RecordsTypeOK ==
  /\ DebtTypeOK
  /\ firstFault \in Nat
  /\ lessons \in Seq(Lesson)
  /\ handoffs \in Seq(Handoff)
  /\ inbox \in Seq(Notice)

RecordsInit ==
  DebtInit /\ firstFault = 0 /\ lessons = <<>> /\ handoffs = <<>> /\ inbox = <<>>

-----------------------------------------------------------------------------
(***************************************************************************)
(* Lessons.                                                                *)
(***************************************************************************)
\* RecoveryContract.intervention_id: every contract is drafted for the latest
\* intervention, so the two sequences run in step.
InterventionOf(contract) == contract

\* The intervention that held: the one the current contract is bound to, or the
\* last one before there is a contract.
Successful == IF HasContract THEN InterventionOf(Current) ELSE Len(interventions)

\* Mutant: the first intervention, whatever its place in the sequence.
Failed_First == 1

\* The first intervention of a lower sequence than the successful one, 0 if none.
Failed ==
  LET lower == {i \in DOMAIN interventions :
                  interventions[i].sequence < interventions[Successful].sequence}
  IN  IF lower = {} THEN 0 ELSE CHOOSE i \in lower : \A j \in lower : i <= j

\* derive_knowledge_candidate() and _h_create_knowledge().
NewLesson(faulted, closing) ==
  [ successful |-> Successful, failed |-> Failed, recurrence |-> faulted,
    closing |-> closing, status |-> "PENDING_REVIEW" ]

\* The first faulted observation in order of cycle_index: every window counts
\* its cycles from one, so a later window may come first.
NextFirstFault ==
  LET n == Len(obs')
  IN  IF /\ n > Len(obs) /\ Latest(obs').fault # NoFault
         /\ firstFault = 0 \/ n < firstFault
      THEN n ELSE firstFault

Note(to, kind) == [to |-> to, kind |-> kind]

\* Mutant: only what asks somebody to act is announced.
Dispatched_Tasks ==
  IF state' = state THEN <<>>
  ELSE CASE state' = "INTERVENTION_PROPOSED" -> <<Note("SUPERVISOR", "diagnosis_proposed")>>
         [] state' = "RECOVERY_CONTRACT_DRAFTED" ->
              <<Note("SUPERVISOR", "approval_required"), Note("TECHNICIAN", "evidence_required")>>
         [] state' = "CONTINGENCY_AWAITING_APPROVAL" -> <<Note("SUPERVISOR", "reopened")>>
         [] OTHER -> <<>>

\* The notices a request of the workflow dispatches: at the end of triage, of the
\* drafting of V1, and of each way advance() can leave monitoring.
Dispatched ==
  IF state' = state THEN <<>>
  ELSE CASE state' = "INTERVENTION_PROPOSED" -> <<Note("SUPERVISOR", "diagnosis_proposed")>>
         [] state' = "RECOVERY_CONTRACT_DRAFTED" ->
              <<Note("SUPERVISOR", "approval_required"), Note("TECHNICIAN", "evidence_required")>>
         [] state' = "CONTINGENCY_AWAITING_APPROVAL" -> <<Note("SUPERVISOR", "reopened")>>
         [] state' = "VERIFIED_RECOVERY"     -> <<Note("SUPERVISOR", "verified")>>
         [] state' = "INSUFFICIENT_EVIDENCE" -> <<Note("SUPERVISOR", "insufficient_evidence")>>
         [] state' = "ESCALATED" ->
              <<Note("SUPERVISOR", "escalated"), Note("PLANT_ADMIN", "escalated")>>
         [] OTHER -> <<>>

\* A request of the workflow, or one of a debt, which tells nobody; finalize()
\* drafts a lesson through the gateway, once per incident, and so does a user who
\* calls create_knowledge_candidate over the tools route.
Request ==
  /\ \/ Next /\ UNCHANGED debts /\ inbox' = inbox \o Dispatched
     \/ DebtStep /\ UNCHANGED inbox
  /\ firstFault' = NextFirstFault
  /\ lessons' =
       IF published'["knowledge"] > published["knowledge"]
       THEN Append(lessons, NewLesson(NextFirstFault, TRUE))
       ELSE IF published'["drafted by hand"] > published["drafted by hand"]
       THEN Append(lessons, NewLesson(NextFirstFault, FALSE))
       ELSE lessons
  /\ UNCHANGED handoffs

\* review_knowledge()
ReviewLesson(role, i, status) ==
  /\ role \in {"QUALITY_ENGINEER", "PLANT_ADMIN"}
  /\ lessons[i].status = "PENDING_REVIEW"
  /\ lessons' = [lessons EXCEPT ![i].status = status]
  /\ UNCHANGED <<debtVars, firstFault, handoffs, inbox>>

-----------------------------------------------------------------------------
(***************************************************************************)
(* Handoffs.                                                               *)
(***************************************************************************)
\* Mutant: an incident that awaits approval is taken to be in other hands.
Listed_Active == state \notin LeftOut \cup {"NO_INCIDENT", "CONTINGENCY_AWAITING_APPROVAL"}

Listed == state \notin LeftOut \cup {"NO_INCIDENT"}

\* build_preview() and create_handoff()
HandOver ==
  /\ Len(handoffs) < MaxHandoffs
  /\ handoffs' = Append(handoffs, [ incident |-> IF Listed THEN "open" ELSE state,
                                    acknowledged |-> FALSE ])
  /\ UNCHANGED <<debtVars, firstFault, lessons, inbox>>

\* acknowledge(): the first receipt is kept, a second changes nothing.
Acknowledge(i) ==
  /\ ~handoffs[i].acknowledged
  /\ handoffs' = [handoffs EXCEPT ![i].acknowledged = TRUE]
  /\ UNCHANGED <<debtVars, firstFault, lessons, inbox>>

RecordsNext ==
  \/ Request
  \/ \E role \in HumanRole, i \in DOMAIN lessons, status \in {"APPROVED", "REJECTED"} :
       ReviewLesson(role, i, status)
  \/ HandOver
  \/ \E i \in DOMAIN handoffs : Acknowledge(i)

RecordsSpec == RecordsInit /\ [][RecordsNext]_recordVars

-----------------------------------------------------------------------------
(***************************************************************************)
(* The reopen_incident tool.                                               *)
(***************************************************************************)
\* _policy_reopen(): the current contract is violated as evaluated now.
ReopenPermitted ==
  LET seen == SeenBy(Current)
  IN  /\ HasContract
      /\ Verdict(seen.obs, seen.streak, evidence[FirstPiece],
                 approvals["quality_release"]) = "violated"

\* The transitions of reopen_with_contingency() from the state it finds.
ReopenPath ==
  (CASE state = "MONITORING_RECOVERY" ->
          <<"MONITORING_RECOVERY", "RECOVERY_CONDITION_FAILED", "RECOVERY_FAILED">>
     [] state = "RECOVERY_CONDITION_FAILED" ->
          <<"RECOVERY_CONDITION_FAILED", "RECOVERY_FAILED">>
     [] OTHER -> <<state>>) \o <<"INCIDENT_REOPENED", "CONTINGENCY_AWAITING_APPROVAL">>

-----------------------------------------------------------------------------
(***************************************************************************)
(* Properties.                                                             *)
(***************************************************************************)
\* The lesson of a closure tells what the rows tell: it credits the intervention
\* whose contract was fulfilled; it blames an earlier one exactly when the
\* incident was reopened, and then one whose contract was violated; and it names
\* a relapse cycle only if a fault was observed, in some window, at that cycle.
LessonsMatchTheRows ==
  \A i \in DOMAIN lessons : lessons[i].closing =>
    LET l == lessons[i]
    IN  /\ l.successful \in DOMAIN contracts /\ contracts[l.successful].status = "fulfilled"
        /\ IF reopened = 0 THEN l.failed = 0
           ELSE l.failed \in DOMAIN contracts /\ contracts[l.failed].status = "violated"
        /\ l.recurrence = firstFault

\* A mission that a handoff leaves out, because it is over, stays over: no later
\* request moves it, except that a waiver still open on an unproven recovery may
\* expire and escalate it.  The incoming shift misses nothing it must act on.
LeftOutMeansFinished ==
  \A i \in DOMAIN handoffs : handoffs[i].incident \notin {"open", "NO_INCIDENT"} =>
    \/ state = handoffs[i].incident
    \/ /\ handoffs[i].incident = "INSUFFICIENT_EVIDENCE" /\ state = "ESCALATED"
       /\ \E d \in DOMAIN debts : debts[d].status = "BREACHED"

\* No request leaves a violated contract standing: advance() reopens or escalates
\* in the request that finds it.  The only violated contract the reopen tool can
\* ever find is that of an escalated incident, which no role can move any more.
ReopenToolHasNothingToDo ==
  ReopenPermitted =>
    /\ state = "ESCALATED"
    /\ \A role \in Role : ~CanWalk(ReopenPath, role)

\* The kind of the last notice the supervisor should have, for where the incident
\* stands.
StageNotice ==
  CASE state \in {"INTERVENTION_PROPOSED", "INTERVENTION_RECORDED"} -> "diagnosis_proposed"
    [] state = "VERIFIED_RECOVERY"     -> "verified"
    [] state = "INSUFFICIENT_EVIDENCE" -> "insufficient_evidence"
    [] state = "ESCALATED"             -> "escalated"
    [] OTHER -> IF reopened = 0 THEN "approval_required" ELSE "reopened"

Sent(to, kind) == {i \in DOMAIN inbox : inbox[i] = Note(to, kind)}

\* Nobody has to hunt for what to do next: the supervisor's last notice is the one
\* of the stage the incident is in, every reopening was announced once, and plant
\* supervision hears of an escalation exactly when the supervisor does.  Only the
\* breach of a debt escalates in silence (services/notifications.py).
InboxTellsTheStage ==
  /\ state # "NO_INCIDENT" =>
       \/ \E i \in Sent("SUPERVISOR", StageNotice) :
            \A j \in i + 1 .. Len(inbox) : inbox[j].to # "SUPERVISOR"
       \/ state = "ESCALATED" /\ \E d \in DOMAIN debts : debts[d].status = "BREACHED"
  /\ Cardinality(Sent("SUPERVISOR", "reopened")) = reopened
  /\ Sent("PLANT_ADMIN", "escalated") # {} <=> Sent("SUPERVISOR", "escalated") # {}

=============================================================================
