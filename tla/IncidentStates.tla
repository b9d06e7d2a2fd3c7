--------------------------- MODULE IncidentStates ---------------------------
(***************************************************************************)
(* The durable incident state machine of backend/app/workflow/             *)
(* state_machine.py: the states an incident can be in, the legal           *)
(* transitions, the role that may perform each, and what one call of       *)
(* transition() checks.  The components that move an incident EXTEND this  *)
(* module; none of them moves it any other way.                            *)
(***************************************************************************)
EXTENDS Naturals, Sequences

\* domain/enums.py, WorkflowState.  Strings of the source are kept, in upper case.
WorkflowState ==
  { "ALERT_TRIAGED", "INTERVENTION_PROPOSED", "INTERVENTION_RECORDED",
    "RECOVERY_CONTRACT_DRAFTED", "RECOVERY_CONTRACT_REVIEWED",
    "AWAITING_REQUIRED_EVIDENCE", "READY_FOR_MONITORING", "MONITORING_RECOVERY",
    "RECOVERY_CONDITION_PENDING", "RECOVERY_CONDITION_FAILED", "RECOVERY_FAILED",
    "INCIDENT_REOPENED", "CONTINGENCY_AWAITING_APPROVAL", "CONTINGENCY_IN_PROGRESS",
    "INSUFFICIENT_EVIDENCE", "VERIFIED_RECOVERY", "ESCALATED", "CANCELLED" }

\* domain/enums.py, TERMINAL_STATES.
TERMINAL_STATES == { "VERIFIED_RECOVERY", "ESCALATED", "CANCELLED" }

\* domain/enums.py, Role: the human roles and the two automatic ones.
HumanRole == { "TECHNICIAN", "QUALITY_ENGINEER", "SUPERVISOR", "PLANT_ADMIN" }
AUTOMATIC == { "SYSTEM", "AGENT" }
Role == HumanRole \cup AUTOMATIC

-----------------------------------------------------------------------------
\* ALLOWED, the table of legal transitions.  A state the table maps to set()
\* is mapped to {} here.
ALLOWED ==
  [ s \in WorkflowState |->
    CASE s = "ALERT_TRIAGED"         -> { "INTERVENTION_PROPOSED", "CANCELLED" }
      [] s = "INTERVENTION_PROPOSED" -> { "INTERVENTION_RECORDED", "CANCELLED" }
      [] s = "INTERVENTION_RECORDED" -> { "RECOVERY_CONTRACT_DRAFTED", "CANCELLED" }
      [] s = "RECOVERY_CONTRACT_DRAFTED" ->
           { "RECOVERY_CONTRACT_REVIEWED", "CANCELLED" }
      [] s = "RECOVERY_CONTRACT_REVIEWED" ->
           { "AWAITING_REQUIRED_EVIDENCE", "CANCELLED" }
      [] s = "AWAITING_REQUIRED_EVIDENCE" ->
           { "READY_FOR_MONITORING", "INSUFFICIENT_EVIDENCE", "CANCELLED" }
      [] s = "READY_FOR_MONITORING" -> { "MONITORING_RECOVERY", "CANCELLED" }
      [] s = "MONITORING_RECOVERY" ->
           { "MONITORING_RECOVERY", "RECOVERY_CONDITION_PENDING",
             "RECOVERY_CONDITION_FAILED", "VERIFIED_RECOVERY",
             "INSUFFICIENT_EVIDENCE", "ESCALATED" }
      [] s = "RECOVERY_CONDITION_PENDING" ->
           { "MONITORING_RECOVERY", "RECOVERY_CONDITION_FAILED",
             "VERIFIED_RECOVERY", "ESCALATED" }
      [] s = "RECOVERY_CONDITION_FAILED" ->
           { "RECOVERY_FAILED", "INCIDENT_REOPENED", "ESCALATED" }
      [] s = "INSUFFICIENT_EVIDENCE" ->
           { "AWAITING_REQUIRED_EVIDENCE", "MONITORING_RECOVERY", "ESCALATED" }
      [] s = "RECOVERY_FAILED" -> { "INCIDENT_REOPENED", "ESCALATED" }
      [] s = "INCIDENT_REOPENED" ->
           { "CONTINGENCY_AWAITING_APPROVAL", "ESCALATED", "CANCELLED" }
      [] s = "CONTINGENCY_AWAITING_APPROVAL" ->
           { "CONTINGENCY_IN_PROGRESS", "ESCALATED", "CANCELLED" }
      [] s = "CONTINGENCY_IN_PROGRESS" ->
           { "AWAITING_REQUIRED_EVIDENCE", "READY_FOR_MONITORING",
             "ESCALATED", "CANCELLED" }
      [] OTHER -> {} ]

\* TRANSITION_GUARD, (from, to) entries first, then the (None, to) wildcards;
\* a pair that is in neither may be performed by any role.
TRANSITION_GUARD(from, to) ==
  CASE <<from, to>> \in { <<"ALERT_TRIAGED", "INTERVENTION_PROPOSED">>,
                          <<"RECOVERY_CONDITION_FAILED", "RECOVERY_FAILED">>,
                          <<"RECOVERY_FAILED", "INCIDENT_REOPENED">>,
                          <<"INCIDENT_REOPENED", "CONTINGENCY_AWAITING_APPROVAL">> }
         -> AUTOMATIC
    [] <<from, to>> \in { <<"INTERVENTION_PROPOSED", "INTERVENTION_RECORDED">>,
                          <<"RECOVERY_CONTRACT_DRAFTED", "RECOVERY_CONTRACT_REVIEWED">>,
                          <<"CONTINGENCY_AWAITING_APPROVAL", "CONTINGENCY_IN_PROGRESS">> }
         -> { "SUPERVISOR", "PLANT_ADMIN" }
    [] to = "VERIFIED_RECOVERY" -> AUTOMATIC
    [] to = "CANCELLED"         -> { "SUPERVISOR", "PLANT_ADMIN" }
    [] to = "ESCALATED"         -> AUTOMATIC \cup { "SUPERVISOR", "PLANT_ADMIN" }
    [] OTHER                    -> Role

\* Mutant: the role is checked, the table of legal transitions is not.
CanTransition_RoleOnly(from, to, role) == role \in TRANSITION_GUARD(from, to)

\* is_legal() and _role_allowed(), the two checks of transition().  Its third,
\* the optimistic lock, is never exercised: no caller passes expected_version.
CanTransition(from, to, role) ==
  /\ to \in ALLOWED[from]
  /\ role \in TRANSITION_GUARD(from, to)

\* A handler that calls transition() several times in one request: every call
\* must succeed, or the request raises and its session is rolled back.
CanWalk(path, role) ==
  \A i \in 1 .. Len(path) - 1 : CanTransition(path[i], path[i + 1], role)

=============================================================================
