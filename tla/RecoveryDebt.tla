---------------------------- MODULE RecoveryDebt ----------------------------
(***************************************************************************)
(* Recovery debts (backend/app/services/recovery_debt.py and the grant in  *)
(* backend/app/tools/registry.py) composed with the workflow they hang     *)
(* from and with the services that read both (MissionSpine).  A debt is a   *)
(* waiver of conditions of one contract, granted for a time; it is settled *)
(* when the waived conditions pass, or breached by a sweep once it has     *)
(* expired, which escalates the incident.                                  *)
(*                                                                         *)
(* Time is kept as far as a debt tells it: whether expires_at has passed.  *)
(***************************************************************************)
EXTENDS RecoveryWorkflow, MissionSpine, ClosureAdvice

CONSTANTS
  SafetyBearing,  \* scalar conditions whose key or label names safety or an interlock
  Waivers,        \* the sets of condition keys a client asks to waive
  MaxDebts        \* bound: debts granted on the incident

ASSUME DebtAssumption ==
  /\ SafetyBearing \subseteq ScalarKeys
  /\ {} \notin Waivers      \* GrantRecoveryDebtInput refuses an empty list
  /\ MaxDebts \in Nat

VARIABLE debts    \* RecoveryDebt rows in order of granted_at

debtVars == <<vars, debts>>

DebtStatus == {"ACTIVE", "SETTLED", "BREACHED"}

DebtTypeOK ==
  /\ TypeOK
  /\ debts \in Seq([ contract : Nat, waived : SUBSET TelemetryKeys,
                     status : DebtStatus, expired : BOOLEAN ])

DebtInit == Init /\ debts = <<>>

-----------------------------------------------------------------------------
\* unwaivable_reason() is None: neither a quality condition, nor the
\* non-recurrence of the fault, nor a condition that names safety.
Waivable(k) == k \in TelemetryKeys \ (SafetyBearing \cup {"fault"})

\* active_debt(): the latest ACTIVE row.
IsActiveDebt(i) == debts[i].status = "ACTIVE"
ActiveDebt(i) ==
  /\ i \in DOMAIN debts /\ IsActiveDebt(i)
  /\ \A j \in DOMAIN debts : IsActiveDebt(j) => j <= i
HasActiveDebt == \E i \in DOMAIN debts : IsActiveDebt(i)

\* _policy_grant_debt() and _h_grant_recovery_debt(), by a role the tool allows.
\* Any state that is not terminal will do, whether or not it can be escalated.
GrantDebt(role, keys) ==
  /\ role \in APPROVER_ROLES
  /\ HasContract /\ state \notin TERMINAL_STATES
  /\ ~HasActiveDebt
  /\ Len(debts) < MaxDebts
  /\ \A k \in keys : Waivable(k)
  /\ debts' = Append(debts, [contract |-> Current, waived |-> keys,
                             status |-> "ACTIVE", expired |-> FALSE])
  /\ UNCHANGED vars

\* The clock passes expires_at.
DebtExpires(i) ==
  /\ ActiveDebt(i) /\ ~debts[i].expired
  /\ debts' = [debts EXCEPT ![i].expired = TRUE]
  /\ UNCHANGED vars

\* Mutant: the latest observations, whatever the contract and its window.
SeenBy_AnyWindow(contract) == [obs |-> obs, streak |-> streak]

\* What evaluate(contract) sees: only the current contract has an active window.
SeenBy(contract) ==
  IF contract = Current /\ \E w \in DOMAIN windows : ActiveWindow(w)
  THEN [obs |-> obs, streak |-> streak] ELSE [obs |-> <<>>, streak |-> 0]

\* Mutant: settled as soon as one waived condition passes.
WaivedPass_Some(d) == \E k \in d.waived : Status(SeenBy(d.contract), k) = "PASSED"

WaivedPass(d) == \A k \in d.waived : Status(SeenBy(d.contract), k) = "PASSED"

\* settle_recovery_debt(), from the route.  It changes nothing when there is no
\* active debt, when the debt has expired, or when a waived condition does not
\* pass on the contract the debt was granted on.
SettleDebt ==
  \E i \in DOMAIN debts :
    /\ ActiveDebt(i)
    /\ ~debts[i].expired
    /\ WaivedPass(debts[i])
    /\ debts' = [debts EXCEPT ![i].status = "SETTLED"]
    /\ UNCHANGED vars

\* Mutant: an expired debt is only marked.
BreachIncident_MarkOnly == UNCHANGED <<state, outcome>>

\* A breach escalates an incident that is not terminal.
BreachIncident ==
  IF state \in TERMINAL_STATES THEN UNCHANGED <<state, outcome>>
  ELSE /\ CanTransition(state, "ESCALATED", "SYSTEM")
       /\ state' = "ESCALATED" /\ outcome' = "ESCALATED"

\* sweep_recovery_debt(), from the route; nothing else calls it.  When the
\* transition is illegal it raises, the request is rolled back and the debt
\* stays ACTIVE.
SweepDebt ==
  \E i \in DOMAIN debts :
    /\ ActiveDebt(i)
    /\ debts[i].expired
    /\ debts' = [debts EXCEPT ![i].status = "BREACHED"]
    /\ BreachIncident
    /\ UNCHANGED <<reopened, contracts, interventions, windows, obs, streak,
                   paperVars, lots, reserved, published>>

\* The requests that concern a debt, and the clock.
DebtStep ==
  \/ \E role \in HumanRole, keys \in Waivers : GrantDebt(role, keys)
  \/ \E i \in DOMAIN debts : DebtExpires(i)
  \/ SettleDebt
  \/ SweepDebt

DebtNext == (Next /\ UNCHANGED debts) \/ DebtStep

DebtSpec == DebtInit /\ [][DebtNext]_debtVars

-----------------------------------------------------------------------------
(***************************************************************************)
(* What the services read at this moment, for every comparability class    *)
(* and sensor trust the window's data may give.                            *)
(***************************************************************************)
DebtPhase ==
  IF ~HasActiveDebt THEN "none"
  ELSE IF \E i \in DOMAIN debts : ActiveDebt(i) /\ debts[i].expired THEN "expired"
  ELSE "active"

Views ==
  LET seen == SeenBy(Current)
      debt == DebtPhase
  IN  IF ~HasContract THEN {}
      ELSE { [ state |-> state, obs |-> seen.obs, streak |-> seen.streak,
               firstPiece |-> evidence[FirstPiece], release |-> approvals["quality_release"],
               technician |-> interventions[i].status, comp |-> c, sensor |-> s,
               debt |-> debt ] :
             i \in {j \in DOMAIN interventions : CurrentIntervention(j)},
             c \in Comparability, s \in SensorStatus }

\* A reader is told that an incident can close only when all five hard
\* invariants hold, every release domain passes, the sensors are neither untrusted
\* nor unknown and no debt, expired or not, is open: the disposition, the release
\* matrix and the evaluator compute these separately (services/disposition.py).
\* One domain may stand at a warning: comparability, when conditions shifted in part.
CanCloseMeansEveryGate ==
  \A f \in Views : CanClose(f) =>
    /\ \A h \in DOMAIN HardInvariants(f) : HardInvariants(f)[h]
    /\ \A d \in DOMAIN ReleaseMatrix(f) : ReleaseMatrix(f)[d] # "pass" =>
         /\ d = "Comparability" /\ ReleaseMatrix(f)[d] = "warn"
         /\ f.comp = "PARTIALLY_COMPARABLE"
    /\ f.sensor \notin {"UNTRUSTED", "UNKNOWN"}
    /\ ~HasActiveDebt /\ state # "ESCALATED"

\* The trust that the valid evidence of a mission may have.
ValidTrust == {Trust(item) : item \in {x \in Item : x.standing = "valid"}}

\* Alignments of the signature and forecasts, the ends of their ranges and the turn
\* of the sign: the risk, and each of its rounded contributions, is monotone between.
Alignments == {-1000, 0, 1000}

Forecasts == {NoForecast} \cup {PRelapse(level, slope) : level, slope \in {0, 1000}}

\* When the disposition can close, the seven-stage spine is complete, the evidence
\* plan asks for nothing but a second look at the operating conditions, and a
\* mission that is closed has its certificate.
ClosureBorneOut(f) ==
  CanClose(f) =>
    /\ Complete(f)
    /\ Recommended(f) \subseteq {"comparable run", "operator confirmation"}
    /\ state = "VERIFIED_RECOVERY" => CertificateStatus(f, reopened) = "certified"

\* The advice against a false closure then says "do not close" only if a fault of
\* another code was seen or the trajectory contradicts the intervention, never for
\* the conditions, the forecast and weak evidence alone; a trajectory in full
\* agreement, under comparable conditions and with nothing forecast, supports it.
AdviceFits(f, alignment, relapse, advice) ==
  /\ advice = "do not close" => alignment < 0 \/ FaultInWindow(f)
  /\ /\ alignment = 1000 /\ f.comp = "COMPARABLE" /\ ~FaultInWindow(f)
     /\ relapse \in {NoForecast, PRelapse(0, 0)}
     => advice = "closure is well supported"

AdviceBorneOut(f) ==
  CanClose(f) =>
    \A alignment \in Alignments, relapse \in Forecasts, trust \in ValidTrust :
      AdviceFits(f, alignment, relapse, Advice(f, Risk(f, alignment, relapse, {trust})))

\* A plan that shows full confidence has nothing left to say against a closure but
\* an open debt or an escalation.
ConfidenceBorneOut(f) ==
  f.comp = "COMPARABLE" /\ f.sensor = "TRUSTED" /\ Confidence(f) = 100
    => CanClose(f) \/ HasActiveDebt \/ state = "ESCALATED"

\* Services that answer "is this mission done" each in its own way agree.
ServicesAgree ==
  \A f \in Views : ClosureBorneOut(f) /\ AdviceBorneOut(f) /\ ConfidenceBorneOut(f)

\* A breach always ends the incident, and an incident is escalated only after
\* a breach or after the last reopening the policy allows.
BreachEndsTheIncident ==
  /\ (\E i \in DOMAIN debts : debts[i].status = "BREACHED") => state \in TERMINAL_STATES
  /\ state = "ESCALATED" =>
       \/ reopened = EscalateAfter
       \/ \E i \in DOMAIN debts : debts[i].status = "BREACHED" /\ debts[i].expired

\* A debt is paid only in time and only by the incident's current contract, with
\* the window complete and every waived condition good at its last cycle; it ends
\* once and is never rewritten, also across a reopening that supersedes the
\* contract it was granted on.
PaidInTime(i) ==
  /\ ~debts[i].expired
  /\ debts[i].contract = Current
  /\ streak >= Required
  /\ \A k \in debts[i].waived \cap ScalarKeys : Latest(obs).value[k] = "pass"
  /\ "temperature_trend" \in debts[i].waived => Latest(obs).cooler

DebtsAreSettledHonestly ==
  [][/\ Len(debts') >= Len(debts)
     /\ \A i \in DOMAIN debts :
          /\ debts[i].status # "ACTIVE" => debts'[i] = debts[i]
          /\ debts[i].status = "ACTIVE" /\ debts'[i].status = "SETTLED" => PaidInTime(i)
          /\ debts'[i].status = "BREACHED" => debts[i].expired]_debtVars

-----------------------------------------------------------------------------
(***************************************************************************)
(* What the documentation says and the code does not keep.                 *)
(***************************************************************************)
\* services/recovery_debt.py: a conditional recovery can never silently become
\* a permanent closure.  finalize() does not look at the incident's debts.
NothingClosesOnDebt == state = "VERIFIED_RECOVERY" => ~HasActiveDebt

=============================================================================
