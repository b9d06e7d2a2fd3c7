----------------------- MODULE RecoveryRecords_proofs -----------------------
(***************************************************************************)
(* Proofs about RecoveryDebt and RecoveryRecords, for every contract,      *)
(* every set of waivable conditions and any number of debts, lessons,      *)
(* handoffs and notices: what a waiver can and cannot do, and that what is *)
(* written down about an incident is true of it.                           *)
(*                                                                         *)
(* The workflow's own steps are taken from RecoveryWorkflow_proofs; what   *)
(* holds of Spec is proved again of DebtSpec, whose sweep is one more way  *)
(* to the escalated state.  Writing a record is no step of the incident's  *)
(* life, so all that holds of DebtSpec holds of RecordsSpec too.           *)
(***************************************************************************)
EXTENDS RecoveryRecords, RecoveryWorkflow_proofs


Debt == [ contract : Nat, waived : SUBSET TelemetryKeys,
          status : DebtStatus, expired : BOOLEAN ]

-----------------------------------------------------------------------------
(* Type correctness.                                                       *)

\* A row of the table is settled or breached; nothing else of it changes.
LEMMA DebtMarked ==
  ASSUME NEW s \in Seq(Debt), NEW i \in DOMAIN s, NEW st \in DebtStatus,
         NEW t, t = [s EXCEPT ![i].status = st]
  PROVE  /\ t \in Seq(Debt) /\ Len(t) = Len(s) /\ DOMAIN t = DOMAIN s
         /\ \A j \in DOMAIN s : j # i => t[j] = s[j]
         /\ t[i].status = st /\ t[i].waived = s[i].waived /\ t[i].expired = s[i].expired
<1>1. s[i] \in Debt /\ i \in 1 .. Len(s)
  BY LenProperties
<1>2. [s[i] EXCEPT !.status = st] \in Debt
  BY <1>1 DEF Debt
<1>3. t \in Seq(Debt) /\ Len(t) = Len(s)
  BY <1>1, <1>2, ExceptSeq
<1>4. DOMAIN t = DOMAIN s /\ t[i] = [s[i] EXCEPT !.status = st]
      /\ \A j \in DOMAIN s : j # i => t[j] = s[j]
  OBVIOUS
<1> QED  BY <1>1, <1>3, <1>4 DEF Debt

\* Or its time runs out.
Late(s, i) == [s EXCEPT ![i].expired = TRUE]

LEMMA DebtLate ==
  ASSUME NEW s \in Seq(Debt), NEW i \in DOMAIN s,
         NEW t, t = Late(s, i)
  PROVE  /\ t \in Seq(Debt) /\ Len(t) = Len(s) /\ DOMAIN t = DOMAIN s
         /\ \A j \in DOMAIN s : j # i => t[j] = s[j]
         /\ t[i].status = s[i].status /\ t[i].waived = s[i].waived
         /\ t[i].expired
<1>1. s[i] \in Debt /\ i \in 1 .. Len(s)
  BY LenProperties
<1>2. [s[i] EXCEPT !.expired = TRUE] \in Debt
  BY <1>1 DEF Debt
<1>3. t \in Seq(Debt) /\ Len(t) = Len(s)
  BY <1>1, <1>2, ExceptSeq DEF Late
<1>4. DOMAIN t = DOMAIN s /\ t[i] = [s[i] EXCEPT !.expired = TRUE]
      /\ \A j \in DOMAIN s : j # i => t[j] = s[j]
  BY DEF Late
<1> QED  BY <1>1, <1>3, <1>4 DEF Debt

\* A granted debt is a row at the end, ACTIVE and in time.
LEMMA DebtGranted ==
  ASSUME DebtTypeOK, NEW role, NEW keys, GrantDebt(role, keys)
  PROVE  /\ debts' \in Seq(Debt) /\ Len(debts') = Len(debts) + 1
         /\ DOMAIN debts' = DOMAIN debts \cup {Len(debts) + 1}
         /\ \A i \in DOMAIN debts : debts'[i] = debts[i]
         /\ debts'[Len(debts) + 1].status = "ACTIVE"
         /\ debts'[Len(debts) + 1].waived = keys
         /\ \A k \in keys : Waivable(k)
<1> DEFINE row == [contract |-> Current, waived |-> keys, status |-> "ACTIVE",
                   expired |-> FALSE]
<1>1. debts' = Append(debts, row) /\ \A k \in keys : Waivable(k)
  BY DEF GrantDebt
<1>2. keys \in SUBSET TelemetryKeys
  BY <1>1 DEF Waivable
<1>3. Current \in Nat
  BY LenProperties DEF DebtTypeOK, TypeOK, Current
<1>4. row \in Debt
  BY <1>2, <1>3 DEF Debt, DebtStatus
<1>5. debts \in Seq(Debt) /\ Len(debts) \in Nat /\ DOMAIN debts = 1 .. Len(debts)
  BY LenProperties DEF DebtTypeOK, Debt
<1>6. /\ debts' \in Seq(Debt) /\ Len(debts') = Len(debts) + 1
      /\ DOMAIN debts' = 1 .. Len(debts) + 1 /\ debts'[Len(debts) + 1] = row
      /\ \A i \in DOMAIN debts : debts'[i] = debts[i]
  BY <1>1, <1>4, <1>5, RowAppended
<1> QED  BY <1>1, <1>5, <1>6

\* What any step does to the table of debts: a row is never removed, never
\* waives anything else, and its status changes in one of two ways.
LEMMA DebtRows ==
  ASSUME DebtTypeOK, [DebtNext]_debtVars
  PROVE  /\ debts' \in Seq(Debt)
         /\ Len(debts') >= Len(debts) /\ DOMAIN debts \subseteq DOMAIN debts'
         /\ \A i \in DOMAIN debts :
              /\ debts'[i].waived = debts[i].waived
              /\ debts[i].expired => debts'[i].expired
              /\ debts'[i] # debts[i] =>
                   \/ debts'[i].status = debts[i].status /\ debts[i].status = "ACTIVE"
                   \/ SettleDebt /\ debts'[i].status = "SETTLED"
                   \/ SweepDebt /\ debts'[i].status = "BREACHED" /\ debts[i].expired
         /\ \A i \in DOMAIN debts' \ DOMAIN debts :
              /\ debts'[i].status = "ACTIVE"
              /\ \A k \in debts'[i].waived : Waivable(k)
<1> DEFINE Goal ==
         /\ debts' \in Seq(Debt)
         /\ Len(debts') >= Len(debts) /\ DOMAIN debts \subseteq DOMAIN debts'
         /\ \A i \in DOMAIN debts :
              /\ debts'[i].waived = debts[i].waived
              /\ debts[i].expired => debts'[i].expired
              /\ debts'[i] # debts[i] =>
                   \/ debts'[i].status = debts[i].status /\ debts[i].status = "ACTIVE"
                   \/ SettleDebt /\ debts'[i].status = "SETTLED"
                   \/ SweepDebt /\ debts'[i].status = "BREACHED" /\ debts[i].expired
         /\ \A i \in DOMAIN debts' \ DOMAIN debts :
              /\ debts'[i].status = "ACTIVE"
              /\ \A k \in debts'[i].waived : Waivable(k)
<1>1. debts \in Seq(Debt) /\ Len(debts) \in Nat
  BY LenProperties DEF DebtTypeOK, Debt
<1>2. CASE UNCHANGED debts
  BY <1>1, <1>2
<1>3. ASSUME NEW role \in HumanRole, NEW keys \in Waivers, GrantDebt(role, keys) PROVE Goal
  BY <1>1, <1>3, DebtGranted
<1>4. ASSUME NEW i \in DOMAIN debts, DebtExpires(i) PROVE Goal
  <2>1. ActiveDebt(i) /\ debts' = Late(debts, i)
    BY <1>4 DEF DebtExpires, Late
  <2>2. debts[i].status = "ACTIVE"
    BY <2>1 DEF ActiveDebt, IsActiveDebt
  <2>3. /\ debts' \in Seq(Debt) /\ Len(debts') = Len(debts) /\ DOMAIN debts' = DOMAIN debts
        /\ \A j \in DOMAIN debts : j # i => debts'[j] = debts[j]
        /\ debts'[i].status = debts[i].status /\ debts'[i].waived = debts[i].waived
        /\ debts'[i].expired
    <3>1. PICK s, t : s = debts /\ t = debts'
      OBVIOUS
    <3>2. s \in Seq(Debt) /\ i \in DOMAIN s /\ t = Late(s, i)
      BY <1>1, <2>1, <3>1
    <3>3. /\ t \in Seq(Debt) /\ Len(t) = Len(s) /\ DOMAIN t = DOMAIN s
          /\ \A j \in DOMAIN s : j # i => t[j] = s[j]
          /\ t[i].status = s[i].status /\ t[i].waived = s[i].waived
          /\ t[i].expired
      BY <3>2, DebtLate
    <3> QED  BY <3>1, <3>3
  <2> QED  BY <1>1, <2>2, <2>3
<1>5. CASE SettleDebt
  <2>1. PICK i \in DOMAIN debts : debts' = [debts EXCEPT ![i].status = "SETTLED"]
    BY <1>5 DEF SettleDebt
  <2>2. PICK s, t : s = debts /\ t = debts'
    OBVIOUS
  <2>3. PICK st \in DebtStatus : st = "SETTLED"
    BY DEF DebtStatus
  <2>4. s \in Seq(Debt) /\ i \in DOMAIN s /\ t = [s EXCEPT ![i].status = st]
    BY <1>1, <2>1, <2>2, <2>3
  <2>5. /\ t \in Seq(Debt) /\ Len(t) = Len(s) /\ DOMAIN t = DOMAIN s
        /\ \A j \in DOMAIN s : j # i => t[j] = s[j]
        /\ t[i].status = st /\ t[i].waived = s[i].waived /\ t[i].expired = s[i].expired
    BY <2>4, DebtMarked
  <2> QED  BY <1>1, <1>5, <2>1, <2>2, <2>3, <2>5
<1>6. CASE SweepDebt
  <2>1. PICK i \in DOMAIN debts :
          debts[i].expired /\ debts' = [debts EXCEPT ![i].status = "BREACHED"]
    BY <1>6 DEF SweepDebt
  <2>2. PICK s, t : s = debts /\ t = debts'
    OBVIOUS
  <2>3. PICK st \in DebtStatus : st = "BREACHED"
    BY DEF DebtStatus
  <2>4. s \in Seq(Debt) /\ i \in DOMAIN s /\ t = [s EXCEPT ![i].status = st]
    BY <1>1, <2>1, <2>2, <2>3
  <2>5. /\ t \in Seq(Debt) /\ Len(t) = Len(s) /\ DOMAIN t = DOMAIN s
        /\ \A j \in DOMAIN s : j # i => t[j] = s[j]
        /\ t[i].status = st /\ t[i].waived = s[i].waived /\ t[i].expired = s[i].expired
    BY <2>4, DebtMarked
  <2> QED  BY <1>1, <1>6, <2>1, <2>2, <2>3, <2>5
<1> QED
  BY <1>2, <1>3, <1>4, <1>5, <1>6 DEF DebtNext, DebtStep, debtVars

\* A debt that has ended is never rewritten.
LEMMA EndedIsFinal ==
  ASSUME DebtTypeOK, [DebtNext]_debtVars, NEW i \in DOMAIN debts, debts[i].status # "ACTIVE"
  PROVE  debts'[i] = debts[i]
<1> SUFFICES ASSUME debts'[i] # debts[i] PROVE FALSE
  OBVIOUS
<1>1. SettleDebt \/ SweepDebt
  BY DebtRows
<1>2. PICK j \in DOMAIN debts, st \in DebtStatus :
        ActiveDebt(j) /\ debts' = [debts EXCEPT ![j].status = st]
  BY <1>1 DEF SettleDebt, SweepDebt, DebtStatus
<1>3. i # j
  BY <1>2 DEF ActiveDebt, IsActiveDebt
<1> QED  BY <1>2, <1>3

\* Only a sweep moves the incident without the workflow's knowing.
LEMMA WorkflowOrSweep ==
  ASSUME [DebtNext]_debtVars
  PROVE  ([Next]_vars) \/ SweepDebt
<1>1. CASE DebtNext
  BY <1>1 DEF DebtNext, DebtStep, GrantDebt, DebtExpires, SettleDebt
<1>2. CASE UNCHANGED debtVars
  BY <1>2 DEF debtVars
<1> QED  BY <1>1, <1>2

\* A sweep changes the incident's state and outcome, or nothing of it.
LEMMA SweepMoves ==
  ASSUME SweepDebt
  PROVE  /\ UNCHANGED <<reopened, contracts, interventions, windows, obs, streak,
                        paperVars, lots, reserved, published>>
         /\ \/ state \in TERMINAL_STATES /\ UNCHANGED <<state, outcome>>
            \/ state \notin TERMINAL_STATES /\ state' = "ESCALATED" /\ outcome' = "ESCALATED"
BY DEF SweepDebt, BreachIncident

LEMMA DebtTypeStep == DebtTypeOK /\ [DebtNext]_debtVars => DebtTypeOK'
<1> SUFFICES ASSUME DebtTypeOK, [DebtNext]_debtVars PROVE DebtTypeOK'
  OBVIOUS
<1>1. debts' \in Seq(Debt)
  BY DebtRows
<1>2. TypeOK'
  <2>1. CASE [Next]_vars
    BY <2>1, TypeStep DEF DebtTypeOK
  <2>2. CASE SweepDebt
    <3>1. UNCHANGED <<reopened, contracts, interventions, windows, obs, streak,
                      evidence, approvals, keyed, lots, reserved, published>>
      BY <2>2, SweepMoves DEF paperVars
    <3>2. (state' = "ESCALATED" /\ outcome' = "ESCALATED") \/ UNCHANGED <<state, outcome>>
      BY <2>2, SweepMoves
    <3>3. state' \in WorkflowState \cup {"NO_INCIDENT"} /\ outcome' \in Outcome
      BY <3>2 DEF WorkflowState, Outcome, DebtTypeOK, TypeOK
    <3> QED  BY <3>1, <3>3 DEF DebtTypeOK, TypeOK
  <2> QED  BY <2>1, <2>2, WorkflowOrSweep
<1> QED  BY <1>1, <1>2 DEF DebtTypeOK, Debt

\* Every state of an incident with debts is one its tables can hold.
THEOREM DebtTypeCorrect == DebtSpec => []DebtTypeOK
<1>1. DebtInit => DebtTypeOK
  BY InitTyped, EmptySeq DEF DebtInit, DebtTypeOK
<1> QED  BY <1>1, DebtTypeStep, PTL DEF DebtSpec

-----------------------------------------------------------------------------
(* What may be waived.                                                     *)

\* Every debt waives something, and only what unwaivable_reason() allows.
WaiverInv ==
  \A i \in DOMAIN debts :
    /\ debts[i].waived # {}
    /\ debts[i].waived \subseteq TelemetryKeys \ ({"fault"} \cup SafetyBearing)

LEMMA WaiverStep == DebtTypeOK /\ WaiverInv /\ [DebtNext]_debtVars => WaiverInv'
<1> SUFFICES ASSUME DebtTypeOK, WaiverInv, [DebtNext]_debtVars, NEW i \in DOMAIN debts'
             PROVE  /\ debts'[i].waived # {}
                    /\ debts'[i].waived \subseteq TelemetryKeys \ ({"fault"} \cup SafetyBearing)
  BY DEF WaiverInv
<1>1. CASE i \in DOMAIN debts
  BY <1>1, DebtRows DEF WaiverInv
<1>2. CASE i \notin DOMAIN debts
  <2>1. PICK role \in HumanRole, keys \in Waivers : GrantDebt(role, keys)
    <3>1. \A j : DebtExpires(j) => DOMAIN debts' = DOMAIN debts
      BY DEF DebtExpires
    <3>2. SettleDebt \/ SweepDebt => DOMAIN debts' = DOMAIN debts
      BY DEF SettleDebt, SweepDebt
    <3>3. UNCHANGED debts => DOMAIN debts' = DOMAIN debts
      OBVIOUS
    <3> QED  BY <1>2, <3>1, <3>2, <3>3 DEF DebtNext, DebtStep, debtVars
  <2>2. DOMAIN debts' = DOMAIN debts \cup {Len(debts) + 1}
        /\ debts'[Len(debts) + 1].waived = keys /\ \A k \in keys : Waivable(k)
    BY <2>1, DebtGranted
  <2>3. keys # {}
    BY DebtAssumption
  <2> QED  BY <1>2, <2>2, <2>3 DEF Waivable
<1> QED  BY <1>1, <1>2

LEMMA WaiverInvariant == DebtSpec => []WaiverInv
<1>1. DebtInit => WaiverInv
  BY DEF DebtInit, WaiverInv
<1> QED  BY <1>1, WaiverStep, DebtTypeCorrect, PTL DEF DebtSpec

-----------------------------------------------------------------------------
(* How a debt ends.                                                        *)

\* A waived condition that passes says that the window is complete and that the
\* latest reading is good (_evaluate_condition()).
LEMMA PassedMeans ==
  ASSUME NEW h \in Seq(Readings), NEW n \in Nat, NEW k \in TelemetryKeys \ {"fault"},
         NEW f, f.obs = h, f.streak = n, Status(f, k) = "PASSED"
  PROVE  /\ n >= Required
         /\ k \in ScalarKeys => Latest(h).value[k] = "pass"
         /\ k = "temperature_trend" => Latest(h).cooler
<1>1. Len(h) \in Nat /\ Required \in Nat \ {0}
  BY LenProperties, EvaluationAssumption
<1>2. ASSUME h # <<>> PROVE Latest(h) \in Reading
  <2>1. Latest(h) \in Readings
    BY <1>1, <1>2, EmptySeq, ElementOfSeq, LenProperties DEF Latest
  <2> QED  BY <2>1, WorkflowAssumption
<1>3. Held(n) = "PASSED" => n >= Required
  BY DEF Held, WindowComplete
<1>4. CASE k = "temperature_trend"
  <2>1. TrendStatus(h, n) = "PASSED" /\ k \notin ScalarKeys
    BY <1>4, DispositionAssumption DEF Status
  <2>2. Len(h) >= 2 /\ h # <<>>
    <3>1. ~(Len(h) < 2)
      BY <2>1 DEF TrendStatus
    <3> QED  BY <1>1, <3>1, EmptySeq
  <2>3. Latest(h).cooler \in BOOLEAN
    BY <1>2, <2>2 DEF Reading
  <2>4. ASSUME ~Latest(h).cooler PROVE FALSE
    BY <1>1, <2>1, <2>2, <2>4 DEF TrendStatus
  <2>5. Held(n) = "PASSED"
    BY <1>1, <2>1, <2>2, <2>3, <2>4 DEF TrendStatus
  <2> QED  BY <1>3, <2>1, <2>3, <2>4, <2>5
<1>5. CASE k = "stable_cycles"
  <2>1. CountStatus(n) = "PASSED" /\ k \notin ScalarKeys
    BY <1>5, DispositionAssumption DEF Status
  <2>2. n >= Required
    BY <1>1, <2>1 DEF CountStatus
  <2> QED  BY <1>5, <2>1, <2>2
<1>6. CASE k \notin {"temperature_trend", "stable_cycles"}
  <2>1. ScalarStatus(k, h, n) = "PASSED" /\ k \in ScalarKeys
    BY <1>6, DispositionAssumption
    DEF Status, TelemetryKeys, MachineKeys, ProcessKeys
  <2>2. h # <<>>
    BY <2>1 DEF ScalarStatus
  <2>3. Latest(h).value[k] \in {"pass", "fail", "absent"}
    BY <1>2, <2>1, <2>2 DEF Reading
  <2>4. Latest(h).value[k] = "pass" /\ Held(n) = "PASSED"
    BY <2>1, <2>2, <2>3 DEF ScalarStatus
  <2> QED  BY <1>3, <1>6, <2>4
<1> QED  BY <1>4, <1>5, <1>6

LEMMA SettledInTime ==
  ASSUME DebtTypeOK, WaiverInv, NEW i \in DOMAIN debts,
         ~debts[i].expired, WaivedPass(debts[i])
  PROVE  PaidInTime(i)
<1> DEFINE d == debts[i]
<1> DEFINE f == SeenBy(d.contract)
<1>1. d.waived # {} /\ d.waived \subseteq TelemetryKeys \ {"fault"}
  BY DEF WaiverInv
<1>2. \A k \in d.waived : Status(f, k) = "PASSED"
  BY DEF WaivedPass
<1>3. obs \in Seq(Readings) /\ streak \in Nat /\ <<>> \in Seq(Readings) /\ 0 \in Nat
  BY EmptySeq DEF DebtTypeOK, TypeOK
<1>4. PICK k0 : k0 \in d.waived
  BY <1>1
<1>5. d.contract = Current /\ f.obs = obs /\ f.streak = streak
  <2>1. CASE f = [obs |-> obs, streak |-> streak] /\ d.contract = Current
    BY <2>1
  <2>2. CASE f = [obs |-> <<>>, streak |-> 0]
    <3>1. 0 >= Required
      <4>1. f.obs = <<>> /\ f.streak = 0
        BY <2>2
      <4>2. k0 \in TelemetryKeys \ {"fault"} /\ Status(f, k0) = "PASSED"
        BY <1>1, <1>2, <1>4
      <4> HIDE DEF f
      <4> QED  BY <1>3, <4>1, <4>2, PassedMeans
    <3> QED  BY <3>1, EvaluationAssumption
  <2> QED  BY <2>1, <2>2 DEF SeenBy
<1>6. \A k \in d.waived :
        /\ streak >= Required
        /\ k \in ScalarKeys => Latest(obs).value[k] = "pass"
        /\ k = "temperature_trend" => Latest(obs).cooler
  <2> HIDE DEF f
  <2> QED  BY <1>1, <1>2, <1>3, <1>5, PassedMeans
<1> QED  BY <1>4, <1>5, <1>6 DEF PaidInTime

\* A debt is breached only once its time has passed.
BreachedLate == \A i \in DOMAIN debts : debts[i].status = "BREACHED" => debts[i].expired

LEMMA BreachInvariant == DebtSpec => []BreachedLate
<1>1. DebtInit => BreachedLate
  BY DEF DebtInit, BreachedLate
<1>2. DebtTypeOK /\ BreachedLate /\ [DebtNext]_debtVars => BreachedLate'
  <2> SUFFICES ASSUME DebtTypeOK, BreachedLate, [DebtNext]_debtVars,
                      NEW i \in DOMAIN debts', debts'[i].status = "BREACHED"
               PROVE  debts'[i].expired
    BY DEF BreachedLate
  <2>1. i \in DOMAIN debts
    BY DebtRows
  <2>2. CASE debts'[i] = debts[i]
    BY <2>1, <2>2 DEF BreachedLate
  <2>3. CASE debts'[i] # debts[i]
    BY <2>1, <2>3, DebtRows
  <2> QED  BY <2>2, <2>3
<1> QED  BY <1>1, <1>2, DebtTypeCorrect, PTL DEF DebtSpec

\* A debt is settled only in time, by the current contract, on a complete window
\* whose latest reading is good in all that was waived; it is breached only after
\* it expired, ends once, and no row is ever removed or rewritten
\* (settle_recovery_debt(), sweep_recovery_debt()).
THEOREM DebtsSettledHonestly == DebtSpec => DebtsAreSettledHonestly
<1> DEFINE Honest ==
      /\ Len(debts') >= Len(debts)
      /\ \A i \in DOMAIN debts :
           /\ debts[i].status # "ACTIVE" => debts'[i] = debts[i]
           /\ debts[i].status = "ACTIVE" /\ debts'[i].status = "SETTLED" => PaidInTime(i)
           /\ debts'[i].status = "BREACHED" => debts[i].expired
<1>1. DebtTypeOK /\ WaiverInv /\ BreachedLate /\ [DebtNext]_debtVars => [Honest]_debtVars
  <2> SUFFICES ASSUME DebtTypeOK, WaiverInv, BreachedLate, [DebtNext]_debtVars PROVE Honest
    OBVIOUS
  <2>1. Len(debts') >= Len(debts)
    BY DebtRows
  <2>2. ASSUME NEW i \in DOMAIN debts, debts[i].status # "ACTIVE" PROVE debts'[i] = debts[i]
    BY <2>2, EndedIsFinal
  <2>3. ASSUME NEW i \in DOMAIN debts, debts[i].status = "ACTIVE",
               debts'[i].status = "SETTLED"
        PROVE  PaidInTime(i)
    <3>1. SettleDebt
      BY <2>3, DebtRows
    <3>2. PICK j \in DOMAIN debts :
            /\ ~debts[j].expired /\ WaivedPass(debts[j])
            /\ debts' = [debts EXCEPT ![j].status = "SETTLED"]
      BY <3>1 DEF SettleDebt
    <3>3. i = j
      BY <2>3, <3>2
    <3> QED  BY <3>2, <3>3, SettledInTime
  <2>4. ASSUME NEW i \in DOMAIN debts, debts'[i].status = "BREACHED" PROVE debts[i].expired
    <3>1. CASE debts'[i] = debts[i]
      BY <2>4, <3>1 DEF BreachedLate
    <3>2. CASE debts'[i] # debts[i]
      BY <2>4, <3>2, DebtRows
    <3> QED  BY <3>1, <3>2
  <2> QED  BY <2>1, <2>2, <2>3, <2>4
<1> QED
  BY <1>1, WaiverInvariant, BreachInvariant, DebtTypeCorrect, PTL
  DEF DebtSpec, DebtsAreSettledHonestly

-----------------------------------------------------------------------------
(* How an incident is escalated.                                           *)

\* The workflow leaves a terminal state alone, and escalates only after the last
\* reopening the policy allows (ALLOWED, should_escalate()).
LEMMA WorkflowEscalates ==
  ASSUME TypeOK, reopened <= EscalateAfter, [Next]_vars
  PROVE  /\ state \in TERMINAL_STATES => UNCHANGED <<state, reopened>>
         /\ reopened' <= EscalateAfter
         /\ state' = "ESCALATED" /\ state # "ESCALATED" => reopened' = EscalateAfter
<1> DEFINE Goal ==
         /\ state \in TERMINAL_STATES => UNCHANGED <<state, reopened>>
         /\ reopened' <= EscalateAfter
         /\ state' = "ESCALATED" /\ state # "ESCALATED" => reopened' = EscalateAfter
<1>1. reopened \in Nat /\ EscalateAfter \in Nat
  BY WorkflowAssumption DEF TypeOK
<1>2. ASSUME UNCHANGED <<state, reopened>> PROVE Goal
  BY <1>2
<1>3. ASSUME UNCHANGED reopened, state' # "ESCALATED", state \notin TERMINAL_STATES PROVE Goal
  BY <1>3
<1>4. ASSUME NEW q \in {1, 2}, OpenWindow(q) PROVE state \notin TERMINAL_STATES
  <2>1. state \in WorkflowState /\ "READY_FOR_MONITORING" \in ALLOWED[state]
    BY <1>4 DEF OpenWindow, CanWalk, CanTransition
  <2> QED  BY <2>1, IntoMonitoring DEF TERMINAL_STATES
<1>5. CASE TriageFromAlert
  BY <1>3, <1>5 DEF TriageFromAlert, TERMINAL_STATES
<1>6. ASSUME NEW role \in HumanRole, AcceptDiagnosis(role) PROVE Goal
  BY <1>3, <1>6 DEF AcceptDiagnosis, TERMINAL_STATES
<1>7. CASE DraftContract
  BY <1>3, <1>7 DEF DraftContract, TERMINAL_STATES
<1>8. ASSUME NEW role \in HumanRole, ReviewContract(role) PROVE Goal
  <2>1. state \in WorkflowState /\ "RECOVERY_CONTRACT_REVIEWED" \in ALLOWED[state]
    BY <1>8 DEF ReviewContract, CanTransition
  <2>2. state = "RECOVERY_CONTRACT_DRAFTED"
    BY <2>1, IntoReview
  <2> QED  BY <1>3, <1>8, <2>2 DEF ReviewContract, TERMINAL_STATES
<1>9. ASSUME NEW k \in EvidenceKeys, SubmitEvidence(k) \/ EvidenceAges(k) PROVE Goal
  BY <1>2, <1>9 DEF SubmitEvidence, EvidenceAges
<1>10. ASSUME NEW k \in ApprovalKeys, NEW status \in {"APPROVED", "REJECTED"},
              NEW withKey \in BOOLEAN, DecideApproval(k, status, withKey)
       PROVE  Goal
  BY <1>2, <1>10 DEF DecideApproval
<1>11. CASE StartMonitoring
  BY <1>3, <1>4, <1>11 DEF StartMonitoring, OpenWindow
<1>12. ASSUME NEW role \in HumanRole, ApproveContingency(role) PROVE Goal
  <2>1. state \in WorkflowState /\ "CONTINGENCY_IN_PROGRESS" \in ALLOWED[state]
    BY <1>12 DEF ApproveContingency, CanTransition
  <2>2. state = "CONTINGENCY_AWAITING_APPROVAL"
    BY <2>1, IntoContingency
  <2> QED  BY <1>3, <1>12, <2>2 DEF ApproveContingency, TERMINAL_STATES
<1>13. CASE CompleteContingency
  BY <1>3, <1>4, <1>13 DEF CompleteContingency, OpenWindow
<1>14. ASSUME NEW o \in Readings, NEW c \in Comparability, AdvanceCycle(o, c) PROVE Goal
  <2>1. state = "MONITORING_RECOVERY"
    BY <1>14 DEF AdvanceCycle
  <2>2. PICK w \in DOMAIN windows :
          \/ ShouldEscalate /\ Escalate(w)
          \/ ~ShouldEscalate /\ Reopen(w)
          \/ Certify(w) \/ BlockClosure(w) \/ StillMonitoring(w)
    BY <1>14 DEF AdvanceCycle
  <2>3. CASE ShouldEscalate /\ Escalate(w)
    BY <1>1, <2>1, <2>3 DEF Escalate, ShouldEscalate, TERMINAL_STATES
  <2>4. CASE ~ShouldEscalate /\ Reopen(w)
    <3>1. reopened' = reopened + 1 /\ state' # "ESCALATED"
      BY <2>4 DEF Reopen
    <3> QED  BY <1>1, <2>1, <2>4, <3>1 DEF ShouldEscalate, TERMINAL_STATES
  <2>5. CASE Certify(w) \/ BlockClosure(w) \/ StillMonitoring(w)
    <3>1. UNCHANGED reopened /\ state' # "ESCALATED"
      BY <2>1, <2>5 DEF Certify, BlockClosure, StillMonitoring
    <3> QED  BY <1>3, <2>1, <3>1 DEF TERMINAL_STATES
  <2> QED  BY <2>2, <2>3, <2>4, <2>5
<1>15. CASE UNCHANGED vars
  BY <1>2, <1>15 DEF vars
<1>16. CASE ByHand
  BY <1>2, <1>16, ByHandOnlyCounts
<1> QED
  BY <1>5, <1>6, <1>7, <1>8, <1>9, <1>10, <1>11, <1>12, <1>13, <1>14, <1>15, <1>16
     DEF Next, ByHand

\* BreachEndsTheIncident is not inductive: that the reopenings stay within the
\* policy and that a breached debt has expired must be added.
EndInv ==
  /\ reopened <= EscalateAfter
  /\ BreachedLate
  /\ BreachEndsTheIncident

LEMMA EndStep == DebtTypeOK /\ EndInv /\ BreachedLate' /\ [DebtNext]_debtVars => EndInv'
<1> SUFFICES ASSUME DebtTypeOK, EndInv, BreachedLate', [DebtNext]_debtVars PROVE EndInv'
  OBVIOUS
<1>1. /\ DOMAIN debts \subseteq DOMAIN debts'
      /\ \A i \in DOMAIN debts :
           debts[i].status # "ACTIVE" => debts'[i] = debts[i]
  BY DebtRows, EndedIsFinal
<1>2. (\E i \in DOMAIN debts : debts[i].status = "BREACHED" /\ debts[i].expired)
        => \E i \in DOMAIN debts' : debts'[i].status = "BREACHED" /\ debts'[i].expired
  <2> SUFFICES ASSUME NEW i \in DOMAIN debts, debts[i].status = "BREACHED", debts[i].expired
               PROVE  \E j \in DOMAIN debts' : debts'[j].status = "BREACHED" /\ debts'[j].expired
    OBVIOUS
  <2>1. i \in DOMAIN debts' /\ debts'[i] = debts[i]
    BY <1>1
  <2> QED  BY <2>1
<1>3. CASE SweepDebt
  <2>1. reopened' = reopened /\ state' \in TERMINAL_STATES
    BY <1>3, SweepMoves DEF TERMINAL_STATES
  <2>2. PICK j \in DOMAIN debts :
          debts[j].expired /\ debts' = [debts EXCEPT ![j].status = "BREACHED"]
    BY <1>3 DEF SweepDebt
  <2>3. debts \in Seq(Debt)
    BY DEF DebtTypeOK, Debt
  <2>4. debts'[j].status = "BREACHED" /\ debts'[j].expired /\ j \in DOMAIN debts'
    <3>1. PICK s, t : s = debts /\ t = debts'
      OBVIOUS
    <3>2. s \in Seq(Debt) /\ j \in DOMAIN s /\ t = [s EXCEPT ![j].status = "BREACHED"]
      BY <2>2, <2>3, <3>1
    <3>3. DOMAIN t = DOMAIN s /\ t[j].status = "BREACHED" /\ t[j].expired = s[j].expired
      BY <3>2, DebtMarked DEF DebtStatus
    <3> QED  BY <2>2, <3>1, <3>3
  <2> QED  BY <2>1, <2>4 DEF EndInv, BreachEndsTheIncident
<1>4. CASE ~SweepDebt
  <2>1. [Next]_vars
    BY <1>4, WorkflowOrSweep
  <2>2. /\ state \in TERMINAL_STATES => UNCHANGED <<state, reopened>>
        /\ reopened' <= EscalateAfter
        /\ state' = "ESCALATED" /\ state # "ESCALATED" => reopened' = EscalateAfter
    BY <2>1, WorkflowEscalates DEF DebtTypeOK, EndInv
  <2>3. (\E i \in DOMAIN debts' : debts'[i].status = "BREACHED") => state' \in TERMINAL_STATES
    <3> SUFFICES ASSUME NEW i \in DOMAIN debts', debts'[i].status = "BREACHED"
                 PROVE  state' \in TERMINAL_STATES
      OBVIOUS
    <3>1. i \in DOMAIN debts
      BY DebtRows
    <3>2. debts'[i] = debts[i]
      BY <1>4, <3>1, DebtRows
    <3>3. state \in TERMINAL_STATES
      BY <3>1, <3>2 DEF EndInv, BreachEndsTheIncident
    <3> QED  BY <2>2, <3>3
  <2>4. state' = "ESCALATED" =>
          \/ reopened' = EscalateAfter
          \/ \E i \in DOMAIN debts' : debts'[i].status = "BREACHED" /\ debts'[i].expired
    <3>1. CASE state # "ESCALATED"
      BY <2>2, <3>1
    <3>2. CASE state = "ESCALATED"
      <4>1. UNCHANGED <<state, reopened>>
        BY <2>2, <3>2 DEF TERMINAL_STATES
      <4> QED  BY <1>2, <3>2, <4>1 DEF EndInv, BreachEndsTheIncident
    <3> QED  BY <3>1, <3>2
  <2> QED  BY <2>2, <2>3, <2>4 DEF EndInv, BreachEndsTheIncident
<1> QED  BY <1>3, <1>4

\* A breached debt always ends the incident, and an escalated incident either had
\* an expired debt breached or failed once more after the last reopening the policy
\* allows (sweep_recovery_debt(), should_escalate()).
THEOREM BreachesEndTheIncident == DebtSpec => []BreachEndsTheIncident
<1>1. DebtInit => EndInv
  BY WorkflowAssumption DEF DebtInit, Init, EndInv, BreachedLate, BreachEndsTheIncident
<1>2. EndInv => BreachEndsTheIncident
  BY DEF EndInv
<1> QED  BY <1>1, <1>2, EndStep, BreachInvariant, DebtTypeCorrect, PTL DEF DebtSpec

-----------------------------------------------------------------------------
(* What the services tell a reader.                                        *)

\* A mission is called VERIFIED only by the evaluator's own verdict, under
\* conditions the policy accepts, with sensors neither untrusted nor unknown and no
\* debt open.
LEMMA CanCloseMeans ==
  ASSUME NEW f, CanClose(f)
  PROVE  /\ VerdictOf(f) = "verified"
         /\ f.state # "ESCALATED" /\ f.debt \notin {"expired", "active"}
         /\ f.comp \in {"COMPARABLE", "PARTIALLY_COMPARABLE"}
         /\ f.sensor \notin {"UNTRUSTED", "UNKNOWN"}
<1>1. Classify(f) = "VERIFIED" /\ f.sensor \notin {"UNTRUSTED", "UNKNOWN"}
  BY DEF CanClose, AssessDisposition
<1>2. f.state # "ESCALATED" /\ VerdictOf(f) # "violated"
      /\ f.debt \notin {"expired", "active"}
  BY <1>1 DEF Classify
<1>3. PolicyResult(f.comp, EvidenceStatus(f, VerdictOf(f))) = "VERIFIED"
      /\ EvidenceStatus(f, VerdictOf(f)) # "NONE"
  BY <1>1 DEF Classify
<1>4. VerdictOf(f) \in {"violated", "verified", "monitoring"}
  BY DEF VerdictOf, Verdict
<1>5. EvidenceStatus(f, VerdictOf(f)) \in {"FAILED", "ELIGIBLE", "INSUFFICIENT", "NONE"}
  BY <1>4 DEF EvidenceStatus
<1>6. EvidenceStatus(f, VerdictOf(f)) = "ELIGIBLE"
      /\ f.comp \in {"COMPARABLE", "PARTIALLY_COMPARABLE"}
  BY <1>3, <1>5 DEF PolicyResult
<1>7. VerdictOf(f) = "verified"
  BY <1>4, <1>6 DEF EvidenceStatus
<1> QED  BY <1>1, <1>2, <1>6, <1>7

\* The verdict settles what the disposition and the release matrix each work out
\* for themselves.
LEMMA VerdictOpensEveryGate ==
  ASSUME NEW f, VerdictOf(f) = "verified",
         f.comp \in {"COMPARABLE", "PARTIALLY_COMPARABLE"},
         f.sensor \notin {"UNTRUSTED", "UNKNOWN"}
  PROVE  /\ \A h \in DOMAIN HardInvariants(f) : HardInvariants(f)[h]
         /\ \A d \in DOMAIN ReleaseMatrix(f) : ReleaseMatrix(f)[d] # "pass" =>
              /\ d = "Comparability" /\ ReleaseMatrix(f)[d] = "warn"
              /\ f.comp = "PARTIALLY_COMPARABLE"
<1>1. /\ TechnicalPass(f.obs, f.streak, f.firstPiece)
      /\ QualityReleaseSatisfied(f.firstPiece, f.release)
  BY DEF VerdictOf, Verdict
<1>2. \A k \in TelemetryKeys : Status(f, k) = "PASSED"
  BY <1>1, DispositionAssumption
  DEF TechnicalPass, Status, TelemetryKeys, MachineKeys, ProcessKeys
<1>3. /\ MachineKeys # {} /\ ProcessKeys # {} /\ TelemetryKeys # {}
      /\ MachineKeys \subseteq TelemetryKeys /\ ProcessKeys \subseteq TelemetryKeys
  BY DEF TelemetryKeys, MachineKeys, ProcessKeys
<1>4. \A keys \in {MachineKeys, ProcessKeys, TelemetryKeys} :
        AllPassed(f, keys) /\ ~AnyViolated(f, keys)
  BY <1>2, <1>3 DEF AllPassed, AnyViolated
<1>5. WindowComplete(f.streak) /\ QualityPassed(f) /\ Released(f)
  BY <1>1 DEF TechnicalPass, QualityPassed, Released
<1>6. \A k \in TelemetryKeys : Status(f, k) # "BLOCKED"
  BY <1>2
<1>7. \A h \in DOMAIN HardInvariants(f) : HardInvariants(f)[h]
  BY <1>4, <1>5, <1>6 DEF HardInvariants
<1>8. Equipment(f) = "pass" /\ Process(f) = "pass" /\ QualityDomain(f) = "pass"
      /\ \/ ComparabilityDomain(f) = "pass"
         \/ ComparabilityDomain(f) = "warn" /\ f.comp = "PARTIALLY_COMPARABLE"
  BY <1>4, <1>5 DEF Equipment, Process, QualityDomain, ComparabilityDomain
<1>9. HardInvariants(f).evidence
  BY <1>6 DEF HardInvariants
<1>10. \A d \in DOMAIN ReleaseMatrix(f) : ReleaseMatrix(f)[d] # "pass" =>
         /\ d = "Comparability" /\ ReleaseMatrix(f)[d] = "warn"
         /\ f.comp = "PARTIALLY_COMPARABLE"
  BY <1>5, <1>8, <1>9 DEF ReleaseMatrix
<1> QED  BY <1>7, <1>10

\* Whoever is told that an incident can close is told the truth by all three
\* services: the five hard invariants hold, every release domain passes, comparability
\* perhaps with a warning, and neither untrusted sensors, a debt nor an escalation
\* stand against it (assess_disposition(), assess_release_matrix(), evaluate()).
THEOREM CanCloseOpensEveryGate == DebtSpec => []CanCloseMeansEveryGate
<1>1. CanCloseMeansEveryGate
  <2> SUFFICES ASSUME NEW f \in Views, CanClose(f)
               PROVE  /\ \A h \in DOMAIN HardInvariants(f) : HardInvariants(f)[h]
                      /\ \A d \in DOMAIN ReleaseMatrix(f) : ReleaseMatrix(f)[d] # "pass" =>
                           /\ d = "Comparability" /\ ReleaseMatrix(f)[d] = "warn"
                           /\ f.comp = "PARTIALLY_COMPARABLE"
                      /\ f.sensor \notin {"UNTRUSTED", "UNKNOWN"}
                      /\ ~HasActiveDebt /\ state # "ESCALATED"
    BY DEF CanCloseMeansEveryGate
  <2>1. f.state = state /\ f.debt = DebtPhase /\ f.sensor \in SensorStatus
    BY DEF Views
  <2>2. /\ VerdictOf(f) = "verified" /\ f.state # "ESCALATED"
        /\ f.debt \notin {"expired", "active"}
        /\ f.comp \in {"COMPARABLE", "PARTIALLY_COMPARABLE"}
        /\ f.sensor \notin {"UNTRUSTED", "UNKNOWN"}
    BY CanCloseMeans
  <2>3. ~HasActiveDebt
    BY <2>1, <2>2 DEF DebtPhase
  <2> QED  BY <2>1, <2>2, <2>3, VerdictOpensEveryGate
<1> QED  BY <1>1, PTL

-----------------------------------------------------------------------------
(* What debts leave as it was.                                             *)

\* What RecoveryWorkflow_proofs found of the workflow alone, and that a debt hangs
\* from a contract: without the last, a sweep could escalate an incident that has
\* nothing to verify yet.
AccountInv ==
  /\ ClosureIsAllOrNothing
  /\ TrailInv
  /\ debts # <<>> => HasContract

LEMMA AccountStep ==
  DebtTypeOK /\ AccountInv /\ [DebtNext]_debtVars => AccountInv' /\ HistoryKept
<1> SUFFICES ASSUME DebtTypeOK, AccountInv, [DebtNext]_debtVars
             PROVE  AccountInv' /\ HistoryKept
  OBVIOUS
<1>1. CASE SweepDebt
  <2>1. UNCHANGED <<reopened, contracts, interventions, windows, lots, published>>
    BY <1>1, SweepMoves
  <2>2. HasContract /\ contracts # <<>>
    <3>1. debts # <<>>
      BY <1>1 DEF SweepDebt
    <3>2. HasContract
      BY <3>1 DEF AccountInv
    <3> QED  BY <3>2, TableSizes DEF DebtTypeOK, HasContract, Current
  <2>3. \/ UNCHANGED <<state, outcome>>
        \/ state \notin TERMINAL_STATES /\ state' = "ESCALATED" /\ outcome' = "ESCALATED"
    BY <1>1, SweepMoves
  <2>4. ClosureIsAllOrNothing'
    BY <2>1, <2>3 DEF AccountInv, ClosureIsAllOrNothing, TERMINAL_STATES
  <2>5. StatesInv'
    BY <2>1, <2>2, <2>3 DEF AccountInv, TrailInv, StatesInv, Early, Waiting, Opened
  <2>6. InterventionsInv'
    BY <2>1, <2>2, <2>3 DEF AccountInv, TrailInv, InterventionsInv, HasContract, Current
  <2>7. ContractsInv' /\ WindowsInv'
    BY <2>1, <2>3 DEF AccountInv, TrailInv, ContractsInv, WindowsInv, Early, Waiting, Opened,
                      HasContract, Current
  <2>8. HistoryKept
    BY <2>1, TableSizes DEF HistoryKept, DebtTypeOK
  <2> QED  BY <2>1, <2>2, <2>4, <2>5, <2>6, <2>7, <2>8
           DEF AccountInv, TrailInv, HasContract, Current
<1>2. CASE ~SweepDebt
  <2>1. [Next]_vars
    BY <1>2, WorkflowOrSweep
  <2>2. ClosureIsAllOrNothing' /\ TrailInv' /\ HistoryKept
    BY <2>1, ClosureStep, TrailStep DEF DebtTypeOK, AccountInv
  <2>3. HasContract => HasContract'
    BY <2>2, TypeStep, <2>1, TableSizes DEF DebtTypeOK, HistoryKept, HasContract, Current
  <2>4. debts' # <<>> => HasContract'
    <3>1. debts = <<>> /\ debts' # <<>> => HasContract
      BY DEF DebtNext, DebtStep, debtVars, GrantDebt, DebtExpires, SettleDebt, SweepDebt
    <3> QED  BY <2>3, <3>1, <2>1 DEF AccountInv
  <2> QED  BY <2>2, <2>4 DEF AccountInv
<1> QED  BY <1>1, <1>2

LEMMA AccountInvariant == DebtSpec => []AccountInv
<1>1. DebtInit => AccountInv
  BY ToldNames DEF DebtInit, Init, AccountInv, ClosureIsAllOrNothing, TrailInv, StatesInv,
         InterventionsInv, ContractsInv, WindowsInv, Early, Waiting, Opened, HasContract,
         Current
<1> QED  BY <1>1, AccountStep, DebtTypeCorrect, PTL DEF DebtSpec

\* finalize() stays all or nothing, and the tables tell one history, when debts are
\* granted, settled and swept in any state.
THEOREM DebtsKeepTheAccount ==
  DebtSpec => [](ClosureIsAllOrNothing /\ ReopeningLeavesOneTrail /\ MonitoringHasItsWindow)
<1>1. DebtTypeOK /\ AccountInv =>
        ClosureIsAllOrNothing /\ ReopeningLeavesOneTrail /\ MonitoringHasItsWindow
  BY TrailTellsReopenings, TrailTellsWindows DEF AccountInv, DebtTypeOK
<1> QED  BY <1>1, AccountInvariant, DebtTypeCorrect, PTL

\* Nor does a debt make any step rewrite what was decided.
THEOREM DebtsKeepHistory == DebtSpec => HistoryIsPreserved
<1>1. DebtTypeOK /\ AccountInv /\ [DebtNext]_debtVars => [HistoryKept]_vars
  BY AccountStep
<1> QED  BY <1>1, AccountInvariant, DebtTypeCorrect, PTL DEF DebtSpec, HistoryIsPreserved


-----------------------------------------------------------------------------
(* The incident under its records.                                         *)

LEMMA RecordsStep == [RecordsNext]_recordVars => [DebtNext]_debtVars
BY DEF RecordsNext, recordVars, Request, DebtNext, ReviewLesson, HandOver,
       Acknowledge

\* Drafting and reviewing lessons, handing over and notifying never move the
\* incident, its contracts or its debts: every behaviour with records is one of
\* the incident and its debts (tools/registry.py, knowledge.py, shift_handoff.py).
THEOREM RecordsOnlyTell == RecordsSpec => DebtSpec
<1>1. RecordsInit => DebtInit
  BY DEF RecordsInit
<1> QED  BY <1>1, RecordsStep, PTL DEF RecordsSpec, DebtSpec

\* What is known of the incident at every moment.
LifeInv == DebtTypeOK /\ AccountInv

LEMMA LifeInvariant == RecordsSpec => []LifeInv
<1>1. DebtTypeOK /\ AccountInv => LifeInv
  BY DEF LifeInv
<1> QED  BY <1>1, RecordsOnlyTell, DebtTypeCorrect, AccountInvariant, PTL

\* A path of one state and two more.
LEMMA PathOfThree ==
  ASSUME NEW S, NEW a \in S, NEW b \in S, NEW c \in S,
         NEW p, p = <<a>> \o <<b, c>>
  PROVE  Len(p) = 3 /\ p[1] = a /\ p[2] = b
<1>1. PICK s1, s2 : s1 = <<a>> /\ s2 = <<b, c>>
  OBVIOUS
<1>2. s1 \in Seq(S) /\ s2 \in Seq(S) /\ Len(s1) = 1 /\ Len(s2) = 2 /\ s1[1] = a /\ s2[1] = b
  BY <1>1
<1>3. p = s1 \o s2
  BY <1>1
<1>4. /\ Len(s1 \o s2) = Len(s1) + Len(s2)
      /\ \A i \in 1 .. Len(s1) + Len(s2) :
           (s1 \o s2)[i] = IF i <= Len(s1) THEN s1[i] ELSE s2[i - Len(s1)]
  BY <1>2, ConcatProperties
<1>5. 1 \in 1 .. 3 /\ 2 \in 1 .. 3 /\ 1 <= 1 /\ ~(2 <= 1) /\ 2 - 1 = 1
  OBVIOUS
<1>6. (s1 \o s2)[1] = s1[1] /\ (s1 \o s2)[2] = s2[1]
  BY <1>2, <1>4, <1>5
<1> QED  BY <1>2, <1>3, <1>4, <1>6

\* From the first draft on there is one contract more than there were reopenings.
LEMMA ContractsCounted ==
  LifeInv /\ state \notin Early => HasContract /\ Current = reopened + 1
<1> SUFFICES ASSUME LifeInv, state \notin Early
             PROVE  HasContract /\ Current = reopened + 1
  OBVIOUS
<1>1. /\ Len(contracts) \in Nat /\ contracts # <<>>
      /\ (contracts = <<>> <=> Len(contracts) = 0)
  BY TableSizes DEF LifeInv, DebtTypeOK, AccountInv, TrailInv, StatesInv
<1>2. HasContract
  BY <1>1 DEF HasContract, Current
<1> QED  BY <1>2 DEF LifeInv, AccountInv, TrailInv, ContractsInv, Current

\* The moves of the workflow, with what they do to the count of reopenings.
Moves == { <<"NO_INCIDENT", "INTERVENTION_PROPOSED">>,
           <<"INTERVENTION_PROPOSED", "INTERVENTION_RECORDED">>,
           <<"INTERVENTION_RECORDED", "RECOVERY_CONTRACT_DRAFTED">>,
           <<"RECOVERY_CONTRACT_DRAFTED", "AWAITING_REQUIRED_EVIDENCE">>,
           <<"AWAITING_REQUIRED_EVIDENCE", "MONITORING_RECOVERY">>,
           <<"CONTINGENCY_AWAITING_APPROVAL", "CONTINGENCY_IN_PROGRESS">>,
           <<"CONTINGENCY_IN_PROGRESS", "MONITORING_RECOVERY">>,
           <<"MONITORING_RECOVERY", "VERIFIED_RECOVERY">>,
           <<"MONITORING_RECOVERY", "INSUFFICIENT_EVIDENCE">>,
           <<"MONITORING_RECOVERY", "ESCALATED">> }

LEMMA WorkflowMoves ==
  ASSUME TypeOK, [Next]_vars
  PROVE  \/ UNCHANGED <<state, reopened>>
         \/ <<state, state'>> \in Moves /\ reopened' = reopened
         \/ /\ state = "MONITORING_RECOVERY" /\ state' = "CONTINGENCY_AWAITING_APPROVAL"
            /\ reopened' = reopened + 1
<1> DEFINE Goal ==
         \/ UNCHANGED <<state, reopened>>
         \/ <<state, state'>> \in Moves /\ reopened' = reopened
         \/ /\ state = "MONITORING_RECOVERY" /\ state' = "CONTINGENCY_AWAITING_APPROVAL"
            /\ reopened' = reopened + 1
<1>1. ASSUME NEW q \in {1, 2}, OpenWindow(q), UNCHANGED reopened PROVE Goal
  <2>1. state \in WorkflowState /\ "READY_FOR_MONITORING" \in ALLOWED[state]
        /\ state' = "MONITORING_RECOVERY"
    BY <1>1 DEF OpenWindow, CanWalk, CanTransition
  <2> QED  BY <1>1, <2>1, IntoMonitoring DEF Moves
<1>2. CASE TriageFromAlert \/ DraftContract \/ \E role \in HumanRole : AcceptDiagnosis(role)
  BY <1>2 DEF TriageFromAlert, DraftContract, AcceptDiagnosis, Moves
<1>3. ASSUME NEW role \in HumanRole, ReviewContract(role) PROVE Goal
  <2>1. state \in WorkflowState /\ "RECOVERY_CONTRACT_REVIEWED" \in ALLOWED[state]
        /\ state' = "AWAITING_REQUIRED_EVIDENCE" /\ UNCHANGED reopened
    BY <1>3 DEF ReviewContract, CanTransition
  <2> QED  BY <2>1, IntoReview DEF Moves
<1>4. ASSUME NEW k \in EvidenceKeys, SubmitEvidence(k) \/ EvidenceAges(k) PROVE Goal
  BY <1>4 DEF SubmitEvidence, EvidenceAges
<1>5. ASSUME NEW k \in ApprovalKeys, NEW status \in {"APPROVED", "REJECTED"},
             NEW withKey \in BOOLEAN, DecideApproval(k, status, withKey)
      PROVE  Goal
  BY <1>5 DEF DecideApproval
<1>6. CASE StartMonitoring \/ CompleteContingency
  BY <1>1, <1>6 DEF StartMonitoring, CompleteContingency
<1>7. ASSUME NEW role \in HumanRole, ApproveContingency(role) PROVE Goal
  <2>1. state \in WorkflowState /\ "CONTINGENCY_IN_PROGRESS" \in ALLOWED[state]
        /\ state' = "CONTINGENCY_IN_PROGRESS" /\ UNCHANGED reopened
    BY <1>7 DEF ApproveContingency, CanTransition
  <2> QED  BY <2>1, IntoContingency DEF Moves
<1>8. ASSUME NEW o \in Readings, NEW c \in Comparability, AdvanceCycle(o, c) PROVE Goal
  <2>1. state = "MONITORING_RECOVERY"
    BY <1>8 DEF AdvanceCycle
  <2>2. PICK w \in DOMAIN windows :
          Escalate(w) \/ Reopen(w) \/ Certify(w) \/ BlockClosure(w) \/ StillMonitoring(w)
    BY <1>8 DEF AdvanceCycle
  <2>3. CASE Reopen(w)
    BY <2>1, <2>3 DEF Reopen
  <2>4. CASE Escalate(w) \/ Certify(w) \/ BlockClosure(w) \/ StillMonitoring(w)
    BY <2>1, <2>4 DEF Escalate, Certify, BlockClosure, StillMonitoring, Moves
  <2> QED  BY <2>2, <2>3, <2>4
<1>9. CASE UNCHANGED vars
  BY <1>9 DEF vars
<1>10. CASE ByHand
  BY <1>10, ByHandOnlyCounts
<1> QED  BY <1>2, <1>3, <1>4, <1>5, <1>6, <1>7, <1>8, <1>9, <1>10 DEF Next, ByHand

\* Only a cycle adds an observation.
LEMMA ObservationsGrow ==
  ASSUME TypeOK, [Next]_vars
  PROVE  \/ UNCHANGED <<obs, streak>>
         \/ obs' = <<>> /\ streak' = 0 /\ state' = "MONITORING_RECOVERY"
         \/ \E o \in Readings, c \in Comparability : AdvanceCycle(o, c)
BY DEF Next, vars, TriageFromAlert, AcceptDiagnosis, DraftContract, ReviewContract,
       SubmitEvidence, EvidenceAges, DecideApproval, StartMonitoring, ApproveContingency,
       CompleteContingency, OpenWindow, AnnounceByHand, DraftByHand

-----------------------------------------------------------------------------
(* Handoffs.                                                               *)

\* A handoff is received; nothing else of it changes.
Received(s, i) == [s EXCEPT ![i].acknowledged = TRUE]

LEMMA HandoffAcknowledged ==
  ASSUME NEW s \in Seq(Handoff), NEW i \in DOMAIN s,
         NEW t, t = Received(s, i)
  PROVE  /\ DOMAIN t = DOMAIN s /\ t \in Seq(Handoff)
         /\ \A j \in DOMAIN s : t[j].incident = s[j].incident
<1>1. s[i] \in Handoff /\ i \in 1 .. Len(s)
  BY LenProperties
<1>2. [s[i] EXCEPT !.acknowledged = TRUE] \in Handoff
      /\ [s[i] EXCEPT !.acknowledged = TRUE].incident = s[i].incident
  BY <1>1 DEF Handoff
<1>3. t \in Seq(Handoff)
  BY <1>1, <1>2, ExceptSeq DEF Received
<1>4. DOMAIN t = DOMAIN s /\ t[i] = [s[i] EXCEPT !.acknowledged = TRUE]
      /\ \A j \in DOMAIN s : j # i => t[j] = s[j]
  BY DEF Received
<1> QED  BY <1>2, <1>3, <1>4

\* A mission that is over is over: only the sweep of a debt moves it.
LEMMA FinishedStays ==
  ASSUME LifeInv, [DebtNext]_debtVars, state \in LeftOut
  PROVE  \/ state' = state
         \/ /\ state = "INSUFFICIENT_EVIDENCE" /\ state' = "ESCALATED"
            /\ \E d \in DOMAIN debts' : debts'[d].status = "BREACHED"
<1>1. CASE SweepDebt
  <2>1. state' = state \/ (state \notin TERMINAL_STATES /\ state' = "ESCALATED")
    <3>1. CASE state \in TERMINAL_STATES
      BY <1>1, <3>1, SweepMoves
    <3>2. CASE state \notin TERMINAL_STATES
      BY <1>1, <3>2, SweepMoves
    <3> QED  BY <3>1, <3>2
  <2>2. PICK j \in DOMAIN debts : debts' = [debts EXCEPT ![j].status = "BREACHED"]
    BY <1>1 DEF SweepDebt
  <2>3. debts \in Seq(Debt)
    BY DEF LifeInv, DebtTypeOK, Debt
  <2>4. debts'[j].status = "BREACHED" /\ j \in DOMAIN debts'
    BY <2>2, <2>3, DebtMarked DEF DebtStatus
  <2> QED  BY <2>1, <2>4 DEF LeftOut, TERMINAL_STATES
<1>2. CASE [Next]_vars
  BY <1>2, WorkflowMoves DEF LifeInv, DebtTypeOK, LeftOut, Moves
<1> QED  BY <1>1, <1>2, WorkflowOrSweep

LEMMA HandoffStep ==
  LifeInv /\ LeftOutMeansFinished /\ handoffs \in Seq(Handoff) /\ [RecordsNext]_recordVars
    => LeftOutMeansFinished' /\ (handoffs \in Seq(Handoff))'
<1> SUFFICES ASSUME LifeInv, LeftOutMeansFinished, handoffs \in Seq(Handoff),
                    [RecordsNext]_recordVars
             PROVE  LeftOutMeansFinished' /\ handoffs' \in Seq(Handoff)
  OBVIOUS
<1> DEFINE Over(i) == handoffs[i].incident \notin {"open", "NO_INCIDENT"}
<1>0. [DebtNext]_debtVars
  BY RecordsStep
<1>1. ASSUME NEW i \in DOMAIN handoffs, Over(i)
      PROVE  \/ state' = handoffs[i].incident
             \/ /\ handoffs[i].incident = "INSUFFICIENT_EVIDENCE" /\ state' = "ESCALATED"
                /\ \E d \in DOMAIN debts' : debts'[d].status = "BREACHED"
  <2>1. handoffs[i].incident \in LeftOut
    <3>1. handoffs[i] \in Handoff
      BY ElementOfSeq, LenProperties
    <3> QED  BY <1>1, <3>1 DEF Handoff
  <2>2. CASE state = handoffs[i].incident
    BY <1>0, <2>1, <2>2, FinishedStays
  <2>3. CASE handoffs[i].incident = "INSUFFICIENT_EVIDENCE" /\ state = "ESCALATED"
             /\ \E d \in DOMAIN debts : debts[d].status = "BREACHED"
    <3>1. PICK d \in DOMAIN debts : debts[d].status = "BREACHED"
      BY <2>3
    <3>2. debts'[d] = debts[d] /\ d \in DOMAIN debts'
      BY <1>0, <3>1, EndedIsFinal, DebtRows DEF LifeInv
    <3>3. state' = "ESCALATED"
      BY <1>0, <2>3, FinishedStays DEF LeftOut
    <3> QED  BY <2>3, <3>1, <3>2, <3>3
  <2> QED  BY <1>1, <2>2, <2>3 DEF LeftOutMeansFinished
<1>2. CASE UNCHANGED handoffs
  BY <1>1, <1>2 DEF LeftOutMeansFinished
<1>3. CASE HandOver
  <2> DEFINE row == [incident |-> IF Listed THEN "open" ELSE state, acknowledged |-> FALSE]
  <2>1. handoffs' = Append(handoffs, row) /\ UNCHANGED debtVars
    BY <1>3 DEF HandOver
  <2>2. row \in Handoff
    BY DEF Listed, Handoff
  <2>3. handoffs' \in Seq(Handoff) /\ DOMAIN handoffs' = DOMAIN handoffs \cup {Len(handoffs) + 1}
        /\ handoffs'[Len(handoffs) + 1] = row /\ \A i \in DOMAIN handoffs : handoffs'[i] = handoffs[i]
    BY <2>1, <2>2, RowAppended
  <2>4. state' = state
    BY <2>1 DEF debtVars, vars
  <2>5. row.incident \notin {"open", "NO_INCIDENT"} => state' = row.incident
    BY <2>4
  <2> HIDE DEF row
  <2> QED  BY <1>1, <2>3, <2>5 DEF LeftOutMeansFinished
<1>4. ASSUME NEW a \in DOMAIN handoffs, Acknowledge(a)
      PROVE  LeftOutMeansFinished' /\ handoffs' \in Seq(Handoff)
  <2>1. DOMAIN handoffs' = DOMAIN handoffs /\ handoffs' \in Seq(Handoff)
        /\ \A i \in DOMAIN handoffs : handoffs'[i].incident = handoffs[i].incident
    <3>1. handoffs' = Received(handoffs, a)
      BY <1>4 DEF Acknowledge, Received
    <3> QED  BY <3>1, HandoffAcknowledged
  <2> QED  BY <1>1, <2>1 DEF LeftOutMeansFinished
<1> QED
  BY <1>2, <1>3, <1>4 DEF RecordsNext, recordVars, Request, ReviewLesson

LEMMA HandoffInvariant == RecordsSpec => [](LeftOutMeansFinished /\ handoffs \in Seq(Handoff))
<1>1. RecordsInit => LeftOutMeansFinished /\ handoffs \in Seq(Handoff)
  BY EmptySeq DEF RecordsInit, LeftOutMeansFinished
<1> QED  BY <1>1, HandoffStep, LifeInvariant, PTL DEF RecordsSpec

\* What a handoff leaves out because it is over is never moved again by a request,
\* whatever is granted, submitted, decided or recorded afterwards; only an open
\* waiver may still expire on it (build_preview(), ALLOWED).
THEOREM LeftOutIsFinished == RecordsSpec => []LeftOutMeansFinished
BY HandoffInvariant, PTL

-----------------------------------------------------------------------------
(* The reopen tool.                                                        *)

\* ReopenToolHasNothingToDo is not inductive: it must be known that no request
\* leaves a violated window standing in a state the workflow would act on.
VerdictInv == state \in Opened => ~Violated(obs, streak)

\* An empty window is not violated.
LEMMA NothingViolatedYet == ~Violated(<<>>, 0)
<1>1. Len(<<>>) = 0
  BY EmptySeq
<1>2. ~FaultRecurred(<<>>)
  BY <1>1 DEF FaultRecurred
<1>3. FaultStatus(<<>>, 0) # "VIOLATED"
  BY <1>2 DEF FaultStatus, WindowComplete
<1>4. TrendStatus(<<>>, 0) # "VIOLATED"
  BY <1>1 DEF TrendStatus
<1>5. \A k \in ScalarKeys : ScalarStatus(k, <<>>, 0) # "VIOLATED"
  BY DEF ScalarStatus
<1> QED  BY <1>3, <1>4, <1>5 DEF Violated

LEMMA VerdictStep == LifeInv /\ VerdictInv /\ [DebtNext]_debtVars => VerdictInv'
<1> SUFFICES ASSUME LifeInv, VerdictInv, [DebtNext]_debtVars, state' \in Opened
             PROVE  ~Violated(obs', streak')
  BY DEF VerdictInv, Opened, Violated, FaultStatus, TrendStatus, ScalarStatus,
         FaultRecurred, Held, WindowComplete, Latest, DeadlineMissed, MetInDeadline
<1>1. CASE SweepDebt
  BY <1>1, SweepMoves DEF VerdictInv, Opened
<1>2. CASE [Next]_vars
  <2>1. CASE \E o \in Readings, c \in Comparability : AdvanceCycle(o, c)
    <3>1. PICK o \in Readings, c \in Comparability : AdvanceCycle(o, c)
      BY <2>1
    <3>2. PICK w \in DOMAIN windows :
            \/ Escalate(w) \/ Reopen(w)
            \/ Verdict(obs', streak', evidence[FirstPiece],
                       approvals["quality_release"]) # "violated"
      BY <3>1 DEF AdvanceCycle
    <3>3. ~(Escalate(w) \/ Reopen(w))
      BY DEF Escalate, Reopen, Opened
    <3> QED  BY <3>2, <3>3 DEF Verdict
  <2>2. CASE obs' = <<>> /\ streak' = 0
    BY <2>2, NothingViolatedYet
  <2>3. CASE UNCHANGED <<obs, streak>> /\ ~\E o \in Readings, c \in Comparability : AdvanceCycle(o, c)
    <3>1. state \in Opened \/ (obs' = <<>> /\ streak' = 0)
      <4>1. StartMonitoring \/ CompleteContingency =>
              obs' = <<>> /\ streak' = 0
        BY DEF StartMonitoring, CompleteContingency, OpenWindow
      <4>2. \A role : ~(AcceptDiagnosis(role) \/ ReviewContract(role) \/ ApproveContingency(role))
        BY DEF AcceptDiagnosis, ReviewContract, ApproveContingency, Opened
      <4>3. ~(TriageFromAlert \/ DraftContract)
        BY DEF TriageFromAlert, DraftContract, Opened
      <4>4. \A k : SubmitEvidence(k) \/ EvidenceAges(k) => state' = state
        BY DEF SubmitEvidence, EvidenceAges
      <4>5. \A k, status, withKey : DecideApproval(k, status, withKey) => state' = state
        BY DEF DecideApproval
      <4>6. UNCHANGED vars => state' = state
        BY DEF vars
      <4>7. state' = state => state \in Opened
        BY DEF Opened
      <4>8. state' = state \/ StartMonitoring \/ CompleteContingency
        BY <1>2, <2>3, <4>2, <4>3, <4>4, <4>5, <4>6 DEF Next, AnnounceByHand, DraftByHand
      <4> QED  BY <4>1, <4>7, <4>8
    <3> QED  BY <2>3, <3>1, NothingViolatedYet DEF VerdictInv
  <2> QED  BY <1>2, <2>1, <2>2, <2>3, ObservationsGrow DEF LifeInv, DebtTypeOK
<1> QED  BY <1>1, <1>2, WorkflowOrSweep

\* While a contract waits for its window, no window is active.
LEMMA WaitingHasNoWindow ==
  ASSUME LifeInv, state \in Early \cup Waiting, NEW w \in DOMAIN windows
  PROVE  ~ActiveWindow(w)
<1>1. Len(windows) = reopened /\ w \in 1 .. reopened /\ windows[w].status = "failed"
  BY TableSizes DEF LifeInv, DebtTypeOK, AccountInv, TrailInv, WindowsInv
<1> QED  BY <1>1 DEF ActiveWindow, IsActive

\* No role finds anything to do with the reopen tool: advance() acts on a violation
\* in the request that finds it, and nobody reopens what was escalated
\* (_policy_reopen(), ALLOWED).
THEOREM ReopenToolIsIdle == RecordsSpec => []ReopenToolHasNothingToDo
<1>1. DebtInit => VerdictInv
  BY DEF DebtInit, Init, VerdictInv, Opened
<1>2. DebtSpec /\ []LifeInv => []VerdictInv
  BY <1>1, VerdictStep, PTL DEF DebtSpec
<1>3. LifeInv /\ VerdictInv => ReopenToolHasNothingToDo
  <2> SUFFICES ASSUME LifeInv, VerdictInv, ReopenPermitted
               PROVE  state = "ESCALATED" /\ \A role \in Role : ~CanWalk(ReopenPath, role)
    BY DEF ReopenToolHasNothingToDo
  <2>1. Violated(SeenBy(Current).obs, SeenBy(Current).streak)
    BY DEF ReopenPermitted, Verdict
  <2>2. (\E w \in DOMAIN windows : ActiveWindow(w)) /\ Violated(obs, streak)
    BY <2>1, NothingViolatedYet DEF SeenBy
  <2>3. state \notin Opened
    BY <2>2 DEF VerdictInv
  <2>4. state \notin Early \cup Waiting
    BY <2>2, WaitingHasNoWindow
  <2>5. state = "ESCALATED"
    BY <2>3, <2>4 DEF LifeInv, AccountInv, TrailInv, StatesInv
  <2>6. ASSUME NEW role \in Role PROVE ~CanWalk(ReopenPath, role)
    <3>1. ReopenPath = <<"ESCALATED">> \o <<"INCIDENT_REOPENED", "CONTINGENCY_AWAITING_APPROVAL">>
      BY <2>5 DEF ReopenPath
    <3>2. Len(ReopenPath) = 3 /\ ReopenPath[1] = "ESCALATED"
          /\ ReopenPath[2] = "INCIDENT_REOPENED"
      <4>1. "ESCALATED" \in WorkflowState /\ "INCIDENT_REOPENED" \in WorkflowState
            /\ "CONTINGENCY_AWAITING_APPROVAL" \in WorkflowState
        BY DEF WorkflowState
      <4> QED  BY <3>1, <4>1, PathOfThree
    <3>3. ALLOWED["ESCALATED"] = {}
      BY DEF ALLOWED, WorkflowState
    <3>4. ~CanTransition("ESCALATED", "INCIDENT_REOPENED", role)
      BY <3>3 DEF CanTransition
    <3> QED  BY <3>2, <3>4 DEF CanWalk
  <2> QED  BY <2>5, <2>6
<1> QED  BY <1>2, <1>3, LifeInvariant, RecordsOnlyTell, PTL

-----------------------------------------------------------------------------
(* The services agree.                                                     *)

\* Five things to count.
LEMMA FiveInvariants ==
  LET S == {"machine", "quality", "window", "evidence", "approvals"}
  IN  IsFiniteSet(S) /\ Cardinality(S) = 5
<1> DEFINE A == {"machine"}
<1> DEFINE B == A \cup {"quality"}
<1> DEFINE C == B \cup {"window"}
<1> DEFINE D == C \cup {"evidence"}
<1> DEFINE E == D \cup {"approvals"}
<1>1. IsFiniteSet(A) /\ Cardinality(A) = 1
  BY FS_Singleton
<1>2. IsFiniteSet(B) /\ Cardinality(B) = 2
  <2>1. "quality" \notin A
    OBVIOUS
  <2> HIDE DEF A
  <2> QED  BY <1>1, <2>1, FS_AddElement
<1>3. IsFiniteSet(C) /\ Cardinality(C) = 3
  <2>1. "window" \notin B
    OBVIOUS
  <2> HIDE DEF B
  <2> QED  BY <1>2, <2>1, FS_AddElement
<1>4. IsFiniteSet(D) /\ Cardinality(D) = 4
  <2>1. "evidence" \notin C
    OBVIOUS
  <2> HIDE DEF C
  <2> QED  BY <1>3, <2>1, FS_AddElement
<1>5. IsFiniteSet(E) /\ Cardinality(E) = 5
  <2>1. "approvals" \notin D
    OBVIOUS
  <2> HIDE DEF D
  <2> QED  BY <1>4, <2>1, FS_AddElement
<1>6. E = {"machine", "quality", "window", "evidence", "approvals"}
  OBVIOUS
<1> HIDE DEF E
<1> QED  BY <1>5, <1>6

\* With comparable conditions and trusted sensors the confidence counts the hard
\* invariants, so it is full only when all of them hold (plan_evidence()).
LEMMA FullConfidence ==
  ASSUME NEW f, f.comp = "COMPARABLE", f.sensor = "TRUSTED", Confidence(f) = 100
  PROVE  \A h \in DOMAIN HardInvariants(f) : HardInvariants(f)[h]
<1> DEFINE inv == HardInvariants(f)
<1> DEFINE Met == {h \in DOMAIN inv : inv[h]}
<1>1. DOMAIN inv = {"machine", "quality", "window", "evidence", "approvals"}
  BY DEF HardInvariants
<1>2. IsFiniteSet(DOMAIN inv) /\ Cardinality(DOMAIN inv) = 5
  BY <1>1, FiveInvariants
<1>3. IsFiniteSet(Met) /\ Cardinality(Met) <= 5
      /\ (Cardinality(Met) = 5 => Met = DOMAIN inv)
  <2>1. Met \in SUBSET DOMAIN inv
    OBVIOUS
  <2> HIDE DEF inv, Met
  <2> QED  BY <1>2, <2>1, FS_Subset
<1>4. Cardinality(Met) \in Nat
  BY <1>3, FS_CardinalityType
<1>5. (Cardinality(Met) * 100 * 100) \div (100 * 5) = 100
  BY <1>2 DEF Confidence
<1>6. Cardinality(Met) = 5
  <2> DEFINE n == Cardinality(Met)
  <2>1. n \in {0, 1, 2, 3, 4, 5} /\ (n * 100 * 100) \div (100 * 5) = 100
    BY <1>3, <1>4, <1>5
  <2> HIDE DEF n
  <2>2. n = 5
    BY <2>1
  <2> QED  BY <2>2 DEF n
<1> QED  BY <1>3, <1>6

\* The five invariants leave the evaluator nothing to object to (evaluate()).
LEMMA InvariantsMakeTheVerdict ==
  ASSUME NEW f, \A h \in DOMAIN HardInvariants(f) : HardInvariants(f)[h]
  PROVE  VerdictOf(f) = "verified"
<1>1. DOMAIN HardInvariants(f) = {"machine", "quality", "window", "evidence", "approvals"}
  BY DEF HardInvariants
<1>2. /\ HardInvariants(f)["machine"] /\ HardInvariants(f)["quality"]
      /\ HardInvariants(f)["window"] /\ HardInvariants(f)["approvals"]
  BY <1>1
<1>3. /\ \A k \in TelemetryKeys : Status(f, k) = "PASSED"
      /\ QualityPassed(f) /\ WindowComplete(f.streak) /\ Released(f)
  BY <1>2 DEF HardInvariants, AllPassed
<1>4. /\ ScalarKeys \cup {"fault", "temperature_trend", "stable_cycles"} \subseteq TelemetryKeys
      /\ "fault" \notin ScalarKeys /\ "temperature_trend" \notin ScalarKeys
      /\ "stable_cycles" \notin ScalarKeys
  BY DispositionAssumption DEF TelemetryKeys, MachineKeys, ProcessKeys
<1>5. \A k \in ScalarKeys : ScalarStatus(k, f.obs, f.streak) = "PASSED"
  BY <1>3, <1>4 DEF Status
<1>6. /\ FaultStatus(f.obs, f.streak) = "PASSED"
      /\ TrendStatus(f.obs, f.streak) = "PASSED"
      /\ CountStatus(f.streak) = "PASSED"
  BY <1>3, <1>4 DEF Status
<1>7. f.obs # <<>>
  <2>1. f.obs = <<>> => Len(f.obs) < 2
    BY EmptySeq
  <2> QED  BY <1>6, <2>1 DEF TrendStatus
<1>8. TechnicalPass(f.obs, f.streak, f.firstPiece)
  BY <1>3, <1>5, <1>6, <1>7 DEF TechnicalPass, QualityPassed
<1>9. ~Violated(f.obs, f.streak)
  BY <1>5, <1>6 DEF Violated
<1> QED  BY <1>3, <1>8, <1>9 DEF VerdictOf, Verdict, Released

\* And nothing but an open debt or an escalation the disposition.
LEMMA VerdictCloses ==
  ASSUME NEW f, VerdictOf(f) = "verified", f.comp = "COMPARABLE", f.sensor = "TRUSTED",
         f.state # "ESCALATED", f.debt = "none"
  PROVE  CanClose(f)
<1>1. Released(f)
  BY DEF VerdictOf, Verdict, Released
<1>2. QualityStatus(f) = "released"
  BY <1>1 DEF QualityStatus
<1>3. EvidenceStatus(f, VerdictOf(f)) = "ELIGIBLE"
  BY DEF EvidenceStatus
<1>4. PolicyResult(f.comp, "ELIGIBLE") = "VERIFIED"
  BY DEF PolicyResult
<1>5. Classify(f) = "VERIFIED"
  BY <1>2, <1>3, <1>4 DEF Classify, Conflict
<1> QED  BY <1>5 DEF CanClose, AssessDisposition

-----------------------------------------------------------------------------
(* The advice against a false closure.                                     *)

\* Valid evidence is never trusted less than 200 or more than 1000 thousandths.
LEMMA TrustOfTheValid == ValidTrust \subseteq 200 .. 1000
<1> SUFFICES ASSUME NEW item \in Item, item.standing = "valid"
             PROVE  Trust(item) \in 200 .. 1000
  BY DEF ValidTrust
<1>1. Weight(item) \in {1000, 850, 600, 500, 400}
  BY DEF Item, Weight
<1>2. Trust(item) = Weight(item) \div (IF item.stale THEN 2 ELSE 1)
  BY DEF Trust
<1>3. item.stale \in BOOLEAN
  BY DEF Item
<1>4. CASE item.stale
  BY <1>1, <1>2, <1>4
<1>5. CASE ~item.stale
  BY <1>1, <1>2, <1>5
<1> QED  BY <1>3, <1>4, <1>5

PossibleForecast == {NotComputed} \cup 20 .. 980

LEMMA ForecastRange == Forecasts \subseteq PossibleForecast
<1> SUFFICES ASSUME NEW level \in {0, 1000}, NEW slope \in {0, 1000}
             PROVE  PRelapse(level, slope) \in 20 .. 980
  BY DEF Forecasts, NoForecast, NotComputed, PossibleForecast
<1> QED  BY DEF PRelapse

LEMMA CalmForecast == PRelapse(0, 0) = 20
BY DEF PRelapse

\* The blend of five factors is the sum of their rounded shares; a forecast that is
\* not there takes its weight out of the sum.
Shares(s, c, n, p, e) ==
  LET forecast == IF p = NotComputed THEN 0 ELSE 30
      den      == 100 + forecast
  IN  (90 * s + den) \div (2 * den) + (60 * c + den) \div (2 * den)
        + (30 * n + den) \div (2 * den) + (2 * forecast * p + den) \div (2 * den)
        + (20 * e + den) \div (2 * den)

Thousandth == 0 .. 1000

LEMMA Computed == \A x \in Thousandth : x # NotComputed
BY DEF NotComputed, Thousandth

LEMMA BlendIsShares ==
  ASSUME NEW s \in Thousandth, NEW c \in Thousandth, NEW n \in Thousandth,
         NEW p \in {NotComputed} \cup Thousandth, NEW e \in Thousandth
  PROVE  Blend([signature |-> s, comparability |-> c, streak |-> n, precursor |-> p,
                evidence |-> e]) = Shares(s, c, n, p, e)
<1>1. s # NotComputed /\ c # NotComputed /\ n # NotComputed /\ e # NotComputed
  BY Computed
<1> DEFINE value == [signature |-> s, comparability |-> c, streak |-> n, precursor |-> p,
                     evidence |-> e]
<1> DEFINE weight == [k \in DOMAIN value |->
                        IF value[k] = NotComputed THEN 0 ELSE FactorWeight[k]]
<1> DEFINE forecast == IF p = NotComputed THEN 0 ELSE 30
<1> DEFINE den == Total(weight)
<1> DEFINE share == [k \in DOMAIN value |->
                       (2 * weight[k] * value[k] + den) \div (2 * den)]
<1>2. /\ weight.signature = 45 /\ weight.comparability = 30 /\ weight.streak = 15
      /\ weight.precursor = forecast /\ weight.evidence = 10
  BY <1>1 DEF FactorWeight
<1>3. den = 100 + forecast /\ den \in {100, 130}
  <2> HIDE DEF weight
  <2> QED  BY <1>2 DEF Total
<1>4. Blend(value) = Total(share)
  BY DEF Blend
<1>5. /\ DOMAIN value = {"signature", "comparability", "streak", "precursor", "evidence"}
      /\ value.signature = s /\ value.comparability = c /\ value.streak = n
      /\ value.precursor = p /\ value.evidence = e
  OBVIOUS
<1>6. /\ share.signature = (2 * 45 * s + den) \div (2 * den)
      /\ share.comparability = (2 * 30 * c + den) \div (2 * den)
      /\ share.streak = (2 * 15 * n + den) \div (2 * den)
      /\ share.precursor = (2 * forecast * p + den) \div (2 * den)
      /\ share.evidence = (2 * 10 * e + den) \div (2 * den)
  <2> HIDE DEF den, weight, value, forecast
  <2> QED  BY <1>2, <1>5
<1>7. 2 * 45 * s = 90 * s /\ 2 * 30 * c = 60 * c /\ 2 * 15 * n = 30 * n /\ 2 * 10 * e = 20 * e
  BY DEF Thousandth
<1>8. Total(share) = Shares(s, c, n, p, e)
  <2> HIDE DEF share, weight, value
  <2> QED  BY <1>3, <1>6, <1>7 DEF Total, Shares
<1> QED  BY <1>4, <1>8

\* A complete window under conditions the policy accepts, whose trajectory does not
\* contradict the intervention, is short of a high risk whatever the forecast and
\* the evidence; one in full agreement with nothing forecast is at a low risk.
Weakness == 0 .. 800

IsLow(s, c, p, r) ==
  /\ r \in 0 .. 599
  /\ s = 0 /\ c = 0 /\ p \in {NotComputed, 20} => r < 250

LEMMA SharesStayLow ==
  ASSUME NEW s \in {0, 500}, NEW c \in {0, 400}, NEW p \in PossibleForecast,
         NEW e \in Weakness
  PROVE  IsLow(s, c, p, Shares(s, c, 0, p, e))
<1>0. e \in 0 .. 800 /\ p \in {NotComputed} \cup 20 .. 980
  BY DEF Weakness, PossibleForecast
<1>1. CASE p = NotComputed
  <2>1. Shares(s, c, 0, p, e) = (90 * s + 100) \div 200 + (60 * c + 100) \div 200
          + (30 * 0 + 100) \div 200 + (2 * 0 * p + 100) \div 200 + (20 * e + 100) \div 200
    BY <1>1 DEF Shares
  <2>2. (90 * s + 100) \div 200 \in 0 .. 225 /\ (s = 0 => (90 * s + 100) \div 200 = 0)
    OBVIOUS
  <2>3. (60 * c + 100) \div 200 \in 0 .. 120 /\ (c = 0 => (60 * c + 100) \div 200 = 0)
    OBVIOUS
  <2>4. (30 * 0 + 100) \div 200 = 0 /\ (2 * 0 * p + 100) \div 200 = 0
    BY <1>1 DEF NotComputed
  <2>5. (20 * e + 100) \div 200 \in 0 .. 80
    BY <1>0
  <2> QED  BY <2>1, <2>2, <2>3, <2>4, <2>5 DEF IsLow
<1>2. CASE p \in 20 .. 980
  <2>1. Shares(s, c, 0, p, e) = (90 * s + 130) \div 260 + (60 * c + 130) \div 260
          + (30 * 0 + 130) \div 260 + (2 * 30 * p + 130) \div 260 + (20 * e + 130) \div 260
    BY <1>2 DEF Shares, NotComputed
  <2>2. (90 * s + 130) \div 260 \in 0 .. 173 /\ (s = 0 => (90 * s + 130) \div 260 = 0)
    OBVIOUS
  <2>3. (60 * c + 130) \div 260 \in 0 .. 92 /\ (c = 0 => (60 * c + 130) \div 260 = 0)
    OBVIOUS
  <2>4. (30 * 0 + 130) \div 260 = 0
    OBVIOUS
  <2>5. (2 * 30 * p + 130) \div 260 \in 0 .. 226 /\ (p = 20 => (2 * 30 * p + 130) \div 260 = 5)
    BY <1>2
  <2>6. (20 * e + 130) \div 260 \in 0 .. 62
    BY <1>0
  <2>7. p # NotComputed
    BY <1>2 DEF NotComputed
  <2>8. Shares(s, c, 0, p, e) \in 0 .. 599
    <3> DEFINE a == (90 * s + 130) \div 260 + (60 * c + 130) \div 260
    <3> DEFINE b == (2 * 30 * p + 130) \div 260 + (20 * e + 130) \div 260
    <3>1. a \in Int /\ 0 <= a /\ a <= 265
      BY <2>2, <2>3
    <3>2. b \in Int /\ 0 <= b /\ b <= 288
      <4>1. PICK z, u : z = (2 * 30 * p + 130) \div 260 /\ u = (20 * e + 130) \div 260
        OBVIOUS
      <4>2. z \in 0 .. 226 /\ u \in 0 .. 62 /\ b = z + u
        BY <2>5, <2>6, <4>1
      <4> HIDE DEF b
      <4> QED  BY <4>2
    <3>3. Shares(s, c, 0, p, e) = a + b
      <4> DEFINE x == (90 * s + 130) \div 260
      <4> DEFINE y == (60 * c + 130) \div 260
      <4> DEFINE z == (2 * 30 * p + 130) \div 260
      <4> DEFINE u == (20 * e + 130) \div 260
      <4>1. x \in Int /\ y \in Int
        BY <2>2, <2>3
      <4>2. z \in Int /\ u \in Int
        BY <2>5, <2>6
      <4>3. Shares(s, c, 0, p, e) = x + y + 0 + z + u /\ a = x + y /\ b = z + u
        BY <2>1, <2>4
      <4> HIDE DEF x, y, z, u, a, b
      <4> QED  BY <4>1, <4>2, <4>3
    <3> HIDE DEF a, b
    <3> QED  BY <3>1, <3>2, <3>3
  <2>9. ASSUME s = 0, c = 0, p = 20 PROVE Shares(s, c, 0, p, e) < 250
    <3>1. Shares(s, c, 0, p, e) = 0 + 0 + 0 + 5 + (20 * e + 130) \div 260
      BY <2>1, <2>2, <2>3, <2>4, <2>5, <2>9
    <3> QED  BY <3>1, <2>6
  <2> QED  BY <2>7, <2>8, <2>9 DEF IsLow
<1> QED  BY <1>0, <1>1, <1>2

AreFactors(f, alignment, relapse, trust, s, c, e) ==
  /\ s \in {0, 500} /\ c \in {0, 400} /\ e \in Weakness
  /\ Factors(f, alignment, relapse, {trust}) =
       [signature |-> s, comparability |-> c, streak |-> 0, precursor |-> relapse,
        evidence |-> e]
  /\ alignment = 1000 => s = 0
  /\ f.comp = "COMPARABLE" => c = 0

\* What is left of a mission that can close, for the advice.
Closing(f) ==
  /\ f.streak \in Nat /\ f.streak >= Required
  /\ f.comp \in {"COMPARABLE", "PARTIALLY_COMPARABLE"}

Supporting == {0, 1000}

LEMMA FactorsOfAClosure ==
  ASSUME NEW f, Closing(f),
         NEW alignment \in Supporting, NEW relapse \in Forecasts, NEW trust \in ValidTrust
  PROVE  \E s, c, e : AreFactors(f, alignment, relapse, trust, s, c, e)
<1> DEFINE s == Within(1000 - (alignment + 1000) \div 2)
<1> DEFINE c == ComparabilityRisk(f.comp)
<1> DEFINE e == Within(1000 - Min({trust}))
<1>1. s \in {0, 500} /\ (alignment = 1000 => s = 0)
  BY DEF Within, Supporting
<1>2. c \in {0, 400} /\ (f.comp = "COMPARABLE" => c = 0)
  BY DEF ComparabilityRisk, Closing
<1>3. Min({trust}) = trust /\ trust \in 200 .. 1000
  <2>1. trust \in 200 .. 1000
    BY TrustOfTheValid
  <2>2. \A y \in {trust} : trust =< y
    BY <2>1
  <2> QED  BY <2>1, <2>2 DEF Min
<1>4. e \in Weakness
  BY <1>3 DEF Within, Weakness
<1>5. Shortfall(f.streak) = 0
  <2>1. Required \in Nat \ {0} /\ f.streak \in Nat /\ f.streak >= Required
    BY EvaluationAssumption DEF Closing
  <2>2. (1000 * (Required - f.streak)) \div Required <= 0
    <3> DEFINE d == Required - f.streak
    <3>1. d \in Int /\ d <= 0
      BY <2>1
    <3>2. (1000 * d) \in Int /\ 1000 * d <= 0
      BY <3>1
    <3> DEFINE a == 1000 * d
    <3> HIDE DEF a, d
    <3>3. a \div Required <= 0
      BY <2>1, <3>2 DEF a
    <3> QED  BY <3>3 DEF a, d
  <2>3. (1000 * (Required - f.streak)) \div Required \in Int
    BY <2>1
  <2> HIDE <1>1
  <2> QED  BY <2>2, <2>3 DEF Shortfall, Within
<1>6. relapse \in {NotComputed} \cup 20 .. 980
  BY ForecastRange DEF PossibleForecast
<1>7. (IF relapse = NoForecast THEN NotComputed ELSE Within(relapse)) = relapse
  BY <1>6 DEF NoForecast, NotComputed, Within
<1>8. Factors(f, alignment, relapse, {trust}) =
        [signature |-> s, comparability |-> c, streak |-> 0, precursor |-> relapse,
         evidence |-> e]
  <2>1. {trust} # {}
    OBVIOUS
  <2> HIDE DEF s, c, e
  <2> QED  BY <1>5, <1>7, <2>1 DEF Factors, s, c, e
<1>9. AreFactors(f, alignment, relapse, trust, s, c, e)
  BY <1>1, <1>2, <1>4, <1>8 DEF AreFactors
<1> HIDE DEF s, c, e
<1> QED  BY <1>9

\* What the advice says of a mission that can close.
LEMMA AdviceOnAClosure ==
  ASSUME NEW f, Closing(f), FaultInWindow(f) = FALSE,
         NEW alignment \in Supporting, NEW relapse \in Forecasts, NEW trust \in ValidTrust
  PROVE  AdviceFits(f, alignment, relapse, Advice(f, Risk(f, alignment, relapse, {trust})))
<1>1. PICK s, c, e : AreFactors(f, alignment, relapse, trust, s, c, e)
  BY FactorsOfAClosure
<1>2. relapse \in PossibleForecast
  BY ForecastRange
<1>3. Blend(Factors(f, alignment, relapse, {trust})) = Shares(s, c, 0, relapse, e)
  <2>1. s \in Thousandth /\ c \in Thousandth /\ 0 \in Thousandth /\ e \in Thousandth
    BY <1>1 DEF Thousandth, AreFactors, Weakness
  <2>2. relapse \in {NotComputed} \cup Thousandth
    BY <1>2 DEF Thousandth, PossibleForecast
  <2>3. Blend([signature |-> s, comparability |-> c, streak |-> 0, precursor |-> relapse,
               evidence |-> e]) = Shares(s, c, 0, relapse, e)
    BY <2>1, <2>2, BlendIsShares
  <2> QED  BY <1>1, <2>3 DEF AreFactors
<1> DEFINE r == Shares(s, c, 0, relapse, e)
<1>4. IsLow(s, c, relapse, r)
  <2>1. s \in {0, 500} /\ c \in {0, 400} /\ e \in Weakness
    BY <1>1 DEF AreFactors
  <2> QED  BY <1>2, <2>1, SharesStayLow
<1> HIDE DEF r
<1>5. Risk(f, alignment, relapse, {trust}) = r
  <2>1. Risk(f, alignment, relapse, {trust}) = Within(r)
    BY <1>3 DEF Risk, r
  <2> QED  BY <1>4, <2>1 DEF Within, IsLow
<1>6. CASE r < 250
  <2>1. Advice(f, r) = "closure is well supported"
    <3>1. Band(r) = "low"
      BY <1>4, <1>6 DEF Band, IsLow
    <3> QED  BY <3>1 DEF Advice
  <2>2. AdviceFits(f, alignment, relapse, Advice(f, r))
    BY <2>1 DEF AdviceFits
  <2> QED  BY <1>5, <2>2
<1>7. CASE ~(r < 250)
  <2>1. Advice(f, r) = "keep monitoring"
    <3>1. Band(r) = "elevated"
      BY <1>4, <1>7 DEF Band, IsLow
    <3> QED  BY <3>1 DEF Advice
  <2>2. ASSUME alignment = 1000, f.comp = "COMPARABLE",
               relapse \in {NoForecast, PRelapse(0, 0)}
        PROVE  FALSE
    <3>1. s = 0 /\ c = 0
      BY <1>1, <2>2 DEF AreFactors
    <3>2. relapse \in {NotComputed, 20}
      BY <2>2, CalmForecast DEF NoForecast, NotComputed
    <3> QED  BY <1>4, <1>7, <3>1, <3>2 DEF IsLow
  <2>3. AdviceFits(f, alignment, relapse, Advice(f, r))
    <3>1. PICK a : a = Advice(f, r)
      OBVIOUS
    <3>2. a # "do not close"
      BY <2>1, <3>1
    <3>3. /\ alignment = 1000 /\ f.comp = "COMPARABLE" /\ ~FaultInWindow(f)
          /\ relapse \in {NoForecast, PRelapse(0, 0)}
          => a = "closure is well supported"
      BY <2>2
    <3>4. AdviceFits(f, alignment, relapse, a)
      BY <3>2, <3>3 DEF AdviceFits
    <3> QED  BY <3>1, <3>4
  <2> QED  BY <1>5, <2>3
<1> QED  BY <1>6, <1>7

\* The cases in which the advice may say what it likes.
LEMMA FaultExcuses ==
  ASSUME NEW f, FaultInWindow(f) = TRUE, NEW alignment \in Alignments, NEW relapse, NEW advice
  PROVE  AdviceFits(f, alignment, relapse, advice)
BY DEF AdviceFits

LEMMA NothingToSupport ==
  ASSUME NEW f, NEW alignment \in Alignments, alignment \notin Supporting, NEW relapse,
         NEW advice
  PROVE  AdviceFits(f, alignment, relapse, advice)
<1>1. alignment = -1000
  BY DEF Alignments, Supporting
<1>2. (alignment < 0) = TRUE /\ alignment # 1000
  BY <1>1
<1> HIDE <1>1
<1> QED  BY <1>2 DEF AdviceFits

\* Spine, plan, certificate and advice say of a mission what its disposition says,
\* for any contract, debt and comparability class (mission_spine.py,
\* evidence_planner.py, certificate.py, false_closure_risk.py).
THEOREM ServicesAlwaysAgree == DebtSpec => []ServicesAgree
<1>1. LifeInv => ServicesAgree
  <2> SUFFICES ASSUME LifeInv, NEW f \in Views
               PROVE  ClosureBorneOut(f) /\ AdviceBorneOut(f) /\ ConfidenceBorneOut(f)
    BY DEF ServicesAgree
  <2>1. /\ f.state = state /\ f.debt = DebtPhase /\ HasContract
        /\ f.streak = SeenBy(Current).streak
    BY DEF Views
  <2>2. streak \in Nat /\ f.streak \in Nat
    BY <2>1 DEF LifeInv, DebtTypeOK, TypeOK, SeenBy
  <2>3. ASSUME CanClose(f)
        PROVE  /\ Complete(f)
               /\ Recommended(f) \subseteq {"comparable run", "operator confirmation"}
               /\ state = "VERIFIED_RECOVERY" => CertificateStatus(f, reopened) = "certified"
    <3>1. /\ VerdictOf(f) = "verified"
          /\ f.comp \in {"COMPARABLE", "PARTIALLY_COMPARABLE"}
          /\ f.sensor \notin {"UNTRUSTED", "UNKNOWN"}
      BY <2>3, CanCloseMeans
    <3>2. \A h \in DOMAIN HardInvariants(f) : HardInvariants(f)[h]
      BY <3>1, VerdictOpensEveryGate
    <3>3. DOMAIN HardInvariants(f)
            = {"machine", "quality", "window", "evidence", "approvals"}
      BY DEF HardInvariants
    <3>4. /\ HardInvariants(f).machine /\ HardInvariants(f).quality
          /\ HardInvariants(f).window /\ HardInvariants(f).evidence
          /\ HardInvariants(f).approvals
      BY <3>2, <3>3
    <3>5. WindowComplete(f.streak) /\ \A k \in TelemetryKeys : Status(f, k) # "BLOCKED"
      BY <3>4 DEF HardInvariants
    <3>6. f.streak >= Required
      BY <3>5 DEF WindowComplete
    <3>7. \E w \in DOMAIN windows : ActiveWindow(w)
      <4>1. Required \in Nat \ {0}
        BY EvaluationAssumption
      <4> QED  BY <2>1, <3>6, <4>1 DEF SeenBy
    <3>8. ContractReviewed(f)
      BY <2>1, <3>7, WaitingHasNoWindow DEF ContractReviewed, Waiting
    <3>9. Decided(f)
      BY <2>3 DEF Decided, CanClose
    <3>10. Complete(f)
      <4>1. \A i \in DOMAIN Done(f) : Done(f)[i] = TRUE
        <5>1. /\ ContractReviewed(f) = TRUE /\ HardInvariants(f).evidence = TRUE
              /\ WindowComplete(f.streak) = TRUE /\ Decided(f) = TRUE /\ CanClose(f) = TRUE
          <6>1. HardInvariants(f).evidence \in BOOLEAN
            BY DEF HardInvariants
          <6>2. /\ ContractReviewed(f) \in BOOLEAN /\ WindowComplete(f.streak) \in BOOLEAN
                /\ Decided(f) \in BOOLEAN /\ CanClose(f) \in BOOLEAN
            BY DEF ContractReviewed, WindowComplete, Decided, CanClose
          <6> QED  BY <2>3, <3>4, <3>5, <3>8, <3>9, <6>1, <6>2
        <5>2. Done(f) = <<TRUE, TRUE, TRUE, TRUE, TRUE, TRUE, TRUE>>
          BY <5>1, Zenon DEF Done
        <5>3. DOMAIN Done(f) = 1 .. 7
          BY <5>2
        <5>4. ASSUME NEW i \in 1 .. 7 PROVE Done(f)[i] = TRUE
          <6>1. i \in {1, 2, 3, 4, 5, 6, 7}
            OBVIOUS
          <6>2. /\ Done(f)[1] = TRUE /\ Done(f)[2] = TRUE /\ Done(f)[3] = TRUE
                /\ Done(f)[4] = TRUE
            BY <5>2
          <6>3. Done(f)[5] = TRUE /\ Done(f)[6] = TRUE /\ Done(f)[7] = TRUE
            BY <5>2
          <6> QED  BY <6>1, <6>2, <6>3
        <5> QED  BY <5>3, <5>4
      <4> QED  BY <4>1 DEF Complete
    <3>11. Recommended(f) \subseteq {"comparable run", "operator confirmation"}
      <4>1. BlockedKeys(f) = {}
        BY <3>5 DEF BlockedKeys
      <4> QED  BY <3>1, <3>4, <4>1 DEF Recommended
    <3>12. state = "VERIFIED_RECOVERY" => CertificateStatus(f, reopened) = "certified"
      BY <2>1, <3>1 DEF CertificateStatus, PolicyResult
    <3> QED  BY <3>10, <3>11, <3>12
  <2>4. ASSUME CanClose(f), NEW alignment \in Alignments, NEW relapse \in Forecasts,
               NEW trust \in ValidTrust
        PROVE  AdviceFits(f, alignment, relapse, Advice(f, Risk(f, alignment, relapse, {trust})))
    <3>1. VerdictOf(f) = "verified" /\ f.comp \in {"COMPARABLE", "PARTIALLY_COMPARABLE"}
      BY <2>4, CanCloseMeans
    <3>2. WindowComplete(f.streak)
      BY <3>1 DEF VerdictOf, Verdict, TechnicalPass
    <3>3. Closing(f)
      BY <2>2, <3>1, <3>2 DEF Closing, WindowComplete
    <3>4. CASE alignment \in Supporting /\ FaultInWindow(f) = FALSE
      BY <3>3, <3>4, AdviceOnAClosure
    <3>5. CASE alignment \notin Supporting
      BY <3>5, NothingToSupport
    <3>6. CASE FaultInWindow(f) = TRUE
      BY <3>6, FaultExcuses
    <3>7. FaultInWindow(f) \in BOOLEAN
      BY DEF FaultInWindow
    <3> QED  BY <3>4, <3>5, <3>6, <3>7
  <2>5. ASSUME f.comp = "COMPARABLE", f.sensor = "TRUSTED", Confidence(f) = 100,
               ~HasActiveDebt, state # "ESCALATED"
        PROVE  CanClose(f)
    <3>1. f.debt = "none"
      BY <2>1, <2>5 DEF DebtPhase
    <3> QED  BY <2>1, <2>5, <3>1, FullConfidence, InvariantsMakeTheVerdict, VerdictCloses
  <2>6. ClosureBorneOut(f)
    BY <2>3 DEF ClosureBorneOut
  <2>7. AdviceBorneOut(f)
    BY <2>4 DEF AdviceBorneOut
  <2>8. ConfidenceBorneOut(f)
    BY <2>5 DEF ConfidenceBorneOut
  <2> QED  BY <2>6, <2>7, <2>8
<1>2. DebtTypeOK /\ AccountInv => LifeInv
  BY DEF LifeInv
<1> QED  BY <1>1, <1>2, DebtTypeCorrect, AccountInvariant, PTL

-----------------------------------------------------------------------------
(* Lessons.                                                                *)

\* An incident that exists has been given an intervention, and the one that holds
\* is the last: the contracts and the interventions run in step.  Only the first is
\* of a lower sequence than another.
LEMMA BlamesTheFirst ==
  ASSUME LifeInv, state # "NO_INCIDENT"
  PROVE  /\ Successful = Len(interventions) /\ Successful \in DOMAIN interventions
         /\ Failed = IF Successful = 1 THEN 0 ELSE 1
<1>1. /\ InterventionsInv /\ ContractsInv /\ StatesInv
      /\ Len(interventions) \in Nat /\ DOMAIN interventions = 1 .. Len(interventions)
      /\ Len(contracts) \in Nat /\ reopened \in Nat
      /\ contracts = <<>> <=> Len(contracts) = 0
  BY TableSizes DEF LifeInv, DebtTypeOK, AccountInv, TrailInv
<1>2. Successful = Len(interventions) /\ Len(interventions) >= 1
  <2>1. CASE HasContract
    BY <1>1, <2>1 DEF Successful, InterventionOf, InterventionsInv, ContractsInv, HasContract,
                      Current
  <2>2. CASE ~HasContract
    <3>1. state \in {"INTERVENTION_PROPOSED", "INTERVENTION_RECORDED"}
      BY <1>1, <2>2 DEF StatesInv, Early, HasContract, Current
    <3>2. reopened = 0
      BY <1>1, <3>1 DEF StatesInv, Early
    <3> QED  BY <1>1, <2>2, <3>1, <3>2 DEF Successful, InterventionsInv
  <2> QED  BY <2>1, <2>2
<1> DEFINE lower == {i \in DOMAIN interventions :
                       interventions[i].sequence < interventions[Successful].sequence}
<1>3. lower = IF Successful = 1 THEN {} ELSE {1}
  <2>1. \A i \in DOMAIN interventions :
          interventions[i].sequence = IF i = 1 THEN 1 ELSE 2
    BY <1>1 DEF InterventionsInv
  <2> QED  BY <1>1, <1>2, <2>1
<1>4. Failed = IF lower = {} THEN 0 ELSE CHOOSE i \in lower : \A j \in lower : i <= j
  BY DEF Failed
<1>5. Failed = IF Successful = 1 THEN 0 ELSE 1
  <2> HIDE DEF lower
  <2>1. CASE Successful = 1
    BY <1>3, <1>4, <2>1
  <2>2. CASE Successful # 1
    <3>1. lower = {1} /\ Failed = CHOOSE i \in lower : \A j \in lower : i <= j
      BY <1>3, <1>4, <2>2
    <3>2. \E i \in lower : \A j \in lower : i <= j
      BY <3>1
    <3>3. Failed \in lower
      BY <3>1, <3>2
    <3> QED  BY <2>2, <3>1, <3>3
  <2> QED  BY <2>1, <2>2
<1> QED  BY <1>1, <1>2, <1>5

\* A lesson is reviewed; what it tells stays.
Reviewed(s, i, st) == [s EXCEPT ![i].status = st]

LEMMA LessonReviewed ==
  ASSUME NEW s \in Seq(Lesson), NEW i \in DOMAIN s, NEW st \in LessonStatus,
         NEW t, t = Reviewed(s, i, st)
  PROVE  /\ t \in Seq(Lesson) /\ DOMAIN t = DOMAIN s
         /\ \A j \in DOMAIN s : /\ t[j].closing = s[j].closing
                                /\ t[j].successful = s[j].successful
                                /\ t[j].failed = s[j].failed
                                /\ t[j].recurrence = s[j].recurrence
<1>1. s[i] \in Lesson /\ i \in 1 .. Len(s)
  BY LenProperties
<1>2. PICK l : l = [s[i] EXCEPT !.status = st]
  OBVIOUS
<1>3. /\ l \in Lesson /\ l.closing = s[i].closing /\ l.successful = s[i].successful
      /\ l.failed = s[i].failed /\ l.recurrence = s[i].recurrence
  BY <1>1, <1>2 DEF Lesson
<1>4. t = [s EXCEPT ![i] = l]
  BY <1>2 DEF Reviewed
<1>5. t \in Seq(Lesson)
  BY <1>1, <1>3, <1>4, ExceptSeq
<1>6. DOMAIN t = DOMAIN s /\ t[i] = l /\ \A j \in DOMAIN s : j # i => t[j] = s[j]
  BY <1>4
<1> QED  BY <1>3, <1>5, <1>6

\* What a lesson that finalize() drafted tells of the incident.
ClosingLesson(l) ==
  /\ state = "VERIFIED_RECOVERY"
  /\ l.successful = Current
  /\ l.failed = IF reopened = 0 THEN 0 ELSE 1
  /\ l.recurrence = firstFault

\* LessonsMatchTheRows is not inductive: that the incident is closed, so that
\* nothing the lesson tells can change any more, must be added.
LessonsInv ==
  /\ lessons \in Seq(Lesson) /\ firstFault \in Nat
  /\ \A i \in DOMAIN lessons : lessons[i].closing => ClosingLesson(lessons[i])

\* The knowledge of a closure is counted in the step that closes, and only there.
LEMMA KnowledgeOfTheClosure ==
  ASSUME LifeInv, LifeInv', [DebtNext]_debtVars,
         published'["knowledge"] > published["knowledge"]
  PROVE  /\ state = "MONITORING_RECOVERY" /\ state' = "VERIFIED_RECOVERY"
         /\ reopened' = reopened /\ HasContract /\ Current = reopened + 1
         /\ Current' = reopened' + 1
<1>1. ClosureIsAllOrNothing /\ ClosureIsAllOrNothing'
  BY DEF LifeInv, AccountInv
<1>2. state # "VERIFIED_RECOVERY" /\ state' = "VERIFIED_RECOVERY"
  BY <1>1 DEF ClosureIsAllOrNothing
<1>3. ~SweepDebt
  BY <1>2, SweepMoves
<1>4. state = "MONITORING_RECOVERY" /\ reopened' = reopened
  BY <1>2, <1>3, WorkflowOrSweep, WorkflowMoves DEF LifeInv, DebtTypeOK, Moves
<1>5. HasContract /\ Current = reopened + 1
  BY <1>4, ContractsCounted DEF Early
<1>6. (LifeInv /\ state \notin Early => HasContract /\ Current = reopened + 1)'
  BY ContractsCounted, PTL
<1> QED  BY <1>2, <1>4, <1>5, <1>6 DEF Early

\* Once an incident is closed nothing that a lesson tells changes.
LEMMA ClosedIsClosed ==
  ASSUME LifeInv, LifeInv', [DebtNext]_debtVars, state = "VERIFIED_RECOVERY"
  PROVE  /\ state' = "VERIFIED_RECOVERY" /\ reopened' = reopened /\ Current' = Current
         /\ Len(obs') <= Len(obs)
<1>1. state' = "VERIFIED_RECOVERY"
  BY FinishedStays DEF LeftOut
<1>2. reopened' = reopened
  <2>1. CASE SweepDebt
    BY <2>1, SweepMoves
  <2>2. CASE [Next]_vars
    BY <2>2, WorkflowMoves DEF LifeInv, DebtTypeOK, Moves
  <2> QED  BY <2>1, <2>2, WorkflowOrSweep
<1>3. Current = reopened + 1
  BY ContractsCounted DEF Early
<1>4. (LifeInv /\ state \notin Early => HasContract /\ Current = reopened + 1)'
  BY ContractsCounted, PTL
<1>5. Len(obs') <= Len(obs)
  <2>1. Len(obs) \in Nat /\ Len(<<>>) = 0
    BY LenProperties, EmptySeq DEF LifeInv, DebtTypeOK, TypeOK
  <2>2. CASE SweepDebt
    BY <2>1, <2>2, SweepMoves
  <2>3. CASE [Next]_vars
    <3>1. \A o, c : ~AdvanceCycle(o, c)
      BY DEF AdvanceCycle
    <3>2. obs' = obs \/ obs' = <<>>
      BY <2>3, <3>1, ObservationsGrow DEF LifeInv, DebtTypeOK
    <3> QED  BY <2>1, <3>2
  <2> QED  BY <2>2, <2>3, WorkflowOrSweep
<1> QED  BY <1>1, <1>2, <1>3, <1>4, <1>5 DEF Early

LEMMA NotAbove == \A n \in Nat : \A m : m > n => m # n
<1>1. \A n \in Nat : ~(n > n)
  BY SMT
<1> QED  BY <1>1

\* A candidate is drafted of an incident that exists.
LEMMA DraftedOfAnIncident ==
  ASSUME LifeInv, [DebtNext]_debtVars, published' # published
  PROVE  state # "NO_INCIDENT"
<1>1. CASE SweepDebt
  BY <1>1 DEF SweepDebt
<1>2. CASE [Next]_vars
  <2>1. Next
    BY <1>2 DEF vars, effectVars
  <2>2. AnnounceByHand \/ DraftByHand \/ \E o \in Readings, c \in Comparability : AdvanceCycle(o, c)
    BY <2>1 DEF Next, TriageFromAlert, AcceptDiagnosis, DraftContract, ReviewContract,
                SubmitEvidence, EvidenceAges, DecideApproval, StartMonitoring,
                ApproveContingency, CompleteContingency, effectVars
  <2> QED  BY <2>2 DEF AnnounceByHand, DraftByHand, AdvanceCycle
<1> QED  BY <1>1, <1>2, WorkflowOrSweep

LEMMA LessonsStep ==
  LifeInv /\ LifeInv' /\ LessonsInv /\ [RecordsNext]_recordVars => LessonsInv'
<1> SUFFICES ASSUME LifeInv, LifeInv', LessonsInv, [RecordsNext]_recordVars
             PROVE  LessonsInv'
  OBVIOUS
<1>0. [DebtNext]_debtVars
  BY RecordsStep
<1>1. Len(obs') \in Nat /\ Len(obs) \in Nat
  BY LenProperties DEF LifeInv, DebtTypeOK, TypeOK
<1>2. ASSUME NEW faulted \in Nat, NEW closing \in BOOLEAN, state # "NO_INCIDENT"
      PROVE  /\ NewLesson(faulted, closing) \in Lesson
             /\ NewLesson(faulted, closing).closing = closing
             /\ NewLesson(faulted, closing).recurrence = faulted
             /\ NewLesson(faulted, closing).successful = Successful
             /\ NewLesson(faulted, closing).failed = IF Successful = 1 THEN 0 ELSE 1
  <2>1. Successful \in Nat /\ Failed = IF Successful = 1 THEN 0 ELSE 1
    BY <1>2, BlamesTheFirst, TableSizes DEF LifeInv, DebtTypeOK
  <2> QED  BY <1>2, <2>1 DEF NewLesson, Lesson, LessonStatus
<1>3. CASE Request
  <2>1. NextFirstFault \in Nat /\ firstFault' = NextFirstFault
    BY <1>1, <1>3 DEF Request, NextFirstFault, LessonsInv
  <2>2. ASSUME NEW i \in DOMAIN lessons, lessons[i].closing
        PROVE  ClosingLesson(lessons[i])' \/ lessons'[i] # lessons[i]
    <3>1. ClosingLesson(lessons[i])
      BY <2>2 DEF LessonsInv
    <3>2. /\ state' = "VERIFIED_RECOVERY" /\ reopened' = reopened /\ Current' = Current
          /\ Len(obs') <= Len(obs)
      BY <1>0, <3>1, ClosedIsClosed DEF ClosingLesson
    <3>3. firstFault' = firstFault
      BY <1>1, <2>1, <3>2 DEF NextFirstFault
    <3> QED  BY <3>1, <3>2, <3>3 DEF ClosingLesson
  <2>3. CASE published'["knowledge"] > published["knowledge"]
    <3>1. lessons' = Append(lessons, NewLesson(NextFirstFault, TRUE))
      BY <1>3, <2>3 DEF Request
    <3>2. PICK l : l = NewLesson(NextFirstFault, TRUE)
      OBVIOUS
    <3>3. /\ state = "MONITORING_RECOVERY" /\ state' = "VERIFIED_RECOVERY"
          /\ reopened' = reopened /\ HasContract /\ Current = reopened + 1
          /\ Current' = reopened' + 1
      BY <1>0, <2>3, KnowledgeOfTheClosure
    <3>4. Successful = Current
      BY <3>3 DEF Successful, InterventionOf
    <3>5. l \in Lesson /\ l.recurrence = firstFault' /\ l.successful = Current'
          /\ l.failed = IF Successful = 1 THEN 0 ELSE 1
      BY <1>2, <2>1, <3>2, <3>3, <3>4
    <3>6. (Successful = 1) <=> (reopened' = 0)
      BY <3>3, <3>4, TableSizes DEF LifeInv, DebtTypeOK
    <3>7. /\ lessons' \in Seq(Lesson) /\ DOMAIN lessons' = DOMAIN lessons \cup {Len(lessons) + 1}
          /\ lessons'[Len(lessons) + 1] = l
          /\ \A i \in DOMAIN lessons : lessons'[i] = lessons[i]
      <4>1. lessons \in Seq(Lesson) /\ lessons' = Append(lessons, l)
        BY <3>1, <3>2 DEF LessonsInv
      <4> QED  BY <3>5, <4>1, RowAppended
    <3>8. \A i \in DOMAIN lessons : ~lessons[i].closing
      BY <3>3 DEF LessonsInv, ClosingLesson
    <3>9. /\ state' = "VERIFIED_RECOVERY" /\ l.successful = Current'
          /\ l.failed = IF reopened' = 0 THEN 0 ELSE 1
          /\ l.recurrence = firstFault'
      BY <3>3, <3>5, <3>6
    <3>10. ASSUME NEW i \in DOMAIN lessons', lessons'[i].closing
           PROVE  ClosingLesson(lessons[i])'
      <4>1. lessons'[i] = l
        BY <3>7, <3>8, <3>10
      <4> QED  BY <3>9, <4>1 DEF ClosingLesson
    <3> QED  BY <2>1, <3>7, <3>10 DEF LessonsInv
  <2>4. CASE ~(published'["knowledge"] > published["knowledge"])
    <3>1. CASE lessons' = lessons
      BY <2>1, <2>2, <3>1 DEF LessonsInv
    <3>2. CASE lessons' # lessons
      <4>1. lessons' = Append(lessons, NewLesson(NextFirstFault, FALSE))
            /\ published' # published
        <5>1. /\ lessons' = Append(lessons, NewLesson(NextFirstFault, FALSE))
              /\ published'["drafted by hand"] > published["drafted by hand"]
          BY <1>3, <2>4, <3>2 DEF Request
        <5>2. published["drafted by hand"] \in Nat
          <6>1. published \in [Told -> Nat]
            BY DEF LifeInv, DebtTypeOK, TypeOK
          <6> QED  BY <6>1 DEF Told
        <5>3. published'["drafted by hand"] # published["drafted by hand"]
          BY <5>1, <5>2, NotAbove
        <5>4. published' # published
          BY <5>3
        <5> QED  BY <5>1, <5>4
      <4>2. PICK l : l = NewLesson(NextFirstFault, FALSE)
        OBVIOUS
      <4>3. l \in Lesson /\ l.closing = FALSE
        BY <1>0, <1>2, <2>1, <4>1, <4>2, DraftedOfAnIncident
      <4>4. /\ lessons' \in Seq(Lesson) /\ DOMAIN lessons' = DOMAIN lessons \cup {Len(lessons) + 1}
            /\ lessons'[Len(lessons) + 1] = l
            /\ \A i \in DOMAIN lessons : lessons'[i] = lessons[i]
        <5>1. lessons \in Seq(Lesson) /\ lessons' = Append(lessons, l)
          BY <4>1, <4>2 DEF LessonsInv
        <5> QED  BY <4>3, <5>1, RowAppended
      <4> QED  BY <2>1, <2>2, <4>3, <4>4 DEF LessonsInv
    <3> QED  BY <3>1, <3>2
  <2> QED  BY <2>3, <2>4
<1>4. ASSUME UNCHANGED <<state, reopened, contracts, firstFault>>, NEW l
      PROVE  ClosingLesson(l) => ClosingLesson(l)'
  BY <1>4 DEF ClosingLesson, Current
<1>6. ASSUME NEW role \in HumanRole, NEW i \in DOMAIN lessons,
             NEW status \in {"APPROVED", "REJECTED"}, ReviewLesson(role, i, status)
      PROVE  LessonsInv'
  <2>1. lessons' = Reviewed(lessons, i, status) /\ UNCHANGED <<debtVars, firstFault>>
    BY <1>6 DEF ReviewLesson, Reviewed
  <2>2. /\ lessons' \in Seq(Lesson) /\ DOMAIN lessons' = DOMAIN lessons
        /\ \A j \in DOMAIN lessons : /\ lessons'[j].closing = lessons[j].closing
                                     /\ lessons'[j].successful = lessons[j].successful
                                     /\ lessons'[j].failed = lessons[j].failed
                                     /\ lessons'[j].recurrence = lessons[j].recurrence
    <3>1. lessons \in Seq(Lesson) /\ status \in LessonStatus
      BY DEF LessonsInv, LessonStatus
    <3> QED  BY <2>1, <3>1, LessonReviewed
  <2>3. UNCHANGED <<state, reopened, contracts, firstFault>>
    BY <2>1 DEF debtVars, vars
  <2> QED  BY <2>2, <2>3 DEF LessonsInv, ClosingLesson, Current
<1>7. CASE UNCHANGED <<debtVars, firstFault, lessons>>
  <2>1. UNCHANGED <<state, reopened, contracts, firstFault, lessons>>
    BY <1>7 DEF debtVars, vars
  <2> QED  BY <2>1 DEF LessonsInv, ClosingLesson, Current
<1> QED
  BY <1>3, <1>6, <1>7 DEF RecordsNext, recordVars, HandOver, Acknowledge

LEMMA LessonsInvariant == RecordsSpec => []LessonsInv
<1>1. RecordsInit => LessonsInv
  BY EmptySeq DEF RecordsInit, LessonsInv
<1> QED  BY <1>1, LessonsStep, LifeInvariant, PTL DEF RecordsSpec

\* The lesson of a closure credits the intervention whose contract was fulfilled,
\* blames an earlier one exactly when the incident was reopened, and names a
\* relapse that was observed, whatever is drafted by hand, reviewed or recorded
\* beside it (derive_knowledge_candidate(), finalize()).
THEOREM LessonsAreTrue == RecordsSpec => []LessonsMatchTheRows
<1>1. LifeInv /\ LessonsInv => LessonsMatchTheRows
  <2> SUFFICES ASSUME LifeInv, LessonsInv, NEW i \in DOMAIN lessons, lessons[i].closing
               PROVE  LET l == lessons[i]
                      IN  /\ l.successful \in DOMAIN contracts
                          /\ contracts[l.successful].status = "fulfilled"
                          /\ IF reopened = 0 THEN l.failed = 0
                             ELSE l.failed \in DOMAIN contracts
                                  /\ contracts[l.failed].status = "violated"
                          /\ l.recurrence = firstFault
    BY DEF LessonsMatchTheRows
  <2>1. ClosingLesson(lessons[i])
    BY DEF LessonsInv
  <2>2. state = "VERIFIED_RECOVERY" /\ ClosureIsAllOrNothing /\ ContractsInv /\ StatesInv
    BY <2>1 DEF ClosingLesson, LifeInv, AccountInv, TrailInv
  <2>3. Len(contracts) \in Nat /\ DOMAIN contracts = 1 .. Len(contracts) /\ reopened \in Nat
    BY TableSizes DEF LifeInv, DebtTypeOK
  <2>4. Len(contracts) = reopened + 1
    BY <2>2, ContractsCounted DEF Early, Current
  <2>5. PICK c \in DOMAIN contracts : contracts[c].status = "fulfilled"
    BY <2>2 DEF ClosureIsAllOrNothing
  <2>6. c = Current
    BY <2>2, <2>3, <2>4, <2>5 DEF ContractsInv, Current
  <2>7. reopened # 0 => 1 \in DOMAIN contracts /\ contracts[1].status = "violated"
    BY <2>2, <2>3, <2>4 DEF ContractsInv
  <2> QED  BY <2>1, <2>5, <2>6, <2>7 DEF ClosingLesson
<1> QED  BY <1>1, LifeInvariant, LessonsInvariant, PTL

-----------------------------------------------------------------------------
(* Notices.                                                                *)

\* Where a notice stands in an inbox, and what the supervisor's last one says.
At(box, n) == {i \in DOMAIN box : box[i] = n}
LastTold(box, kind) ==
  \E i \in DOMAIN box : /\ box[i] = Note("SUPERVISOR", kind)
                        /\ \A j \in i + 1 .. Len(box) : box[j].to # "SUPERVISOR"

\* The indexes of an inbox to which others are appended.
LEMMA NoticesAppended ==
  ASSUME NEW s \in Seq(Notice), NEW e \in Seq(Notice), NEW t, t = s \o e
  PROVE  /\ t \in Seq(Notice) /\ Len(s) \in Nat /\ Len(e) \in Nat
         /\ Len(t) = Len(s) + Len(e)
         /\ DOMAIN s = 1 .. Len(s) /\ DOMAIN t = 1 .. Len(s) + Len(e)
         /\ \A i \in 1 .. Len(s) : t[i] = s[i]
         /\ \A i \in 1 .. Len(e) : t[Len(s) + i] = e[i]
<1>1. /\ t \in Seq(Notice) /\ Len(t) = Len(s) + Len(e)
      /\ \A i \in 1 .. Len(s) + Len(e) :
           t[i] = IF i <= Len(s) THEN s[i] ELSE e[i - Len(s)]
  BY ConcatProperties
<1>2. Len(s) \in Nat /\ Len(e) \in Nat /\ DOMAIN s = 1 .. Len(s) /\ DOMAIN t = 1 .. Len(t)
  BY <1>1, LenProperties
<1>3. \A i \in 1 .. Len(s) : t[i] = s[i]
  BY <1>1, <1>2
<1>4. ASSUME NEW i \in 1 .. Len(e) PROVE t[Len(s) + i] = e[i]
  <2>1. Len(s) + i \in 1 .. Len(s) + Len(e) /\ ~(Len(s) + i <= Len(s))
        /\ (Len(s) + i) - Len(s) = i
    BY <1>2
  <2> QED  BY <1>1, <2>1
<1> QED  BY <1>1, <1>2, <1>3, <1>4

LEMMA NoNotice ==
  ASSUME NEW s \in Seq(Notice), NEW t, t = s \o <<>>
  PROVE  t = s
BY ConcatEmptySeq

\* What is not among them stands where it stood.
LEMMA NoOtherNotice ==
  ASSUME NEW s \in Seq(Notice), NEW e \in Seq(Notice), NEW t, t = s \o e,
         NEW x, \A i \in 1 .. Len(e) : e[i] # x
  PROVE  At(t, x) \subseteq At(s, x)
<1>1. /\ Len(s) \in Nat /\ Len(e) \in Nat
      /\ DOMAIN s = 1 .. Len(s) /\ DOMAIN t = 1 .. Len(s) + Len(e)
      /\ \A i \in 1 .. Len(s) : t[i] = s[i]
      /\ \A i \in 1 .. Len(e) : t[Len(s) + i] = e[i]
  BY NoticesAppended
<1>2. ASSUME NEW i \in DOMAIN t, t[i] = x PROVE i \in DOMAIN s
  <2> SUFFICES ASSUME i > Len(s) PROVE FALSE
    BY <1>1
  <2>1. i - Len(s) \in 1 .. Len(e) /\ Len(s) + (i - Len(s)) = i
    BY <1>1
  <2> QED  BY <1>1, <1>2, <2>1
<1> QED  BY <1>1, <1>2 DEF At

LEMMA NoticesKept ==
  ASSUME NEW s \in Seq(Notice), NEW e \in Seq(Notice), NEW t, t = s \o e, NEW x
  PROVE  At(s, x) \subseteq At(t, x)
<1>1. /\ Len(s) \in Nat /\ Len(e) \in Nat
      /\ DOMAIN s = 1 .. Len(s) /\ DOMAIN t = 1 .. Len(s) + Len(e)
      /\ \A i \in 1 .. Len(s) : t[i] = s[i]
  BY NoticesAppended
<1> QED  BY <1>1 DEF At

LEMMA OneNotice ==
  ASSUME NEW s \in Seq(Notice), NEW n \in Notice, NEW e, e = <<n>>, NEW t, t = s \o e
  PROVE  /\ t \in Seq(Notice) /\ Len(s) \in Nat /\ Len(s) + 1 \notin DOMAIN s
         /\ \A kind : n = Note("SUPERVISOR", kind) => LastTold(t, kind)
         /\ At(t, n) = At(s, n) \cup {Len(s) + 1}
<1>2. e \in Seq(Notice) /\ Len(e) = 1 /\ e[1] = n
  OBVIOUS
<1>3. /\ t \in Seq(Notice) /\ Len(s) \in Nat /\ Len(t) = Len(s) + 1
      /\ DOMAIN s = 1 .. Len(s) /\ DOMAIN t = 1 .. Len(s) + 1
      /\ \A i \in 1 .. Len(s) : t[i] = s[i]
      /\ t[Len(s) + 1] = n
  BY <1>2, NoticesAppended
<1>4. \A kind : n = Note("SUPERVISOR", kind) => LastTold(t, kind)
  BY <1>3 DEF LastTold
<1>5. At(t, n) = At(s, n) \cup {Len(s) + 1}
  BY <1>3 DEF At
<1> QED  BY <1>3, <1>4, <1>5

\* Two notices, one after the other.
LEMMA TwoNotices ==
  ASSUME NEW s \in Seq(Notice), NEW n \in Notice, NEW m \in Notice,
         NEW e, e = <<n, m>>, NEW t, t = s \o e
  PROVE  /\ t \in Seq(Notice) /\ Len(s) \in Nat /\ Len(t) = Len(s) + 2
         /\ DOMAIN s = 1 .. Len(s) /\ DOMAIN t = 1 .. Len(s) + 2
         /\ \A i \in 1 .. Len(s) : t[i] = s[i]
         /\ t[Len(s) + 1] = n /\ t[Len(s) + 2] = m
<1>1. e \in Seq(Notice) /\ Len(e) = 2 /\ e[1] = n /\ e[2] = m
  OBVIOUS
<1> QED  BY <1>1, NoticesAppended

LEMMA NoticeKinds ==
  /\ \A kind \in {"diagnosis_proposed", "approval_required", "reopened", "verified",
                  "insufficient_evidence", "escalated"} : Note("SUPERVISOR", kind) \in Notice
  /\ Note("TECHNICIAN", "evidence_required") \in Notice
  /\ Note("PLANT_ADMIN", "escalated") \in Notice
BY DEF Note, Notice

BreachedDebt == \E d \in DOMAIN debts : debts[d].status = "BREACHED"

InboxInv ==
  /\ inbox \in Seq(Notice)
  /\ state # "NO_INCIDENT" =>
       LastTold(inbox, StageNotice) \/ (state = "ESCALATED" /\ BreachedDebt)
  /\ Cardinality(At(inbox, Note("SUPERVISOR", "reopened"))) = reopened
  /\ At(inbox, Note("PLANT_ADMIN", "escalated")) # {}
       <=> At(inbox, Note("SUPERVISOR", "escalated")) # {}

LEMMA InboxTells == InboxInv <=> inbox \in Seq(Notice) /\ InboxTellsTheStage
BY DEF InboxInv, InboxTellsTheStage, LastTold, BreachedDebt, Sent, At

\* Nothing was dispatched, and the incident is where it was told to be.
LEMMA NothingToTell ==
  ASSUME InboxInv, inbox' = inbox, reopened' = reopened,
         \/ state' = state /\ (BreachedDebt => BreachedDebt')
         \/ state # "NO_INCIDENT" /\ state # "ESCALATED" /\ StageNotice' = StageNotice
         \/ state' = "ESCALATED" /\ BreachedDebt'
  PROVE  InboxInv'
<1>1. state' = state => StageNotice' = StageNotice
  BY DEF StageNotice
<1>2. state' # "NO_INCIDENT" =>
        LastTold(inbox', StageNotice') \/ (state' = "ESCALATED" /\ BreachedDebt')
  BY <1>1 DEF InboxInv
<1> QED  BY <1>2 DEF InboxInv

\* One notice to the supervisor, of the stage the incident now is in.
LEMMA SupervisorTold ==
  ASSUME InboxInv, reopened \in Nat, NEW kind,
         Note("SUPERVISOR", kind) \in Notice, kind # "escalated",
         inbox' = inbox \o <<Note("SUPERVISOR", kind)>>,
         StageNotice' = kind,
         reopened' = IF kind = "reopened" THEN reopened + 1 ELSE reopened
  PROVE  InboxInv'
<1> DEFINE n == Note("SUPERVISOR", kind)
<1>1. inbox \in Seq(Notice)
  BY DEF InboxInv
<1>2. n.to = "SUPERVISOR"
  BY DEF Note
<1>3. /\ inbox' \in Seq(Notice) /\ Len(inbox) \in Nat /\ Len(inbox) + 1 \notin DOMAIN inbox
      /\ LastTold(inbox', kind)
      /\ At(inbox', n) = At(inbox, n) \cup {Len(inbox) + 1}
      /\ \A x \in Notice : x # n => At(inbox', x) = At(inbox, x)
  <2> HIDE DEF n
  <2>1. n = Note("SUPERVISOR", kind) /\ n \in Notice /\ inbox' = inbox \o <<n>>
    BY DEF n
  <2>2. PICK e : e = <<n>>
    OBVIOUS
  <2>3. inbox' = inbox \o e
    BY <2>1, <2>2
  <2>4. /\ inbox' \in Seq(Notice) /\ Len(inbox) \in Nat /\ Len(inbox) + 1 \notin DOMAIN inbox
        /\ \A k : n = Note("SUPERVISOR", k) => LastTold(inbox', k)
        /\ At(inbox', n) = At(inbox, n) \cup {Len(inbox) + 1}
        /\ \A x \in Notice : x # n => At(inbox', x) = At(inbox, x)
    <3>1. PICK t : t = inbox'
      OBVIOUS
    <3>2. t = inbox \o e /\ inbox \in Seq(Notice) /\ n \in Notice /\ e = <<n>>
      BY <1>1, <2>1, <2>2, <2>3, <3>1
    <3>3. t \in Seq(Notice) /\ Len(inbox) \in Nat /\ Len(inbox) + 1 \notin DOMAIN inbox
      BY <3>2, OneNotice
    <3>4. At(t, n) = At(inbox, n) \cup {Len(inbox) + 1}
      BY <3>2, OneNotice
    <3>5. \A k : n = Note("SUPERVISOR", k) => LastTold(t, k)
      BY <3>2, OneNotice
    <3>6. \A x \in Notice : x # n => At(t, x) = At(inbox, x)
      <4> SUFFICES ASSUME NEW x \in Notice, x # n PROVE At(t, x) = At(inbox, x)
        OBVIOUS
      <4>1. e \in Seq(Notice) /\ \A i \in 1 .. Len(e) : e[i] # x
        BY <3>2
      <4>2. At(t, x) \subseteq At(inbox, x)
        BY <3>2, <4>1, NoOtherNotice
      <4>3. At(inbox, x) \subseteq At(t, x)
        BY <3>2, <4>1, NoticesKept
      <4> QED  BY <4>2, <4>3
    <3> QED  BY <3>1, <3>3, <3>4, <3>5, <3>6
  <2> QED  BY <2>1, <2>4
<1>4. Note("PLANT_ADMIN", "escalated") # n /\ Note("SUPERVISOR", "escalated") # n
  BY DEF Note
<1>5. Cardinality(At(inbox', Note("SUPERVISOR", "reopened"))) = reopened'
  <2>1. CASE kind = "reopened"
    <3>1. IsFiniteSet(At(inbox, n))
      <4>1. At(inbox, n) \subseteq 1 .. Len(inbox)
        BY <1>1, LenProperties DEF At
      <4>2. IsFiniteSet(1 .. Len(inbox))
        BY <1>3, FS_Interval
      <4> HIDE DEF n
      <4> QED  BY <4>1, <4>2, FS_Subset
    <3>2. Len(inbox) + 1 \notin At(inbox, n)
      BY <1>3 DEF At
    <3>3. Cardinality(At(inbox', n)) = Cardinality(At(inbox, n)) + 1
      BY <1>3, <3>1, <3>2, FS_AddElement
    <3>4. Cardinality(At(inbox, n)) = reopened
      BY <2>1 DEF InboxInv
    <3> QED  BY <2>1, <3>3, <3>4
  <2>2. CASE kind # "reopened"
    <3>1. Note("SUPERVISOR", "reopened") # n
      BY <2>2 DEF Note
    <3> QED  BY <1>3, <2>2, <3>1, NoticeKinds DEF InboxInv
  <2> QED  BY <2>1, <2>2
<1> QED  BY <1>3, <1>4, <1>5, NoticeKinds DEF InboxInv

\* A notice to the supervisor and one to whoever must act or know.
LEMMA BothTold ==
  ASSUME InboxInv, reopened' = reopened, NEW to, NEW kind, NEW kind2,
         Note("SUPERVISOR", kind) \in Notice, Note(to, kind2) \in Notice,
         to # "SUPERVISOR", kind # "reopened",
         \/ to = "PLANT_ADMIN" /\ kind = "escalated" /\ kind2 = "escalated"
         \/ to # "PLANT_ADMIN" /\ kind # "escalated",
         inbox' = inbox \o <<Note("SUPERVISOR", kind), Note(to, kind2)>>,
         StageNotice' = kind
  PROVE  InboxInv'
<1>1. PICK n, m : n = Note("SUPERVISOR", kind) /\ m = Note(to, kind2)
  OBVIOUS
<1>2. n.to = "SUPERVISOR" /\ m.to # "SUPERVISOR" /\ n # m /\ n \in Notice /\ m \in Notice
  BY <1>1 DEF Note
<1>3. /\ inbox' \in Seq(Notice) /\ LastTold(inbox', kind)
      /\ At(inbox', n) = At(inbox, n) \cup {Len(inbox) + 1}
      /\ At(inbox', m) = At(inbox, m) \cup {Len(inbox) + 2}
      /\ \A x \in Notice : x # n /\ x # m => At(inbox', x) = At(inbox, x)
  <2>1. PICK e : e = <<n, m>>
    OBVIOUS
  <2>2. inbox \in Seq(Notice) /\ inbox' = inbox \o e
    BY <1>1, <2>1 DEF InboxInv
  <2>3. PICK t : t = inbox'
    OBVIOUS
  <2>4. t = inbox \o e /\ inbox \in Seq(Notice) /\ e = <<n, m>>
    BY <2>1, <2>2, <2>3
  <2>5. /\ t \in Seq(Notice) /\ Len(inbox) \in Nat /\ Len(t) = Len(inbox) + 2
        /\ DOMAIN inbox = 1 .. Len(inbox) /\ DOMAIN t = 1 .. Len(inbox) + 2
        /\ \A i \in 1 .. Len(inbox) : t[i] = inbox[i]
        /\ t[Len(inbox) + 1] = n /\ t[Len(inbox) + 2] = m
    BY <1>2, <2>4, TwoNotices
  <2>6. LastTold(t, kind)
    <3>1. Len(inbox) + 1 \in DOMAIN t /\ t[Len(inbox) + 1] = Note("SUPERVISOR", kind)
      BY <1>1, <2>5
    <3>2. \A j \in (Len(inbox) + 1) + 1 .. Len(t) : t[j].to # "SUPERVISOR"
      BY <1>2, <2>5
    <3> QED  BY <3>1, <3>2 DEF LastTold
  <2>7. At(t, n) = At(inbox, n) \cup {Len(inbox) + 1}
    BY <1>2, <2>5 DEF At
  <2>8. At(t, m) = At(inbox, m) \cup {Len(inbox) + 2}
    BY <1>2, <2>5 DEF At
  <2>9. ASSUME NEW x \in Notice, x # n, x # m PROVE At(t, x) = At(inbox, x)
    <3>1. e \in Seq(Notice) /\ \A i \in 1 .. Len(e) : e[i] # x
      BY <1>2, <2>4, <2>9
    <3>2. At(t, x) \subseteq At(inbox, x)
      BY <2>4, <3>1, NoOtherNotice
    <3>3. At(inbox, x) \subseteq At(t, x)
      BY <2>4, <3>1, NoticesKept
    <3> QED  BY <3>2, <3>3
  <2> QED  BY <1>1, <2>3, <2>5, <2>6, <2>7, <2>8, <2>9
<1>4. Cardinality(At(inbox', Note("SUPERVISOR", "reopened"))) = reopened'
  <2>1. Note("SUPERVISOR", "reopened") # n /\ Note("SUPERVISOR", "reopened") # m
    BY <1>1 DEF Note
  <2> QED  BY <1>3, <2>1, NoticeKinds DEF InboxInv
<1>5. At(inbox', Note("PLANT_ADMIN", "escalated")) # {}
        <=> At(inbox', Note("SUPERVISOR", "escalated")) # {}
  <2>1. CASE to = "PLANT_ADMIN" /\ kind = "escalated" /\ kind2 = "escalated"
    BY <1>1, <1>3, <2>1
  <2>2. CASE to # "PLANT_ADMIN" /\ kind # "escalated"
    <3>1. \A x \in {Note("PLANT_ADMIN", "escalated"), Note("SUPERVISOR", "escalated")} :
            x # n /\ x # m
      BY <1>1, <2>2 DEF Note
    <3> QED  BY <1>3, <3>1, NoticeKinds DEF InboxInv
  <2> QED  BY <2>1, <2>2
<1> QED  BY <1>3, <1>4, <1>5 DEF InboxInv

\* What a move dispatches.
LEMMA DispatchedBy ==
  /\ state' = state => Dispatched = <<>>
  /\ state' # state =>
       /\ state' = "INTERVENTION_PROPOSED" =>
            Dispatched = <<Note("SUPERVISOR", "diagnosis_proposed")>>
       /\ state' = "RECOVERY_CONTRACT_DRAFTED" =>
            Dispatched = <<Note("SUPERVISOR", "approval_required"),
                           Note("TECHNICIAN", "evidence_required")>>
       /\ state' = "CONTINGENCY_AWAITING_APPROVAL" =>
            Dispatched = <<Note("SUPERVISOR", "reopened")>>
       /\ state' = "VERIFIED_RECOVERY" => Dispatched = <<Note("SUPERVISOR", "verified")>>
       /\ state' = "INSUFFICIENT_EVIDENCE" =>
            Dispatched = <<Note("SUPERVISOR", "insufficient_evidence")>>
       /\ state' = "ESCALATED" =>
            Dispatched = <<Note("SUPERVISOR", "escalated"), Note("PLANT_ADMIN", "escalated")>>
       /\ state' \in {"INTERVENTION_RECORDED", "AWAITING_REQUIRED_EVIDENCE",
                      "CONTINGENCY_IN_PROGRESS", "MONITORING_RECOVERY"} =>
            Dispatched = <<>>
<1>1. state' = state => Dispatched = <<>>
  BY DEF Dispatched
<1>2. ASSUME state' # state, state' = "INTERVENTION_PROPOSED"
      PROVE  Dispatched = <<Note("SUPERVISOR", "diagnosis_proposed")>>
  BY <1>2 DEF Dispatched
<1>3. ASSUME state' # state, state' = "RECOVERY_CONTRACT_DRAFTED"
      PROVE  Dispatched = <<Note("SUPERVISOR", "approval_required"),
                            Note("TECHNICIAN", "evidence_required")>>
  BY <1>3 DEF Dispatched
<1>4. ASSUME state' # state, state' = "CONTINGENCY_AWAITING_APPROVAL"
      PROVE  Dispatched = <<Note("SUPERVISOR", "reopened")>>
  BY <1>4 DEF Dispatched
<1>5. ASSUME state' # state, state' = "VERIFIED_RECOVERY"
      PROVE  Dispatched = <<Note("SUPERVISOR", "verified")>>
  BY <1>5 DEF Dispatched
<1>6. ASSUME state' # state, state' = "INSUFFICIENT_EVIDENCE"
      PROVE  Dispatched = <<Note("SUPERVISOR", "insufficient_evidence")>>
  BY <1>6 DEF Dispatched
<1>7. ASSUME state' # state, state' = "ESCALATED"
      PROVE  Dispatched = <<Note("SUPERVISOR", "escalated"), Note("PLANT_ADMIN", "escalated")>>
  BY <1>7 DEF Dispatched
<1>8. ASSUME state' # state,
             state' \in {"INTERVENTION_RECORDED", "AWAITING_REQUIRED_EVIDENCE",
                        "CONTINGENCY_IN_PROGRESS", "MONITORING_RECOVERY"}
      PROVE  Dispatched = <<>>
  BY <1>8 DEF Dispatched
<1> QED  BY <1>1, <1>2, <1>3, <1>4, <1>5, <1>6, <1>7, <1>8

\* A request of the workflow tells the supervisor what it has done.
LEMMA WorkflowTells ==
  ASSUME LifeInv, InboxInv, Next, UNCHANGED debts, inbox' = inbox \o Dispatched
  PROVE  InboxInv'
<1>1. reopened \in Nat /\ inbox \in Seq(Notice)
  BY DEF LifeInv, DebtTypeOK, TypeOK, InboxInv
<1>2. BreachedDebt => BreachedDebt'
  BY DEF BreachedDebt
<1>3. CASE UNCHANGED <<state, reopened>>
  <2>1. inbox' = inbox
    BY <1>1, <1>3, DispatchedBy, NoNotice
  <2> QED  BY <1>2, <1>3, <2>1, NothingToTell
<1>4. CASE state = "MONITORING_RECOVERY" /\ state' = "CONTINGENCY_AWAITING_APPROVAL"
           /\ reopened' = reopened + 1
  <2>1. StageNotice' = "reopened"
    BY <1>1, <1>4 DEF StageNotice
  <2>2. inbox' = inbox \o <<Note("SUPERVISOR", "reopened")>>
    BY <1>4, DispatchedBy
  <2> QED  BY <1>1, <1>4, <2>1, <2>2, NoticeKinds, SupervisorTold
<1>5. CASE <<state, state'>> \in Moves /\ reopened' = reopened
  <2>1. ASSUME state' \in {"INTERVENTION_PROPOSED", "VERIFIED_RECOVERY", "INSUFFICIENT_EVIDENCE"}
        PROVE  InboxInv'
    <3>1. PICK kind \in {"diagnosis_proposed", "verified", "insufficient_evidence"} :
            Dispatched = <<Note("SUPERVISOR", kind)>> /\ StageNotice' = kind
      BY <1>5, <2>1, DispatchedBy DEF Moves, StageNotice
    <3> QED  BY <1>1, <1>5, <3>1, NoticeKinds, SupervisorTold
  <2>2. CASE state' = "RECOVERY_CONTRACT_DRAFTED"
    <3>1. reopened = 0
      <4>1. state = "INTERVENTION_RECORDED"
        BY <1>5, <2>2 DEF Moves
      <4> QED  BY <4>1 DEF LifeInv, AccountInv, TrailInv, StatesInv, Early
    <3>2. StageNotice' = "approval_required"
      BY <1>5, <2>2, <3>1 DEF StageNotice
    <3>3. inbox' = inbox \o <<Note("SUPERVISOR", "approval_required"),
                              Note("TECHNICIAN", "evidence_required")>>
      <4>1. state' # state
        BY <1>5, <2>2 DEF Moves
      <4> QED  BY <2>2, <4>1, DispatchedBy
    <3> QED  BY <1>5, <3>2, <3>3, NoticeKinds, BothTold
  <2>3. CASE state' = "ESCALATED"
    <3>1. StageNotice' = "escalated"
      BY <2>3 DEF StageNotice
    <3>2. inbox' = inbox \o <<Note("SUPERVISOR", "escalated"), Note("PLANT_ADMIN", "escalated")>>
      BY <1>5, <2>3, DispatchedBy DEF Moves
    <3> QED  BY <1>5, <3>1, <3>2, NoticeKinds, BothTold
  <2>4. ASSUME state' \in {"INTERVENTION_RECORDED", "AWAITING_REQUIRED_EVIDENCE",
                           "CONTINGENCY_IN_PROGRESS", "MONITORING_RECOVERY"}
        PROVE  InboxInv'
    <3>1. inbox' = inbox
      BY <1>1, <1>5, <2>4, DispatchedBy, NoNotice DEF Moves
    <3>2. state # "NO_INCIDENT" /\ state # "ESCALATED"
      BY <1>5, <2>4 DEF Moves
    <3>3. StageNotice' = StageNotice
      BY <1>5, <2>4 DEF Moves, StageNotice
    <3> QED  BY <1>5, <3>1, <3>2, <3>3, NothingToTell
  <2> QED  BY <1>5, <2>1, <2>2, <2>3, <2>4 DEF Moves
<1> QED  BY <1>3, <1>4, <1>5, WorkflowMoves DEF LifeInv, DebtTypeOK

LEMMA InboxStep == LifeInv /\ InboxInv /\ [RecordsNext]_recordVars => InboxInv'
<1> SUFFICES ASSUME LifeInv, InboxInv, [RecordsNext]_recordVars PROVE InboxInv'
  OBVIOUS
<1>1. CASE Next /\ UNCHANGED debts /\ inbox' = inbox \o Dispatched
  BY <1>1, WorkflowTells
<1>2. CASE DebtStep /\ inbox' = inbox
  <2>1. [DebtNext]_debtVars
    BY <1>2 DEF DebtNext
  <2>2. BreachedDebt => BreachedDebt'
    <3> SUFFICES ASSUME NEW d \in DOMAIN debts, debts[d].status = "BREACHED"
                 PROVE  BreachedDebt'
      BY DEF BreachedDebt
    <3>1. debts'[d] = debts[d] /\ d \in DOMAIN debts'
      BY <2>1, EndedIsFinal, DebtRows DEF LifeInv
    <3> QED  BY <3>1 DEF BreachedDebt
  <2>3. CASE SweepDebt
    <3>1. reopened' = reopened
      BY <2>3, SweepMoves
    <3>2. state' = state \/ state' = "ESCALATED"
      <4>1. CASE state \in TERMINAL_STATES
        BY <2>3, <4>1, SweepMoves
      <4>2. CASE state \notin TERMINAL_STATES
        BY <2>3, <4>2, SweepMoves
      <4> QED  BY <4>1, <4>2
    <3>3. BreachedDebt'
      <4>1. PICK j \in DOMAIN debts : debts' = [debts EXCEPT ![j].status = "BREACHED"]
        BY <2>3 DEF SweepDebt
      <4>2. debts \in Seq(Debt)
        BY DEF LifeInv, DebtTypeOK, Debt
      <4>3. debts'[j].status = "BREACHED" /\ j \in DOMAIN debts'
        BY <4>1, <4>2, DebtMarked DEF DebtStatus
      <4> QED  BY <4>3 DEF BreachedDebt
    <3> QED  BY <1>2, <3>1, <3>2, <3>3, NothingToTell
  <2>4. CASE ~SweepDebt
    <3>1. UNCHANGED vars
      BY <1>2, <2>4 DEF DebtStep, GrantDebt, DebtExpires, SettleDebt
    <3>2. state' = state /\ reopened' = reopened
      BY <3>1 DEF vars
    <3> QED  BY <1>2, <2>2, <3>2, NothingToTell
  <2> QED  BY <2>3, <2>4
<1>3. CASE UNCHANGED <<debtVars, inbox>>
  <2>1. state' = state /\ reopened' = reopened /\ debts' = debts /\ inbox' = inbox
    BY <1>3 DEF debtVars, vars
  <2>2. BreachedDebt => BreachedDebt'
    BY <2>1 DEF BreachedDebt
  <2> QED  BY <2>1, <2>2, NothingToTell
<1> QED
  BY <1>1, <1>2, <1>3
  DEF RecordsNext, recordVars, Request, ReviewLesson, HandOver, Acknowledge

LEMMA InboxInvariant == RecordsSpec => []InboxInv
<1>1. RecordsInit => InboxInv
  <2> SUFFICES ASSUME RecordsInit PROVE InboxInv
    OBVIOUS
  <2>1. inbox = <<>> /\ reopened = 0 /\ state = "NO_INCIDENT"
    BY DEF RecordsInit, DebtInit, Init
  <2>2. \A n : At(inbox, n) = {}
    BY <2>1 DEF At
  <2> QED  BY <2>1, <2>2, EmptySeq, FS_EmptySet DEF InboxInv
<1> QED  BY <1>1, InboxStep, LifeInvariant, PTL DEF RecordsSpec

\* In every reachable state the supervisor's last notice is the one of the stage the
\* incident is in, each reopening was announced once, and plant supervision hears of
\* an escalation exactly when the supervisor does; only the breach of a debt is
\* silent (notify() in the workflow, sweep_recovery_debt()).
THEOREM InboxIsCurrent == RecordsSpec => []InboxTellsTheStage
<1>1. InboxInv => InboxTellsTheStage
  BY InboxTells
<1> QED  BY <1>1, InboxInvariant, PTL

\* Every state of the records is one their tables can hold.
THEOREM RecordsTypeCorrect == RecordsSpec => []RecordsTypeOK
<1>1. LifeInv /\ LessonsInv /\ InboxInv /\ handoffs \in Seq(Handoff) => RecordsTypeOK
  BY DEF RecordsTypeOK, LifeInv, LessonsInv, InboxInv
<1> QED  BY <1>1, LifeInvariant, LessonsInvariant, InboxInvariant, HandoffInvariant, PTL
=============================================================================
