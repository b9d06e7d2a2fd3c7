-------------------------- MODULE AlertTriage_proofs --------------------------
(***************************************************************************)
(* Proofs about AlertTriage, for any alerts, ids, corpora, number of       *)
(* triage requests at a time and whatever a hosted model answers.          *)
(***************************************************************************)
EXTENDS AlertTriage, SequenceTheorems, FiniteSetTheorems, TLAPS

-----------------------------------------------------------------------------
(* Rows of a reasoning trace.                                              *)

IsRow(r) == DOMAIN r = {"node", "out", "confidence", "contract", "seq"}
IsRows(rows) ==
  /\ rows \in Seq(ToSet(rows))
  /\ \A i \in DOMAIN rows : IsRow(rows[i])

LEMMA SeqOfItsElements ==
  ASSUME NEW S, NEW s \in Seq(S)
  PROVE  s \in Seq(ToSet(s))
<1>1. Len(s) \in Nat /\ s \in [1 .. Len(s) -> S] /\ DOMAIN s = 1 .. Len(s)
  BY LenProperties
<1>2. s \in [1 .. Len(s) -> ToSet(s)]
  BY <1>1 DEF ToSet
<1> QED  BY <1>1, <1>2, SeqDef

LEMMA RowsIndexed ==
  ASSUME NEW rows, IsRows(rows)
  PROVE  Len(rows) \in Nat /\ DOMAIN rows = 1 .. Len(rows)
BY LenProperties DEF IsRows

LEMMA NoRows == IsRows(<<>>) /\ Len(<<>>) = 0 /\ DOMAIN <<>> = {}
<1>1. <<>> \in Seq(ToSet(<<>>)) /\ Len(<<>>) = 0
  BY EmptySeq
<1>2. DOMAIN <<>> = {}
  BY <1>1, LenProperties
<1> QED  BY <1>1, <1>2 DEF IsRows

\* A row and the place in the trace it is written at.
At(r, i) == [r EXCEPT !.seq = i]

LEMMA RowAt ==
  ASSUME NEW r, IsRow(r), NEW i
  PROVE  /\ IsRow(At(r, i)) /\ At(r, i).seq = i
         /\ At(r, i).node = r.node /\ At(r, i).out = r.out
         /\ At(r, i).confidence = r.confidence /\ At(r, i).contract = r.contract
BY DEF At, IsRow

\* record_trace() keeps the rows there are and numbers those it appends.
LEMMA RowsRecorded ==
  ASSUME NEW rows, IsRows(rows), NEW steps, IsRows(steps), NEW t, t = Recorded(rows, steps)
  PROVE  /\ IsRows(t) /\ Len(t) = Len(rows) + Len(steps) /\ DOMAIN t = 1 .. Len(t)
         /\ \A i \in 1 .. Len(rows) : t[i] = rows[i]
         /\ \A i \in 1 .. Len(steps) : t[Len(rows) + i] = At(steps[i], Len(rows) + i)
<1> DEFINE e == [i \in DOMAIN steps |-> At(steps[i], NextSeq(rows) + i - 1)]
           S == ToSet(rows) \cup {e[i] : i \in DOMAIN steps}
<1>1. t = rows \o e
  BY DEF Recorded, At
<1>2. /\ Len(rows) \in Nat /\ DOMAIN rows = 1 .. Len(rows)
      /\ Len(steps) \in Nat /\ DOMAIN steps = 1 .. Len(steps)
  BY RowsIndexed
<1>3. e \in Seq(S) /\ Len(e) = Len(steps)
  <2>1. e \in [1 .. Len(steps) -> S]
    BY <1>2
  <2>2. e \in Seq(S)
    BY <1>2, <2>1, SeqDef
  <2> QED  BY <1>2, <2>2, LenProperties
<1>4. rows \in Seq(S)
  BY SeqMonotonic DEF IsRows
<1>5. /\ t \in Seq(S) /\ Len(t) = Len(rows) + Len(steps)
      /\ \A i \in 1 .. Len(rows) + Len(steps) :
           t[i] = IF i <= Len(rows) THEN rows[i] ELSE e[i - Len(rows)]
  <2> HIDE DEF e, S
  <2>1. /\ rows \o e \in Seq(S) /\ Len(rows \o e) = Len(rows) + Len(e)
        /\ \A i \in 1 .. Len(rows) + Len(e) :
             (rows \o e)[i] = IF i <= Len(rows) THEN rows[i] ELSE e[i - Len(rows)]
    BY <1>3, <1>4, ConcatProperties
  <2> QED  BY <1>1, <1>3, <2>1
<1>6. DOMAIN t = 1 .. Len(t) /\ t \in Seq(ToSet(t))
  BY <1>5, LenProperties, SeqOfItsElements
<1>7. ASSUME NEW i \in 1 .. Len(rows) PROVE t[i] = rows[i]
  <2>1. i \in 1 .. Len(rows) + Len(steps) /\ i <= Len(rows)
    BY <1>2
  <2> HIDE DEF e, S
  <2> QED  BY <1>5, <2>1
<1>8. ASSUME NEW i \in 1 .. Len(steps) PROVE t[Len(rows) + i] = At(steps[i], Len(rows) + i)
  <2>1. /\ Len(rows) + i \in 1 .. Len(rows) + Len(steps) /\ ~(Len(rows) + i <= Len(rows))
        /\ (Len(rows) + i) - Len(rows) = i /\ Len(rows) + 1 + i - 1 = Len(rows) + i
    BY <1>2
  <2>2. t[Len(rows) + i] = e[i]
    BY <1>5, <2>1
  <2> QED  BY <1>2, <2>1, <2>2 DEF NextSeq
<1>9. ASSUME NEW i \in DOMAIN t PROVE IsRow(t[i])
  <2>1. CASE i \in 1 .. Len(rows)
    BY <1>2, <1>7, <2>1 DEF IsRows
  <2>2. CASE i \notin 1 .. Len(rows)
    <3>1. PICK j \in 1 .. Len(steps) : i = Len(rows) + j
      <4>1. i - Len(rows) \in 1 .. Len(steps) /\ i = Len(rows) + (i - Len(rows))
        BY <1>2, <1>5, <1>6, <2>2
      <4> QED  BY <4>1
    <3>2. IsRow(steps[j])
      BY <1>2 DEF IsRows
    <3> QED  BY <1>8, <3>1, <3>2, RowAt
  <2> QED  BY <2>1, <2>2
<1> QED  BY <1>5, <1>6, <1>7, <1>8, <1>9 DEF IsRows

\* The contract goes to every row without one, and nothing else changes.
LEMMA RowsBackfilled ==
  ASSUME NEW rows, IsRows(rows), NEW c, NEW t, t = Backfilled(rows, c)
  PROVE  /\ IsRows(t) /\ Len(t) = Len(rows) /\ DOMAIN t = DOMAIN rows
         /\ \A i \in DOMAIN rows :
              /\ t[i].node = rows[i].node /\ t[i].out = rows[i].out
              /\ t[i].confidence = rows[i].confidence /\ t[i].seq = rows[i].seq
              /\ t[i].contract = IF rows[i].contract = NoContract THEN c ELSE rows[i].contract
<1>1. Len(rows) \in Nat /\ DOMAIN rows = 1 .. Len(rows) /\ \A i \in DOMAIN rows : IsRow(rows[i])
  BY RowsIndexed DEF IsRows
<1>2. DOMAIN t = DOMAIN rows
  BY DEF Backfilled
<1>3. ASSUME NEW i \in DOMAIN rows
      PROVE  /\ IsRow(t[i])
             /\ t[i].node = rows[i].node /\ t[i].out = rows[i].out
             /\ t[i].confidence = rows[i].confidence /\ t[i].seq = rows[i].seq
             /\ t[i].contract = IF rows[i].contract = NoContract THEN c ELSE rows[i].contract
  <2>1. t[i] = IF rows[i].contract = NoContract THEN [rows[i] EXCEPT !.contract = c] ELSE rows[i]
    BY DEF Backfilled
  <2> QED  BY <1>1, <2>1 DEF IsRow
<1>4. t \in Seq(ToSet(t)) /\ Len(t) = Len(rows)
  <2>1. t \in [1 .. Len(rows) -> ToSet(t)]
    BY <1>1, <1>2 DEF Backfilled, ToSet
  <2>2. t \in Seq(ToSet(t))
    BY <1>1, <2>1, SeqDef
  <2> QED  BY <1>1, <1>2, <2>2, LenProperties
<1> QED  BY <1>1, <1>2, <1>3, <1>4 DEF IsRows

\* What the agent writes while it triages, drafts and observes.
LEMMA TriageRows ==
  ASSUME NEW dx, NEW found, NEW e, e = TriageSteps(dx, found)
  PROVE  /\ IsRows(e) /\ Len(e) = 5 /\ DOMAIN e = 1 .. 5
         /\ \A i \in 1 .. 5 : e[i].contract = NoContract /\ e[i].confidence = NoConfidence
         /\ \A i \in 1 .. 5 : /\ e[i].node = "propose" <=> i = 5
                              /\ e[i].node = "retrieve" <=> i = 3
                              /\ e[i].node # "reflect"
         /\ e[3].out = Cited({}, found)
         /\ e[5].out = [kind |-> dx.kind, contingency |-> dx.contingency]
<1> DEFINE S == {e[1], e[2], e[3], e[4], e[5]}
<1>1. /\ Len(e) = 5 /\ DOMAIN e = 1 .. 5 /\ e \in Seq(S)
      /\ e[1] = Node("perceive", "alert") /\ e[2] = Node("classify", "severity")
      /\ e[3] = Node("retrieve", Cited({}, found))
      /\ e[4] = Node("hypothesize", [root_causes |-> dx.causes])
      /\ e[5] = Node("propose", [kind |-> dx.kind, contingency |-> dx.contingency])
  BY DEF TriageSteps
<1>2. e \in Seq(ToSet(e))
  <2> HIDE DEF S
  <2> QED  BY <1>1, SeqOfItsElements
<1>3. \A i \in 1 .. 5 : IsRow(e[i])
  BY <1>1 DEF IsRow, Node
<1> QED  BY <1>1, <1>2, <1>3 DEF IsRows, Node

\* What draft() records.
IsDraft(e, component) ==
  /\ IsRows(e) /\ Len(e) = 6 /\ DOMAIN e = 1 .. 6
  /\ \A i \in 1 .. 6 : e[i].contract = NoContract
  /\ e[6].confidence = 40
  /\ \A i \in 1 .. 6 : e[i].node \notin {"propose", "reflect"} /\ (e[i].node = "retrieve" <=> i = 2)
  /\ e[2].out = Cited(Conflicts(corpus, today, Model, component),
                      Search(corpus, today, Model, ALL, TRUE, K))

LEMMA DraftRows ==
  ASSUME NEW component, NEW e, e = DraftSteps(component)
  PROVE  IsDraft(e, component)
<1> DEFINE S == {e[1], e[2], e[3], e[4], e[5], e[6]}
<1>1. /\ Len(e) = 6 /\ DOMAIN e = 1 .. 6 /\ e \in Seq(S)
      /\ e[1] = Node("perceive", "intervention")
      /\ e[2] = Node("retrieve", Cited(Conflicts(corpus, today, Model, component),
                                       Search(corpus, today, Model, ALL, TRUE, K)))
      /\ e[3] = Node("hypothesize", [hypotheses |-> "own"])
      /\ e[4] = Node("draft", "contract") /\ e[5] = Node("self_critique", "ok")
      /\ e[6] = [Node("decide", "review") EXCEPT !.confidence = 40]
  BY DEF DraftSteps
<1>2. e \in Seq(ToSet(e))
  <2> HIDE DEF S
  <2> QED  BY <1>1, SeqOfItsElements
<1>3. \A i \in 1 .. 6 : IsRow(e[i])
  BY <1>1 DEF IsRow, Node
<1>4. \A i \in 1 .. 6 : e[i].contract = NoContract
  BY <1>1 DEF Node
<1>5. \A i \in 1 .. 6 : e[i].node \notin {"propose", "reflect"} /\ (e[i].node = "retrieve" <=> i = 2)
  BY <1>1 DEF Node
<1>6. e[6].confidence = 40
  BY <1>1 DEF Node
<1>7. e[2].out = Cited(Conflicts(corpus, today, Model, component),
                       Search(corpus, today, Model, ALL, TRUE, K))
  BY <1>1 DEF Node
<1>8. IsRows(e)
  BY <1>1, <1>2, <1>3 DEF IsRows
<1> QED  BY <1>1, <1>4, <1>5, <1>6, <1>7, <1>8 DEF IsDraft

-----------------------------------------------------------------------------
(* The tables, and what a step does to one incident and its trace.         *)

Approved(found) == \A c \in found : Authoritative(c)

\* An incident has a contract from the state on in which one has been drafted.
Contracted(contract, state) ==
  contract = NoContract <=> state \in {"INTERVENTION_PROPOSED", "INTERVENTION_RECORDED"}

TablesInv ==
  /\ corpus \in Corpora /\ today \in Nat
  /\ alerts \in [Alert -> [status : {"open", "triaged"}, incident : SUBSET Suffix]]
  /\ DOMAIN pending = Request
  /\ \A r \in Request :
       pending[r] = Idle \/ (pending[r].alert \in Alert /\ Approved(pending[r].found))
  /\ incidents \in [Suffix -> Incident \cup {NoIncident}]
  /\ \A s \in Suffix : Exists(s) => Contracted(incidents[s].contract, incidents[s].state)
  /\ DOMAIN traces = Suffix
  /\ answered \subseteq [alert : Alert, incident : Suffix]

Kept(s) == incidents'[s] = incidents[s] /\ traces'[s] = traces[s]

Triaged(s) ==
  \E a, dx, found :
    /\ ~Exists(s) /\ a \in Alert /\ Approved(found)
    /\ dx.kind \in Safe /\ dx.contingency \in Safe
    /\ incidents'[s] = [alert |-> a, state |-> "INTERVENTION_PROPOSED",
                        contract |-> NoContract, kind |-> dx.kind, done |-> FALSE,
                        breach |-> FALSE]
    /\ traces'[s] = Recorded(traces[s], TriageSteps(dx, found))

\* The incident stays that of its alert, about the same work.
SameWork(s) ==
  /\ Exists(s)
  /\ incidents'[s] \in Incident /\ Contracted(incidents'[s].contract, incidents'[s].state)
  /\ incidents'[s].alert = incidents[s].alert /\ incidents'[s].kind = incidents[s].kind

Moved(s) ==
  /\ SameWork(s) /\ traces'[s] = traces[s]
  /\ incidents'[s].contract = incidents[s].contract
  /\ \/ /\ incidents[s].state = "INTERVENTION_PROPOSED"
        /\ incidents'[s].state = "INTERVENTION_RECORDED"
        /\ incidents'[s].breach = incidents[s].breach
     \/ /\ incidents[s].state \in {"RECOVERY_CONTRACT_DRAFTED", "CONTINGENCY_AWAITING_APPROVAL"}
        /\ incidents'[s].state = "MONITORING_RECOVERY"
        /\ incidents'[s].breach = incidents[s].breach
     \/ /\ incidents[s].contract # NoContract /\ incidents[s].state # "ESCALATED"
        /\ incidents'[s].state = "ESCALATED" /\ incidents'[s].breach = TRUE

Drafted(s) ==
  /\ SameWork(s)
  /\ incidents[s].state = "INTERVENTION_RECORDED"
  /\ incidents'[s].state = "RECOVERY_CONTRACT_DRAFTED" /\ incidents'[s].contract = 1
  /\ incidents'[s].breach = incidents[s].breach
  /\ traces'[s] = Backfilled(Recorded(traces[s],
                               DraftSteps(ComponentFor(incidents[s].kind))), 1)

Observed(s) ==
  /\ SameWork(s)
  /\ incidents[s].state = "MONITORING_RECOVERY"
  /\ incidents'[s].breach = incidents[s].breach
  /\ \E result \in Results :
       /\ traces'[s] = Recorded(traces[s], <<Observation(result, incidents[s].contract)>>)
       /\ \/ /\ result.verdict = "monitoring" /\ incidents'[s].state = "MONITORING_RECOVERY"
             /\ incidents'[s].contract = incidents[s].contract
          \/ /\ result.verdict = "violated"
             /\ \/ /\ incidents'[s].state = "CONTINGENCY_AWAITING_APPROVAL"
                   /\ incidents'[s].contract = incidents[s].contract + 1
                \/ /\ incidents'[s].state = "ESCALATED"
                   /\ incidents'[s].contract = incidents[s].contract
          \/ /\ result.verdict = "verified"
             /\ incidents'[s].state \in {"VERIFIED_RECOVERY", "INSUFFICIENT_EVIDENCE"}
             /\ incidents'[s].contract = incidents[s].contract

LEMMA SearchApproved ==
  ASSUME NEW model, NEW component, NEW k
  PROVE  Approved(Search(corpus, today, model, component, TRUE, k))
BY DEF Approved, Search, Candidates

LEMMA ValidatedSafe ==
  ASSUME NEW answer
  PROVE  Validated(answer).kind \in Safe /\ Validated(answer).contingency \in Safe
BY TriageAssumption DEF Validated, Deterministic

\* NoIncident is not an incident.
LEMMA IncidentsExist ==
  ASSUME TablesInv, NEW s \in Suffix
  PROVE  /\ Exists(s) => incidents[s] \in Incident /\ incidents[s].state # "NO_INCIDENT"
         /\ Exists(s) => Contracted(incidents[s].contract, incidents[s].state)
         /\ incidents[s] \in Incident => Exists(s)
         /\ \A x \in Incident : x.state # "NO_INCIDENT"
<1>1. ASSUME NEW x \in Incident PROVE x.state # "NO_INCIDENT"
  BY <1>1 DEF Incident, WorkflowState
<1>2. NoIncident.state = "NO_INCIDENT"
  BY DEF NoIncident
<1>3. incidents[s] \in Incident \cup {NoIncident}
  BY DEF TablesInv
<1>4. Exists(s) => Contracted(incidents[s].contract, incidents[s].state)
  BY DEF TablesInv
<1> QED  BY <1>1, <1>2, <1>3, <1>4 DEF Exists

LEMMA WorkOfAnIncident ==
  ASSUME TablesInv, NEW s \in Suffix, NEW t \in Suffix,
         \/ \E role \in HumanRole : AcceptDiagnosis(t, role)
         \/ DraftContract(t) \/ WindowOpens(t)
         \/ \E result \in Results, permitted \in BOOLEAN, next \in {"contingency", "escalation"} :
              Advance(t, result, permitted, next)
         \/ DebtBreaches(t)
  PROVE  Kept(s) \/ Moved(s) \/ Drafted(s) \/ Observed(s)
<1>1. Exists(s) => incidents[s] \in Incident /\ Contracted(incidents[s].contract, incidents[s].state)
  BY IncidentsExist
<1>2. incidents \in [Suffix -> Incident \cup {NoIncident}] /\ DOMAIN traces = Suffix
  BY DEF TablesInv
<1>3. ASSUME NEW role \in HumanRole, AcceptDiagnosis(t, role)
      PROVE  Kept(s) \/ Moved(s)
  <2>1. CASE s = t
    BY <1>1, <1>2, <1>3, <2>1 DEF AcceptDiagnosis, Moved, SameWork, Incident, WorkflowState, Contracted
  <2>2. CASE s # t
    BY <1>2, <1>3, <2>2 DEF AcceptDiagnosis, Kept
  <2> QED  BY <2>1, <2>2
<1>4. ASSUME DraftContract(t) PROVE Kept(s) \/ Drafted(s)
  <2>1. CASE s = t
    <3>1. SameWork(s)
      BY <1>1, <1>2, <1>4, <2>1, TriageAssumption
      DEF DraftContract, SameWork, Incident, WorkflowState, Contracted
    <3>2. /\ incidents[s].state = "INTERVENTION_RECORDED"
          /\ incidents'[s].state = "RECOVERY_CONTRACT_DRAFTED" /\ incidents'[s].contract = 1
          /\ incidents'[s].breach = incidents[s].breach
      BY <1>1, <1>2, <1>4, <2>1 DEF DraftContract, Incident
    <3>3. traces'[s] = Backfilled(Recorded(traces[s],
                                    DraftSteps(ComponentFor(incidents[s].kind))), 1)
      BY <1>2, <1>4, <2>1 DEF DraftContract
    <3> QED  BY <3>1, <3>2, <3>3 DEF Drafted
  <2>2. CASE s # t
    BY <1>2, <1>4, <2>2 DEF DraftContract, Kept
  <2> QED  BY <2>1, <2>2
<1>5. ASSUME WindowOpens(t) PROVE Kept(s) \/ Moved(s)
  <2>1. CASE s = t
    BY <1>1, <1>2, <1>5, <2>1 DEF WindowOpens, Moved, SameWork, Incident, WorkflowState, Contracted
  <2>2. CASE s # t
    BY <1>2, <1>5, <2>2 DEF WindowOpens, Kept
  <2> QED  BY <2>1, <2>2
<1>6. ASSUME NEW result \in Results, NEW permitted \in BOOLEAN,
             NEW next \in {"contingency", "escalation"}, Advance(t, result, permitted, next)
      PROVE  Kept(s) \/ Observed(s)
  <2>1. CASE s = t
    <3>1. /\ Exists(s) /\ incidents[s].state = "MONITORING_RECOVERY" /\ incidents[s] \in Incident
          /\ incidents[s].contract \in Nat
      BY <1>1, <1>6, <2>1 DEF Advance, Contracted, Incident
    <3>2. traces'[s] = Recorded(traces[s], <<Observation(result, incidents[s].contract)>>)
      BY <1>2, <1>6, <2>1 DEF Advance
    <3>3. SameWork(s) /\ incidents'[s].breach = incidents[s].breach
      BY <1>2, <1>6, <2>1, <3>1, TriageAssumption
      DEF Advance, SameWork, Incident, WorkflowState, Contracted
    <3>4. \/ /\ result.verdict = "monitoring" /\ incidents'[s].state = "MONITORING_RECOVERY"
             /\ incidents'[s].contract = incidents[s].contract
          \/ /\ result.verdict = "violated"
             /\ \/ /\ incidents'[s].state = "CONTINGENCY_AWAITING_APPROVAL"
                   /\ incidents'[s].contract = incidents[s].contract + 1
                \/ /\ incidents'[s].state = "ESCALATED"
                   /\ incidents'[s].contract = incidents[s].contract
          \/ /\ result.verdict = "verified"
             /\ incidents'[s].state \in {"VERIFIED_RECOVERY", "INSUFFICIENT_EVIDENCE"}
             /\ incidents'[s].contract = incidents[s].contract
      BY <1>2, <1>6, <2>1, <3>1 DEF Advance, Incident
    <3> QED  BY <3>1, <3>2, <3>3, <3>4 DEF Observed
  <2>2. CASE s # t
    BY <1>2, <1>6, <2>2 DEF Advance, Kept
  <2> QED  BY <2>1, <2>2
<1>7. ASSUME DebtBreaches(t) PROVE Kept(s) \/ Moved(s)
  <2>1. CASE s = t
    <3>1. incidents[s].state # "ESCALATED"
      BY <1>7, <2>1 DEF DebtBreaches, CanTransition, ALLOWED, WorkflowState
    <3>2. SameWork(s)
      BY <1>1, <1>2, <1>7, <2>1
      DEF DebtBreaches, SameWork, Incident, WorkflowState, Contracted
    <3> QED
      BY <1>1, <1>2, <1>7, <2>1, <3>1, <3>2 DEF DebtBreaches, Moved, Incident
  <2>2. CASE s # t
    BY <1>2, <1>7, <2>2 DEF DebtBreaches, Kept
  <2> QED  BY <2>1, <2>2
<1> QED  BY <1>3, <1>4, <1>5, <1>6, <1>7

LEMMA StepOfAnIncident ==
  ASSUME TablesInv, [TriageNext]_vars, NEW s \in Suffix
  PROVE  Kept(s) \/ Triaged(s) \/ Moved(s) \/ Drafted(s) \/ Observed(s)
<1>2. incidents \in [Suffix -> Incident \cup {NoIncident}] /\ DOMAIN traces = Suffix
  BY DEF TablesInv
<1>3. CASE UNCHANGED <<incidents, traces>>
  BY <1>3 DEF Kept
<1>4. ASSUME NEW r \in Request, NEW answer \in Answers, TriageCommits(r, answer)
      PROVE  Kept(s) \/ Triaged(s)
  <2>1. PICK a, t, dx, found :
          /\ a = pending[r].alert /\ t = SuffixOf[a] /\ dx = Validated(answer)
          /\ found = pending[r].found
    OBVIOUS
  <2>2. pending[r] # Idle /\ ~Exists(t)
    BY <1>4, <2>1 DEF TriageCommits, Taken
  <2>3. a \in Alert /\ Approved(found)
    BY <2>1, <2>2 DEF TablesInv
  <2>4. dx.kind \in Safe /\ dx.contingency \in Safe
    BY <2>1, ValidatedSafe
  <2>5. /\ incidents' = [incidents EXCEPT ![t] =
             [alert |-> a, state |-> "INTERVENTION_PROPOSED", contract |-> NoContract,
              kind |-> dx.kind, done |-> FALSE, breach |-> FALSE]]
        /\ traces' = [traces EXCEPT ![t] = Recorded(traces[t], TriageSteps(dx, found))]
    BY <1>4, <2>1 DEF TriageCommits
  <2>6. CASE s = t
    <3>1. incidents'[s] = [alert |-> a, state |-> "INTERVENTION_PROPOSED",
                           contract |-> NoContract, kind |-> dx.kind, done |-> FALSE, breach |-> FALSE]
      BY <1>2, <2>5, <2>6
    <3>2. traces'[s] = Recorded(traces[s], TriageSteps(dx, found))
      BY <1>2, <2>5, <2>6
    <3> QED  BY <2>2, <2>3, <2>4, <2>6, <3>1, <3>2 DEF Triaged
  <2>7. CASE s # t
    BY <1>2, <2>5, <2>7 DEF Kept
  <2> QED  BY <2>6, <2>7
<1>5. ASSUME NEW t \in Suffix,
             \/ \E role \in HumanRole : AcceptDiagnosis(t, role)
             \/ DraftContract(t) \/ WindowOpens(t)
             \/ \E result \in Results, permitted \in BOOLEAN,
                   next \in {"contingency", "escalation"} :
                  Advance(t, result, permitted, next)
             \/ DebtBreaches(t)
      PROVE  Kept(s) \/ Moved(s) \/ Drafted(s) \/ Observed(s)
  BY <1>5, WorkOfAnIncident
<1>6. CASE \/ \E a \in Alert : TriageAgain(a)
           \/ \E r \in Request : TriageFails(r) \/ \E a \in Alert : TriageBegins(r, a)
           \/ DayPasses
  BY <1>3, <1>6 DEF TriageAgain, TriageFails, TriageBegins, DayPasses
<1>7. UNCHANGED vars => UNCHANGED <<incidents, traces>>
  BY DEF vars
<1> QED  BY <1>3, <1>4, <1>5, <1>6, <1>7 DEF TriageNext

\* What the other tables hold.
LEMMA TablesStep == TablesInv /\ [TriageNext]_vars => TablesInv'
<1> SUFFICES ASSUME TablesInv, [TriageNext]_vars PROVE TablesInv'
  OBVIOUS
<1>1. ASSUME NEW s \in Suffix
      PROVE  /\ incidents'[s] \in Incident \cup {NoIncident}
             /\ Exists(s)' => Contracted(incidents'[s].contract, incidents'[s].state)
  <2>1. /\ incidents[s] \in Incident \cup {NoIncident}
        /\ Exists(s) => Contracted(incidents[s].contract, incidents[s].state)
    BY DEF TablesInv
  <2>2. Triaged(s) => /\ incidents'[s] \in Incident
                      /\ Contracted(incidents'[s].contract, incidents'[s].state)
    BY DEF Triaged, Incident, WorkflowState, Contracted
  <2>3. Kept(s) => (Exists(s)' <=> Exists(s))
    BY DEF Kept, Exists
  <2> QED  BY <2>1, <2>2, <2>3, StepOfAnIncident DEF Kept, Moved, Drafted, Observed, SameWork
<1> DEFINE Shape == /\ DOMAIN incidents' = Suffix /\ DOMAIN traces' = Suffix
                    /\ incidents' = [t \in Suffix |-> incidents'[t]]
                    /\ corpus' = corpus /\ (today' = today \/ today' = today + 1)
<1>2. Shape
  <2>1. /\ DOMAIN incidents = Suffix /\ DOMAIN traces = Suffix
        /\ incidents = [t \in Suffix |-> incidents[t]]
    BY DEF TablesInv
  <2>2. \A a \in Alert : TriageAgain(a) => Shape
    BY <2>1 DEF TriageAgain
  <2>3. \A r \in Request, a \in Alert : TriageBegins(r, a) => Shape
    BY <2>1 DEF TriageBegins
  <2>4. \A r \in Request : TriageFails(r) => Shape
    BY <2>1 DEF TriageFails
  <2>5. \A r \in Request, answer \in Answers : TriageCommits(r, answer) => Shape
    BY <2>1 DEF TriageCommits
  <2>6. \A t \in Suffix, role \in HumanRole : AcceptDiagnosis(t, role) => Shape
    BY <2>1 DEF AcceptDiagnosis
  <2>7. \A t \in Suffix : DraftContract(t) => Shape
    BY <2>1 DEF DraftContract
  <2>8. \A t \in Suffix : WindowOpens(t) => Shape
    BY <2>1 DEF WindowOpens
  <2>9. \A t \in Suffix, result \in Results, permitted \in BOOLEAN,
        next \in {"contingency", "escalation"} :
        Advance(t, result, permitted, next) => Shape
    BY <2>1 DEF Advance
  <2>10. /\ DayPasses => Shape
         /\ \A t \in Suffix : DebtBreaches(t) => Shape
    BY <2>1 DEF DayPasses, DebtBreaches
  <2>11. UNCHANGED vars => Shape
    BY <2>1 DEF vars
  <2> HIDE DEF Shape
  <2> QED  BY <2>2, <2>3, <2>4, <2>5, <2>6, <2>7, <2>8, <2>9, <2>10, <2>11 DEF TriageNext
<1>3. /\ incidents' \in [Suffix -> Incident \cup {NoIncident}]
      /\ \A s \in Suffix :
           Exists(s)' => (Contracted(incidents[s].contract, incidents[s].state))'
  <2>1. incidents' \in [Suffix -> Incident \cup {NoIncident}]
    BY <1>1, <1>2
  <2> QED  BY <1>1, <2>1 DEF Contracted
<1>4. corpus' \in Corpora /\ today' \in Nat
  BY <1>2 DEF TablesInv
<1>5. CASE UNCHANGED <<alerts, pending, answered>>
  BY <1>2, <1>3, <1>4, <1>5 DEF TablesInv
<1>6. ASSUME NEW a \in Alert, TriageAgain(a) PROVE TablesInv'
  BY <1>2, <1>3, <1>4, <1>6 DEF TablesInv, TriageAgain, Existing
<1>7. ASSUME NEW r \in Request, NEW a \in Alert, TriageBegins(r, a) PROVE TablesInv'
  <2>1. PICK found : found = Search(corpus, today, Model, ALL, TRUE, K)
    OBVIOUS
  <2>2. pending' = [pending EXCEPT ![r] = [alert |-> a, found |-> found]] /\ Approved(found)
    BY <1>7, <2>1, SearchApproved DEF TriageBegins
  <2>3. DOMAIN pending' = Request
    BY <2>2 DEF TablesInv
  <2>4. ASSUME NEW q \in Request
        PROVE  pending'[q] = Idle \/ (pending'[q].alert \in Alert /\ Approved(pending'[q].found))
    BY <2>2 DEF TablesInv
  <2>5. UNCHANGED <<alerts, answered, corpus>>
    BY <1>7 DEF TriageBegins
  <2> QED  BY <1>2, <1>3, <1>4, <2>3, <2>4, <2>5 DEF TablesInv, Approved
<1>8. ASSUME NEW r \in Request, TriageFails(r) PROVE TablesInv'
  BY <1>2, <1>3, <1>4, <1>8 DEF TablesInv, TriageFails, Approved
<1>9. ASSUME NEW r \in Request, NEW answer \in Answers, TriageCommits(r, answer)
      PROVE  TablesInv'
  <2>1. PICK a, t : a = pending[r].alert /\ t = SuffixOf[a]
    OBVIOUS
  <2>2. a \in Alert
    BY <1>9, <2>1 DEF TriageCommits, TablesInv
  <2>3. t \in Suffix
    BY <2>1, <2>2, TriageAssumption
  <2>4. /\ alerts' = [alerts EXCEPT ![a] = [status |-> "triaged", incident |-> {t}]]
        /\ answered' = answered \cup {[alert |-> a, incident |-> t]}
        /\ pending' = [pending EXCEPT ![r] = Idle]
    BY <1>9, <2>1 DEF TriageCommits
  <2>5. alerts' \in [Alert -> [status : {"open", "triaged"}, incident : SUBSET Suffix]]
    BY <2>2, <2>3, <2>4 DEF TablesInv
  <2>6. answered' \subseteq [alert : Alert, incident : Suffix]
    BY <2>2, <2>3, <2>4 DEF TablesInv
  <2>7. /\ DOMAIN pending' = Request
        /\ \A q \in Request :
             pending'[q] = Idle \/ (pending'[q].alert \in Alert /\ Approved(pending'[q].found))
    BY <2>4 DEF TablesInv
  <2> QED  BY <1>2, <1>3, <1>4, <2>5, <2>6, <2>7 DEF TablesInv, Approved
<1>10. UNCHANGED vars => UNCHANGED <<alerts, pending, answered>>
  BY DEF vars
<1> QED
  BY <1>5, <1>6, <1>7, <1>8, <1>9, <1>10
  DEF TriageNext, AcceptDiagnosis, DraftContract, WindowOpens, Advance, DebtBreaches, DayPasses

-----------------------------------------------------------------------------
(* One incident per alert.                                                 *)

LEMMA OneIncidentStep ==
  TablesInv /\ OneIncidentPerAlert /\ [TriageNext]_vars => OneIncidentPerAlert'
<1> SUFFICES ASSUME TablesInv, OneIncidentPerAlert, [TriageNext]_vars
             PROVE  OneIncidentPerAlert'
  OBVIOUS
<1>1. TablesInv'
  BY TablesStep
<1>2. answered \subseteq [alert : Alert, incident : Suffix]
  BY DEF TablesInv
<1>3. ASSUME NEW s \in Suffix
      PROVE  /\ Exists(s) => incidents[s].state # "NO_INCIDENT"
             /\ Exists(s)' => incidents'[s].state # "NO_INCIDENT"
             /\ Kept(s) => (Exists(s)' <=> Exists(s)) /\ incidents'[s] = incidents[s]
             /\ SameWork(s) => /\ Exists(s) /\ Exists(s)'
                              /\ incidents'[s].alert = incidents[s].alert
  <2>1. Exists(s) => incidents[s].state # "NO_INCIDENT"
    BY IncidentsExist
  <2>2. \A x \in Incident : x.state # "NO_INCIDENT"
    BY IncidentsExist
  <2>3. NoIncident \notin Incident
    BY <2>2 DEF NoIncident
  <2>4. incidents'[s] \in Incident \cup {NoIncident}
    BY <1>1 DEF TablesInv
  <2> QED  BY <2>1, <2>2, <2>3, <2>4 DEF Exists, Kept, SameWork
<1>4. ASSUME UNCHANGED <<alerts, answered>>, \A s \in Suffix : Kept(s) \/ SameWork(s)
      PROVE  OneIncidentPerAlert'
  <2>1. ASSUME NEW x \in answered'
        PROVE  incidents'[x.incident].state # "NO_INCIDENT" /\ incidents'[x.incident].alert = x.alert
    <3>1. x \in answered /\ x.incident \in Suffix
      BY <1>2, <1>4
    <3> QED  BY <1>3, <1>4, <3>1 DEF OneIncidentPerAlert
  <2>2. ASSUME NEW a \in Alert PROVE Existing(a)' = alerts'[a].incident
    <3>1. \A s \in Suffix : (Exists(s) /\ incidents[s].alert = a)
                          <=> (Exists(s)' /\ incidents'[s].alert = a)
      BY <1>3, <1>4
    <3>2. Existing(a)' = Existing(a)
      BY <3>1 DEF Existing
    <3> QED  BY <1>4, <3>2 DEF OneIncidentPerAlert
  <2> QED  BY <2>1, <2>2 DEF OneIncidentPerAlert
<1>5. ASSUME NEW a \in Alert, TriageAgain(a) PROVE OneIncidentPerAlert'
  <2>1. PICK s \in Existing(a) : answered' = answered \cup {[alert |-> a, incident |-> s]}
    BY <1>5 DEF TriageAgain
  <2>2. s \in Suffix /\ Exists(s) /\ incidents[s].alert = a
    BY <2>1 DEF Existing
  <2>3. UNCHANGED <<incidents, alerts>>
    BY <1>5 DEF TriageAgain
  <2>4. incidents[s].state # "NO_INCIDENT"
    BY <1>3, <2>2
  <2> QED  BY <2>1, <2>2, <2>3, <2>4 DEF OneIncidentPerAlert, Existing, Exists
<1>6. ASSUME NEW r \in Request, NEW answer \in Answers, TriageCommits(r, answer)
      PROVE  OneIncidentPerAlert'
  <2>1. PICK a, t, inc :
          /\ a = pending[r].alert /\ t = SuffixOf[a]
          /\ inc = [alert |-> a, state |-> "INTERVENTION_PROPOSED", contract |-> NoContract,
                    kind |-> Validated(answer).kind, done |-> FALSE,
                    breach |-> FALSE]
    OBVIOUS
  <2>2. a \in Alert /\ t \in Suffix
    <3>1. a \in Alert
      BY <1>6, <2>1 DEF TriageCommits, TablesInv
    <3> QED  BY <2>1, <3>1, TriageAssumption
  <2>3. Existing(a) = {} /\ ~Exists(t)
    BY <1>6, <2>1 DEF TriageCommits, Taken
  <2>4. /\ incidents' = [incidents EXCEPT ![t] = inc]
        /\ alerts' = [alerts EXCEPT ![a] = [status |-> "triaged", incident |-> {t}]]
        /\ answered' = answered \cup {[alert |-> a, incident |-> t]}
    BY <1>6, <2>1 DEF TriageCommits
  <2>5. incidents'[t] = inc /\ \A s \in Suffix : s # t => incidents'[s] = incidents[s]
    BY <2>2, <2>4 DEF TablesInv
  <2>6. inc.alert = a /\ inc.state # "NO_INCIDENT" /\ inc # NoIncident
    <3>1. inc.alert = a /\ inc.state = "INTERVENTION_PROPOSED"
      BY <2>1
    <3>2. NoIncident.state = "NO_INCIDENT"
      BY DEF NoIncident
    <3> QED  BY <3>1, <3>2
  <2>7. Exists(t)' /\ \A s \in Suffix : s # t => (Exists(s)' <=> Exists(s))
    BY <2>5, <2>6 DEF Exists
  <2>8. ASSUME NEW x \in answered'
        PROVE  incidents'[x.incident].state # "NO_INCIDENT" /\ incidents'[x.incident].alert = x.alert
    <3>1. CASE x \in answered
      <4>1. /\ x.incident \in Suffix /\ incidents[x.incident].state # "NO_INCIDENT"
            /\ incidents[x.incident].alert = x.alert
        BY <1>2, <3>1 DEF OneIncidentPerAlert
      <4>2. NoIncident.state = "NO_INCIDENT"
        BY DEF NoIncident
      <4>3. x.incident # t
        BY <2>3, <4>1, <4>2 DEF Exists
      <4> QED  BY <2>5, <4>1, <4>3
    <3>2. CASE x = [alert |-> a, incident |-> t]
      BY <2>5, <2>6, <3>2
    <3> QED  BY <2>4, <3>1, <3>2
  <2>9. ASSUME NEW b \in Alert PROVE Existing(b)' = alerts'[b].incident
    <3>1. Existing(b)' = IF b = a THEN {t} ELSE Existing(b)
      <4>1. ASSUME NEW s \in Suffix
            PROVE  (Exists(s)' /\ incidents'[s].alert = b)
                     <=> (IF b = a THEN s = t ELSE Exists(s) /\ incidents[s].alert = b)
        BY <2>2, <2>3, <2>5, <2>6, <2>7 DEF Existing
      <4> QED  BY <2>2, <4>1 DEF Existing
    <3>2. alerts'[b].incident = IF b = a THEN {t} ELSE alerts[b].incident
      BY <2>2, <2>4 DEF TablesInv
    <3> QED  BY <3>1, <3>2 DEF OneIncidentPerAlert
  <2> QED  BY <2>8, <2>9 DEF OneIncidentPerAlert
<1>7. CASE \/ \E r \in Request : TriageFails(r) \/ \E a \in Alert : TriageBegins(r, a)
           \/ DayPasses \/ UNCHANGED vars
  <2>1. UNCHANGED <<incidents, traces, alerts, answered>>
    BY <1>7 DEF TriageFails, TriageBegins, DayPasses, vars
  <2> QED  BY <1>4, <2>1 DEF Kept
<1>8. ASSUME NEW t \in Suffix,
             \/ \E role \in HumanRole : AcceptDiagnosis(t, role)
             \/ DraftContract(t) \/ WindowOpens(t)
             \/ \E result \in Results, permitted \in BOOLEAN,
                   next \in {"contingency", "escalation"} :
                  Advance(t, result, permitted, next)
             \/ DebtBreaches(t)
      PROVE  OneIncidentPerAlert'
  <2>1. \A s \in Suffix : Kept(s) \/ SameWork(s)
    BY <1>8, WorkOfAnIncident DEF Moved, Drafted, Observed
  <2>2. UNCHANGED <<alerts, answered>>
    BY <1>8 DEF AcceptDiagnosis, DraftContract, WindowOpens, Advance, DebtBreaches
  <2> QED  BY <1>4, <2>1, <2>2
<1> QED  BY <1>5, <1>6, <1>7, <1>8 DEF TriageNext

LEMMA TablesInvariant == TriageSpec => []TablesInv
<1>1. TriageInit => TablesInv
  BY DEF TriageInit, TablesInv, Exists
<1> QED  BY <1>1, TablesStep, PTL DEF TriageSpec

\* However many requests for an alert run at once, fail and are tried again, every
\* caller is told of the one incident that alert has, and the alert is marked
\* triaged with it exactly when it exists: the unique keys of the incident table
\* are checked when a request commits, not when it reads (triage_from_alert()).
THEOREM OneIncident == TriageSpec => []OneIncidentPerAlert
<1>1. TriageInit => OneIncidentPerAlert
  BY DEF TriageInit, OneIncidentPerAlert, Existing, Exists
<1> QED  BY <1>1, OneIncidentStep, TablesInvariant, PTL DEF TriageSpec

-----------------------------------------------------------------------------
(* What the trace of an incident holds.                                    *)

\* Stale or unapproved guidance that matches work of a kind is among the conflicts,
\* if all that matches fits the wider search.
Shown(conflicts, kind) ==
  LET matches(c) == Applicable(c, Model, ComponentFor(kind))
  IN  Cardinality({i \in DOMAIN corpus : matches(corpus[i])}) <= 3 * K =>
        \A c \in ToSet(corpus) :
          matches(c) /\ ~Authoritative(c) /\ c.effective = 0 => c \in conflicts

\* The rows of the triage come first, the proposal last among them; what follows
\* has a contract to name.
Proposed(rows, inc) ==
  /\ Len(rows) >= 5
  /\ \A i \in DOMAIN rows : rows[i].seq = i
  /\ \A i \in DOMAIN rows : rows[i].node = "propose" <=> i = 5
  /\ rows[5].out.kind = inc.kind /\ rows[5].out.contingency \in Safe
  /\ inc.contract = NoContract
       <=> inc.state \in {"INTERVENTION_PROPOSED", "INTERVENTION_RECORDED"}
  /\ inc.contract = NoContract =>
       /\ Len(rows) = 5
       /\ \A i \in DOMAIN rows :
            /\ rows[i].contract = NoContract /\ rows[i].confidence = NoConfidence
            /\ rows[i].node # "reflect"

\* Each row names the contract in force after the row before it.
Chained(rows) ==
  /\ \A i \in DOMAIN rows : rows[i].contract \in Nat
  /\ rows[1].contract = 1
  /\ \A i \in 1 .. Len(rows) - 1 : rows[i + 1].contract = InForceAfter(rows[i])

\* The contract the last row leaves the incident with.
EndsAt(last, inc) ==
  inc.contract = IF inc.state = "ESCALATED" /\ ~inc.breach
                 THEN last.contract ELSE InForceAfter(last)

Named(rows, inc) ==
  /\ inc.breach = TRUE => inc.state = "ESCALATED"
  /\ inc.contract # NoContract => Chained(rows) /\ EndsAt(rows[Len(rows)], inc)

\* The last row always has a confidence, one that fits the incident.
Confident(row, inc) ==
  /\ row.confidence \in Int
  /\ inc.state = "RECOVERY_CONTRACT_DRAFTED" => row.confidence = 40
  /\ inc.state = "MONITORING_RECOVERY" =>
       row.confidence <= 80 \/ (row.node = "observe" /\ row.out.awaiting = TRUE
                                                     /\ row.confidence = 85)
  /\ inc.state = "CONTINGENCY_AWAITING_APPROVAL" => row.confidence = 5
  /\ inc.state = "ESCALATED" /\ ~inc.breach => row.confidence = 5
  /\ inc.state = "VERIFIED_RECOVERY" => row.confidence = 97

Retrieved(rows, inc) ==
  /\ \A i \in DOMAIN rows : rows[i].node = "retrieve" <=> i = 3 \/ i = 7
  /\ \A i \in DOMAIN rows : rows[i].node = "retrieve" => Approved(rows[i].out.citations)
  /\ inc.contract # NoContract => Len(rows) >= 7 /\ Shown(rows[7].out.conflicts, inc.kind)

TraceInv(s) ==
  /\ IsRows(traces[s])
  /\ ~Exists(s) => traces[s] = <<>>
  /\ Exists(s) => /\ Proposed(traces[s], incidents[s])
                  /\ Named(traces[s], incidents[s])
                  /\ incidents[s].contract # NoContract =>
                       Confident(traces[s][Len(traces[s])], incidents[s])
                  /\ Retrieved(traces[s], incidents[s])

LEMMA FirstRows ==
  ASSUME NEW dx, NEW found, NEW t, t = Recorded(<<>>, TriageSteps(dx, found))
  PROVE  /\ IsRows(t) /\ Len(t) = 5 /\ DOMAIN t = 1 .. 5
         /\ \A i \in 1 .. 5 : /\ t[i].contract = NoContract /\ t[i].confidence = NoConfidence
                              /\ t[i].seq = i
                              /\ t[i].node = "propose" <=> i = 5
                              /\ t[i].node = "retrieve" <=> i = 3
                              /\ t[i].node # "reflect"
         /\ t[3].out.citations = found
         /\ t[5].out.kind = dx.kind /\ t[5].out.contingency = dx.contingency
<1>1. PICK e : e = TriageSteps(dx, found)
  OBVIOUS
<1>2. PICK none : none = <<>>
  OBVIOUS
<1>3. IsRows(none) /\ Len(none) = 0
  BY <1>2, NoRows
<1>4. /\ IsRows(e) /\ Len(e) = 5 /\ DOMAIN e = 1 .. 5
      /\ \A i \in 1 .. 5 : e[i].contract = NoContract /\ e[i].confidence = NoConfidence
      /\ \A i \in 1 .. 5 : /\ e[i].node = "propose" <=> i = 5
                           /\ e[i].node = "retrieve" <=> i = 3
                           /\ e[i].node # "reflect"
      /\ e[3].out = Cited({}, found)
      /\ e[5].out = [kind |-> dx.kind, contingency |-> dx.contingency]
  BY <1>1, TriageRows
<1>5. t = Recorded(none, e)
  BY <1>1, <1>2
<1>6. /\ IsRows(t) /\ Len(t) = Len(none) + Len(e) /\ DOMAIN t = 1 .. Len(t)
      /\ \A i \in 1 .. Len(e) : t[Len(none) + i] = At(e[i], Len(none) + i)
  BY <1>3, <1>4, <1>5, RowsRecorded
<1>7. Len(t) = 5 /\ \A i \in 1 .. 5 : t[i] = At(e[i], i)
  BY <1>3, <1>4, <1>6
<1>8. \A i \in 1 .. 5 : IsRow(e[i])
  BY <1>4 DEF IsRows
<1>9. \A i \in 1 .. 5 : /\ t[i].node = e[i].node /\ t[i].out = e[i].out /\ t[i].seq = i
                        /\ t[i].confidence = e[i].confidence /\ t[i].contract = e[i].contract
  BY <1>7, <1>8, RowAt
<1>10. t[3].out.citations = found
  BY <1>4, <1>9 DEF Cited
<1>11. t[5].out.kind = dx.kind /\ t[5].out.contingency = dx.contingency
  BY <1>4, <1>9
<1>12. \A i \in 1 .. 5 : /\ t[i].contract = NoContract /\ t[i].confidence = NoConfidence
                         /\ t[i].seq = i
                         /\ t[i].node = "propose" <=> i = 5
                         /\ t[i].node = "retrieve" <=> i = 3
                         /\ t[i].node # "reflect"
  BY <1>4, <1>9
<1> QED  BY <1>6, <1>7, <1>10, <1>11, <1>12

LEMMA SixRecorded ==
  ASSUME NEW rows, IsRows(rows), NEW e, IsRows(e), NEW t, t = Recorded(rows, e)
  PROVE  Len(rows) = 5 /\ Len(e) = 6 =>
           /\ IsRows(t) /\ Len(t) = 11 /\ DOMAIN t = 1 .. 11 /\ DOMAIN rows = 1 .. 5
           /\ \A i \in 1 .. 5 : t[i] = rows[i]
           /\ \A i \in 1 .. 6 : t[5 + i] = At(e[i], 5 + i)
<1>1. IsRows(t) /\ Len(t) = Len(rows) + Len(e) /\ DOMAIN t = 1 .. Len(t)
  BY RowsRecorded
<1>2. \A i \in 1 .. Len(rows) : t[i] = rows[i]
  BY RowsRecorded
<1>3. \A i \in 1 .. Len(e) : t[Len(rows) + i] = At(e[i], Len(rows) + i)
  BY RowsRecorded
<1> QED  BY <1>1, <1>2, <1>3, RowsIndexed

DraftedTrace(rows, component, t) ==
  /\ IsRows(t) /\ Len(t) = 11 /\ DOMAIN t = 1 .. 11
  /\ \A i \in 1 .. 11 : t[i].contract = 1
  /\ \A i \in 1 .. 5 : /\ t[i].node = rows[i].node /\ t[i].out = rows[i].out
                       /\ t[i].seq = rows[i].seq
  /\ \A i \in 6 .. 11 : /\ t[i].seq = i /\ t[i].node \notin {"propose", "reflect"}
                        /\ t[i].node = "retrieve" <=> i = 7
  /\ t[11].confidence = 40
  /\ t[7].out = Cited(Conflicts(corpus, today, Model, component),
                      Search(corpus, today, Model, ALL, TRUE, K))

LEMMA DraftedRows ==
  ASSUME NEW rows, IsRows(rows), NEW component, NEW t,
         t = Backfilled(Recorded(rows, DraftSteps(component)), 1)
  PROVE  Len(rows) = 5 /\ (\A i \in DOMAIN rows : rows[i].contract = NoContract)
           => DraftedTrace(rows, component, t)
<1> SUFFICES ASSUME Len(rows) = 5, \A i \in DOMAIN rows : rows[i].contract = NoContract
             PROVE  DraftedTrace(rows, component, t)
  OBVIOUS
<1>1. PICK e : e = DraftSteps(component)
  OBVIOUS
<1>2. PICK u : u = Recorded(rows, e)
  OBVIOUS
<1>3. /\ IsRows(e) /\ Len(e) = 6 /\ DOMAIN e = 1 .. 6
      /\ \A i \in 1 .. 6 : e[i].contract = NoContract
      /\ e[6].confidence = 40
      /\ \A i \in 1 .. 6 : e[i].node \notin {"propose", "reflect"} /\ (e[i].node = "retrieve" <=> i = 2)
      /\ e[2].out = Cited(Conflicts(corpus, today, Model, component),
                          Search(corpus, today, Model, ALL, TRUE, K))
  <2>1. IsDraft(e, component)
    BY <1>1, DraftRows
  <2> QED  BY <2>1 DEF IsDraft
<1>4. /\ IsRows(u) /\ Len(u) = 11 /\ DOMAIN u = 1 .. 11 /\ DOMAIN rows = 1 .. 5
      /\ \A i \in 1 .. 5 : u[i] = rows[i]
      /\ \A i \in 1 .. 6 : u[5 + i] = At(e[i], 5 + i)
  BY <1>2, <1>3, SixRecorded
<1>5. \A i \in 1 .. 6 : IsRow(e[i])
  BY <1>3 DEF IsRows
<1>6. \A i \in 1 .. 6 : /\ u[5 + i].node = e[i].node /\ u[5 + i].out = e[i].out
                        /\ u[5 + i].seq = 5 + i /\ u[5 + i].confidence = e[i].confidence
                        /\ u[5 + i].contract = e[i].contract
  BY <1>4, <1>5, RowAt
<1>7. t = Backfilled(u, 1)
  BY <1>1, <1>2
<1>8. /\ IsRows(t) /\ Len(t) = Len(u) /\ DOMAIN t = DOMAIN u
      /\ \A i \in DOMAIN u :
           /\ t[i].node = u[i].node /\ t[i].out = u[i].out
           /\ t[i].confidence = u[i].confidence /\ t[i].seq = u[i].seq
           /\ t[i].contract = IF u[i].contract = NoContract THEN 1 ELSE u[i].contract
  BY <1>4, <1>7, RowsBackfilled
<1>9. ASSUME NEW i \in 6 .. 11 PROVE i - 5 \in 1 .. 6 /\ i = 5 + (i - 5)
  OBVIOUS
<1>10. \A i \in 1 .. 11 : u[i].contract = NoContract
  <2> TAKE i \in 1 .. 11
  <2>1. CASE i \in 1 .. 5
    BY <1>4, <2>1
  <2>2. CASE i \in 6 .. 11
    BY <1>3, <1>6, <1>9, <2>2
  <2> QED  BY <2>1, <2>2
<1>11. \A i \in 1 .. 11 : t[i].contract = 1
  BY <1>4, <1>8, <1>10
<1>12. \A i \in 1 .. 5 : /\ t[i].node = rows[i].node /\ t[i].out = rows[i].out
                         /\ t[i].seq = rows[i].seq
  BY <1>4, <1>8
<1>13. ASSUME NEW i \in 6 .. 11
       PROVE  /\ t[i].seq = i /\ t[i].node \notin {"propose", "reflect"}
              /\ t[i].node = "retrieve" <=> i = 7
  <2>1. i \in DOMAIN u
    BY <1>4
  <2>2. t[i].seq = u[i].seq /\ t[i].node = u[i].node
    BY <1>8, <2>1
  <2>3. PICK j \in 1 .. 6 : i = 5 + j
    BY <1>9
  <2>4. u[i].seq = i /\ u[i].node = e[j].node
    BY <1>6, <2>3
  <2> QED  BY <1>3, <2>2, <2>3, <2>4
<1>14. t[11].confidence = 40 /\ t[7].out = e[2].out
  <2>1. 6 \in 1 .. 6 /\ 2 \in 1 .. 6 /\ 5 + 6 = 11 /\ 5 + 2 = 7
    OBVIOUS
  <2>2. u[11].confidence = e[6].confidence
    BY <1>6, <2>1
  <2>3. u[7].out = e[2].out
    BY <1>6, <2>1
  <2>4. 11 \in DOMAIN u /\ 7 \in DOMAIN u
    BY <1>4
  <2>5. t[11].confidence = u[11].confidence /\ t[7].out = u[7].out
    BY <1>8, <2>4
  <2> QED  BY <1>3, <2>2, <2>3, <2>5
<1> QED  BY <1>3, <1>4, <1>8, <1>11, <1>12, <1>13, <1>14 DEF DraftedTrace

Observes(o, result, c) ==
  /\ IsRow(o) /\ o.contract = c
  /\ o.node # "propose" /\ o.node # "retrieve"
  /\ o.node = "reflect" <=> result.verdict = "violated"
  /\ o.confidence \in Int
  /\ result.verdict = "monitoring" =>
       o.confidence <= 80 \/ (o.node = "observe" /\ o.out.awaiting = TRUE
                                                 /\ o.confidence = 85)
  /\ result.verdict = "violated" => o.confidence = 5
  /\ result.verdict = "verified" => o.confidence = 97

LEMMA ObservationRow ==
  ASSUME NEW result \in Results, NEW c, NEW o, o = Observation(result, c)
  PROVE  Observes(o, result, c)
<1>1. /\ result.verdict \in {"monitoring", "violated", "verified"}
      /\ result.streak \in 0 .. 2 * RequiredStable /\ result.awaiting \in BOOLEAN
  BY DEF Results
<1>2. PICK node : node = CASE result.verdict = "violated" -> "reflect"
                           [] result.verdict = "verified" -> "decide"
                           [] result.verdict = "monitoring" -> "observe"
  OBVIOUS
<1>3. /\ node # "propose" /\ node # "retrieve"
      /\ node = "reflect" <=> result.verdict = "violated"
      /\ result.verdict = "monitoring" => node = "observe"
  BY <1>1, <1>2
<1>4. PICK x : x = Confidence(result)
  OBVIOUS
<1>5. o = [Node(node, [awaiting |-> result.awaiting]) EXCEPT !.confidence = x, !.contract = c]
  BY <1>2, <1>4 DEF Observation
<1>6. /\ IsRow(o) /\ o.contract = c /\ o.node = node /\ o.confidence = x
      /\ o.out.awaiting = result.awaiting
  BY <1>5 DEF Node, IsRow
<1>7. /\ x \in Int
      /\ result.verdict = "monitoring" => x <= 80 \/ (result.awaiting = TRUE /\ x = 85)
      /\ result.verdict = "violated" => x = 5
      /\ result.verdict = "verified" => x = 97
  <2>1. PICK y : y = 30 + (45 * result.streak) \div RequiredStable
    OBVIOUS
  <2>2. y \in Int
    BY <1>1, <2>1, TriageAssumption
  <2>3. x = CASE result.verdict = "verified" -> 97
              [] result.verdict = "violated" -> 5
              [] result.verdict = "monitoring" ->
                   IF result.awaiting THEN 85 ELSE IF y > 80 THEN 80 ELSE y
    BY <1>4, <2>1 DEF Confidence
  <2> QED  BY <1>1, <2>2, <2>3
<1> QED  BY <1>3, <1>6, <1>7 DEF Observes

LEMMA ObservedRows ==
  ASSUME NEW rows, IsRows(rows), NEW o, IsRow(o), NEW t, t = Recorded(rows, <<o>>)
  PROVE  /\ IsRows(t) /\ Len(rows) \in Nat /\ Len(t) = Len(rows) + 1
         /\ DOMAIN rows = 1 .. Len(rows) /\ DOMAIN t = 1 .. Len(rows) + 1
         /\ \A i \in 1 .. Len(rows) : t[i] = rows[i]
         /\ t[Len(rows) + 1] = At(o, Len(rows) + 1)
<1>1. PICK e : e = <<o>>
  OBVIOUS
<1>2. Len(e) = 1 /\ DOMAIN e = 1 .. 1 /\ e[1] = o /\ e \in Seq({o})
  BY <1>1
<1>3. IsRows(e)
  BY <1>2, SeqOfItsElements DEF IsRows
<1>4. t = Recorded(rows, e)
  BY <1>1
<1>5. /\ IsRows(t) /\ Len(t) = Len(rows) + Len(e) /\ DOMAIN t = 1 .. Len(t)
  BY <1>3, <1>4, RowsRecorded
<1>6. \A i \in 1 .. Len(rows) : t[i] = rows[i]
  BY <1>3, <1>4, RowsRecorded
<1>7. \A i \in 1 .. Len(e) : t[Len(rows) + i] = At(e[i], Len(rows) + i)
  BY <1>3, <1>4, RowsRecorded
<1> QED  BY <1>2, <1>5, <1>6, <1>7, RowsIndexed

\* detect_conflicts() shows what it is for: the wider search has room for all that
\* matches, and no approved chunk is of the document revision of a stale one.
LEMMA ConflictsShown ==
  ASSUME corpus \in Corpora, today \in Nat, NEW kind
  PROVE  Shown(Conflicts(corpus, today, Model, ComponentFor(kind)), kind)
<1> DEFINE component == ComponentFor(kind)
           M == {i \in DOMAIN corpus : Applicable(corpus[i], Model, component)}
<1> SUFFICES ASSUME Cardinality(M) <= 3 * K, NEW c \in ToSet(corpus),
                    Applicable(c, Model, component), ~Authoritative(c), c.effective = 0
             PROVE  c \in Conflicts(corpus, today, Model, component)
  BY DEF Shown
<1>1. IsCorpus(corpus) /\ K \in Nat
  BY TriageAssumption
<1>2. Len(corpus) \in Nat /\ DOMAIN corpus = 1 .. Len(corpus)
  BY <1>1, LenProperties DEF IsCorpus
<1>3. PICK i \in DOMAIN corpus : c = corpus[i]
  BY DEF ToSet
<1>4. i \in M
  BY <1>3
<1>5. IsFiniteSet(M) /\ Cardinality(M) \in Nat
  <2>1. IsFiniteSet(1 .. Len(corpus)) /\ M \subseteq 1 .. Len(corpus)
    BY <1>2, FS_Interval
  <2> QED  BY <2>1, FS_Subset, FS_CardinalityType
<1>6. c \in Search(corpus, today, Model, component, FALSE, 3 * K)
  <2> DEFINE matching == Candidates(corpus, today, Model, component, FALSE)
             before == {j \in matching : \/ corpus[j].score > corpus[i].score
                                         \/ corpus[j].score = corpus[i].score /\ j < i}
  <2>1. matching \subseteq M
    BY DEF Candidates
  <2>2. i \in matching
    BY <1>3 DEF Candidates
  <2>3. corpus[i].score \in Int /\ i \in Nat
    BY <1>1, <1>2, <1>3 DEF IsCorpus, IsChunk
  <2>4. i \notin before
    <3> HIDE DEF matching
    <3> QED  BY <2>3
  <2>5. before \subseteq M \ {i}
    BY <2>1, <2>4
  <2>6. IsFiniteSet(M \ {i}) /\ Cardinality(M \ {i}) = Cardinality(M) - 1
    BY <1>4, <1>5, FS_RemoveElement
  <2>7. Cardinality(before) \in Nat /\ Cardinality(before) <= Cardinality(M \ {i})
    <3> HIDE DEF before, M
    <3> QED  BY <2>5, <2>6, FS_Subset, FS_CardinalityType
  <2>8. Cardinality(before) < 3 * K
    <3> HIDE DEF before, M
    <3> QED  BY <1>1, <1>5, <2>6, <2>7
  <2> QED  BY <1>3, <2>2, <2>8 DEF Search
<1>7. ASSUME NEW d \in Search(corpus, today, Model, component, TRUE, K) PROVE ~SameChunk(c, d)
  <2>1. d \in ToSet(corpus) /\ Authoritative(d)
    BY <1>7 DEF Search, Candidates, ToSet
  <2> QED  BY <1>1, <2>1 DEF IsCorpus, Authoritative, SameChunk
<1> QED  BY <1>6, <1>7 DEF Conflicts

LEMMA CorpusFixed == [TriageNext]_vars => corpus' = corpus
BY DEF TriageNext, vars, TriageAgain, TriageBegins, TriageFails, TriageCommits,
       AcceptDiagnosis, DraftContract, WindowOpens, Advance, DebtBreaches, DayPasses

LEMMA TraceStep ==
  ASSUME TablesInv, NEW s \in Suffix, TraceInv(s), [TriageNext]_vars
  PROVE  TraceInv(s)'
<1> DEFINE rows == traces[s]  inc == incidents[s]  rows2 == traces'[s]  inc2 == incidents'[s]
<1>1. \A x, y : Shown(x, y)' <=> Shown(x, y)
  BY CorpusFixed DEF Shown
<1>2. TablesInv' /\ IsRows(rows) /\ (Exists(s) => inc \in Incident)
  BY TablesStep, IncidentsExist DEF TraceInv
<1>3. NoContract \notin Nat /\ NoConfidence \notin Int
  BY TriageAssumption
<1>4. \A x \in Incident : x # NoIncident
  <2>1. \A x \in Incident : x.state # "NO_INCIDENT"
    BY IncidentsExist
  <2> QED  BY <2>1 DEF NoIncident
<1>5. SUFFICES
        ASSUME ~Kept(s)
        PROVE  /\ IsRows(rows2) /\ Exists(s)'
               /\ Proposed(rows2, inc2) /\ Named(rows2, inc2)
               /\ inc2.contract # NoContract => Confident(rows2[Len(rows2)], inc2)
               /\ Retrieved(rows2, inc2)
  <2>1. Kept(s) => TraceInv(s)'
    BY <1>1 DEF Kept, TraceInv, Exists, Retrieved, Proposed, Named, Confident, IsRows,
                 Chained, EndsAt, InForceAfter
  <2>2. Retrieved(rows2, inc2) => Retrieved(traces[s], incidents[s])'
    BY <1>1 DEF Retrieved
  <2> QED  BY <2>1, <2>2 DEF TraceInv, Proposed, Named, Confident, IsRows,
                             Chained, EndsAt, InForceAfter
<1>6. CASE Triaged(s)
  <2>1. PICK a, dx, found :
          /\ ~Exists(s) /\ a \in Alert /\ Approved(found)
          /\ dx.kind \in Safe /\ dx.contingency \in Safe
          /\ inc2 = [alert |-> a, state |-> "INTERVENTION_PROPOSED",
                     contract |-> NoContract, kind |-> dx.kind, done |-> FALSE, breach |-> FALSE]
          /\ rows2 = Recorded(traces[s], TriageSteps(dx, found))
    BY <1>6 DEF Triaged
  <2>2. rows2 = Recorded(<<>>, TriageSteps(dx, found))
    BY <2>1 DEF TraceInv
  <2>3. PICK t : t = rows2
    OBVIOUS
  <2>4. /\ IsRows(t) /\ Len(t) = 5 /\ DOMAIN t = 1 .. 5
        /\ \A i \in 1 .. 5 : /\ t[i].contract = NoContract /\ t[i].confidence = NoConfidence
                             /\ t[i].seq = i
                             /\ t[i].node = "propose" <=> i = 5
                             /\ t[i].node = "retrieve" <=> i = 3
                             /\ t[i].node # "reflect"
        /\ t[3].out.citations = found
        /\ t[5].out.kind = dx.kind /\ t[5].out.contingency = dx.contingency
    BY <2>2, <2>3, FirstRows
  <2>5. /\ inc2.state = "INTERVENTION_PROPOSED" /\ inc2.contract = NoContract
        /\ inc2.kind = dx.kind /\ inc2.breach = FALSE
    BY <2>1
  <2>6. Exists(s)'
    <3>1. NoIncident.state = "NO_INCIDENT"
      BY DEF NoIncident
    <3> QED  BY <2>5, <3>1 DEF Exists
  <2>7. Proposed(t, inc2)
    BY <2>1, <2>4, <2>5 DEF Proposed
  <2>8. Named(t, inc2)
    BY <1>3, <2>4, <2>5 DEF Named
  <2>9. Retrieved(t, inc2)
    BY <2>1, <2>4, <2>5 DEF Retrieved
  <2> QED  BY <2>3, <2>4, <2>5, <2>6, <2>7, <2>8, <2>9
<1>7. CASE SameWork(s)
  <2>1. /\ Exists(s) /\ Exists(s)' /\ inc \in Incident /\ inc2 \in Incident
        /\ inc2.kind = inc.kind
    BY <1>2, <1>4, <1>7 DEF SameWork, Exists
  <2>2. /\ Proposed(rows, inc) /\ Named(rows, inc) /\ Retrieved(rows, inc)
        /\ inc.contract # NoContract => Confident(rows[Len(rows)], inc)
    BY <2>1 DEF TraceInv
  <2>3. CASE Moved(s)
    <3>1. rows2 = rows /\ inc2.contract = inc.contract
      BY <2>3 DEF Moved
    <3>2. \/ /\ inc.state = "INTERVENTION_PROPOSED" /\ inc2.state = "INTERVENTION_RECORDED"
             /\ inc2.breach = inc.breach
          \/ /\ inc.state \in {"RECOVERY_CONTRACT_DRAFTED", "CONTINGENCY_AWAITING_APPROVAL"}
             /\ inc2.state = "MONITORING_RECOVERY" /\ inc2.breach = inc.breach
          \/ /\ inc.contract # NoContract /\ inc.state # "ESCALATED"
             /\ inc2.state = "ESCALATED" /\ inc2.breach = TRUE
      BY <2>3 DEF Moved
    <3> HIDE DEF rows, inc, rows2, inc2
    <3>3. Proposed(rows2, inc2)
      BY <2>1, <2>2, <3>1, <3>2 DEF Proposed
    <3>4. Retrieved(rows2, inc2)
      BY <2>1, <2>2, <3>1 DEF Retrieved
    <3>n. Named(rows2, inc2)
      <4>1. inc.state # "ESCALATED"
        BY <3>2
      <4>2. inc2.breach = TRUE \/ (inc2.breach = FALSE /\ inc2.state # "ESCALATED")
        BY <2>1, <2>2, <3>2, <4>1 DEF Named, Incident
      <4> QED  BY <2>2, <3>1, <3>2, <4>1, <4>2 DEF Named, EndsAt
    <3>5. inc2.contract # NoContract => Confident(rows2[Len(rows2)], inc2)
      BY <2>2, <3>1, <3>2 DEF Confident, Proposed
    <3> QED  BY <1>2, <2>1, <3>1, <3>3, <3>4, <3>n, <3>5
  <2>4. CASE Drafted(s)
    <3>1. PICK t : t = rows2
      OBVIOUS
    <3>2. /\ inc.state = "INTERVENTION_RECORDED"
          /\ inc2.state = "RECOVERY_CONTRACT_DRAFTED" /\ inc2.contract = 1
          /\ inc2.breach = inc.breach
          /\ t = Backfilled(Recorded(rows, DraftSteps(ComponentFor(inc.kind))), 1)
      BY <2>4, <3>1 DEF Drafted
    <3> HIDE DEF rows, inc, rows2, inc2
    <3>3. /\ Len(rows) = 5 /\ \A i \in DOMAIN rows : rows[i].contract = NoContract
          /\ \A i \in DOMAIN rows : rows[i].node # "reflect"
      BY <2>2, <3>2 DEF Proposed
    <3>d. DraftedTrace(rows, ComponentFor(inc.kind), t)
      <4>1. PICK component : component = ComponentFor(inc.kind)
        OBVIOUS
      <4>2. t = Backfilled(Recorded(rows, DraftSteps(component)), 1)
        BY <3>2, <4>1
      <4>3. IsRows(rows)
        BY <1>2
      <4>4. Len(rows) = 5 /\ (\A i \in DOMAIN rows : rows[i].contract = NoContract)
              => DraftedTrace(rows, component, t)
        BY <4>2, <4>3, DraftedRows
      <4> QED  BY <3>3, <4>1, <4>4
    <3>4. DOMAIN rows = 1 .. 5 /\ IsRows(t) /\ Len(t) = 11 /\ DOMAIN t = 1 .. 11
      <4>1. DOMAIN rows = 1 .. 5
        BY <1>2, <3>3, RowsIndexed
      <4> QED  BY <3>d, <4>1 DEF DraftedTrace
    <3>5. \A i \in 1 .. 11 : t[i].contract = 1
      BY <3>d DEF DraftedTrace
    <3>6. \A i \in 1 .. 5 : /\ t[i].node = rows[i].node /\ t[i].out = rows[i].out
                            /\ t[i].seq = rows[i].seq
      BY <3>d DEF DraftedTrace
    <3>7. \A i \in 6 .. 11 : /\ t[i].seq = i /\ t[i].node \notin {"propose", "reflect"}
                             /\ t[i].node = "retrieve" <=> i = 7
      BY <3>d DEF DraftedTrace
    <3>8. /\ t[11].confidence = 40
          /\ t[7].out = Cited(Conflicts(corpus, today, Model, ComponentFor(inc.kind)),
                              Search(corpus, today, Model, ALL, TRUE, K))
      BY <3>d DEF DraftedTrace
    <3>9. Proposed(t, inc2)
      <4>1. \A i \in DOMAIN t : i \in 1 .. 5 \/ i \in 6 .. 11
        BY <3>4
      <4>2. \A i \in DOMAIN t : t[i].seq = i /\ (t[i].node = "propose" <=> i = 5)
        BY <2>2, <3>4, <3>6, <3>7, <4>1 DEF Proposed
      <4>3. t[5].out.kind = inc2.kind /\ t[5].out.contingency \in Safe
        BY <2>1, <2>2, <3>6 DEF Proposed
      <4> QED  BY <1>3, <3>2, <3>4, <4>2, <4>3 DEF Proposed
    <3>10. Named(t, inc2)
      <4>1. \A i \in 1 .. 11 : i \in 1 .. 5 \/ i \in 6 .. 11
        OBVIOUS
      <4>2. \A i \in 1 .. 11 : t[i].node # "reflect"
        BY <3>3, <3>4, <3>6, <3>7, <4>1
      <4>3. \A i \in 1 .. 11 : InForceAfter(t[i]) = 1
        BY <3>5, <4>2 DEF InForceAfter
      <4>4. \A i \in 1 .. 10 : i \in 1 .. 11 /\ i + 1 \in 1 .. 11
        OBVIOUS
      <4>5. Chained(t)
        BY <3>4, <3>5, <4>3, <4>4 DEF Chained
      <4>6. EndsAt(t[Len(t)], inc2)
        <5>1. Len(t) = 11 /\ 11 \in 1 .. 11
          BY <3>4
        <5>2. InForceAfter(t[Len(t)]) = 1
          BY <4>3, <5>1
        <5> QED  BY <3>2, <5>2 DEF EndsAt
      <4>7. inc.breach # TRUE
        BY <2>2, <3>2 DEF Named
      <4> QED  BY <3>2, <4>5, <4>6, <4>7 DEF Named
    <3>11. Confident(t[Len(t)], inc2)
      BY <3>2, <3>4, <3>8 DEF Confident
    <3>12. Retrieved(t, inc2)
      <4>1. \A i \in DOMAIN t : t[i].node = "retrieve" <=> i = 3 \/ i = 7
        BY <2>2, <3>4, <3>6, <3>7 DEF Retrieved
      <4>2. Approved(t[3].out.citations)
        BY <2>2, <3>4, <3>6 DEF Retrieved
      <4>3. Approved(t[7].out.citations)
        <5>1. t[7].out.citations = Search(corpus, today, Model, ALL, TRUE, K)
          BY <3>8 DEF Cited
        <5> QED  BY <5>1, SearchApproved
      <4>4. Shown(t[7].out.conflicts, inc2.kind)
        <5>1. corpus \in Corpora /\ today \in Nat
          BY DEF TablesInv
        <5>2. t[7].out.conflicts = Conflicts(corpus, today, Model, ComponentFor(inc.kind))
          BY <3>8 DEF Cited
        <5> QED  BY <2>1, <5>1, <5>2, ConflictsShown
      <4> QED  BY <3>4, <4>1, <4>2, <4>3, <4>4 DEF Retrieved
    <3> QED  BY <2>1, <3>1, <3>4, <3>9, <3>10, <3>11, <3>12
  <2>5. CASE Observed(s)
    <3>1. PICK result \in Results :
            /\ inc.state = "MONITORING_RECOVERY" /\ inc2.breach = inc.breach
            /\ rows2 = Recorded(rows, <<Observation(result, inc.contract)>>)
            /\ \/ /\ result.verdict = "monitoring" /\ inc2.state = "MONITORING_RECOVERY"
                  /\ inc2.contract = inc.contract
               \/ /\ result.verdict = "violated"
                  /\ \/ /\ inc2.state = "CONTINGENCY_AWAITING_APPROVAL"
                        /\ inc2.contract = inc.contract + 1
                     \/ /\ inc2.state = "ESCALATED"
                        /\ inc2.contract = inc.contract
               \/ /\ result.verdict = "verified"
                  /\ inc2.state \in {"VERIFIED_RECOVERY", "INSUFFICIENT_EVIDENCE"}
                  /\ inc2.contract = inc.contract
      BY <2>5 DEF Observed
    <3>2. PICK o, t : o = Observation(result, inc.contract) /\ t = rows2
      OBVIOUS
    <3> HIDE DEF rows, inc, rows2, inc2
    <3>o. Observes(o, result, inc.contract)
      BY <3>2, ObservationRow
    <3>3. /\ IsRow(o) /\ o.contract = inc.contract
          /\ o.node # "propose" /\ o.node # "retrieve"
          /\ o.node = "reflect" <=> result.verdict = "violated"
          /\ o.confidence \in Int
          /\ result.verdict = "monitoring" =>
               o.confidence <= 80 \/ (o.node = "observe" /\ o.out.awaiting = TRUE
                                                         /\ o.confidence = 85)
          /\ result.verdict = "violated" => o.confidence = 5
          /\ result.verdict = "verified" => o.confidence = 97
      BY <3>o DEF Observes
    <3>4. t = Recorded(rows, <<o>>)
      BY <3>1, <3>2
    <3>5. /\ IsRows(t) /\ Len(rows) \in Nat /\ Len(t) = Len(rows) + 1
          /\ DOMAIN rows = 1 .. Len(rows) /\ DOMAIN t = 1 .. Len(rows) + 1
      BY <1>2, <3>3, <3>4, ObservedRows
    <3>6. \A i \in 1 .. Len(rows) : t[i] = rows[i]
      BY <1>2, <3>3, <3>4, ObservedRows
    <3>7. t[Len(rows) + 1] = At(o, Len(rows) + 1)
      BY <1>2, <3>3, <3>4, ObservedRows
    <3>8. PICK last : last = t[Len(rows) + 1]
      OBVIOUS
    <3>9. /\ last.seq = Len(rows) + 1 /\ last.node = o.node /\ last.out = o.out
          /\ last.confidence = o.confidence /\ last.contract = o.contract
      BY <3>3, <3>7, <3>8, RowAt
    <3>10. inc.contract \in Nat /\ inc2.contract \in Nat /\ Len(rows) >= 7
      <4>1. inc.contract # NoContract
        BY <2>2, <3>1 DEF Proposed
      <4>2. inc.contract \in Nat
        BY <2>1, <4>1 DEF Incident
      <4> QED  BY <2>2, <3>1, <4>1, <4>2 DEF Retrieved
    <3>11. \A i \in DOMAIN t : i \in DOMAIN rows \/ i = Len(rows) + 1
      BY <3>5
    <3>12. Proposed(t, inc2)
      <4>1. \A i \in DOMAIN t : t[i].seq = i /\ (t[i].node = "propose" <=> i = 5)
        BY <2>2, <3>3, <3>5, <3>6, <3>8, <3>9, <3>10, <3>11 DEF Proposed
      <4>2. t[5].out.kind = inc2.kind /\ t[5].out.contingency \in Safe
        BY <2>1, <2>2, <3>5, <3>6, <3>10 DEF Proposed
      <4>3. inc2.state \notin {"INTERVENTION_PROPOSED", "INTERVENTION_RECORDED"}
        BY <3>1
      <4> QED  BY <1>3, <3>5, <3>10, <4>1, <4>2, <4>3 DEF Proposed
    <3>13. Named(t, inc2)
      <4>1. /\ inc.breach # TRUE /\ inc2.breach # TRUE
            /\ Chained(rows) /\ EndsAt(rows[Len(rows)], inc)
        BY <1>3, <2>2, <3>1, <3>10 DEF Named
      <4>2. inc.contract = InForceAfter(rows[Len(rows)])
        BY <3>1, <4>1 DEF EndsAt
      <4>3. \A i \in 1 .. Len(rows) :
              InForceAfter(t[i]) = InForceAfter(rows[i]) /\ t[i].contract = rows[i].contract
        BY <3>6 DEF InForceAfter
      <4>4. \A i \in 1 .. Len(t) - 1 : i \in 1 .. Len(rows)
        BY <3>5
      <4>5. ASSUME NEW i \in 1 .. Len(rows)
            PROVE  t[i + 1].contract = InForceAfter(t[i])
        <5>1. CASE i = Len(rows)
          BY <3>3, <3>8, <3>9, <4>2, <4>3, <5>1
        <5>2. CASE i # Len(rows)
          <6>1. i \in 1 .. Len(rows) - 1 /\ i + 1 \in 1 .. Len(rows)
            <7>1. PICK n \in Nat : n = Len(rows)
              BY <3>5
            <7>2. i \in 1 .. n /\ i # n
              BY <5>2, <7>1
            <7>3. i \in 1 .. n - 1 /\ i + 1 \in 1 .. n
              BY <7>2
            <7> QED  BY <7>1, <7>3
          <6>2. rows[i + 1].contract = InForceAfter(rows[i])
            BY <4>1, <6>1 DEF Chained
          <6> QED  BY <4>3, <6>1, <6>2
        <5> QED  BY <5>1, <5>2
      <4>6. \A i \in DOMAIN t : t[i].contract \in Nat
        BY <3>3, <3>5, <3>8, <3>9, <3>10, <3>11, <4>1, <4>3 DEF Chained
      <4>7. t[1].contract = 1
        <5>1. 1 \in 1 .. Len(rows)
          BY <3>5, <3>10
        <5> QED  BY <4>1, <4>3, <5>1 DEF Chained
      <4>8. Chained(t)
        BY <4>4, <4>5, <4>6, <4>7 DEF Chained
      <4>9. EndsAt(last, inc2)
        BY <3>1, <3>3, <3>9, <4>1 DEF EndsAt, InForceAfter
      <4>10. t[Len(t)] = last
        BY <3>5, <3>8
      <4> QED  BY <4>1, <4>8, <4>9, <4>10 DEF Named
    <3>14. Confident(t[Len(t)], inc2)
      <4>1. t[Len(t)] = last
        BY <3>5, <3>8
      <4> QED  BY <3>1, <3>3, <3>9, <4>1 DEF Confident
    <3>15. Retrieved(t, inc2)
      <4>1. \A i \in DOMAIN t : t[i].node = "retrieve" <=> i = 3 \/ i = 7
        BY <2>2, <3>3, <3>5, <3>6, <3>8, <3>9, <3>10, <3>11 DEF Retrieved
      <4>2. \A i \in DOMAIN t : t[i].node = "retrieve" => Approved(t[i].out.citations)
        BY <2>2, <3>3, <3>5, <3>6, <3>8, <3>9, <3>11 DEF Retrieved
      <4>3. Shown(t[7].out.conflicts, inc2.kind)
        BY <1>3, <2>1, <2>2, <3>5, <3>6, <3>10 DEF Retrieved
      <4> QED  BY <3>5, <3>10, <4>1, <4>2, <4>3 DEF Retrieved
    <3> QED  BY <2>1, <3>2, <3>5, <3>12, <3>13, <3>14, <3>15
  <2>6. Moved(s) \/ Drafted(s) \/ Observed(s)
    BY <1>5, <1>7, StepOfAnIncident DEF Triaged, SameWork
  <2> QED  BY <2>3, <2>4, <2>5, <2>6
<1> QED  BY <1>5, <1>6, <1>7, StepOfAnIncident DEF Moved, Drafted, Observed

-----------------------------------------------------------------------------
(* What the views read back.                                               *)

TracesInv == \A s \in Suffix : TraceInv(s)

LEMMA TracesInvariant == TriageSpec => []TracesInv
<1>1. TriageInit => TracesInv
  BY NoRows DEF TriageInit, TracesInv, TraceInv, Exists
<1>2. TablesInv /\ TracesInv /\ [TriageNext]_vars => TracesInv'
  BY TraceStep DEF TracesInv
<1> QED  BY <1>1, <1>2, TablesInvariant, PTL DEF TriageSpec

LEMMA LatestIs ==
  ASSUME NEW rows, NEW found, NEW i \in found, found \subseteq Nat, \A j \in found : j <= i
  PROVE  LatestOf(rows, found) = {rows[i]}
<1>1. \A k \in found : (\A j \in found : j <= k) => k = i
  OBVIOUS
<1>2. (CHOOSE k \in found : \A j \in found : j <= k) = i
  BY <1>1
<1> QED  BY <1>2 DEF LatestOf

\* What LatestNode() and Progress() find.
LEMMA LatestRows ==
  ASSUME TracesInv, NEW s \in Suffix, Exists(s)
  PROVE  /\ Len(traces[s]) \in Nat /\ Len(traces[s]) >= 5
         /\ DOMAIN traces[s] = 1 .. Len(traces[s])
         /\ LatestNode(s, "propose") = {traces[s][5]}
         /\ incidents[s].contract = NoContract =>
              LatestNode(s, "retrieve") = {traces[s][3]} /\ Progress(s) = {}
         /\ incidents[s].contract # NoContract =>
              /\ Len(traces[s]) >= 7
              /\ LatestNode(s, "retrieve") = {traces[s][7]}
              /\ Progress(s) = {traces[s][Len(traces[s])].confidence}
         /\ traces[s][Len(traces[s])].node = "observe" =>
              LatestNode(s, "observe") = {traces[s][Len(traces[s])]}
<1>1. PICK rows, inc : rows = traces[s] /\ inc = incidents[s]
  OBVIOUS
<1>2. /\ IsRows(rows) /\ Proposed(rows, inc) /\ Retrieved(rows, inc)
      /\ inc.contract # NoContract => Confident(rows[Len(rows)], inc)
  BY <1>1 DEF TracesInv, TraceInv
<1>3. Len(rows) \in Nat /\ DOMAIN rows = 1 .. Len(rows) /\ Len(rows) >= 5
  BY <1>2, RowsIndexed DEF Proposed
<1>4. LatestNode(s, "propose") = {rows[5]}
  <2>1. {i \in DOMAIN rows : rows[i].node = "propose"} = {5}
    BY <1>2, <1>3 DEF Proposed
  <2>2. LatestOf(rows, {5}) = {rows[5]}
    BY LatestIs
  <2> QED  BY <1>1, <2>1, <2>2 DEF LatestNode
<1>5. ASSUME inc.contract = NoContract
      PROVE  LatestNode(s, "retrieve") = {rows[3]} /\ Progress(s) = {}
  <2>1. Len(rows) = 5 /\ \A i \in DOMAIN rows : rows[i].confidence = NoConfidence
    BY <1>2, <1>5 DEF Proposed
  <2>2. {i \in DOMAIN rows : rows[i].node = "retrieve"} = {3}
    BY <1>2, <1>3, <2>1 DEF Retrieved
  <2>3. LatestNode(s, "retrieve") = {rows[3]}
    <3>1. PICK found : found = {3}
      OBVIOUS
    <3>2. LatestOf(rows, found) = {rows[3]}
      BY <3>1, LatestIs
    <3> QED  BY <1>1, <2>2, <3>1, <3>2 DEF LatestNode
  <2>4. {i \in DOMAIN rows : rows[i].confidence # NoConfidence} = {}
    BY <2>1
  <2>5. Progress(s) = {}
    BY <1>1, <2>4 DEF Progress, LatestOf
  <2> QED  BY <2>3, <2>5
<1>6. ASSUME inc.contract # NoContract
      PROVE  /\ Len(rows) >= 7 /\ LatestNode(s, "retrieve") = {rows[7]}
             /\ Progress(s) = {rows[Len(rows)].confidence}
  <2>1. Len(rows) >= 7
    BY <1>2, <1>6 DEF Retrieved
  <2>2. {i \in DOMAIN rows : rows[i].node = "retrieve"} = {3, 7}
    BY <1>2, <1>3, <2>1 DEF Retrieved
  <2>3. LatestNode(s, "retrieve") = {rows[7]}
    <3>1. PICK found : found = {3, 7}
      OBVIOUS
    <3>2. 7 \in found /\ found \subseteq Nat /\ \A j \in found : j <= 7
      BY <3>1
    <3>3. LatestOf(rows, found) = {rows[7]}
      BY <3>2, LatestIs
    <3> QED  BY <1>1, <2>2, <3>1, <3>3 DEF LatestNode
  <2>4. PICK found : found = {i \in DOMAIN rows : rows[i].confidence # NoConfidence}
    OBVIOUS
  <2>5. rows[Len(rows)].confidence # NoConfidence
    BY <1>2, <1>6, TriageAssumption DEF Confident
  <2>6. Len(rows) \in found /\ found \subseteq Nat /\ \A j \in found : j <= Len(rows)
    BY <1>3, <2>4, <2>5
  <2>7. LatestOf(rows, found) = {rows[Len(rows)]}
    BY <2>6, LatestIs
  <2>8. Progress(s) = {rows[Len(rows)].confidence}
    BY <1>1, <2>4, <2>7 DEF Progress
  <2> QED  BY <2>1, <2>3, <2>8
<1>7. rows[Len(rows)].node = "observe" => LatestNode(s, "observe") = {rows[Len(rows)]}
  <2> SUFFICES ASSUME rows[Len(rows)].node = "observe"
               PROVE  LatestNode(s, "observe") = {rows[Len(rows)]}
    OBVIOUS
  <2>1. PICK found : found = {i \in DOMAIN rows : rows[i].node = "observe"}
    OBVIOUS
  <2>2. Len(rows) \in found /\ found \subseteq Nat /\ \A j \in found : j <= Len(rows)
    BY <1>3, <2>1
  <2>3. LatestOf(rows, found) = {rows[Len(rows)]}
    BY <2>2, LatestIs
  <2> QED  BY <1>1, <2>1, <2>3 DEF LatestNode
<1> QED  BY <1>1, <1>3, <1>4, <1>5, <1>6, <1>7

\* The tables hold what their columns declare, and the rows of a trace are
\* numbered without a gap (_next_seq()).
THEOREM TypeCorrect == TriageSpec => []TriageTypeOK
<1>1. TablesInv /\ TracesInv => TriageTypeOK
  <2> SUFFICES ASSUME TablesInv, TracesInv PROVE TriageTypeOK
    OBVIOUS
  <2>1. ASSUME NEW s \in Suffix, NEW i \in DOMAIN traces[s] PROVE traces[s][i].seq = i
    <3>1. CASE Exists(s)
      BY <2>1, <3>1 DEF TracesInv, TraceInv, Proposed
    <3>2. CASE ~Exists(s)
      BY <2>1, <3>2, NoRows DEF TracesInv, TraceInv
    <3> QED  BY <3>1, <3>2
  <2>2. \A r \in Request : pending[r].alert \in Alert \cup {NoAlert}
    BY DEF TablesInv, Idle
  <2>3. \A s \in Suffix : incidents[s] \in Incident \cup {NoIncident}
    BY DEF TablesInv
  <2>4. \A a \in Alert : alerts[a].status \in {"open", "triaged"}
                         /\ alerts[a].incident \subseteq Suffix
    BY DEF TablesInv
  <2> QED  BY <2>1, <2>2, <2>3, <2>4 DEF TablesInv, TriageTypeOK
<1> QED  BY <1>1, TablesInvariant, TracesInvariant, PTL

\* Whatever a hosted model answers, the work a human is asked to accept and its
\* contingency are of the catalog of safe work, and the diagnosis view shows the
\* work the incident is about for as long as it lives (_validate_diagnosis()).
THEOREM ProposalSafe == TriageSpec => []ProposalStaysSafe
<1>1. TablesInv /\ TracesInv => ProposalStaysSafe
  <2> SUFFICES ASSUME TablesInv, TracesInv, NEW s \in Suffix, Exists(s),
                      NEW r \in Diagnosis(s).recommended
               PROVE  r.kind = incidents[s].kind /\ {r.kind, r.contingency} \subseteq Safe
    BY DEF ProposalStaysSafe
  <2>1. LatestNode(s, "propose") = {traces[s][5]}
    BY LatestRows
  <2>2. r = traces[s][5].out
    BY <2>1 DEF Diagnosis
  <2>3. Proposed(traces[s], incidents[s])
    BY DEF TracesInv, TraceInv
  <2>4. incidents[s].kind \in Safe
    BY IncidentsExist DEF Incident
  <2> QED  BY <2>2, <2>3, <2>4 DEF Proposed
<1> QED  BY <1>1, TablesInvariant, TracesInvariant, PTL

\* Each row of a trace names the contract in force when it was written: the first
\* from the alert on, a new one after each row that refuted the one before, and the
\* trace ends at the incident's newest contract (draft_contract(), observe(),
\* reopen_with_contingency()), whatever number of contracts an incident goes through.
THEOREM TracesTold == TriageSpec => []TracesTellTheStory
<1>1. TracesInv => TracesTellTheStory
  <2> SUFFICES ASSUME TracesInv, NEW s \in Suffix, Exists(s), incidents[s].contract # NoContract
               PROVE  LET rows == traces[s]
                          last == rows[Len(rows)]
                      IN  /\ rows[1].contract = 1
                          /\ \A i \in 1 .. Len(rows) - 1 :
                               rows[i + 1].contract = InForceAfter(rows[i])
                          /\ incidents[s].contract =
                               IF incidents[s].state = "ESCALATED" /\ ~incidents[s].breach
                               THEN last.contract ELSE InForceAfter(last)
    BY DEF TracesTellTheStory
  <2>1. Named(traces[s], incidents[s])
    BY DEF TracesInv, TraceInv
  <2> QED  BY <2>1 DEF Named, Chained, EndsAt
<1> QED  BY <1>1, TracesInvariant, PTL

\* The confidence shown of an open window is at most 80 hundredths, or 85 when only
\* the quality release is missing; a recovery refuted shows 5 while a contingency is
\* awaited and after the violation that escalated it, a verified one 97
\* (recovery_confidence(), latest_confidence(); sweep_recovery_debt() escalates too,
\* and leaves what was shown).
THEOREM NoVictory == TriageSpec => []NoVictoryWhileOpen
<1>1. TracesInv => NoVictoryWhileOpen
  <2> SUFFICES ASSUME TracesInv, NEW s \in Suffix, Exists(s), NEW c \in Progress(s)
               PROVE  /\ incidents[s].state = "MONITORING_RECOVERY" =>
                           c <= 80 \/ \E row \in LatestNode(s, "observe") :
                                        row.out.awaiting /\ c = 85
                      /\ incidents[s].state = "CONTINGENCY_AWAITING_APPROVAL" => c = 5
                      /\ incidents[s].state = "ESCALATED" /\ ~incidents[s].breach => c = 5
                      /\ incidents[s].state = "VERIFIED_RECOVERY" => c = 97
    BY DEF NoVictoryWhileOpen
  <2>1. PICK last : last = traces[s][Len(traces[s])]
    OBVIOUS
  <2>2. incidents[s].contract # NoContract /\ c = last.confidence
    BY <2>1, LatestRows
  <2>3. Confident(last, incidents[s])
    BY <2>1, <2>2 DEF TracesInv, TraceInv
  <2>4. last.node = "observe" => LatestNode(s, "observe") = {last}
    BY <2>1, LatestRows
  <2> QED  BY <2>2, <2>3, <2>4 DEF Confident
<1> QED  BY <1>1, TracesInvariant, PTL

\* What a step cites is approved, and stale or unapproved guidance that matches the
\* work of a contract is shown as a conflict, as long as the wider search has room
\* for all that matches (search(), detect_conflicts()).
THEOREM ConflictsInSight == TriageSpec => []ConflictsAreShown
<1>1. TracesInv => ConflictsAreShown
  <2> SUFFICES ASSUME TracesInv, NEW s \in Suffix, Exists(s),
                      NEW row \in LatestNode(s, "retrieve")
               PROVE  /\ Approved(row.out.citations)
                      /\ incidents[s].contract # NoContract =>
                           Shown(row.out.conflicts, incidents[s].kind)
    BY DEF ConflictsAreShown, Approved, Shown
  <2>1. PICK rows, inc : rows = traces[s] /\ inc = incidents[s]
    OBVIOUS
  <2>2. Retrieved(rows, inc)
    BY <2>1 DEF TracesInv, TraceInv
  <2>3. DOMAIN rows = 1 .. Len(rows) /\ Len(rows) \in Nat /\ Len(rows) >= 5
    BY <2>1, LatestRows
  <2>4. CASE inc.contract = NoContract
    <3>1. row = rows[3]
      BY <2>1, <2>4, LatestRows
    <3> QED  BY <2>1, <2>2, <2>3, <2>4, <3>1 DEF Retrieved
  <2>5. CASE inc.contract # NoContract
    <3>1. row = rows[7] /\ Len(rows) >= 7
      BY <2>1, <2>5, LatestRows
    <3> QED  BY <2>1, <2>2, <2>3, <3>1 DEF Retrieved
  <2> QED  BY <2>4, <2>5
<1> QED  BY <1>1, TracesInvariant, PTL

=============================================================================
