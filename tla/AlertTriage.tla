----------------------------- MODULE AlertTriage -----------------------------
(***************************************************************************)
(* From an alert to an incident, and the agent's account of it: triage of  *)
(* MAIA alerts (triage_from_alert() of backend/app/workflow/               *)
(* recovery_service.py), the bounded agent graph (agent/graph.py), whose   *)
(* every step is a row of the reasoning trace (agent/trace.py), the        *)
(* diagnosis of a hosted model and its validation (reasoning/hosted.py),   *)
(* and what the views read back from the trace (api/serializers.py).       *)
(*                                                                         *)
(* A triage request reads, calls the model inside its transaction, and     *)
(* commits or rolls back; other requests run meanwhile.  Every other       *)
(* request is one step.  The life of an incident after drafting is kept as *)
(* far as the agent observes it; RecoveryWorkflow has the rest.            *)
(***************************************************************************)
EXTENDS Guidance, IncidentStates, FiniteSetsExt

CONSTANTS
  Alert,          \* MaiaAlert ids
  Suffix,         \* last parts of alert ids, and with it ids of incidents
  SuffixOf,       \* [Alert -> Suffix], alert.id.split('-')[-1]
  Request,        \* bound: triage requests at one time
  Answers,        \* what the hosted model may answer, see Raises and Validated
  Safe,           \* SAFE_INTERVENTION_KINDS
  Corpora,        \* the tables of document chunks
  Model,          \* machine_model of the machine
  Components,     \* kinds of the machine's Component rows
  RequiredStable, \* required_stable_cycles
  MaxTraces,      \* bound: rows of all traces when one more call advances
  MaxDay,         \* bound: days that pass
  NoAlert, NoContract, NoConfidence

ASSUME TriageAssumption ==
  /\ SuffixOf \in [Alert -> Suffix]
  /\ {"coupling_alignment", "bearing_replacement"} \subseteq Safe
  /\ RequiredStable \in Nat \ {0}
  /\ \A c \in Corpora : IsCorpus(c)
  /\ K \in Nat
  /\ NoContract \notin Nat
  /\ NoConfidence \notin Int

VARIABLES
  corpus,     \* DocumentChunk rows
  today,
  alerts,     \* [Alert -> MaiaAlert.status, resulted_in_incident]
  pending,    \* [Request -> the alert being diagnosed, or NoAlert, and what was retrieved]
  incidents,  \* [Suffix -> Incident row with its first intervention]
  traces,     \* [Suffix -> AgentReasoningTrace rows, in the order written]
  answered    \* history: {[alert, incident]} told to callers

vars == <<corpus, today, alerts, pending, incidents, traces, answered>>

\* An Incident row with the number of its newest contract, the kind of its first
\* intervention and whether that is done, and whether its outcome_summary is that of
\* a waiver that expired.
Incident == [ alert : Alert, state : WorkflowState, contract : {NoContract} \cup Nat,
              kind : Safe, done : BOOLEAN, breach : BOOLEAN ]
NoIncident == [state |-> "NO_INCIDENT"]
Idle == [alert |-> NoAlert, found |-> {}]

TriageInit ==
  /\ corpus \in Corpora /\ today = 0
  /\ alerts = [a \in Alert |-> [status |-> "open", incident |-> {}]]
  /\ pending = [r \in Request |-> Idle]
  /\ incidents = [s \in Suffix |-> NoIncident]
  /\ traces = [s \in Suffix |-> <<>>]
  /\ answered = {}

Exists(s) == incidents[s] # NoIncident

-----------------------------------------------------------------------------
(***************************************************************************)
(* The diagnosis.  An answer is a record of what the reply holds: causes   *)
(* is "no reply" (an error, or no JSON object), "usable", "none" or        *)
(* "unsliceable"; a kind is a kind of work, or "unhashable".               *)
(***************************************************************************)
Deterministic ==
  [ kind |-> "coupling_alignment", contingency |-> "bearing_replacement",
    causes |-> "own" ]

\* (data.get("root_causes") or [])[:3] of an object, or `in` a set of a list.
Raises(answer) ==
  /\ answer.causes # "no reply"
  /\ \/ answer.causes = "unsliceable"
     \/ "unhashable" \in {answer.kind, answer.contingency}

\* Mutant: only the recommended kind is checked against the catalog.
Validated_KindOnly(answer) ==
  IF answer.causes = "no reply" THEN Deterministic
  ELSE [ kind |-> IF answer.kind \in Safe THEN answer.kind ELSE Deterministic.kind,
         contingency |-> answer.contingency,
         causes |-> IF answer.causes = "usable" THEN "model" ELSE "own" ]

\* _validate_diagnosis(): field by field, the model's value or the provider's own.
Validated(answer) ==
  IF answer.causes = "no reply" THEN Deterministic
  ELSE [ kind |-> IF answer.kind \in Safe THEN answer.kind ELSE Deterministic.kind,
         contingency |-> IF answer.contingency \in Safe THEN answer.contingency
                         ELSE Deterministic.contingency,
         causes |-> IF answer.causes = "usable" THEN "model" ELSE "own" ]

-----------------------------------------------------------------------------
(***************************************************************************)
(* The reasoning trace.                                                    *)
(***************************************************************************)
NextSeq(rows) == Len(rows) + 1    \* _next_seq(): no row is ever removed

\* record_trace() of the named nodes, with what each of them puts out.
Node(node, out) == [node |-> node, out |-> out, confidence |-> NoConfidence,
                    contract |-> NoContract, seq |-> 0]
Recorded(rows, steps) ==
  rows \o [i \in DOMAIN steps |-> [steps[i] EXCEPT !.seq = NextSeq(rows) + i - 1]]

Cited(c, found) == [citations |-> found, conflicts |-> c]

\* RecoveryAgentGraph.triage()
TriageSteps(dx, found) ==
  << Node("perceive", "alert"),
     Node("classify", "severity"),
     Node("retrieve", Cited({}, found)),
     Node("hypothesize", [root_causes |-> dx.causes]),
     Node("propose", [kind |-> dx.kind, contingency |-> dx.contingency]) >>

\* RecoveryAgentGraph.draft(); both contract templates satisfy _critique().
DraftSteps(component) ==
  << Node("perceive", "intervention"),
     Node("retrieve", Cited(Conflicts(corpus, today, Model, component),
                            Search(corpus, today, Model, ALL, TRUE, K))),
     Node("hypothesize", [hypotheses |-> "own"]),
     Node("draft", "contract"),
     Node("self_critique", "ok"),
     [Node("decide", "review") EXCEPT !.confidence = 40] >>

\* Mutant: the cap on an open window is forgotten.
Confidence_Uncapped(result) ==
  CASE result.verdict = "verified" -> 97
    [] result.verdict = "violated" -> 5
    [] result.verdict = "monitoring" ->
         IF result.awaiting THEN 85 ELSE 30 + (45 * result.streak) \div RequiredStable

\* recovery_confidence(), in hundredths.
Confidence(result) ==
  CASE result.verdict = "verified" -> 97
    [] result.verdict = "violated" -> 5
    [] result.verdict = "monitoring" ->
         IF result.awaiting THEN 85
         ELSE LET c == 30 + (45 * result.streak) \div RequiredStable
              IN  IF c > 80 THEN 80 ELSE c

\* Mutant: what the agent observes stays with the contract it drafted.
Observation_FirstContract(result, contract) ==
  [Node(CASE result.verdict = "violated" -> "reflect"
          [] result.verdict = "verified" -> "decide"
          [] result.verdict = "monitoring" -> "observe", [awaiting |-> result.awaiting])
     EXCEPT !.confidence = Confidence(result), !.contract = 1]

\* RecoveryAgentGraph.observe()
Observation(result, contract) ==
  [Node(CASE result.verdict = "violated" -> "reflect"
          [] result.verdict = "verified" -> "decide"
          [] result.verdict = "monitoring" -> "observe", [awaiting |-> result.awaiting])
     EXCEPT !.confidence = Confidence(result), !.contract = contract]

-----------------------------------------------------------------------------
\* Mutant: the incident is looked up by the id it would get.
Existing_ById(a) == {s \in {SuffixOf[a]} : Exists(s)}

\* The incident with the alert's dedupe key.
Existing(a) == {s \in Suffix : Exists(s) /\ incidents[s].alert = a}

\* triage_from_alert(), to its first return: the alert has its incident.
TriageAgain(a) ==
  /\ \E s \in Existing(a) : answered' = answered \cup {[alert |-> a, incident |-> s]}
  /\ UNCHANGED <<corpus, today, alerts, pending, incidents, traces>>

\* No incident yet: the procedures are retrieved and the model is called before
\* anything is committed.
TriageBegins(r, a) ==
  /\ pending[r] = Idle
  /\ Existing(a) = {}
  /\ pending' = [pending EXCEPT ![r] =
       [alert |-> a, found |-> Search(corpus, today, Model, ALL, TRUE, K)]]
  /\ UNCHANGED <<corpus, today, alerts, incidents, traces, answered>>

\* The unique dedupe key or the primary key is taken by now.
Taken(a) == Existing(a) # {} \/ Exists(SuffixOf[a])

\* A unique constraint fails, the answer makes the validation raise, or the process
\* dies: nothing of the request remains.
TriageFails(r) ==
  /\ pending[r] # Idle
  /\ pending' = [pending EXCEPT ![r] = Idle]
  /\ UNCHANGED <<corpus, today, alerts, incidents, traces, answered>>

TriageCommits(r, answer) ==
  LET a == pending[r].alert
      s == SuffixOf[a]
      dx == Validated(answer)
  IN  /\ pending[r] # Idle
      /\ ~Taken(a) /\ ~Raises(answer)
      /\ CanTransition("ALERT_TRIAGED", "INTERVENTION_PROPOSED", "AGENT")
      /\ incidents' = [incidents EXCEPT ![s] =
           [alert |-> a, state |-> "INTERVENTION_PROPOSED", contract |-> NoContract,
            kind |-> dx.kind, done |-> FALSE, breach |-> FALSE]]
      /\ traces' = [traces EXCEPT ![s] = Recorded(@, TriageSteps(dx, pending[r].found))]
      /\ alerts' = [alerts EXCEPT ![a] = [status |-> "triaged", incident |-> {s}]]
      /\ answered' = answered \cup {[alert |-> a, incident |-> s]}
      /\ pending' = [pending EXCEPT ![r] = Idle]
      /\ UNCHANGED <<corpus, today>>

\* accept_diagnosis()
AcceptDiagnosis(s, role) ==
  /\ Exists(s) /\ incidents[s].state = "INTERVENTION_PROPOSED"
  /\ CanTransition("INTERVENTION_PROPOSED", "INTERVENTION_RECORDED", role)
  /\ incidents' = [incidents EXCEPT ![s].state = "INTERVENTION_RECORDED", ![s].done = TRUE]
  /\ UNCHANGED <<corpus, today, alerts, pending, traces, answered>>

\* The contract's id goes to every step recorded before there was one.
Backfilled(rows, contract) ==
  [i \in DOMAIN rows |-> IF rows[i].contract = NoContract
                         THEN [rows[i] EXCEPT !.contract = contract] ELSE rows[i]]

\* The component of a proposed intervention, None unless the machine has that row.
ComponentFor(kind) ==
  LET named == CASE kind = "coupling_alignment" -> "coupling"
                 [] kind \in {"bearing_replacement", "lubrication"} -> "bearing"
                 [] kind = "seal_replacement" -> "seal"
                 [] kind = "filter_replacement" -> "filter"
                 [] OTHER -> ALL
  IN  IF named \in Components THEN named ELSE ALL

\* draft_contract()
DraftContract(s) ==
  /\ Exists(s) /\ incidents[s].state = "INTERVENTION_RECORDED"
  /\ incidents' = [incidents EXCEPT ![s].state = "RECOVERY_CONTRACT_DRAFTED",
                                    ![s].contract = 1]
  /\ traces' = [traces EXCEPT ![s] =
       Backfilled(Recorded(@, DraftSteps(ComponentFor(incidents[s].kind))), 1)]
  /\ UNCHANGED <<corpus, today, alerts, pending, answered>>

\* Review, evidence and start_monitoring(); or the contingency, approved and done.
WindowOpens(s) ==
  /\ Exists(s)
  /\ incidents[s].state \in {"RECOVERY_CONTRACT_DRAFTED", "CONTINGENCY_AWAITING_APPROVAL"}
  /\ incidents' = [incidents EXCEPT ![s].state = "MONITORING_RECOVERY"]
  /\ UNCHANGED <<corpus, today, alerts, pending, traces, answered>>

\* The results evaluate() can come to, as far as observe() tells them apart.
Results ==
  {r \in [ verdict : {"monitoring", "violated", "verified"},
           streak : 0 .. 2 * RequiredStable, awaiting : BOOLEAN ] :
     /\ r.verdict = "verified" => r.streak >= RequiredStable
     /\ r.awaiting => r.verdict = "monitoring" /\ r.streak >= RequiredStable}

TraceRows == MapThenSumSet(LAMBDA s : Len(traces[s]), Suffix)

\* advance(): the agent observes the last result of the call, before the policy
\* on comparable conditions decides whether a verified recovery is certified.
\* What a violation leads to, an escalation or a contingency with a contract of its
\* own (reopen_with_contingency()), is the incident's.
Advance(s, result, permitted, next) ==
  /\ Exists(s) /\ incidents[s].state = "MONITORING_RECOVERY"
  /\ TraceRows < MaxTraces
  /\ traces' = [traces EXCEPT ![s] =
       Recorded(@, <<Observation(result, incidents[s].contract)>>)]
  /\ \/ /\ result.verdict = "monitoring" /\ UNCHANGED incidents
     \/ /\ result.verdict = "violated"
        /\ \/ /\ next = "contingency"
              /\ incidents' = [incidents EXCEPT ![s].state = "CONTINGENCY_AWAITING_APPROVAL",
                                                ![s].contract = @ + 1]
           \/ /\ next = "escalation"
              /\ incidents' = [incidents EXCEPT ![s].state = "ESCALATED"]
     \/ /\ result.verdict = "verified"
        /\ incidents' = [incidents EXCEPT ![s].state =
             IF permitted THEN "VERIFIED_RECOVERY" ELSE "INSUFFICIENT_EVIDENCE"]
  /\ UNCHANGED <<corpus, today, alerts, pending, answered>>

\* sweep_recovery_debt(): a waiver granted on the contract has expired, and the
\* incident goes to plant supervision.  The agent records nothing.
DebtBreaches(s) ==
  /\ Exists(s) /\ incidents[s].contract # NoContract
  /\ CanTransition(incidents[s].state, "ESCALATED", "SYSTEM")
  /\ incidents' = [incidents EXCEPT ![s].state = "ESCALATED", ![s].breach = TRUE]
  /\ UNCHANGED <<corpus, today, alerts, pending, traces, answered>>

\* A revision becomes effective as the days go by.
DayPasses ==
  /\ today < MaxDay
  /\ today' = today + 1
  /\ UNCHANGED <<corpus, alerts, pending, incidents, traces, answered>>

TriageNext ==
  \/ \E a \in Alert : TriageAgain(a)
  \/ \E r \in Request :
       \/ \E a \in Alert : TriageBegins(r, a)
       \/ \E answer \in Answers : TriageCommits(r, answer)
       \/ TriageFails(r)
  \/ \E s \in Suffix :
       \/ \E role \in HumanRole : AcceptDiagnosis(s, role)
       \/ DraftContract(s)
       \/ WindowOpens(s)
       \/ \E result \in Results, permitted \in BOOLEAN,
             next \in {"contingency", "escalation"} : Advance(s, result, permitted, next)
       \/ DebtBreaches(s)
  \/ DayPasses

TriageSpec == TriageInit /\ [][TriageNext]_vars

-----------------------------------------------------------------------------
(***************************************************************************)
(* What the views read back: latest_confidence() and diagnosis_view().     *)
(***************************************************************************)
LatestOf(rows, found) ==
  IF found = {} THEN {} ELSE {rows[CHOOSE i \in found : \A j \in found : j <= i]}

Progress(s) ==
  {row.confidence : row \in LatestOf(traces[s],
     {i \in DOMAIN traces[s] : traces[s][i].confidence # NoConfidence})}

LatestNode(s, node) ==
  LatestOf(traces[s], {i \in DOMAIN traces[s] : traces[s][i].node = node})

Diagnosis(s) ==
  [ recommended |-> {row.out : row \in LatestNode(s, "propose")},
    root_causes |-> {row.out.root_causes :
      row \in {h \in LatestNode(s, "hypothesize") : "root_causes" \in DOMAIN h.out}} ]

-----------------------------------------------------------------------------
(***************************************************************************)
(* Properties.                                                             *)
(***************************************************************************)
TriageTypeOK ==
  /\ \A a \in Alert : /\ alerts[a].status \in {"open", "triaged"}
                       /\ alerts[a].incident \subseteq Suffix
  /\ \A r \in Request : pending[r].alert \in Alert \cup {NoAlert}
  /\ \A s \in Suffix : /\ incidents[s] \in Incident \cup {NoIncident}
                        /\ \A i \in DOMAIN traces[s] : traces[s][i].seq = i
  /\ answered \subseteq [alert : Alert, incident : Suffix]

\* triage_from_alert(), "one alert -> one incident": however many requests for it
\* run at once, fail and are tried again, whoever asked for an alert to be triaged
\* was told of one and the same incident, which is that alert's own; and an alert
\* is marked triaged exactly when its incident exists.
OneIncidentPerAlert ==
  /\ \A x \in answered : incidents[x.incident].state # "NO_INCIDENT" /\
                         incidents[x.incident].alert = x.alert
  /\ \A a \in Alert : Existing(a) = alerts[a].incident

\* Whatever the model answered, what is proposed for a human to accept is work of
\* the catalog, its contingency too, and stays what the diagnosis view recommends
\* for as long as the incident lives (reasoning/base.py, the safety bound).
ProposalStaysSafe ==
  \A s \in Suffix : Exists(s) =>
    \A r \in Diagnosis(s).recommended :
      r.kind = incidents[s].kind /\ {r.kind, r.contingency} \subseteq Safe

\* The contract in force after the step a row records: a refuted one has a successor.
InForceAfter(row) == IF row.node = "reflect" THEN row.contract + 1 ELSE row.contract

\* The trace accounts for every contract: what led to the first names the first, each
\* later row names the contract in force when it was written, so that no contract is
\* left before a row of its own refuted it, and whoever reads the trace to its end
\* arrives at the incident's newest contract.  Only a violation that escalates leaves
\* a refuted contract without a successor.
TracesTellTheStory ==
  \A s \in Suffix : Exists(s) /\ incidents[s].contract # NoContract =>
    LET rows == traces[s]
        last == rows[Len(rows)]
    IN  /\ rows[1].contract = 1
        /\ \A i \in 1 .. Len(rows) - 1 : rows[i + 1].contract = InForceAfter(rows[i])
        /\ incidents[s].contract =
             IF incidents[s].state = "ESCALATED" /\ ~incidents[s].breach
             THEN last.contract ELSE InForceAfter(last)

\* confidence.py: the confidence never reads as victory while the window is open.
\* Across windows, contingencies and whatever the last call to advance() saw, an
\* incident under monitoring shows at most 80, or 85 when only the quality release
\* is missing; one whose recovery was refuted shows next to none, until the next
\* window is observed or for ever if the violation escalated it.  An expired waiver
\* escalates an incident whatever it shows.
NoVictoryWhileOpen ==
  \A s \in Suffix : Exists(s) =>
    \A c \in Progress(s) :
      /\ incidents[s].state = "MONITORING_RECOVERY" =>
           c <= 80 \/ \E row \in LatestNode(s, "observe") : row.out.awaiting /\ c = 85
      /\ incidents[s].state = "CONTINGENCY_AWAITING_APPROVAL" => c = 5
      /\ incidents[s].state = "ESCALATED" /\ ~incidents[s].breach => c = 5
      /\ incidents[s].state = "VERIFIED_RECOVERY" => c = 97

\* detect_conflicts(): stale or unapproved guidance that matches is always shown
\* beside the approved text of a draft, also when it repeats that text verbatim,
\* unless more matches than the wider search returns; it is never cited as approved.
ConflictsAreShown ==
  \A s \in Suffix : Exists(s) =>
    \A row \in LatestNode(s, "retrieve") :
      /\ \A c \in row.out.citations : Authoritative(c)
      /\ incidents[s].contract # NoContract =>
           LET matches(c) == Applicable(c, Model, ComponentFor(incidents[s].kind))
           IN  Cardinality({i \in DOMAIN corpus : matches(corpus[i])}) <= 3 * K =>
                 \A c \in ToSet(corpus) :
                   matches(c) /\ ~Authoritative(c) /\ c.effective = 0
                     => c \in row.out.conflicts

=============================================================================
