# Recovery verification in TLA+

TLA+ models of the recovery-verification backend (`backend/app`): what TLC
checks of them on small instances, what TLAPS proves of them for every value of
the constants, and where the code and its documentation part ways.  Paths below
are relative to the repository, those of Python files to `backend/app`;
`PROJECT.json` maps every definition to its lines.

## 1. The system

A machine fault becomes an *incident*.  A person or an agent repairs the machine,
and the backend has to answer one question: has it recovered?  It drafts a
*recovery contract* (conditions, evidence, approvals), watches the machine cycle
by cycle in a *verification window*, and then closes the incident, reopens it
with a contingency, escalates it, or declines to certify it.

### Components

| Component (source) | State it keeps | Operations | Where |
|---|---|---|---|
| Incident state machine (`workflow/state_machine.py`, `domain/enums.py`) | `Incident.state`, `version` | `transition()`: legality, role, optimistic lock, audit row | `IncidentStates` |
| Contract evaluation (`services/evaluator.py`, `quality.py`, `policy.py`) | condition statuses, recomputed each time | `evaluate()`, `is_stable_observation()`, `quality_release_satisfied()` | `ContractEvaluation`, `VerificationWindow` |
| Cycle engine, windows (`services/cycle_engine.py`, `windows.py`) | observations, `stable_streak`, window status | `advance_cycle()`, `open_window()`, `get_active_window()` | `VerificationWindow`, `RecoveryWorkflow` |
| Recovery workflow (`workflow/recovery_service.py`, `reopening.py`, `contract_builder.py`) | contracts, interventions, windows, lots, reservations, outcome | accept, draft, review, start, advance, approve and complete contingency, finalize, escalate, reopen | `RecoveryWorkflow` |
| Evidence and approvals (`services/evidence.py`, `evidence_quality.py`, `tools/registry.py`) | requirements, items, decisions | submit, validate, age, approve, reject, classify | `RecoveryWorkflow`, `ClosureAdvice` (partly) |
| Action gateway (`gateway/*.py`, `services/provenance.py`) | proposals, executions, idempotency ledger, circuit breaker | `execute()`, thirteen stages; reconciliation | `ActionGateway` |
| Audit trail (`workflow/audit.py`) | one hash chain per correlation | `record_audit()`, `verify_audit_chain()` | `ActionGateway` |
| Transactional outbox (`workflow/audit.py`, `main.py`) | outbox rows | `publish_outbox()`, `drain_outbox()` | `OutboxRelay` |
| HTTP routes and sessions (`api/routes.py`, `db.py`) | one session per request | load, work, commit or roll back | the step size of all modules |
| Disposition, release matrix, certificate (`services/disposition.py`, `recovery_policy.py`, `release_matrix.py`, `certificate.py`) | none: they read | nine ordered rules, eight release domains | `Disposition` |
| Mission spine, evidence plan, closure advice (`services/mission_spine.py`, `evidence_planner.py`, `false_closure_risk.py`) | none: they read | stages, recommendations, risk of a false closure | `MissionSpine`, `ClosureAdvice` |
| Recovery twin, sensitivity analysis (`services/recovery_twin.py`, `sensitivity.py`) | none: they replay | markers of a window, sweep of window lengths | `Replay` |
| Recovery debt (`services/recovery_debt.py`) | conditional waivers with a due date | grant, settle, breach, sweep | `RecoveryDebt` |
| Lessons, shift handoff, notifications (`services/knowledge.py`, `shift_handoff.py`, `notifications.py`, `tools/registry.py`) | candidates, handoffs, inbox | derive, review, hand over, acknowledge, dispatch | `RecoveryRecords` |
| Alert intake, agent graph, reasoning (`workflow/recovery_service.py`, `agent/*.py`, `reasoning/*.py`) | dedupe keys, reasoning trace, proposal | triage, diagnose, draft, observe | `AlertTriage` |
| Retrieval (`rag/retrieval.py`) | document chunks | search, authority, conflicts | `Guidance` |
| Upload intake (`services/intake.py`, `intake_mission.py`) | mapping profiles, the intake of a mission | map, assess, reconstruct, create a mission | `MissionIntake` |
| Telemetry feed (`services/telemetry.py`, `uploaded_verification.py`, `adapters/synthetic.py`) | queue of samples | ingest, consume in order, run an upload, fall back on synthetic samples | `TelemetryFeed` |
| Efficast integration (`integration/efficast/`, `services/recovery_signature.py`, `comparable_conditions.py`, `sensor_trust.py`) | reconciled events, shadow reports | reconcile, score, judge in shadow | `ShadowStream`, `RecoverySignature` |
| Rate limit and edge security, other adapters, MCP, other analytics, front end | counters, texts, statistics, views | | not modelled (section 8) |

### How they interact

An HTTP route opens one session, loads the incident, and calls the recovery
workflow.  The workflow calls `transition()` directly and every agent action
through the gateway, in the same session; the gateway writes proposal, audit
rows, ledger and breaker in that session too.  The route commits at the end; a
raised exception leaves it without a commit, and closing the session rolls all of
it back.  Publishing a decision only inserts an outbox row.  After each successful
mutating request the middleware drains the outbox in a session of its own.

Around that core, *before*: an alert, or an uploaded export, becomes an incident;
the agent graph drafts the diagnosis and leaves its trace; samples are queued
for the cycle engine.  *Beside*: a debt waives conditions for a time, and its
sweep escalates the incident without the workflow.  *After, and at any time*:
the read-only services put the same facts together in orders of their own, and
lessons, handoffs and notices write down what they saw.  The Efficast shadow
never touches an incident; it shares the judging functions with the live reads.

### What is hard here

* *Sequences of legal calls.*  Most operations check little of the incident's
  state and rely on the transition table, so an operation written for one stage
  may fit another; two reopenings stack on each other's rows.
* *Values kept across requests*: a streak, a count of reopenings, an inspection
  that ages between its validation and the cycle that uses it, a waiver that
  outlives its contract.
* *The same answer computed in five places*: whether a mission may close.
* *Order inside a decision*: violation before pass, deadline before reading.
* *Order of data*: batches numbered from a maximum another request also read,
  plant events that come late, twice or garbled.
* *Concurrent requests* on one incident, alert, idempotency key, or audit
  chain, each in a session that reads committed rows and locks nothing.
* *Failure*: a handler that raises half way, a model that answers late or
  oddly, a crash before a commit, a sink that rejects events, a crash between
  the sink and the commit.

`PROJECT.json` lists these hazards one by one, at their lines, with the
properties that cover them or the reason why none does.

### What makes each part correct

* *Evaluation*: the verdict of a cycle is "verified" exactly when the machine has
  recovered, whatever order readings, evidence and decisions came in.
* *Workflow*: an incident is closed only out of a monitoring cycle that earned it;
  a closure is whole; a reopening loses nothing; failure ends in escalation.
* *Gateway*: one effect per key, all of a request or none of it, an audit chain
  that verifies, no deadlock.
* *Outbox*: only committed decisions are heard, each that the sink accepts at least
  once unless rejected ones fill a batch, and twice only at the cost of a crash.
* *Reads*: no service tells people they may close when another, or a gate, says no.
* *Debt*: paid in time or breached, never both.
* *Records*: a lesson, a handoff and an inbox tell what the rows tell.
* *Intake and feed*: every reading is judged, in order and never twice for one mission,
  for what it says.
* *Triage*: one incident per alert, safe proposals whatever the model says, and
  a trace that names the contract in force at each of its steps.
* *Shadow*: nothing is dropped silently and order of arrival does not matter.

## 2. The modules

| Module | Extends | What it is |
|---|---|---|
| `IncidentStates` | | the states, the transition table, the role guards |
| `ContractEvaluation` | | readings, stability, condition statuses, the verdict |
| `Replay` | `ContractEvaluation` | what the twin and the sensitivity analysis read off a window |
| `VerificationWindow` | `Replay` | one window on its own, against a definition of recovery |
| `VerifiedClosure` | | the abstract promise: observing, then closed, declined, failed or given up |
| `RecoveryWorkflow` | `IncidentStates`, `ContractEvaluation` | the life of one incident; implements `VerifiedClosure` |
| `ActionGateway` | | concurrent requests through gateway, ledger, breaker and audit chain |
| `OutboxRelay` | | outbox rows, drains, a sink that rejects, crashes |
| `Disposition`, `MissionSpine`, `ClosureAdvice` | `ContractEvaluation` | the services that read an incident, as operators of the facts |
| `RecoveryDebt` | `RecoveryWorkflow` and the three above | waivers beside the workflow, and what the readers say of both |
| `RecoveryRecords` | `RecoveryDebt` | lessons, handoffs, notices, the reopen tool |
| `MissionIntake` | | from an uploaded table to a series of readings, as operators |
| `Ascending` | | a finite set of numbers in ascending order, a part of a sequence in its order |
| `TelemetryFeed` | `MissionIntake`, `ContractEvaluation`, `Ascending` | the samples of one machine, its writers and its readers |
| `RecoverySignature` | | signature, comparability and sensor trust, as operators |
| `ShadowStream` | `RecoverySignature`, `Ascending` | the feed of a plant, its reconciliation, and the shadow reports |
| `Guidance` | | applicability, authority, search and conflicts of documents |
| `AlertTriage` | `Guidance`, `IncidentStates` | triage requests, the agent's trace, what is read back of it |

The theorems about a module `M` are in a module of their own, `M_proofs`, which
extends it: `VerificationWindow_proofs`, `RecoveryWorkflow_proofs`,
`ActionGateway_proofs`, `OutboxRelay_proofs`, `RecoveryRecords_proofs` (which extends
`RecoveryWorkflow_proofs` and holds the theorems about `RecoveryDebt` too),
`TelemetryFeed_proofs`, `ShadowStream_proofs` and `AlertTriage_proofs` (section 5).

An `MC` module gives a module's constants small values, and the `.cfg` of the same
name says what is checked.

### How they correspond to the code

**Readings** (`ContractEvaluation`).  A recorded cycle is a fault code, pass, fail
or absent for each scalar condition, and whether its temperature lies below that
of the first cycle.  `Deadline` is `_deadline_cycles()`.  `Required` is the
window's `required_stable_cycles` and, with it, the threshold of the condition on
stable cycles: the workflow opens every window with the value of its contract
(`recovery_service.py:277`, `:383`).  A scalar's status is decided in the code's
order: too few cycles, deadline, then value; a violation before a technical pass.

**`Replay`** replays the windows of an incident: `Markers` marks every fault, but a
complete window only once, for the flag of `build_twin()` is set before its loop over
the windows.

**`VerificationWindow`** steps once per cycle (`advance_cycle()` then
`evaluate()`) and lets the first-piece inspection and the quality decision change
between cycles.  It is compared with `Recovered`, written without streak, status or
order.

**`RecoveryWorkflow`**.  One action is one request; a request that raises is rolled
back and is no step.  `AdvanceCycle` is the body of the loop in `advance()` with
the `escalate()`, `reopen_with_contingency()` or `finalize()` that the same
request then runs.  Rows are kept in order of creation.  Evidence and approvals
are those of the current contract, for nothing reads earlier ones; `keyed` says
that the gateway's ledger already holds the key `appr-<requirement>` of the
contingency's release.  `AnnounceByHand` and `DraftByHand` are the tools
`publish_recovery_decision` and `create_knowledge_candidate`, which every role may
call in any state; what they write is counted apart from what `finalize()` writes.
`EvidenceAges` makes a valid item stale.  The comparability
class is any of the four at each closure.

**`ActionGateway`**.  A step is one statement against the database.  `seen` is the
session's own copy of the row it loaded.  The audit rows one request writes are
one row.  An insert that meets an uncommitted row with its unique key waits.  The
denials of stages 2 to 7 are one action.

**`OutboxRelay`**.  The relay runs on the single event loop of the one server
process, so drains do not overlap; `noted` is what a drain changed in its session
and loses if it commits nothing (`drain_outbox()` returned zero).  The batch is the set of
events still to be handed over, the oldest of which is next.

**`Disposition`, `MissionSpine`, `ClosureAdvice`** take a record of facts about an
incident and return what the service returns; `RecoveryDebt!Views` builds that
record from the workflow's state.  Fractions are in thousandths.

**`RecoveryDebt`**.  Every request of the workflow; the grant, the settlement and the
sweep, each a request of its own.  Time is whether `expires_at` has passed.  A sweep
that raises, because the incident cannot be escalated, is rolled back and no step.

**`RecoveryRecords`** lets any of that happen and writes lessons, handoffs and notices
meanwhile; those the workflow itself writes are part of the step that writes them.

**`TelemetryFeed`**.  A request is one transaction, except two whose read is a step of
its own: the ingest reads the highest sequence number, so two requests can number
their rows alike; an advance reads the next unconsumed sample and marks it later, so
two missions can judge the same one, and it may die in between.  The workflow of a
mission is kept as far as it decides which samples are read.  `staffed` says whether
the plant has a technician the uploaded run can act for.

**`ShadowStream`**.  The plant's events are fixed in the initial state; a step
delivers one, readable or not, again or for the first time, in any order.  The
final sort of `reconcile()` is part of the step.

**`AlertTriage`**.  A triage request reads, calls the model inside its transaction,
and commits or fails; other requests run in between.  An answer of the model is
one of a set that has every case `_validate_diagnosis()` tells apart.  Contracts are
numbered, one more at each reopening.  `DebtBreaches` is the sweep's escalation,
which records nothing.

## 3. The runs

| Run | States | Instance |
|---|---|---|
| `window` | 254 536 | two scalar conditions (one with deadline 2), two fault codes, two stable cycles required, three cycles |
| `workflow` | 331 593 | one scalar condition, five kinds of cycle, three cycles in a window, escalation at the third failure, one announcement and one lesson by hand |
| `gateway` | 14 286 | four requests, three of them under one key, two correlations |
| `outbox` | 12 353 | four events, two of them poison, batches of two, two attempts, two crashes |
| `debt` | 64 355 | a condition that can be waived and one that cannot, two debts, one reopening |
| `records` | 702 909 | one debt, one lesson drafted by hand, one handoff, one reopening |
| `feed` | 429 629 | two missions, three exports, a batch posted meanwhile, five observations |
| `shadow` | 105 693 | four streams of about six events, one repeat, one garbled delivery |
| `triage` | 380 833 | three alerts, two of one suffix, two requests at a time, five answers, two corpora, thirteen rows of trace |
| `rejected_contingency`, `lost_update`, `debt_closure` | | the instances of `workflow`, `gateway`, `debt`; a counterexample is expected (section 6) |

*Why the bounds are enough.*  Nothing in a window looks further than whether the
streak has reached `Required`, whether the deadline has passed, and at the last
reading: three cycles with `Required = 2` and a deadline of 2 include every
combination, a broken and resumed streak among them.  `EscalateAfter = 2` gives
two reopenings, hence a second contingency beside a first, and then escalation.  What
is announced or drafted by hand depends on no count of its own, so one of each will do;
`debt` leaves them out, for no property of it reads what was published.
Three requests under one key are a call, a concurrent retry and a late retry.  Two
crashes of the relay are a crash while recovering from one; two poison events fill a
batch, or leave room for an accepted one beside them.  Two debts let one be granted
after another ended, and one reopening lets a debt outlive its contract.  Two
missions, their uploads and a batch make every pair of writers and readers of samples
compete.  Thirteen rows of trace hold a triage, a draft and what two calls of `advance()`
saw, hence a third contract; the theorem is for any number.
Streams of six events hold a window with a relapse, drift and a second incident, and
a single repeat or loss of each event reaches each branch of `reconcile()`.

*Symmetry.*  The two missions of `feed`, and in `triage` the two requests and the two
alerts of one suffix, are interchangeable: no operator chooses among them, and what
names them is compared for equality only.  No other run uses symmetry.  *Deadlock* is
checked in `window`, `workflow`, `debt` and `records`, where some request is always
possible.  It is off in `gateway`, `outbox`, `feed`, `shadow` and `triage`, whose
requests, events, batches or rows are used up by design; there `EveryRequestEnds` and
`HealthyEventsGetOut` say that nothing stops half way.

*Fairness.*  `ActionGateway`: weak fairness of each request's next statement; a
thread of the server is not suspended for ever, and a wait ends when the other
session does.  `OutboxRelay`: weak fairness of starting, continuing and committing
a drain, which assumes that mutating requests keep arriving, since only they
trigger it; and strong fairness of the sink accepting an event that is not poison,
i.e. an attempt repeated for ever succeeds some time.  No other module states any.

## 4. What is checked

| Property | Says |
|---|---|
| `StreakIsLongestStableSuffix` | the stored streak is the longest stable end of the observations |
| `VerifiedIffRecovered` | verified exactly when the machine has recovered and quality is released |
| `RelapseIsNeverMasked` | a recurrence is reported at the cycle it happens, also in a window that is complete and only waits for the release |
| `ReplayTellsWhatHappened` | twin and sensitivity analysis mark every relapse, the first complete window and an outcome exactly where the engine saw them |
| `MonitoringHasItsWindow` | an incident is monitored on exactly one open window, that of the current contract; every earlier contract's window has failed |
| `ReopeningLeavesOneTrail` | every reopening left one violated and superseded contract, one failed window, one intervention, one announcement |
| `ClosureIsAllOrNothing` | lots, contract, outcome, and the announcement and lesson of `finalize()` change together with the state, whatever is announced or drafted by hand |
| `FailuresAreBounded` | at most `EscalateAfter` reopenings, one bearing reserved for each |
| `ClosureIsEarned` | only a cycle that ends `Required` stable ones, with fresh inspection and release, closes |
| `HistoryIsPreserved` | no row is removed; a violated or fulfilled contract, a failed window and the first intervention, once there is a contract, never change |
| `ImplementsVerifiedClosure` | the workflow implements `VerifiedClosure` |
| `OnceOnlyEffect` | at most one effect for each idempotency key, the one the ledger answers with |
| `AuditChainVerifies` | every chain is gapless and links to its predecessor |
| `NothingHalfDone` | an effect is committed with its executed proposal and its audit row or not at all, a lost session leaves no trace; what is left unreconciled is a replay |
| `EveryRequestEnds` | every request that starts commits, is replayed or aborts |
| `OutboxTellsTheTruth` | what the sink heard was committed; what is marked published was heard |
| `DuplicatesCostACrash` | an event is heard once, and once more at most for each crash of the server |
| `HealthyEventsGetOut` | every committed event that is not poison is published or given up, unless poison fills a whole batch for ever |
| `CanCloseMeansEveryGate` | who is told that a mission can close finds the hard invariants held, every release domain passed (comparability may warn of a partial shift), no sensor untrusted or unknown, no debt open |
| `ServicesAgree` | when the disposition can close, spine, evidence plan, certificate and advice do not say otherwise; the shown confidence agrees with the evaluator both ways |
| `BreachEndsTheIncident` | a breach escalates, and only a breach or the last allowed failure does |
| `DebtsAreSettledHonestly` | a debt is settled only on readings of its own contract that pass all it waived |
| `LessonsMatchTheRows` | a closure's lesson names what succeeded, what failed and when it recurred, as the rows do |
| `LeftOutMeansFinished` | what a handoff leaves out stays over |
| `ReopenToolHasNothingToDo` | between requests the reopen tool never finds anything it could reopen |
| `InboxTellsTheStage` | the supervisor's last notice is that of the incident's stage |
| `NoReadingIsLost` | a reading is consumed exactly when a cycle judged it, or its own upload's run is over; no mission judges one twice |
| `ReadingsKeepTheirOrder` | the readings of one source are observed in their order |
| `IntakeAndEvaluatorAgree` | of an export within the cap of the series, a run that judged nothing but its upload rejected it, and the fault that made it run is in the series; an export that is not blocked has readings |
| `NothingIsDropped` | every delivery is accepted or recorded as an anomaly |
| `ReportIgnoresArrivalOrder` | a report depends on the events delivered, not on their order, unless two that it reads in order bear one timestamp |
| `LatenessIsFlagged` | late and out of order are flagged exactly when they are |
| `FailedStaysFailed` | later deliveries do not retract a proposed failure; a fault seen at the time of a sample is never verified |
| `OneIncidentPerAlert` | every caller is told the same incident for an alert |
| `ProposalStaysSafe` | whatever a model answers, only work of the catalog is proposed |
| `TracesTellTheStory` | each row of the trace names the contract in force when it was written, and the trace ends at the incident's newest |
| `NoVictoryWhileOpen` | an incident under monitoring shows at most 80, or 85 when only the release is missing; a refuted one 5, unless a debt breach escalated it |
| `ConflictsAreShown` | stale or unapproved guidance that matches is shown beside the approved text, never cited as approved |

Each module states a type invariant; that of the workflow is checked in its run, and
those of six more modules are proved (section 5).  For each property there is
at least one *mutant*: an operator of the same module, marked "Mutant" in its
comment, that stands for a plausible bug.  With the mutant in place of the operator
it is named after, TLC finds the property violated.

## 5. What is proved

A theorem holds for every value of the constants that meets the named assumptions of
the module (readings, deadlines, lengths of windows, requests, events, alerts,
corpora, and so on), where a run tries one instance.  Of the properties of section
4, the theorems state all but the two liveness properties.

**`VerificationWindow_proofs`** (`EvaluationAssumption`, `WindowAssumption`).
`StreakIsExact` is inductive with the type invariant; from it, `RelapseReported`
(a recurrence violates the evaluation whatever else it finds) and the action
property `VerifiedExactly`, which unfolds `Verdict` against `Recovered` in both
directions.  `ReplayTrue` compares code that shares nothing: `Streaks` computes the
streaks of a stored window forwards by a recursive function, `SweepOutcome` those of
another length.  What a recursive function computes cannot be proved here by
induction; instead the proof takes the *least* index at which streak and runs of
stable cycles disagree (`LeastNumber`, from the well-founded order of the numbers)
and contradicts it with one unfolding.  It says of any sequence of windows which of
them is marked complete.

**`RecoveryWorkflow_proofs`** (`EvaluationAssumption`, `WorkflowAssumption`).

* `FailuresBounded`: `FailuresAreBounded` says nothing of a parked contingency,
  whose approval reserves the next bearing.  `BoundInv` adds that fewer bearings than
  reopenings are reserved in `CONTINGENCY_AWAITING_APPROVAL`.
* `ClosureEarned`: `StreakInv` says that the last `streak` observations are stable,
  so a verdict "verified" implies `Required` consecutive stable cycles.
* `ClosureAllOrNothing`: inductive together with `TypeOK`; only `Certify` changes
  what it speaks of.  The tools called by hand add to counts of their own.
* `ReopeningsLeaveOneTrail`, `MonitoringOnItsWindow`, `HistoryPreserved`: all three
  from `TrailInv`, which says how long each table is in each state and that the n-th
  contract, window and intervention belong together.  Neither property is inductive:
  a reopening looks up "the active window" and "the current contract" anew, and only
  the lengths tell that it finds those of one failure.  `HistoryPreserved` protects the
  rows it names and the lengths; a second contingency is not protected, for it has the
  same sequence as the first (section 7).
* `WorkflowImplementsClosure`: initial states map to initial states, and each
  action to an action of `VerifiedClosure` or a stutter: preparation to a stutter,
  evidence and decisions to `QualityChanges`, opening a window to `StartObserving`,
  a cycle to `KeepObserving`, `Close`, `Decline`, `Fail` or `GiveUp`.

**`ActionGateway_proofs`** (`GatewayAssumption`): any number of requests, any keys.
`GatewayInv` has four parts: what an open session is about to commit holds a free
slot of its chain and is linked to a committed row (`RowsInv`); chains are numbered
without a gap (`ChainInv`); a session that has inserted its key is the only one
(`KeysInv`); effects, executions, proposals and breaker agree with the program
counters (`EffectsInv`).  The properties speak of committed rows only and hold because
of what uncommitted sessions wait for, hence the first and third part.  From it
`AuditVerifies`, `OnceOnly`, `AllOrNothing`.

**`OutboxRelay_proofs`** (`OutboxAssumption`): any number of events, batch size,
attempts and crashes.  `RelayInv` says for each event that its deliveries are bounded
by the crashes as long as its row, or what the drain has noted and not yet committed,
still asks for one; and what each note promises of the row it will be written to. From
it `OutboxTruthful` and `DuplicatesBounded`: one delivery more per crash, which is
what the code gives and not what its documents promise (section 6).

**`RecoveryRecords_proofs`**, the debts: over the workflow with waivers granted,
settled and swept in any state.  `EndInv` (reopenings within the policy, breached
debts expired) gives `BreachesEndTheIncident`; `DebtsSettledHonestly` needs
`WaiverInv` (a debt waives something, and nothing unwaivable);
`CanCloseOpensEveryGate` unfolds the disposition. `ServicesAlwaysAgree` takes a record
of facts that can close and follows each of the other services on it: the verdict
"verified" leaves the spine nothing to wait for and the plan only the conditions; the
advice is a sum of five rounded contributions, of which those besides the trajectory
stay below the threshold whichever are computable. `DebtsKeepTheAccount` and
`DebtsKeepHistory` carry the workflow's theorems over to the composition: `AccountInv`
adds that a debt hangs on a contract, without which a sweep could escalate an incident
that has nothing to verify.

**`RecoveryRecords_proofs`**, the records.  `RecordsOnlyTell` shows that the system
with lessons, handoffs and notices implements `RecoveryDebt`, so that everything
proved of the latter holds of it.  `LeftOutIsFinished` follows from which states have
an exit; `ReopenToolIsIdle` needs `VerdictInv`: no request leaves a violated window in
a state the workflow would act on; `LessonsAreTrue` needs, for each lesson of a
closure, that the incident is closed, so that nothing it tells changes any more;
`InboxIsCurrent` follows the last notice through every transition.

**`AlertTriage_proofs`** (`TriageAssumption`): any alerts, corpora, numbers of
requests and answers of a model.  `OneIncident` needs what every pending request has
read and that an answered alert keeps its incident (`TablesInv`).  The others rest on
`TraceInv`, which says what the rows of one trace hold: which step each is, the
confidence and citations it told, the contract it was named for, first by the draft,
which names the rows before it, and that a row names the contract in force after the
row before.  `ProposalSafe`, `TracesTold`, `NoVictory` and `ConflictsInSight` then say
what the views make of the latest row of a node.

**`TelemetryFeed_proofs`** (`FeedAssumption`, `IntakeAssumption`): any missions,
exports and batches on one machine.  `Judging` relates samples and observations: a
sample is consumed exactly when a cycle judged it or its own mission's run is over, no
mission judged it twice, and within one batch or upload sequence numbers grow.  A
request that has read a sample and not yet marked it is covered too: what its mission
has judged before is consumed, so it is not that sample; and the earlier samples of
the same batch or upload were judged when it was read, and stay so.  Neither property
is inductive without the other half of the state: `FeedInv` adds that a batch being
posted, and a mission that has not run, own no row yet, so that rows of one origin are
added together, whatever number another request also read.  A run is many cycles in
one step; that `Judging` survives them, and that the recursive function that counts
them exists, is again shown by a least counterexample.  `ReadingsKept`,
`ReadingsInOrder`. `IntakeAgrees` follows a fault from the table to the verdict.  A
stable sort leaves out no row (`SortedCovers`), so the series of an export within its
cap has the fault the intake saw (`SeriesHasTheFault`); the rows of the upload are as
many as the cycles of its run (`UploadPlaces`), each cycle judges a row of its own
(`Once`), so if all are rows of the upload, all of them were judged, the fault among
them (`RunComesToTheFault`, by counting), and a fault in the window rejects
(`FaultRejects`).  `AgreeInv` adds to what is promised that a mission that is not yet
prepared has not run and has no release, and that windows are numbered from one.

**`ShadowStream_proofs`** (`StreamAssumption`): any streams, tolerances, numbers of
repeats and of garbled deliveries.  `TableInv`: accepted events are those of the
stream, one per key, in source order, so that the rows not later than a new event are
the first ones and the last row's timestamp is the watermark.  From it the running
watermark knows as much as the whole table: `LatenessFlagged`.  `CountInv`: of each
event the copies delivered are those accepted or recorded, and nothing is noted
about one not yet ingested: `NothingDropped`.  `StreamTyped` adds the mapping versions.
`ReportOfTheEvents` says that two tables of the same events in source order give the
same report: what is read as a set is the same, and what is read in order is read at
places that correspond, because no two of its events share a timestamp (`Untied`).
With it, `ArrivalOrderIgnored`.  `FailedIsFinal`: the times of samples and of faults
only grow, so a fault once joined to a sample stays in the observations, wherever the
rows that come later are placed.

The steps about the transition table and about rows come first as lemmas; then each
invariant, action by action.  Type correctness is a theorem of each module
(`TypeCorrect`, `DebtTypeCorrect`, `RecordsTypeCorrect`, `StreamTyped`,
`FeedTypeCorrect`); that of the feed rests on a window's observations only growing,
one per cycle, so that no streak outgrows its window.

*What proving changed in the models.*  The notices of a request were given by a
`CASE` whose guards overlapped when a cycle left the state as it was: TLC took the
first that fitted, nothing determined it (`RecoveryRecords!Dispatched`).
`ConflictsAreShown` held in the run only because its corpora are small: the wider
search returns `3 * K` chunks, and the property now says so.  It also needs that the
chunks of one revision are approved and superseded together, as `_add_doc()` writes
them (`Guidance!IsCorpus`).  The batch of a drain and the result of a search are
sets, since nothing depends on their order but which event is handed over next.
The scalar keys of a contract are distinct from its other three
(`DispositionAssumption`).

Three properties were true in their runs and false of the code.
`ReportIgnoresArrivalOrder` fails when two readings of one metric, two orders or two
outcomes bear one source timestamp: the sort is stable and keeps them as they arrived
(`reconciliation.py`, the sort at the end; `shadow.py:69-70`).  The second half of
`FailedStaysFailed` fails of a fault between two samples, which is joined to no cycle
(`shadow.py:71-77`).  `IntakeAndEvaluatorAgree` fails of an export longer than the cap
of the series (`intake.py:360`, 5000 rows), whose fault may lie beyond it: the intake
reports the fault and creates the mission for it, and the run never sees it.  The
properties now name these cases.  A premise of `IntakeAndEvaluatorAgree` that the
intake had found a relapse was not needed and is gone.

Where a definition selected, sorted or summed with an operator of the library that
folds or recurs, about which nothing can be proved without induction over an operator,
it is now written by positions: `Ascending!Only` and `InOrder` for the filters and
sorts of shadow and feed, `MissionIntake!Position` for the place of a row in a stable
sort, and explicit sums over the five factors in `ClosureAdvice`.

*Only model-checked.*  `EveryRequestEnds` and `HealthyEventsGetOut`: liveness and
fairness are out of the prover's reach.  So are ENABLED, hence the absence of deadlock,
and the operators of `MissionIntake`, `Guidance` and `RecoverySignature` that still
select with the library, as far as no theorem above needs them.

## 6. Where the code and its documents part ways

* `rejected_contingency` (`workflow/recovery_service.py:328`, `gateway/gateway.py:178-181`).
  A quality or supervisor *rejection* recorded through the approvals route uses the
  key `appr-<requirement>`; `approve_contingency()` later uses the same key, the
  gateway replays the rejection as a success, and the contingency starts with its
  requirement REJECTED.  `README.md:43-44` says it requires fresh approval.
* `lost_update` (`workflow/state_machine.py:116`).  `transition()` compares versions
  only if it is given one, and no caller gives one.  Two requests that loaded the same
  incident both commit.  `docs/INCIDENT_RESPONSE.md:24` promises no lost updates.
* `debt_closure` (`workflow/recovery_service.py:434`).  `finalize()` does not look at
  debts; a mission closes for good while a waiver is active.
  `services/recovery_debt.py:4-5` says a conditional recovery can never silently
  become a permanent closure.

In these places no run shows a disagreement: the model does what the code does, and
the property named says no more than that, which is less than what the document says.

* *What a refused request leaves* (`NothingHalfDone`).  `gateway/gateway.py:6-8`:
  "Denials and executions are audited ... the failed attempt is kept as evidence, by
  design"; `:213-219` write it; `docs/SECURITY_MODEL.md:21`: "Each stage denies +
  audits on failure"; `docs/INCIDENT_RESPONSE.md:19`, `:21` expect the `CIRCUIT_OPENED`
  and `ACTION_DENIED` rows.  A route commits only after success and the handler of
  `GatewayError` (`main.py:100`) only formats a response, so over HTTP the row, the
  proposal marked failed and the breaker's count are rolled back, and the breaker never
  opens.  `tests/test_safety.py:52-68` reads them in the session that wrote them.
* *Published exactly once* (`DuplicatesCostACrash`).  `workflow/audit.py:4-6`: "a crash
  can never drop or duplicate a published decision"; `:174-175`: "published exactly
  once"; `docs/INCIDENT_RESPONSE.md:24-25` and `docs/SECURITY_MODEL.md:71` say the same.
  The sink is called before the drain commits, so a crash in between publishes again.
  (`docs/SYSTEM_OVERVIEW.md:246` admits that "exactly-once" does not fully hold, for
  another reason.)
* *Failing events never block the queue* (`HealthyEventsGetOut`).  `audit.py:176-178`:
  "parked as `failed` (a dead-letter state) so they never block the queue".
  `drain_outbox()` returns the number published and `main.py:87` commits only if it is
  not zero: a batch of nothing but failures counts no attempt and is read again for
  ever, with everything behind it.  The property assumes that this ends; the run
  reaches it.
* *Every domain must pass* (`CanCloseMeansEveryGate`).  `services/release_matrix.py:121-122`:
  "EVERY domain must pass"; with partly comparable conditions the comparability domain
  warns and `can_close` is true.  `services/sensor_trust.py:128`: "only a TRUSTED sensor
  may"; the disposition stops for an untrusted or unknown sensor, and closes with a
  degraded one.
* *Consumed exactly once* (`NoReadingIsLost`).  `services/telemetry.py:53`: "marking each
  consumed exactly once".  The row is selected without a lock (`:66-70`), so two missions
  on one machine, advanced by overlapping requests, judge one sample.
* *Uploads that are certified* (`IntakeAndEvaluatorAgree`).
  `services/uploaded_verification.py:161-162`: "to certify VERIFIED, the upload must also
  include a quality release"; `:14-15`, `:153-155` speak of it too.  Nothing in an upload
  is taken for a release: a run only submits evidence and approvals of the monitoring
  tier (`:116-143`), so it never ends verified; the release comes by the ordinary routes.
  The property says nothing of certification.
* *Capped at 0.80* (`NoVictoryWhileOpen`).  `docs/AGENT_GRAPH.md:45`: "each monitoring
  batch while the window is open ... capped at 0.80"; a window that is complete and
  waits for the quality release is open, and shows 0.85 (`agent/confidence.py:26-27`).
* *The cycle index* (`MissionIntake`).  `services/intake.py:363-365`: "Ordered by cycle
  index, else timestamp, else row order".  With no column mapped to the cycle index,
  `_match_col()` takes one whose name contains or is contained in a synonym (`:347-354`,
  `:369`), so a column of cycle times orders the series before the timestamp does.

## 7. Observed while modelling

Behaviour the models reproduce as it is, worth a maintainer's look.

*Evaluation and workflow*
* A scalar without a reading when its deadline passes is BLOCKED, not violated
  (`services/evaluator.py:168`); `docs/RECOVERY_CONTRACT.md:43` lists a missed
  deadline as a violation.
* A cycle without any reading counts as stable.
* The evidence route's default key is `evi-<requirement>-<user>`
  (`recovery_service.py:244`): a corrected item of the same user is answered with
  the first one's result.
* `should_escalate()` sees the count before the failure at hand, so the third
  failure escalates; `domain/contract.py:86` says "fails twice".
* Nothing reads `escalate_on_approval_rejected` or a window's maximum duration.
* No operation of the workflow leaves `INSUFFICIENT_EVIDENCE`; the sweep of a debt does.
  In a state that cannot be escalated the sweep raises and the debt stays active.
* All contingencies have sequence 2, so after a second reopening "the current
  intervention" is one of a tie, and a request may restamp the earlier one.
* `start_monitoring()` also fits `CONTINGENCY_IN_PROGRESS`: the mission may then be
  verified with its contingency still in progress, and the lesson credits it.
  `complete_contingency()` also fits a first contract that awaits evidence.
* Freshness of evidence is not looked at when monitoring starts.
* A replayed proposal stays "proposed", so reconciliation reports it at closure.
* Failed events are never retried.
* The tools `publish_recovery_decision` and `create_knowledge_candidate` look at no state
  (`tools/registry.py:221`, `:341`): every role may announce a verified recovery, or a
  reopening, of an incident that has none (under the topic `recovery.decision`, where
  `reopening.py` uses `recovery.reopened`), and draft a lesson of it.

*Reads*
* A certificate says "certified" while a debt is active.  A refusal by quality is
  recorded as "reject", but `disposition.py` looks for "deny", so it is never a hold.
* The disposition's live metrics are fixed, so a machine without vibration is never
  verified there though `finalize()` certifies it.  One of its branches
  (conflict) is unreachable.
* In `CONTINGENCY_AWAITING_APPROVAL` the spine names the quality engineer next.  The
  confidence 97 is also shown of a closure declined for lack of evidence.  A debt breach
  escalates an incident and leaves the confidence it showed, 85 or 97 among them
  (`recovery_debt.py:129-131`).
* The twin marks one complete window per incident: after a reopening the window that
  completes is not marked (`recovery_twin.py:65`, `:81-84`).
* The false-closure advice counts any fault code, and may say "do not close" of a
  mission that every gate would close.
* The sensitivity text says that every window shorter than the relapse cycle would
  have been fooled; with unstable cycles before the fault its own sweep says
  "caught_relapse" of some.

*Records*
* `recurrence_cycle` is the least `cycle_index` over all windows, whatever the fault.
  "Recurrence" also titles the lesson of a missed deadline.
* A breach escalates without a notice.  Quality is never told that a release is awaited.
* Two reviews or two receipts at once overwrite each other (`knowledge.py:52`,
  `shift_handoff.py:116`).

*Intake, feed, triage, shadow*
* A blocked uploaded run leaves its samples on the machine, where the next mission
  consumes them.  Two concurrent batches are numbered alike.  A run with too few
  cycles goes on with synthetic samples (`uploaded_verification.py:6-13`).
* The spellings of "no fault" differ between three functions of the intake.
* Two alerts of one id suffix compete for one incident id: the second is never triaged.
* An answer of a hosted model with a list where a kind should be raises instead of
  falling back (`hosted.py:80-83`).  The model is called inside the transaction.
* The diagnosis view keeps the latest trace of each node, so its root causes are
  empty once a contract was drafted (`serializers.py:524-527`).
* In shadow mode a fault between two samples is not joined to a cycle
  (`shadow.py:67-78`), other codes than F27 are ignored, one timestamp far in the
  future makes every later event late, and suspect samples are scored.  Of two events
  of one type and timestamp, the one that arrived first counts, or last, by type.
* An export of more than 5000 rows is cut before it is judged, not before it is
  analysed (`services/intake.py:360`, `:384`).

## 8. Not modelled

* Rate limiting and edge security, the front end, the other adapters, and the MCP
  server: they guard, show or forward, and keep nothing of an incident.
* Parsing of uploaded files; texts, prompts, headlines, rankings for display.
* Reliability statistics, OEE, calibration, decision economics, machine profiles,
  forecasts, passports: floating-point displays that decide nothing.
* `lot_at_risk.py`; the rules by which a single evidence item is valid or
  conflicting (valid or not is an input here); plant and tenant scoping.
* Hashes and signatures are taken as injective.  Embeddings are an arbitrary score.
* Two sessions on one incident are in `ActionGateway`, at the level of
  statements; the other modules take requests on one incident one at a time.  In
  `TelemetryFeed` one advance of a mission is in flight at a time, and an uploaded run is
  one transaction that nothing comes between.
* A client of the tools route is assumed not to choose an idempotency key of the form
  the services make for themselves (`publish-verified-...`, `knowledge-...`), which would
  answer `finalize()` with the client's own result.
* What a tool called by hand announces is counted, not read: `RecoveryWorkflow` tells it
  from the service's own announcement by who called.

## 9. Plan

1. Models: the validity and conflict of evidence items; `lot_at_risk.py`.
2. Proofs: that readiness and reconstruction in `MissionIntake` do not depend on the
   order of the columns when no two compete; that `Guidance` never shows a chunk of
   another machine.
