---------------------------- MODULE ShadowStream ----------------------------
(***************************************************************************)
(* Shadow mode: the events of a plant reach reconcile()                    *)
(* (backend/app/integration/efficast/reconciliation.py) over a feed that   *)
(* delays them, delivers them in any order and more than once, and may     *)
(* garble one on the way; what was accepted is scored and judged per       *)
(* correlation id by integration/efficast/shadow.py, and the judgement is  *)
(* compared with the outcome the plant published.                          *)
(*                                                                         *)
(* The plant's events are fixed when the behaviour starts; an action       *)
(* delivers one of them, and is one iteration of the loop of reconcile().  *)
(* The sort after the loop is part of the action: accepted is what         *)
(* reconcile() returns for the stream delivered so far.                    *)
(***************************************************************************)
EXTENDS RecoverySignature, Ascending, SequencesExt, Bags

CONSTANTS
  Bundles,          \* the sets of events a plant may publish
  DriftTolerance,   \* clock_drift_tol_s
  LateTolerance,    \* late_tolerance_s
  ExpectedUnit,     \* DEFAULT_UNITS: [metric -> unit]
  NormalContext,    \* _NORMAL_CONTEXT
  MonitoredFault,   \* "F27"
  MaxRepeats,       \* bound: readable deliveries beyond the first of an event
  MaxGarbled,       \* bound: unreadable deliveries
  NoTime, NoOutcome

VARIABLES
  bundle,    \* the events the plant published
  feed,      \* history: bag of the deliveries [event, readable] so far
  seen,      \* idempotency keys ingested
  accepted,  \* the events accepted, in the order of their source timestamps
  anomalies, \* bag of the anomalies [kind, key] recorded
  watermark, \* greatest source timestamp accepted, or NoTime
  mapping    \* mapping version last seen of each source system

reconciler == <<seen, accepted, anomalies, watermark, mapping>>
vars == <<bundle, feed, reconciler>>

AnomalyKinds == {"duplicate", "out_of_order", "late", "clock_drift", "unit_mismatch",
                 "mapping_version_change", "partial_data", "missing_mapping"}

EVENT_MODELS ==
  { "asset_context", "machine_event", "telemetry_observation", "production_cycle",
    "production_order_context", "work_order", "intervention", "operator_observation",
    "quality_check", "lot_trace", "approval", "planner_impact", "sensor_health",
    "recovery_decision_publication" }
DataQuality == {"OK", "SUSPECT", "MISSING", "STALE"}

\* EfficastEvent, the envelope: cid is its correlation_id, key its idempotency_key,
\* source and ingested its timestamps, system its source_system.
EnvelopeFields == {"type", "cid", "key", "source", "ingested", "system", "mapping", "quality"}

\* Of the payload of a type, the fields somebody reads.
Payload(type) ==
  CASE type = "machine_event"                 -> {"code"}
    [] type = "telemetry_observation"         -> {"metric", "unit", "value"}
    [] type = "production_order_context"      -> {"product"}
    [] type = "sensor_health"                 -> {"status"}
    [] type = "recovery_decision_publication" -> {"decision"}
    [] OTHER                                  -> {}

IsEvent(e) ==
  /\ e.type \in EVENT_MODELS
  /\ DOMAIN e = EnvelopeFields \cup Payload(e.type)
  /\ e.quality \in DataQuality /\ {e.source, e.ingested} \subseteq Int

Events == UNION Bundles
Keys == {e.key : e \in Events}

ASSUME StreamAssumption ==
  /\ {DriftTolerance, LateTolerance, MaxRepeats, MaxGarbled} \subseteq Nat
  /\ NoTime \notin Int /\ MonitoredFault # NoCode
  /\ \A e \in Events : IsEvent(e)
  /\ \A b \in Bundles : \A d, e \in b : d.key = e.key => d = e   \* one key, one event

Is(type, e) == e.type = type

-----------------------------------------------------------------------------
(***************************************************************************)
(* reconcile()                                                             *)
(***************************************************************************)
Behind(e) == watermark # NoTime /\ e.source < watermark

Found(e) ==
  (IF Distance(e.ingested, e.source) > DriftTolerance THEN {"clock_drift"} ELSE {})
  \cup (IF ~Behind(e) THEN {}
        ELSE IF watermark - e.source > LateTolerance THEN {"late"} ELSE {"out_of_order"})
  \cup (IF /\ Is("telemetry_observation", e)
           /\ e.metric \in DOMAIN ExpectedUnit
           /\ e.unit # "" /\ e.unit # ExpectedUnit[e.metric]
        THEN {"unit_mismatch"} ELSE {})
  \cup (IF e.system \in DOMAIN mapping /\ mapping[e.system] # e.mapping
        THEN {"mapping_version_change"} ELSE {})
  \cup (IF e.quality # "OK" THEN {"partial_data"} ELSE {})

\* Mutant: the watermark follows the last event, forwards and backwards.
NextWatermark_Last(e) == e.source

NextWatermark(e) == IF Behind(e) THEN watermark ELSE e.source

\* Mutant: the events stay in the order they arrived in.
Placed_Arrival(e) == Append(accepted, e)

\* The stable sort by source timestamp: e goes after those not later than it.
Placed(e) ==
  InsertAt(accepted,
           1 + Cardinality({i \in DOMAIN accepted : accepted[i].source <= e.source}), e)

Copies(x, bag) == IF BagIn(x, bag) THEN bag[x] ELSE 0

Anomaly(kind, e) == [kind |-> kind, key |-> e.key]

Note(kinds, e) == anomalies (+) SetToBag({Anomaly(k, e) : k \in kinds})

\* Mutant: the key of an event that could not be parsed counts as ingested.
SeenUnread_Marked(e) == seen \cup {e.key}

SeenUnread(e) == seen

\* The payload does not parse: it is recorded, and its key is not ingested.
Unmappable(e) ==
  /\ anomalies' = Note({"missing_mapping"}, e)
  /\ seen' = SeenUnread(e)
  /\ UNCHANGED <<accepted, watermark, mapping>>

Duplicate(e) ==
  /\ e.key \in seen
  /\ anomalies' = Note({"duplicate"}, e)
  /\ UNCHANGED <<seen, accepted, watermark, mapping>>

Accept(e) ==
  /\ e.key \notin seen
  /\ seen' = seen \cup {e.key}
  /\ anomalies' = Note(Found(e), e)
  /\ watermark' = NextWatermark(e)
  /\ mapping' = [s \in DOMAIN mapping \cup {e.system} |->
                   IF s = e.system THEN e.mapping ELSE mapping[s]]
  /\ accepted' = Placed(e)

Delivered(d) == Copies(d, feed)
Garbled == MapThenSumSet(Delivered, {d \in DOMAIN feed : ~d.readable})
Repeats == MapThenSumSet(LAMBDA d : Delivered(d) - 1, {d \in DOMAIN feed : d.readable})

Receive(e, readable) ==
  LET d == [event |-> e, readable |-> readable]
  IN  /\ readable /\ Delivered(d) > 0 => Repeats < MaxRepeats
      /\ ~readable => Garbled < MaxGarbled
      /\ feed' = feed (+) SetToBag({d})
      /\ IF readable THEN Duplicate(e) \/ Accept(e) ELSE Unmappable(e)
      /\ UNCHANGED bundle

-----------------------------------------------------------------------------
(***************************************************************************)
(* run_shadow(): one report per correlation id.                            *)
(***************************************************************************)
\* The positions of the events of a type with a correlation id.
Of(type, stream, cid) == {i \in DOMAIN stream : stream[i].cid = cid /\ Is(type, stream[i])}
Cids(stream) == {stream[i].cid : i \in DOMAIN stream}

FaultTimes(stream, cid) ==
  {stream[i].source : i \in {j \in Of("machine_event", stream, cid) :
                               stream[j].code = MonitoredFault}}

\* Mutant: only the last cycle's fault is kept.
CycleFault_Last(t, times, stream, cid) ==
  IF t \in FaultTimes(stream, cid) /\ \A u \in times : u <= t THEN MonitoredFault ELSE NoCode

CycleFault(t, times, stream, cid) ==
  IF t \in FaultTimes(stream, cid) THEN MonitoredFault ELSE NoCode

\* _observations_from(): one observation per source timestamp that carries
\* telemetry; of two readings of a metric at one time the later one stays.
SampleTimes(stream, cid) ==
  {stream[i].source : i \in Of("telemetry_observation", stream, cid)}

SampledAt(t, stream, cid) ==
  {i \in Of("telemetry_observation", stream, cid) : stream[i].source = t}

LastValue(t, metric, stream, cid) ==
  stream[Max({i \in SampledAt(t, stream, cid) : stream[i].metric = metric})].value

ObservationAt(t, stream, cid) ==
  [ fault   |-> CycleFault(t, SampleTimes(stream, cid), stream, cid),
    reading |-> [m \in {stream[i].metric : i \in SampledAt(t, stream, cid)} |->
                   LastValue(t, m, stream, cid)] ]

ObservationsFrom(stream, cid) ==
  LET times == InOrder(SampleTimes(stream, cid))
  IN  [n \in DOMAIN times |-> ObservationAt(times[n], stream, cid)]

\* _sensor_trust(): the worse of the declared status and the derived one.
Vibrations(stream, cid) ==
  LET samples == Only(stream, {i \in Of("telemetry_observation", stream, cid) :
                                 stream[i].metric = "vibration_rms"})
  IN  [n \in DOMAIN samples |-> samples[n].value]

Declared(stream, cid) ==
  LET health == Of("sensor_health", stream, cid)
  IN  IF health = {} THEN {"unknown"} ELSE {stream[i].status : i \in health}

SensorTrust(stream, cid) ==
  WorstTrust(Declared(stream, cid) \cup {ClassifySensor("vibration", Vibrations(stream, cid))})

\* The first order of the stream decides what was made.
Product(stream, cid) ==
  LET orders == Of("production_order_context", stream, cid)
  IN  IF orders = {} THEN NormalContext.product ELSE stream[Min(orders)].product

Comparability(stream, cid) ==
  LET health == IF SensorTrust(stream, cid) = "trusted" THEN "ok" ELSE "degraded"
  IN  ClassifyContext(NormalContext,
        [NormalContext EXCEPT !.product = Product(stream, cid), !.sensor_health = health])

\* _propose()
Propose(obs, trust, comparability) ==
  LET rung == Rung(obs, TrailingClean(obs))
  IN  CASE FaultIn(obs) -> "failed"
        [] ~FaultIn(obs) /\ \/ trust \in {"untrusted", "unknown"}
                            \/ comparability \in {"NOT_COMPARABLE", "UNKNOWN"}
             -> "insufficient_evidence"
        [] OTHER ->
             CASE rung \in {"strongly_consistent", "consistent_with_intervention"} -> "verified"
               [] rung = "recovery_observed" -> "insufficient_evidence"
               [] OTHER -> "in_progress"

ActualOutcome(stream, cid) ==
  LET decided == Of("recovery_decision_publication", stream, cid)
  IN  IF decided = {} THEN NoOutcome ELSE stream[Min(decided)].decision

Report(stream, cid) ==
  [ proposed |-> Propose(ObservationsFrom(stream, cid), SensorTrust(stream, cid),
                         Comparability(stream, cid)),
    actual |-> ActualOutcome(stream, cid) ]

\* shadow_scorecard.py: a recovery that did not hold, verified all the same.
DidNotHold == {"failed", "reopened"}
FalseVerification(report) ==
  report.actual \in DidNotHold /\ report.proposed = "verified"

-----------------------------------------------------------------------------
StreamInit ==
  /\ bundle \in Bundles
  /\ feed = EmptyBag
  /\ seen = {}
  /\ accepted = <<>>
  /\ anomalies = EmptyBag
  /\ watermark = NoTime
  /\ mapping = <<>>

StreamNext == \E e \in bundle, readable \in BOOLEAN : Receive(e, readable)

StreamSpec == StreamInit /\ [][StreamNext]_vars

-----------------------------------------------------------------------------
Recorded(kind, e) == Copies(Anomaly(kind, e), anomalies)

\* The types, and that the watermark is the greatest timestamp accepted.
StreamTypeOK ==
  /\ bundle \in Bundles
  /\ IsABag(feed) /\ IsABag(anomalies)
  /\ seen = {accepted[i].key : i \in DOMAIN accepted}
  /\ \A a \in DOMAIN anomalies : a.kind \in AnomalyKinds /\ a.key \in Keys
  /\ watermark = IF accepted = <<>> THEN NoTime ELSE accepted[Len(accepted)].source
  /\ \A s \in DOMAIN mapping : \E i \in DOMAIN accepted : accepted[i].mapping = mapping[s]

\* Nothing is dropped silently, whatever the feed did: an event that was
\* delivered readable at least once is accepted exactly once, each further
\* copy is recorded as a duplicate and each garbled one as a missing mapping
\* (the contract of reconcile(): "It NEVER drops information silently").
NothingIsDropped ==
  \A e \in bundle :
    LET good == Delivered([event |-> e, readable |-> TRUE])
        bad == Delivered([event |-> e, readable |-> FALSE])
        kept == Cardinality({i \in DOMAIN accepted : accepted[i] = e})
    IN  /\ kept = IF good > 0 THEN 1 ELSE 0
        /\ Recorded("duplicate", e) = good - kept
        /\ Recorded("missing_mapping", e) = bad

\* An event is flagged late or out of order exactly when one with a greater
\* source timestamp was accepted before it, however many others came between.
LatenessIsFlagged ==
  [][\A e \in bundle :
       (e.key \in seen' /\ e.key \notin seen) =>
         ((Recorded("late", e)' + Recorded("out_of_order", e)' = 1)
            <=> \E i \in DOMAIN accepted : accepted[i].source > e.source)]_vars

\* Two events that one report reads in their order, or of which it reads the first
\* or the last only, never bear the same source timestamp.  Where they do, the
\* stable sort leaves them in the order of arrival and the report follows it.
Untied(events, cid) ==
  \A d, e \in events :
    /\ d.cid = cid /\ e.cid = cid /\ d.type = e.type /\ d.source = e.source
    /\ d.type \in {"telemetry_observation", "production_order_context",
                   "recovery_decision_publication"}
    /\ Is("telemetry_observation", d) => d.metric = e.metric
    => d = e

\* The same events in source order, those of one time in the opposite order.
Before(stream, j, i) ==
  \/ stream[j].source < stream[i].source
  \/ stream[j].source = stream[i].source /\ j > i

Turn(stream, i) == Cardinality({j \in DOMAIN stream : Before(stream, j, i)})

Retold(stream) ==
  [n \in DOMAIN stream |-> stream[CHOOSE i \in DOMAIN stream : Turn(stream, i) = n - 1]]

Told == {accepted[i] : i \in DOMAIN accepted}

\* The reports do not depend on the order the feed delivered the events in: they
\* are those of the same events published in source order, whichever of two events
\* of one time came first.
ReportIgnoresArrivalOrder ==
  \A cid \in Cids(accepted) :
    Untied(Told, cid) => Report(accepted, cid) = Report(Retold(accepted), cid)

\* The plant's monitored fault at the time of a sample of the incident.
RelapseSampled(events, cid) ==
  \E d, e \in events :
    /\ Is("machine_event", d) /\ d.cid = cid /\ d.code = MonitoredFault
    /\ Is("telemetry_observation", e) /\ e.cid = cid /\ e.source = d.source

\* A proposal "failed" is final: no event that arrives later, of whatever
\* timestamp, hides the fault again; and once the fault and a sample of its time
\* were accepted, in either order, the report does not make what
\* shadow_scorecard.py calls the catastrophic error.
FailedStaysFailed ==
  [][\A cid \in Cids(accepted') :
       /\ cid \in Cids(accepted) /\ Report(accepted, cid).proposed = "failed"
            => Report(accepted', cid).proposed = "failed"
       /\ RelapseSampled(Told', cid)
            => ~FalseVerification(Report(accepted', cid))]_vars
=============================================================================
