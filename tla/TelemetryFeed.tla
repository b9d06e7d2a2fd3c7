---------------------------- MODULE TelemetryFeed ----------------------------
(***************************************************************************)
(* The telemetry of one machine and everything that feeds or reads it:     *)
(* POST /telemetry, missions created from uploads and their verification   *)
(* run (intake_mission.py, uploaded_verification.py), and the verification *)
(* windows of several incidents on the machine, which take its unconsumed  *)
(* samples first in, first out, and synthetic ones when there are none     *)
(* (telemetry.py, cycle_engine.py).                                        *)
(*                                                                         *)
(* Two requests are read and write of their own, for others can come in    *)
(* between: the ingest, with its read of the highest sequence number, and  *)
(* the advance, whose read of the next unconsumed sample takes no lock.    *)
(* One advance of a mission is in flight at a time.  The workflow of a     *)
(* mission is kept as far as it decides which samples are read; its        *)
(* details are those of RecoveryWorkflow.                                  *)
(***************************************************************************)
EXTENDS MissionIntake, ContractEvaluation, Ascending

CONSTANTS
  Mission,       \* bound: the missions created
  Tables,        \* the exports that are uploaded
  Batches,       \* the batches of readings an edge system posts
  RelapseCycle,  \* ScenarioPhysics.RELAPSE_CYCLE
  MaxBatches,    \* bound: batches posted
  MaxObserved    \* bound: observations recorded

ASSUME FeedAssumption ==
  /\ RelapseCycle \in Nat \ {0}
  /\ MaxBatches \in Nat /\ MaxObserved \in Nat
  /\ NoFault = "none" /\ ContractFault \notin SeriesNulls
  /\ \A b \in Batches : b \in Seq(ToSet(b))
  /\ \A t \in DOMAIN Tables :
       /\ Tables[t].columns \in Seq(ToSet(Tables[t].columns))
       /\ Tables[t].rows \in Seq(ToSet(Tables[t].rows))
       /\ \A r \in ToSet(Tables[t].rows) :
            /\ r.time \in Int
            /\ \A c \in ToSet(Tables[t].columns) : r.number[c] \in Int

VARIABLES
  samples,       \* TelemetrySample rows of the machine, as committed
  posting,       \* POST /telemetry requests between their read and their commit
  advancing,     \* [Mission -> the row an advance has read and not yet committed]
  posted,        \* number of batches posted
  observations,  \* RecoveryObservation rows, in the order they are written
  missions,      \* [Mission -> the incident, its intake and its window]
  profiles,      \* the mappings of saved MappingProfile rows
  staffed        \* a technician is among the users (data of the installation)

feedVars == <<samples, posting, advancing, posted, observations, missions, profiles, staffed>>

NotAdvancing == -1

NoMission == [ state |-> "absent", series |-> <<>>, fault |-> "none", table |-> 0,
               relapse |-> FALSE, readiness |-> "blocked",
               mapping |-> <<>>, ran |-> "no", released |-> FALSE,
               window |-> 0, streak |-> 0, verdict |-> "monitoring" ]

FeedInit ==
  /\ samples = <<>> /\ posting = {} /\ posted = 0 /\ observations = <<>>
  /\ advancing = [m \in Mission |-> NotAdvancing]
  /\ missions = [m \in Mission |-> NoMission]
  /\ profiles = {} /\ staffed \in BOOLEAN

-----------------------------------------------------------------------------
\* A sample knows where it came from: the batch, or the mission it was uploaded
\* for (extra.upload_incident_id).
Row(origin, at, s, seq) ==
  [origin |-> origin, at |-> at, reading |-> s, seq |-> seq, consumed |-> FALSE]
HighestSeq == IF samples = <<>> THEN 0 ELSE Max({samples[i].seq : i \in DOMAIN samples})

\* ingest_telemetry(): the read of max(seq), then the rows and the commit.
PostBegins(batch) ==
  /\ posted < MaxBatches
  /\ posted' = posted + 1
  /\ posting' = posting \cup {[id |-> posted', base |-> HighestSeq, batch |-> batch]}
  /\ UNCHANGED <<samples, advancing, observations, missions, profiles, staffed>>

PostCommits(p) ==
  /\ posting' = posting \ {p}
  /\ samples' = samples \o
       [i \in DOMAIN p.batch |-> Row([edge |-> TRUE, id |-> p.id], i, p.batch[i], p.base + i)]
  /\ UNCHANGED <<advancing, posted, observations, missions, profiles, staffed>>

\* A MappingProfile row: the mapping, of the columns that have a target.
Profile(map) == [c \in {d \in DOMAIN map : map[d] # Unmapped} |-> map[c]]

\* create_mission_from_upload(): analyse the export, save the mapping it used as
\* a profile, create the incident with its intake.
CreateMission(m, t, saved) ==
  LET intake == Analysis(Tables[t], saved)
  IN  /\ missions[m].state = "absent"
      /\ missions' = [missions EXCEPT ![m] =
           [NoMission EXCEPT
              !.state = "INTERVENTION_RECORDED", !.table = t,
              !.mapping = intake.mapping, !.series = intake.series,
              !.fault = intake.fault, !.relapse = intake.relapse,
              !.readiness = intake.readiness]]
      /\ profiles' = profiles \cup {Profile(intake.mapping)}
      /\ UNCHANGED <<samples, posting, advancing, posted, observations, staffed>>

-----------------------------------------------------------------------------
\* Mutant: the latest reading first.
NextRow_Newest(rows) ==
  LET free == {i \in DOMAIN rows : ~rows[i].consumed}
  IN  IF free = {} THEN 0
      ELSE CHOOSE i \in free : \A j \in free :
             rows[j].seq < rows[i].seq \/ (rows[j].seq = rows[i].seq /\ j <= i)

\* resolve_source() and IngestedTelemetrySource.next_sample(): the unconsumed row
\* with the least seq (of equals, the first stored), 0 if there is none.
NextRow(rows) ==
  LET free == {i \in DOMAIN rows : ~rows[i].consumed}
  IN  IF free = {} THEN 0
      ELSE CHOOSE i \in free : \A j \in free :
             rows[i].seq < rows[j].seq \/ (rows[j].seq = rows[i].seq /\ i <= j)

\* ScenarioPhysics.synthesize_cycle(): it relapses in the first window only.
Synthetic(window, cycle) ==
  IF window = 1 /\ cycle >= RelapseCycle
  THEN [fault |-> ContractFault, value |-> [k \in ScalarKeys |-> "fail"], temp |-> 9]
  ELSE [fault |-> NoFault, value |-> [k \in ScalarKeys |-> "pass"],
        temp |-> IF cycle = 1 THEN 9 ELSE 8]

WindowOf(o, m, w) == Only(o, {k \in DOMAIN o : o[k].mission = m /\ o[k].window = w})
ReadingsOf(o, m, w) ==
  LET x == WindowOf(o, m, w)
  IN  [i \in DOMAIN x |-> [fault |-> x[i].reading.fault, value |-> x[i].reading.value,
                           cooler |-> x[i].reading.temp < x[1].reading.temp]]

\* Mutant: the row is not marked.
Marked_Not(rows, i) == rows

Marked(rows, i) == IF i = 0 THEN rows ELSE [rows EXCEPT ![i].consumed = TRUE]

\* advance_cycle() on the window of mission m, with row i of the machine or, if it
\* is 0, a synthetic reading.
Cycle(m, i, now) ==
  LET cycle == Len(WindowOf(now.observations, m, now.mission.window)) + 1
      reading == IF i = 0 THEN Synthetic(now.mission.window, cycle)
                 ELSE now.samples[i].reading
      o == Append(now.observations, [mission |-> m, window |-> now.mission.window,
                                     row |-> i, reading |-> reading])
      readings == ReadingsOf(o, m, now.mission.window)
      streak == NextStreak(now.mission.streak, Latest(readings))
  IN  [ samples |-> Marked(now.samples, i),
        observations |-> o,
        mission |-> [now.mission EXCEPT
          !.streak = streak,
          !.verdict = Verdict(readings, streak,
                              IF now.mission.released THEN "fresh" ELSE "missing",
                              IF now.mission.released THEN "APPROVED" ELSE "PENDING")] ]

\* advance() within one transaction: n cycles, fewer when one of them decides.
Advanced(m, n, before) ==
  LET after[k \in 0 .. n] ==
        IF k = 0 THEN before
        ELSE IF after[k - 1].mission.verdict # "monitoring" THEN after[k - 1]
        ELSE Cycle(m, NextRow(after[k - 1].samples), after[k - 1])
  IN  after[n]

\* The state the incident is in after the verdict (recovery_service.advance()).
StateAfter(mission) ==
  CASE mission.verdict = "violated"   -> "CONTINGENCY_AWAITING_APPROVAL"
    [] mission.verdict = "verified"   -> "VERIFIED_RECOVERY"
    [] mission.verdict = "monitoring" -> "MONITORING_RECOVERY"

Monitoring(mission, w) ==
  [mission EXCEPT !.state = "MONITORING_RECOVERY", !.window = w, !.streak = 0,
                  !.verdict = "monitoring"]

\* Mutant: whatever is left on the machine is reclaimed.
Reclaimed_All(m, rows) == [i \in DOMAIN rows |-> [rows[i] EXCEPT !.consumed = TRUE]]

\* _consume_leftovers(): the rows of this upload.
Reclaimed(m, rows) ==
  [i \in DOMAIN rows |->
     IF rows[i].origin = [edge |-> FALSE, id |-> m] THEN [rows[i] EXCEPT !.consumed = TRUE]
     ELSE rows[i]]

\* review, _satisfy_monitoring() and start_monitoring(): measurement, completion
\* and the review of the contract, never the quality release.
Prepared(mission) == Monitoring(mission, 1)

\* run_uploaded_verification(), committed when it ran: the upload is ingested
\* after every row there is, a contract drafted, and as many cycles advanced as
\* the upload has.  Without a technician the measurement stays missing, and the
\* run ends before monitoring with its rows on the machine.
RunVerification(m) ==
  LET base == HighestSeq
      series == missions[m].series
      ingested == samples \o
        [i \in DOMAIN series |-> Row([edge |-> FALSE, id |-> m], i, series[i], base + i)]
  IN  /\ missions[m].state = "INTERVENTION_RECORDED"
      /\ series # <<>>
      /\ missions[m].fault = ContractFault
      /\ Len(observations) + Len(series) <= MaxObserved
      /\ IF staffed
         THEN LET end == Advanced(m, Len(series),
                           [samples |-> ingested, observations |-> observations,
                            mission |-> Prepared(missions[m])])
              IN  /\ samples' = Reclaimed(m, end.samples)
                  /\ observations' = end.observations
                  /\ missions' = [missions EXCEPT ![m] =
                       [end.mission EXCEPT !.state = StateAfter(end.mission), !.ran = "judged"]]
         ELSE /\ samples' = ingested
              /\ missions' = [missions EXCEPT ![m].state = "AWAITING_REQUIRED_EVIDENCE",
                                              ![m].ran = "blocked"]
              /\ UNCHANGED observations
      /\ UNCHANGED <<posting, advancing, posted, profiles, staffed>>

\* The operators supply what the run could not, and start monitoring.
StartMonitoring(m) ==
  /\ missions[m].state = "AWAITING_REQUIRED_EVIDENCE"
  /\ missions' = [missions EXCEPT ![m] = Monitoring(@, 1)]
  /\ UNCHANGED <<samples, posting, advancing, posted, observations, profiles, staffed>>

\* First-piece evidence and the quality engineer's approval.
ReleaseQuality(m) ==
  /\ missions[m].state = "MONITORING_RECOVERY"
  /\ ~missions[m].released
  /\ missions' = [missions EXCEPT ![m].released = TRUE]
  /\ UNCHANGED <<samples, posting, advancing, posted, observations, profiles, staffed>>

\* POST /incidents/{id}/advance with n = 1: next_sample() reads a row that is not
\* consumed, without a lock.
AdvanceBegins(m) ==
  /\ missions[m].state = "MONITORING_RECOVERY"
  /\ advancing[m] = NotAdvancing
  /\ Len(observations) < MaxObserved
  /\ advancing' = [advancing EXCEPT ![m] = NextRow(samples)]
  /\ UNCHANGED <<samples, posting, posted, observations, missions, profiles, staffed>>

\* The row is marked, observed and evaluated, whoever has marked it in between.
AdvanceCommits(m) ==
  /\ advancing[m] # NotAdvancing
  /\ LET end == Cycle(m, advancing[m], [samples |-> samples, observations |-> observations,
                                         mission |-> missions[m]])
     IN  /\ samples' = end.samples
         /\ observations' = end.observations
         /\ missions' = [missions EXCEPT ![m] =
              [end.mission EXCEPT !.state = StateAfter(end.mission)]]
  /\ advancing' = [advancing EXCEPT ![m] = NotAdvancing]
  /\ UNCHANGED <<posting, posted, profiles, staffed>>

\* The request dies or raises, as when the one row it saw is gone when it is read
\* (NoTelemetryAvailable): nothing of it is kept.
AdvanceFails(m) ==
  /\ advancing[m] # NotAdvancing
  /\ advancing' = [advancing EXCEPT ![m] = NotAdvancing]
  /\ UNCHANGED <<samples, posting, posted, observations, missions, profiles, staffed>>

\* approve_contingency() and complete_contingency(): a window of contract V2,
\* which needs a release of its own.
CompleteContingency(m) ==
  /\ missions[m].state = "CONTINGENCY_AWAITING_APPROVAL"
  /\ missions' = [missions EXCEPT ![m] = [Monitoring(@, missions[m].window + 1)
                                            EXCEPT !.released = FALSE]]
  /\ UNCHANGED <<samples, posting, advancing, posted, observations, profiles, staffed>>

FeedNext ==
  \/ \E b \in Batches : PostBegins(b)
  \/ \E p \in posting : PostCommits(p)
  \/ \E m \in Mission :
       \/ \E t \in DOMAIN Tables, saved \in profiles \cup {<<>>} : CreateMission(m, t, saved)
       \/ RunVerification(m)
       \/ StartMonitoring(m)
       \/ ReleaseQuality(m)
       \/ AdvanceBegins(m)
       \/ AdvanceCommits(m)
       \/ AdvanceFails(m)
       \/ CompleteContingency(m)

FeedSpec == FeedInit /\ [][FeedNext]_feedVars

-----------------------------------------------------------------------------
(***************************************************************************)
(* Properties.                                                             *)
(***************************************************************************)
JudgedAt(i) == {k \in DOMAIN observations : observations[k].row = i}
Own(m, i) == samples[i].origin = [edge |-> FALSE, id |-> m]

FeedTypeOK ==
  /\ \A i \in DOMAIN samples : samples[i].seq \in Nat /\ samples[i].consumed \in BOOLEAN
  /\ \A k \in DOMAIN observations :
       observations[k].row \in 0 .. Len(samples) /\ observations[k].mission \in Mission
  /\ \A m \in Mission :
       /\ missions[m].state \in {"absent", "INTERVENTION_RECORDED",
            "AWAITING_REQUIRED_EVIDENCE", "MONITORING_RECOVERY",
            "CONTINGENCY_AWAITING_APPROVAL", "VERIFIED_RECOVERY"}
       /\ missions[m].streak \in 0 .. Len(WindowOf(observations, m, missions[m].window))

\* Whatever missions share the machine, a sample is consumed just when a cycle
\* judged it, or when it is what a finished run left over of its own upload: no
\* reading of an edge system disappears unjudged, none is judged and then offered
\* again, and a request that dies gives back what it read.  Two missions may judge
\* the same reading, when their advances overlap; one mission never does so twice.
NoReadingIsLost ==
  \A i \in DOMAIN samples :
    /\ samples[i].consumed <=>
         \/ JudgedAt(i) # {}
         \/ \E m \in Mission : Own(m, i) /\ missions[m].ran = "judged"
    /\ \A k, l \in JudgedAt(i) : observations[k].mission = observations[l].mission => k = l

\* uploaded_verification.py, "so we never reorder": the readings of one batch or
\* of one upload are judged in their own order and without a gap, also when two
\* requests gave their rows the same sequence numbers.
ReadingsKeepTheirOrder ==
  \A i, j \in DOMAIN samples :
    samples[i].origin = samples[j].origin /\ samples[i].at < samples[j].at =>
      \A k \in JudgedAt(j) : \E l \in JudgedAt(i) : l < k

JudgedOwnOnly(m) ==
  \A k \in DOMAIN observations :
    observations[k].mission = m /\ observations[k].window = 1 =>
      observations[k].row # 0 /\ Own(m, observations[k].row)

\* The export of the mission is within the cap of its series.
Whole(m) == Len(Tables[missions[m].table].rows) <= SeriesCap

SeenAlike(m) ==
  /\ missions[m].ran = "judged" /\ Whole(m) /\ missions[m].window = 1 /\ JudgedOwnOnly(m) =>
       missions[m].state = "CONTINGENCY_AWAITING_APPROVAL"
  /\ missions[m].fault = ContractFault /\ Whole(m) =>
       \E i \in DOMAIN missions[m].series : missions[m].series[i].fault = ContractFault
  /\ missions[m].state # "absent" /\ missions[m].readiness # "blocked" =>
       missions[m].series # <<>>

\* What the intake saw is what the evaluator sees, of an export that is within the
\* cap of its series: from the table through the mapping, the series, the samples
\* and the window, a run that judged nothing but its own upload rejects it, for it
\* only runs on an upload with the fault; and the fault that makes it run, with it a
\* false closure that reconstruct() reports of it, is in the series.  Of any export,
\* a mission whose readiness report does not block has readings to verify.
IntakeAndEvaluatorAgree == \A m \in Mission : SeenAlike(m)

=============================================================================
