---------------------------- MODULE MissionIntake ----------------------------
(***************************************************************************)
(* From an uploaded plant export to a mission: backend/app/services/       *)
(* intake.py and the reading of the export in intake_mission.py.  A table  *)
(* has columns and rows; columns are mapped onto canonical targets, by     *)
(* their names or by a saved profile; the mapped table is judged ready or  *)
(* not, its incident is reconstructed, and its cycles become a series of   *)
(* readings for the evaluator.  All of it is a pure function of the table. *)
(*                                                                         *)
(* A cell is kept as far as these functions tell cells apart.  Only fault  *)
(* codes and cycle numbers come in several columns: there columns compete. *)
(***************************************************************************)
EXTENDS Integers, Sequences, FiniteSets, SequencesExt

CONSTANTS
  Likeness,     \* [column -> [target -> 0..100]]: _score() of a header, 0 if unlike
  CodeColumns,  \* the columns that hold fault codes, by header (_FAULT_SYNONYMS)
  CycleColumns, \* those taken for a cycle number, by header (_CYCLE_SYNONYMS)
  Synonyms,     \* of both, those whose header is a synonym and not just like one
  SeriesCap     \* build_telemetry_series(cap), 5000 in the code

ASSUME IntakeAssumption ==
  /\ CodeColumns \cup CycleColumns \subseteq DOMAIN Likeness
  /\ "no column" \notin DOMAIN Likeness
  /\ SeriesCap \in Nat \ {0}

\* CANONICAL, in its order, as far as the functions below consult it.
CANONICAL == << "source_id", "source_timestamp", "event_code", "cycle_index",
                "quality_result", "lot_id", "decided_by" >>
Target == ToSet(CANONICAL)
Unmapped == "unmapped"
NoColumn == "no column"

\* The kind a canonical field asks of its column; a column of another kind is
\* less likely meant (the type compatibility nudges of propose_mapping()).
FieldKind(t) == CASE t = "source_timestamp" -> "time"
                  [] t = "cycle_index"      -> "number"
                  [] OTHER                  -> "any"
Nudged(c, kind, t) ==
  CASE FieldKind(t) = "number" /\ kind # "number" -> Likeness[c][t] \div 2
    [] FieldKind(t) = "time" /\ kind # "time"     -> (Likeness[c][t] * 2) \div 5
    [] OTHER                                      -> Likeness[c][t]

\* propose_mapping(): the likeliest target, the first of equals, if likely at all.
Proposed(c, kind) ==
  LET score(i) == Nudged(c, kind, CANONICAL[i])
      best == CHOOSE i \in DOMAIN CANONICAL :
                \A j \in DOMAIN CANONICAL :
                  score(j) < score(i) \/ (score(j) = score(i) /\ i <= j)
  IN  IF score(best) >= 40 THEN CANONICAL[best] ELSE Unmapped

\* apply_saved_mapping(): a saved profile (a function of the columns it maps)
\* decides for its own columns, the proposal for every other.
Mapping(table, saved) ==
  [c \in ToSet(table.columns) |->
     IF c \in DOMAIN saved THEN saved[c] ELSE Proposed(c, table.kind[c])]

\* {(event, field): column}: of two columns with one target the later one stays.
ColumnFor(table, map, t) ==
  IF \E i \in DOMAIN table.columns : map[table.columns[i]] = t
  THEN table.columns[CHOOSE i \in DOMAIN table.columns :
         /\ map[table.columns[i]] = t
         /\ \A j \in DOMAIN table.columns : map[table.columns[j]] = t => j <= i]
  ELSE NoColumn
Has(table, map, t) == ColumnFor(table, map, t) # NoColumn

-----------------------------------------------------------------------------
NoTime == -1     \* a cell _parse_ts() cannot read
NoNumber == -1   \* a cell that is not a number

\* The spellings each function takes for "no fault" differ.
ReconstructNulls == {"none"}
FirstFaultNulls  == {"none", "false"}
SeriesNulls      == {"none", "false", "no"}

\* A stable sort of rows by a number, keys[i] of the i-th.
Position(keys, i) ==
  Cardinality({j \in DOMAIN keys :
                 keys[j] < keys[i] \/ (keys[j] = keys[i] /\ j < i)})

SortedBy(rows, keys) ==
  [n \in DOMAIN rows |-> rows[CHOOSE i \in DOMAIN rows : Position(keys, i) = n - 1]]

Times(rows)     == [i \in DOMAIN rows |-> rows[i].time]
Cycles(rows, c) == [i \in DOMAIN rows |->
                      IF rows[i].number[c] = NoNumber THEN 0 ELSE rows[i].number[c]]

Readable(rows) == {i \in DOMAIN rows : rows[i].time # NoTime}

\* Mutant: a time column is taken to be readable.
BlockedDimensions_AnyTime(table, map) ==
  {d \in {"Completeness", "Timestamp", "Asset", "Authorization"} :
     CASE d = "Completeness"  -> table.missing > 20
       [] d = "Timestamp"     -> ~Has(table, map, "source_timestamp")
       [] d = "Asset"         -> ~Has(table, map, "source_id")
       [] d = "Authorization" -> ~Has(table, map, "decided_by")}

\* assess_readiness(): what blocks, what passes, the score (rounded down here,
\* which no threshold tells from rounding) and the verdict.
BlockedDimensions(table, map) ==
  {d \in {"Completeness", "Timestamp", "Asset", "Authorization"} :
     CASE d = "Completeness"  -> table.missing > 20
       [] d = "Timestamp"     -> \/ ~Has(table, map, "source_timestamp")
                                 \/ Readable(table.rows) = {}
       [] d = "Asset"         -> ~Has(table, map, "source_id")
       [] d = "Authorization" -> ~Has(table, map, "decided_by")}

TimesOrdered(rows) ==
  LET t == SelectSeq(rows, LAMBDA r : r.time # NoTime)
  IN  t # <<>> /\ \A i \in 1 .. Len(t) - 1 : t[i].time <= t[i + 1].time

PassingDimensions(table, map) ==
  {t \in Target \ {"source_timestamp"} : Has(table, map, t)}
    \cup {d \in {"Completeness"} : table.missing <= 5}
    \cup {d \in {"Timestamp"} :
            Has(table, map, "source_timestamp") /\ TimesOrdered(table.rows)}

Score(table, map) ==
  LET s == (100 * Cardinality(PassingDimensions(table, map))) \div 8
             - 6 * Cardinality(BlockedDimensions(table, map))
  IN  IF s < 0 THEN 0 ELSE s

Readiness(table, map) ==
  IF BlockedDimensions(table, map) # {} THEN "blocked"
  ELSE IF Score(table, map) >= 70 THEN "ready" ELSE "warn"

-----------------------------------------------------------------------------
\* The code a row shows in a column, no fault where there is no such column.
Code(r, c) == IF c = NoColumn THEN "none" ELSE r.code[c]

\* reconstruct(): the faults of the table in order of time, and whether the
\* recovery seems not to have held: the first fault after cycle 1, or, where the
\* first has no cycle, a second one.
FaultRows(table, map) ==
  LET c == ColumnFor(table, map, "event_code")
      rows == IF Has(table, map, "source_timestamp")
              THEN SortedBy(table.rows, Times(table.rows)) ELSE table.rows
  IN  SelectSeq(rows, LAMBDA r : Code(r, c) \notin ReconstructNulls)

FalseClosureDetected(table, map) ==
  LET f == FaultRows(table, map)
      c == ColumnFor(table, map, "cycle_index")
  IN  /\ f # <<>>
      /\ IF c # NoColumn /\ f[1].number[c] # NoNumber
         THEN f[1].number[c] > 1 ELSE Len(f) >= 2

\* create_mission_from_upload(), _first_fault(): in the order of the file.
FirstFault(table, map) ==
  LET c == ColumnFor(table, map, "event_code")
      faulty == {i \in DOMAIN table.rows : Code(table.rows[i], c) \notin FirstFaultNulls}
  IN  IF faulty = {} THEN "none" ELSE Code(table.rows[Min(faulty)], c)

\* _match_col(): the first column of the table whose header is a synonym, else the
\* first whose header is like one: a column of cycle times will do for a cycle number.
FirstIn(columns, S) ==
  LET at == {i \in DOMAIN columns : columns[i] \in S}
  IN  IF at = {} THEN NoColumn ELSE columns[Min(at)]
MatchCol(columns, like) ==
  IF FirstIn(columns, like \cap Synonyms) # NoColumn
  THEN FirstIn(columns, like \cap Synonyms) ELSE FirstIn(columns, like)

\* build_telemetry_series(): the column mapped to a target, or one that matches,
\* whatever that column is mapped to.
MappedOrLike(table, map, t, like) ==
  IF Has(table, map, t) THEN ColumnFor(table, map, t) ELSE MatchCol(table.columns, like)
SeriesColumn(table, map) == MappedOrLike(table, map, "event_code", CodeColumns)
CycleColumn(table, map) == MappedOrLike(table, map, "cycle_index", CycleColumns)

\* Mutant: rows with a fault code are left out as unusable.
TelemetrySeries_SkipsFaults(table, map) ==
  LET c == SeriesColumn(table, map)
      rows == SelectSeq(table.rows, LAMBDA r : Code(r, c) \in SeriesNulls)
  IN  [i \in DOMAIN rows |-> [fault |-> "none", value |-> rows[i].value, temp |-> rows[i].temp]]

TelemetrySeries(table, map) ==
  LET c == SeriesColumn(table, map)
      entry(r) == [fault |-> IF Code(r, c) \in SeriesNulls THEN "none" ELSE Code(r, c),
                   value |-> r.value, temp |-> r.temp]
      cycle == CycleColumn(table, map)
      rows == IF cycle # NoColumn THEN SortedBy(table.rows, Cycles(table.rows, cycle))
              ELSE IF Has(table, map, "source_timestamp")
                   THEN SortedBy(table.rows, Times(table.rows)) ELSE table.rows
  IN  [i \in 1 .. (IF Len(rows) < SeriesCap THEN Len(rows) ELSE SeriesCap) |-> entry(rows[i])]

-----------------------------------------------------------------------------
\* analyze_upload(): what a mission keeps of its export as its intake, with the
\* series create_mission_from_upload() builds of it by the same mapping.
Analysis(table, saved) ==
  LET map == Mapping(table, saved)
  IN  [ mapping |-> map, readiness |-> Readiness(table, map),
        relapse |-> FalseClosureDetected(table, map), fault |-> FirstFault(table, map),
        series |-> TelemetrySeries(table, map) ]
=============================================================================
