--------------------------- MODULE MCTelemetryFeed ---------------------------
(***************************************************************************)
(* TelemetryFeed with two missions on one machine, three exports (one with *)
(* a recurrence at cycle 2 of 3, out of the order of the file, whose two   *)
(* code columns compete; an empty one; and one that has cycle times and no *)
(* cycle numbers) and a batch of two good readings, whose numbers may be   *)
(* those of an upload.  Two stable cycles are required, so that a window   *)
(* can be verified by the readings of others.                              *)
(***************************************************************************)
EXTENDS TelemetryFeed

CONSTANTS vibration, forever, first, second

MCMission  == {first, second}
MCSymmetry == Permutations(MCMission)

MCScalarKeys == {vibration}
MCDeadline   == [k \in MCScalarKeys |-> forever]
MCFaults     == {"F27", "F31"}
MCNoFault    == "none"
MCFault      == "F27"

MCCodeColumns  == {"fault", "alarm"}
MCCycleColumns == {"cycle", "cycle time"}
MCSynonyms     == {"fault", "alarm", "cycle"}
Like(t) == [u \in Target |-> IF u = t THEN 100 ELSE 0]
MCLikeness ==
  [c \in {"machine", "time", "cycle", "cycle time", "fault", "alarm", "approver"} |->
     CASE c = "machine"  -> Like("source_id")
       [] c = "time"     -> Like("source_timestamp")
       [] c = "cycle"    -> Like("cycle_index")
       [] c = "cycle time" -> Like("none")
       [] c = "fault"    -> Like("event_code")
       [] c = "alarm"    -> [Like("event_code") EXCEPT !["event_code"] = 82]
       [] c = "approver" -> Like("decided_by")]

Kind == [c \in DOMAIN MCLikeness |->
           CASE c = "time" -> "time" [] c \in MCCycleColumns -> "number"
             [] OTHER -> "category"]

TableRow(time, number, fault, alarm, temp) ==
  [ time |-> time, temp |-> temp, number |-> [c \in DOMAIN MCLikeness |-> number],
    code |-> [c \in MCCodeColumns |-> IF c = "fault" THEN fault ELSE alarm],
    value |-> [k \in MCScalarKeys |-> IF fault = "F27" THEN "fail" ELSE "pass"] ]

Rows == << TableRow(2, 2, "F27", "none", 8), TableRow(1, 1, "none", "F31", 9),
           TableRow(3, 3, "no", "none", 7) >>

MCTables == <<
  [ columns |-> <<"machine", "time", "cycle", "alarm", "fault", "approver">>, kind |-> Kind,
    missing |-> 10, rows |-> Rows ],
  [ columns |-> <<"machine", "time", "approver">>, kind |-> Kind,
    missing |-> 0, rows |-> <<>> ],
  [ columns |-> <<"time", "cycle time", "fault">>, kind |-> Kind,
    missing |-> 0, rows |-> SubSeq(Rows, 1, 2) ] >>

Good(temp) == [fault |-> "none", value |-> [k \in MCScalarKeys |-> "pass"], temp |-> temp]
MCBatches == { <<Good(6), Good(5)>> }
=============================================================================
