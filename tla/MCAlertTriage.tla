---------------------------- MODULE MCAlertTriage ----------------------------
(***************************************************************************)
(* Three alerts, two of which end in the same suffix, two triage requests  *)
(* at a time, answers of every kind a model can give, and a manual with an *)
(* obsolete revision that repeats the approved one, a note, and a revision *)
(* that becomes effective tomorrow.                                        *)
(***************************************************************************)
EXTENDS AlertTriage, TLC

CONSTANTS a1, a2, a3, s1, s2, r1, r2

MCAlert == {a1, a2, a3}
MCSuffix == {s1, s2}
MCRequest == {r1, r2}
MCSuffixOf == (a1 :> s1) @@ (a2 :> s2) @@ (a3 :> s1)
\* Requests are told apart by nothing, nor are the alerts of one suffix.
MCSymmetry == Permutations(MCRequest) \cup Permutations({a1, a3})
MCSafe == {"coupling_alignment", "bearing_replacement", "lubrication", "inspection"}
MCAnswers ==
  { [causes |-> "no reply", kind |-> "", contingency |-> ""],
    [causes |-> "usable", kind |-> "lubrication", contingency |-> "restart the line"],
    [causes |-> "none", kind |-> "restart the line", contingency |-> "bearing_replacement"],
    [causes |-> "unsliceable", kind |-> "inspection", contingency |-> "inspection"],
    [causes |-> "usable", kind |-> "inspection", contingency |-> "unhashable"] }

Chunk(doc, rev, text, component, status, superseded, effective, score) ==
  [doc |-> doc, rev |-> rev, section |-> "limits", text |-> text, model |-> "CDX-220",
   component |-> component, status |-> status, superseded |-> superseded,
   effective |-> effective, score |-> score]
MCCorpora ==
  { << Chunk("manual", "B", "4.0", ALL, "APPROVED", FALSE, 0, 8),
       Chunk("manual", "A", "4.0", ALL, "APPROVED", TRUE, 0, 8),
       Chunk("note", "1", "6.0", "coupling", "UNAPPROVED", FALSE, 0, 9) >>,
    << Chunk("manual", "A", "4.0", ALL, "APPROVED", FALSE, 0, 7),
       Chunk("manual", "C", "3.5", ALL, "APPROVED", FALSE, 1, 9),
       Chunk("note", "1", "4.0", "bearing", "UNAPPROVED", FALSE, 0, 8) >> }
=============================================================================
