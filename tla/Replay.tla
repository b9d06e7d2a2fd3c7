------------------------------- MODULE Replay -------------------------------
(***************************************************************************)
(* Two services that replay the recorded cycles of a window after the fact *)
(* and tell people what happened: the recovery twin (services/             *)
(* recovery_twin.py), which marks the cycles of a scrubber, and the        *)
(* sensitivity analysis (services/sensitivity.py), which asks what windows *)
(* of other lengths would have decided.  Each keeps a streak of its own.   *)
(***************************************************************************)
EXTENDS ContractEvaluation

\* Mutant: an unstable cycle does not end the streak.
Streaks_NoReset(obs) ==
  LET s[i \in 0 .. Len(obs)] ==
        IF i = 0 THEN 0 ELSE IF IsStable(obs[i]) THEN s[i - 1] + 1 ELSE s[i - 1]
  IN  s

\* The streak after each cycle, from 0 before the first.
Streaks(obs) ==
  LET s[i \in 0 .. Len(obs)] ==
        IF i = 0 THEN 0 ELSE IF IsStable(obs[i]) THEN s[i - 1] + 1 ELSE 0
  IN  s

Faulted(obs) == {i \in DOMAIN obs : obs[i].fault # NoFault}

First(cycles) == IF cycles = {} THEN 0 ELSE CHOOSE i \in cycles : \A j \in cycles : i <= j

\* The first cycle of a window at which its streak is long enough, 0 if none.
CompletedAt(obs) == First({i \in DOMAIN obs \ Faulted(obs) : Streaks(obs)[i] >= Required})

Relapses(windows) ==
  UNION {{[window |-> v, cycle |-> i, kind |-> "relapse"] : i \in Faulted(windows[v])} :
           v \in DOMAIN windows}

\* Mutant: apparent_recovery_logged begins anew in every window.
Markers_PerWindow(windows) ==
  Relapses(windows) \cup
  {[window |-> v, cycle |-> CompletedAt(windows[v]), kind |-> "window_complete"] :
     v \in {u \in DOMAIN windows : CompletedAt(windows[u]) # 0}}

\* build_twin(): the markers of the windows of an incident, in their order.  Every
\* fault is marked, but only the first window that completes is marked as complete
\* (apparent_recovery_logged is set once for all the windows).
Markers(windows) ==
  LET complete == First({v \in DOMAIN windows : CompletedAt(windows[v]) # 0})
  IN  Relapses(windows) \cup
      {[window |-> v, cycle |-> CompletedAt(windows[v]), kind |-> "window_complete"] :
         v \in {complete} \ {0}}

-----------------------------------------------------------------------------
\* analyze(): reach and relapse_cycle, 0 where the code has no entry, and the
\* outcome of a window of k cycles.
Reach(obs, k) == First({i \in DOMAIN obs : Streaks(obs)[i] = k})
FirstRelapse(obs) == First(Faulted(obs))

SweepOutcome(obs, k) ==
  LET close == Reach(obs, k)
      relapse == FirstRelapse(obs)
  IN  IF close # 0 /\ (relapse = 0 \/ close < relapse)
      THEN IF relapse = 0 THEN "verified" ELSE "false_close"
      ELSE IF relapse = 0 THEN "incomplete" ELSE "caught_relapse"

\* "safe": the contract's window is not shorter than the way to the relapse.
SafelyCalibrated(obs) == FirstRelapse(obs) = 0 \/ Required >= FirstRelapse(obs)
=============================================================================
