------------------------ MODULE MCVerificationWindow ------------------------
(***************************************************************************)
(* VerificationWindow on a contract with two scalar conditions, one with a *)
(* deadline and one without, and a window of two stable cycles.            *)
(***************************************************************************)
EXTENDS VerificationWindow

CONSTANTS vibration, scrap, f27, e12, none, forever

MCScalarKeys == {vibration, scrap}
MCDeadline   == [k \in MCScalarKeys |-> IF k = vibration THEN 2 ELSE forever]
MCFaults     == {f27, e12}

Stable(cooler) == [fault |-> none, value |-> [k \in MCScalarKeys |-> "pass"], cooler |-> cooler]
Relapse        == [Stable(FALSE) EXCEPT !.fault = f27]

\* No window before, one that relapsed at once, one that was complete and waited for
\* the quality release when it relapsed, and both.
MCEarlier == { <<>>, << <<Relapse>> >>, << <<Stable(FALSE), Stable(TRUE), Relapse>> >>,
               << <<Relapse>>, <<Stable(FALSE), Stable(TRUE), Relapse>> >> }

\* RelapseIsNeverMasked and StreakIsLongestStableSuffix need a fault in a
\* window that is already complete: at least Required + 1 cycles.
ASSUME MaxCycles > Required
=============================================================================
