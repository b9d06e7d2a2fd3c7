---------------------- MODULE VerificationWindow_proofs ----------------------
(***************************************************************************)
(* Proofs about VerificationWindow and the replays of its cycles (Replay), *)
(* for every contract: any scalar conditions, deadlines, fault codes and   *)
(* number of required cycles.                                              *)
(***************************************************************************)
EXTENDS VerificationWindow, SequenceTheorems, WellFoundedInduction, TLAPS

-----------------------------------------------------------------------------
(* Type correctness, and what one more observation does to a window.       *)

LEMMA VerdictTyped ==
  \A h, n, f, r : Verdict(h, n, f, r) \in {"monitoring", "violated", "verified"}
BY DEF Verdict

LEMMA TypeStep == TypeOK /\ [Next]_vars => TypeOK'
<1> SUFFICES ASSUME TypeOK, [Next]_vars PROVE TypeOK'
  OBVIOUS
<1>1. ASSUME NEW o \in Reading, AdvanceCycle(o) PROVE TypeOK'
  <2>1. obs' \in Seq(Reading) /\ Len(obs') = Len(obs) + 1 /\ Len(obs) \in Nat
    BY <1>1, AppendProperties, LenProperties DEF AdvanceCycle, TypeOK
  <2>2. streak' \in 0 .. Len(obs')
    BY <1>1, <2>1 DEF AdvanceCycle, TypeOK, NextStreak
  <2>3. verdict' \in {"monitoring", "violated", "verified"}
    BY <1>1, VerdictTyped DEF AdvanceCycle
  <2> QED  BY <1>1, <2>1, <2>2, <2>3, WindowAssumption DEF AdvanceCycle, TypeOK
<1>2. CASE SubmitFirstPiece
  BY <1>2 DEF SubmitFirstPiece, TypeOK
<1>3. CASE FirstPieceAges
  BY <1>3 DEF FirstPieceAges, TypeOK
<1>4. ASSUME NEW status \in {"APPROVED", "REJECTED"}, DecideRelease(status) PROVE TypeOK'
  BY <1>4 DEF DecideRelease, TypeOK
<1>5. CASE UNCHANGED vars
  BY <1>5 DEF vars, TypeOK
<1> QED  BY <1>1, <1>2, <1>3, <1>4, <1>5 DEF Next

\* Every state of a window is one its tables can hold.
THEOREM TypeCorrect == Spec => []TypeOK
<1>1. Init => TypeOK
  BY EmptySeq, WindowAssumption DEF Init, TypeOK
<1> QED  BY <1>1, TypeStep, PTL DEF Spec

\* advance_cycle() alone writes the window; it keeps the cycles before.
LEMMA OneMoreCycle ==
  ASSUME TypeOK, NEW o \in Reading, AdvanceCycle(o)
  PROVE  /\ Len(obs) \in Nat /\ Len(obs') = Len(obs) + 1
         /\ \A i \in 1 .. Len(obs) : obs'[i] = obs[i]
         /\ obs'[Len(obs) + 1] = o
         /\ streak' = IF IsStable(o) THEN streak + 1 ELSE 0
BY AppendProperties, LenProperties DEF TypeOK, AdvanceCycle, NextStreak

LEMMA WindowWrittenByAdvance ==
  ASSUME [Next]_vars
  PROVE  UNCHANGED <<obs, streak, verdict>> \/ \E o \in Reading : AdvanceCycle(o)
BY DEF Next, vars, SubmitFirstPiece, FirstPieceAges, DecideRelease

-----------------------------------------------------------------------------
(* The streak.                                                             *)

LEMMA StreakStep ==
  TypeOK /\ StreakIsLongestStableSuffix /\ [Next]_vars => StreakIsLongestStableSuffix'
<1> SUFFICES ASSUME TypeOK, StreakIsLongestStableSuffix, [Next]_vars
             PROVE  StreakIsLongestStableSuffix'
  OBVIOUS
<1>1. ASSUME NEW o \in Reading, AdvanceCycle(o) PROVE StreakIsLongestStableSuffix'
  <2> DEFINE n == Len(obs)
  <2>1. /\ n \in Nat /\ Len(obs') = n + 1
        /\ \A i \in 1 .. n : obs'[i] = obs[i]
        /\ obs'[n + 1] = o
        /\ streak' = IF IsStable(o) THEN streak + 1 ELSE 0
    BY <1>1, OneMoreCycle
  <2>2. streak \in 0 .. n
    BY DEF TypeOK
  <2>3. /\ \A i \in n - streak + 1 .. n : IsStable(obs[i])
        /\ streak < n => \E i \in n - streak .. n : ~IsStable(obs[i])
    BY <2>1, <2>2 DEF StreakIsLongestStableSuffix, StableSuffix
  <2> HIDE DEF n
  <2>4. ASSUME NEW i \in n + 1 - streak' + 1 .. n + 1 PROVE IsStable(obs'[i])
    <3>1. CASE i = n + 1
      BY <2>1, <2>2, <2>4, <3>1
    <3>2. CASE i # n + 1
      <4>1. IsStable(o) /\ i \in n - streak + 1 .. n /\ i \in 1 .. n
        BY <2>1, <2>2, <2>4, <3>2
      <4> QED  BY <2>1, <2>3, <4>1
    <3> QED  BY <3>1, <3>2
  <2>5. ASSUME streak' < n + 1 PROVE \E i \in n + 1 - streak' .. n + 1 : ~IsStable(obs'[i])
    <3>1. CASE IsStable(o)
      <4>1. streak < n /\ streak' = streak + 1
        BY <2>1, <2>2, <2>5, <3>1
      <4>2. PICK i \in n - streak .. n : ~IsStable(obs[i])
        BY <2>3, <4>1
      <4>3. i \in n + 1 - streak' .. n + 1 /\ i \in 1 .. n
        BY <2>1, <2>2, <4>1
      <4> QED  BY <2>1, <4>2, <4>3
    <3>2. CASE ~IsStable(o)
      BY <2>1, <3>2
    <3> QED  BY <3>1, <3>2
  <2>6. streak' \in 0 .. n + 1
    BY <2>1, <2>2
  <2>7. StableSuffix(streak)'
    BY <2>1, <2>4, <2>6 DEF StableSuffix
  <2>8. ASSUME streak' < Len(obs'), StableSuffix(streak + 1)' PROVE FALSE
    <3>1. PICK i \in n + 1 - streak' .. n + 1 : ~IsStable(obs'[i])
      BY <2>1, <2>5, <2>8
    <3>2. n + 1 - (streak' + 1) + 1 = n + 1 - streak'
      BY <2>1, <2>6
    <3>3. \A j \in n + 1 - (streak' + 1) + 1 .. n + 1 : IsStable(obs'[j])
      BY <2>1, <2>8 DEF StableSuffix
    <3> QED  BY <3>1, <3>2, <3>3
  <2> QED  BY <2>7, <2>8 DEF StreakIsLongestStableSuffix
<1>2. CASE UNCHANGED <<obs, streak, verdict>>
  BY <1>2 DEF StreakIsLongestStableSuffix, StableSuffix
<1> QED  BY <1>1, <1>2, WindowWrittenByAdvance

\* The counter the cycle engine keeps from one call to the next is, after any
\* number of cycles, the length of the longest run of stable ones at the end.
THEOREM StreakIsExact == Spec => []StreakIsLongestStableSuffix
<1>1. Init => StreakIsLongestStableSuffix
  BY EmptySeq DEF Init, StreakIsLongestStableSuffix, StableSuffix
<1> QED  BY <1>1, StreakStep, TypeCorrect, PTL DEF Spec

\* A run of the streak's length or less, and no other, ends at the last cycle.
LEMMA SuffixIffStreak ==
  ASSUME NEW h \in Seq(Reading), NEW s \in 0 .. Len(h), NEW n \in Nat,
         \A i \in Len(h) - s + 1 .. Len(h) : IsStable(h[i]),
         s < Len(h) => \E i \in Len(h) - s .. Len(h) : ~IsStable(h[i])
  PROVE  (n <= Len(h) /\ \A i \in Len(h) - n + 1 .. Len(h) : IsStable(h[i])) <=> n <= s
<1>1. Len(h) \in Nat /\ s \in Nat /\ s <= Len(h)
  BY LenProperties
<1>2. ASSUME n <= s PROVE n <= Len(h) /\ \A i \in Len(h) - n + 1 .. Len(h) : IsStable(h[i])
  BY <1>1, <1>2
<1>3. ASSUME n <= Len(h), \A i \in Len(h) - n + 1 .. Len(h) : IsStable(h[i]), ~(n <= s)
      PROVE  FALSE
  <2>1. PICK i \in Len(h) - s .. Len(h) : ~IsStable(h[i])
    BY <1>1, <1>3
  <2>2. i \in Len(h) - n + 1 .. Len(h)
    BY <1>1, <1>3, <2>1
  <2> QED  BY <1>3, <2>1, <2>2
<1> QED  BY <1>2, <1>3

-----------------------------------------------------------------------------
(* The verdict.                                                            *)

\* The evaluation reports the fault whatever else it finds.
LEMMA FaultMeansViolated ==
  ASSUME NEW h, NEW n, NEW f, NEW r, FaultRecurred(h)
  PROVE  Verdict(h, n, f, r) = "violated"
BY DEF Verdict, Violated, FaultStatus

\* A relapse is reported at the cycle it happens at, and nothing later hides it: a
\* later cycle, aging evidence or a decision of the quality engineer.
THEOREM RelapseReported == Spec => []RelapseIsNeverMasked
<1>1. Init => RelapseIsNeverMasked
  BY EmptySeq DEF Init, RelapseIsNeverMasked, FaultRecurred
<1>2. RelapseIsNeverMasked /\ [Next]_vars => RelapseIsNeverMasked'
  <2> SUFFICES ASSUME RelapseIsNeverMasked, [Next]_vars PROVE RelapseIsNeverMasked'
    OBVIOUS
  <2>1. ASSUME NEW o \in Reading, AdvanceCycle(o) PROVE RelapseIsNeverMasked'
    <3>1. verdict' = Verdict(obs', streak', firstPiece, release)
      BY <2>1 DEF AdvanceCycle
    <3> QED  BY <3>1, FaultMeansViolated DEF RelapseIsNeverMasked, FaultRecurred
  <2>2. CASE UNCHANGED <<obs, streak, verdict>>
    BY <2>2 DEF RelapseIsNeverMasked, FaultRecurred
  <2> QED  BY <2>1, <2>2, WindowWrittenByAdvance
<1> QED  BY <1>1, <1>2, PTL DEF Spec

\* What evaluate() requires for "verified", condition by condition.
LEMMA VerifiedMeans ==
  ASSUME NEW h \in Seq(Reading), NEW n \in Nat, NEW f, NEW r
  PROVE  Verdict(h, n, f, r) = "verified" <=>
           /\ n >= Required /\ ~FaultRecurred(h)
           /\ Len(h) >= 2 /\ Latest(h).cooler
           /\ \A k \in ScalarKeys : Latest(h).value[k] = "pass"
           /\ f = "fresh" /\ r = "APPROVED"
<1> DEFINE Good == /\ n >= Required /\ ~FaultRecurred(h)
                   /\ Len(h) >= 2 /\ Latest(h).cooler
                   /\ \A k \in ScalarKeys : Latest(h).value[k] = "pass"
                   /\ f = "fresh" /\ r = "APPROVED"
<1>1. Required \in Nat /\ Len(h) \in Nat
  BY EvaluationAssumption, LenProperties
<1>2. ASSUME h # <<>> PROVE Latest(h) \in Reading
  BY <1>2, EmptySeq, ElementOfSeq, LenProperties DEF Latest
<1>3. ASSUME Verdict(h, n, f, r) = "verified" PROVE Good
  <2>1. TechnicalPass(h, n, f) /\ QualityReleaseSatisfied(f, r) /\ ~Violated(h, n)
    BY <1>3 DEF Verdict
  <2>2. n >= Required /\ h # <<>>
    BY <2>1 DEF TechnicalPass, WindowComplete
  <2>3. ~FaultRecurred(h)
    BY <2>1 DEF Violated, FaultStatus
  <2>4. Len(h) >= 2 /\ Latest(h).cooler
    <3>1. TrendStatus(h, n) = "PASSED"
      BY <2>1 DEF TechnicalPass
    <3>2. ~(Len(h) < 2)
      BY <3>1 DEF TrendStatus
    <3>3. Latest(h).cooler \in BOOLEAN
      BY <1>2, <2>2 DEF Reading
    <3>4. ASSUME ~Latest(h).cooler PROVE FALSE
      BY <1>1, <3>1, <3>2, <3>4 DEF TrendStatus
    <3> QED  BY <1>1, <3>2, <3>3, <3>4
  <2>5. ASSUME NEW k \in ScalarKeys PROVE Latest(h).value[k] = "pass"
    <3>1. ScalarStatus(k, h, n) = "PASSED"
      BY <2>1 DEF TechnicalPass
    <3>2. Latest(h).value[k] \in {"pass", "fail", "absent"}
      BY <1>2, <2>2 DEF Reading
    <3> QED  BY <2>2, <3>1, <3>2 DEF ScalarStatus
  <2>6. f = "fresh" /\ r = "APPROVED"
    BY <2>1 DEF QualityReleaseSatisfied, FirstPieceStatus
  <2> QED  BY <2>2, <2>3, <2>4, <2>5, <2>6
<1>4. ASSUME Good PROVE Verdict(h, n, f, r) = "verified"
  <2>1. h # <<>> /\ WindowComplete(n) /\ Held(n) = "PASSED"
    BY <1>4, EmptySeq DEF WindowComplete, Held
  <2>2. FaultStatus(h, n) = "PASSED"
    BY <1>4, <2>1 DEF FaultStatus
  <2>3. TrendStatus(h, n) = "PASSED"
    BY <1>1, <1>4, <2>1 DEF TrendStatus
  <2>4. CountStatus(n) = "PASSED"
    BY <1>1, <1>4 DEF CountStatus
  <2>5. \A k \in ScalarKeys : ScalarStatus(k, h, n) = "PASSED"
    BY <1>4, <2>1 DEF ScalarStatus
  <2>6. QualityReleaseSatisfied(f, r) /\ FirstPieceStatus(f) = "PASSED"
    BY <1>4 DEF QualityReleaseSatisfied, FirstPieceStatus
  <2> QED  BY <2>1, <2>2, <2>3, <2>4, <2>5, <2>6 DEF Verdict, Violated, TechnicalPass
<1> QED  BY <1>3, <1>4

\* The verdict of a cycle is "verified" exactly when the machine has recovered by
\* the definition that knows of observations alone: with the streak, the statuses
\* and the order they are computed in, evaluate() is neither too generous nor does
\* it ever withhold a recovery.
THEOREM VerifiedExactly == Spec => VerifiedIffRecovered
<1>1. TypeOK /\ TypeOK' /\ StreakIsLongestStableSuffix' /\ [Next]_vars =>
        [obs' # obs => (verdict' = "verified" <=> Recovered')]_vars
  <2> SUFFICES ASSUME TypeOK, TypeOK', StreakIsLongestStableSuffix', [Next]_vars, obs' # obs
               PROVE  verdict' = "verified" <=> Recovered'
    OBVIOUS
  <2>1. PICK o \in Reading : AdvanceCycle(o)
    BY WindowWrittenByAdvance
  <2>2. /\ verdict' = Verdict(obs', streak', firstPiece, release)
        /\ UNCHANGED <<firstPiece, release>>
    BY <2>1 DEF AdvanceCycle
  <2>3. /\ obs' \in Seq(Reading) /\ streak' \in 0 .. Len(obs') /\ streak' \in Nat
        /\ Required \in Nat /\ Len(obs') \in Nat
    BY EvaluationAssumption, LenProperties DEF TypeOK
  <2>4. StableSuffix(Required)' <=> streak' >= Required
    <3>1. \A i \in Len(obs') - streak' + 1 .. Len(obs') : IsStable(obs'[i])
      BY DEF StreakIsLongestStableSuffix, StableSuffix
    <3>2. streak' < Len(obs') =>
            \E i \in Len(obs') - streak' .. Len(obs') : ~IsStable(obs'[i])
      BY <2>3 DEF StreakIsLongestStableSuffix, StableSuffix
    <3>3. (/\ Required <= Len(obs')
           /\ \A i \in Len(obs') - Required + 1 .. Len(obs') : IsStable(obs'[i]))
            <=> Required <= streak'
      BY <2>3, <3>1, <3>2, SuffixIffStreak
    <3> QED  BY <2>3, <3>3 DEF StableSuffix
  <2> QED  BY <2>2, <2>3, <2>4, VerifiedMeans DEF Recovered, FaultRecurred
<1> QED  BY <1>1, StreakIsExact, TypeCorrect, PTL DEF Spec, VerifiedIffRecovered

-----------------------------------------------------------------------------
(* The replays keep a streak of their own, by recursion over the cycles.   *)

\* n cycles in a row up to cycle i are stable, and the one before is not.
IsRun(h, i, n) ==
  /\ n \in 0 .. i
  /\ \A j \in i - n + 1 .. i : IsStable(h[j])
  /\ n < i => ~IsStable(h[i - n])

\* A set of natural numbers that is not empty has a least element.
LEMMA LeastNumber ==
  ASSUME NEW T, T \subseteq Nat, T # {}
  PROVE  \E x \in T : \A y \in T : x <= y
<1> DEFINE R == {ss \in Nat \X Nat : ss[1] < ss[2]}
<1>1. IsWellFoundedOn(R, Nat)
  BY NatLessThanWellFounded DEF OpToRel
<1>2. \A x, y \in Nat : y < x => <<y, x>> \in R
  OBVIOUS
<1> HIDE DEF R
<1>3. PICK x \in T : \A y \in T : ~(<<y, x>> \in R)
  BY <1>1, WFMin
<1>4. ASSUME NEW y \in T PROVE x <= y
  <2>1. x \in Nat /\ y \in Nat /\ ~(y < x)
    BY <1>2, <1>3
  <2> QED  BY <2>1
<1> QED  BY <1>4

LEMMA RunExists ==
  ASSUME NEW h \in Seq(Reading), NEW i \in 0 .. Len(h)
  PROVE  \E n \in 0 .. i : IsRun(h, i, n)
<1> DEFINE T == {n \in 0 .. i : n < i => ~IsStable(h[i - n])}
<1>1. Len(h) \in Nat /\ i \in Nat
  BY LenProperties
<1>2. T \subseteq Nat /\ T # {}
  <2>1. i \in T
    BY <1>1
  <2>2. \A n \in T : n \in Nat
    BY <1>1
  <2> QED  BY <2>1, <2>2
<1>3. PICK n \in T : \A m \in T : n <= m
  <2> HIDE DEF T
  <2> QED  BY <1>2, LeastNumber
<1>4. ASSUME NEW j \in i - n + 1 .. i PROVE IsStable(h[j])
  <2>1. i - j \in 0 .. i /\ i - j < n /\ i - j < i /\ i - (i - j) = j
    BY <1>1
  <2>2. i - j \notin T
    BY <1>1, <1>3, <2>1
  <2> QED  BY <2>1, <2>2
<1> QED  BY <1>4 DEF IsRun

LEMMA RunUnique ==
  ASSUME NEW h, NEW i \in Nat, NEW n, NEW m, IsRun(h, i, n), IsRun(h, i, m)
  PROVE  n = m
<1>1. ASSUME NEW a \in 0 .. i, NEW b \in 0 .. i, IsRun(h, i, a), IsRun(h, i, b), a < b
      PROVE  FALSE
  <2>1. ~IsStable(h[i - a]) /\ i - a \in i - b + 1 .. i
    BY <1>1 DEF IsRun
  <2> QED  BY <1>1, <2>1 DEF IsRun
<1> QED  BY <1>1 DEF IsRun

LEMMA RunStep ==
  ASSUME NEW h \in Seq(Reading), NEW i \in 1 .. Len(h), NEW n, IsRun(h, i - 1, n)
  PROVE  IsRun(h, i, IF IsStable(h[i]) THEN n + 1 ELSE 0)
<1>1. i \in Nat /\ n \in 0 .. i - 1
  BY LenProperties DEF IsRun
<1>2. CASE IsStable(h[i])
  <2>1. ASSUME NEW j \in i - (n + 1) + 1 .. i PROVE IsStable(h[j])
    <3>1. j = i \/ j \in (i - 1) - n + 1 .. i - 1
      BY <1>1
    <3> QED  BY <1>2, <3>1 DEF IsRun
  <2>2. n + 1 < i => ~IsStable(h[i - (n + 1)])
    <3>1. i - (n + 1) = (i - 1) - n
      BY <1>1
    <3> QED  BY <1>1, <3>1 DEF IsRun
  <2>3. IsRun(h, i, n + 1)
    BY <1>1, <2>1, <2>2 DEF IsRun
  <2> QED  BY <1>2, <2>3
<1>3. CASE ~IsStable(h[i])
  BY <1>1, <1>3 DEF IsRun
<1> QED  BY <1>2, <1>3

\* The recursion has a solution, the function of the runs, so it is one.
LEMMA StreaksRecursion ==
  ASSUME NEW h \in Seq(Reading)
  PROVE  Streaks(h) = [i \in 0 .. Len(h) |->
                         IF i = 0 THEN 0
                         ELSE IF IsStable(h[i]) THEN Streaks(h)[i - 1] + 1 ELSE 0]
<1> DEFINE g == [i \in 0 .. Len(h) |-> CHOOSE n \in 0 .. i : IsRun(h, i, n)]
           F(s) == [i \in 0 .. Len(h) |->
                      IF i = 0 THEN 0 ELSE IF IsStable(h[i]) THEN s[i - 1] + 1 ELSE 0]
<1>1. Len(h) \in Nat
  BY LenProperties
<1>2. \A i \in 0 .. Len(h) : IsRun(h, i, g[i])
  BY RunExists
<1>3. ASSUME NEW i \in 0 .. Len(h) PROVE g[i] = F(g)[i]
  <2>1. CASE i = 0
    <3>1. g[0] \in 0 .. 0
      BY <1>2, <2>1 DEF IsRun
    <3> QED  BY <2>1, <3>1
  <2>2. CASE i # 0
    <3>1. i \in 1 .. Len(h) /\ i - 1 \in 0 .. Len(h)
      BY <1>1, <2>2
    <3>2. IsRun(h, i, IF IsStable(h[i]) THEN g[i - 1] + 1 ELSE 0)
      <4> HIDE DEF g
      <4> QED  BY <1>2, <3>1, RunStep
    <3>3. g[i] = IF IsStable(h[i]) THEN g[i - 1] + 1 ELSE 0
      <4> HIDE DEF g
      <4> QED  BY <1>2, <3>2, RunUnique
    <3> QED  BY <2>2, <3>3
  <2> QED  BY <2>1, <2>2
<1>4. g = F(g)
  BY <1>3
<1>5. Streaks(h) = CHOOSE s : s = F(s)
  BY DEF Streaks
<1>6. Streaks(h) = F(Streaks(h))
  <2> HIDE DEF g, F
  <2> QED  BY <1>4, <1>5
<1> QED  BY <1>6

\* So the replayed streak is, at every cycle, the run that ends there.
LEMMA StreaksAreRuns ==
  ASSUME NEW h \in Seq(Reading)
  PROVE  \A i \in 0 .. Len(h) : IsRun(h, i, Streaks(h)[i])
<1> DEFINE T == {i \in 0 .. Len(h) : ~IsRun(h, i, Streaks(h)[i])}
<1>1. Len(h) \in Nat /\ T \subseteq Nat
  BY LenProperties
<1>2. \A i \in 0 .. Len(h) : Streaks(h)[i] =
        IF i = 0 THEN 0 ELSE IF IsStable(h[i]) THEN Streaks(h)[i - 1] + 1 ELSE 0
  BY StreaksRecursion
<1>3. ASSUME T # {} PROVE FALSE
  <2>1. PICK i \in T : \A j \in T : i <= j
    <3> HIDE DEF T
    <3> QED  BY <1>1, <1>3, LeastNumber
  <2>2. i # 0
    BY <1>2 DEF IsRun
  <2>3. i \in 1 .. Len(h) /\ i - 1 \in 0 .. Len(h) /\ i - 1 \notin T
    BY <1>1, <2>1, <2>2
  <2>4. IsRun(h, i - 1, Streaks(h)[i - 1])
    BY <2>3
  <2>5. IsRun(h, i, IF IsStable(h[i]) THEN Streaks(h)[i - 1] + 1 ELSE 0)
    BY <2>3, <2>4, RunStep
  <2> QED  BY <1>2, <2>2, <2>3, <2>5
<1> QED  BY <1>3

-----------------------------------------------------------------------------
(* What the replays say of a window.                                       *)

LEMMA RunIffStreaks ==
  ASSUME NEW h \in Seq(Reading), NEW i \in DOMAIN h, NEW k \in Nat
  PROVE  /\ Streaks(h)[i] \in 0 .. i
         /\ StableRun(h, i, k) <=> k <= Streaks(h)[i]
<1>1. DOMAIN h = 1 .. Len(h) /\ Len(h) \in Nat
  BY LenProperties
<1>2. IsRun(h, i, Streaks(h)[i])
  BY <1>1, StreaksAreRuns
<1> DEFINE n == Streaks(h)[i]
<1> HIDE DEF n
<1>3. /\ n \in 0 .. i /\ \A j \in i - n + 1 .. i : IsStable(h[j])
      /\ n < i => ~IsStable(h[i - n])
  BY <1>2 DEF IsRun, n
<1>4. ASSUME k <= n PROVE StableRun(h, i, k)
  BY <1>1, <1>3, <1>4 DEF StableRun
<1>5. ASSUME StableRun(h, i, k), ~(k <= n) PROVE FALSE
  <2>1. i - n \in i - k + 1 .. i /\ n < i
    BY <1>1, <1>3, <1>5 DEF StableRun
  <2> QED  BY <1>3, <1>5, <2>1 DEF StableRun
<1> QED  BY <1>3, <1>4, <1>5 DEF n

\* A streak grows by one at a time: before it reaches k it is k somewhere.
LEMMA StreaksReach ==
  ASSUME NEW h \in Seq(Reading), NEW k \in Nat \ {0}, NEW i \in DOMAIN h, k <= Streaks(h)[i]
  PROVE  \E j \in DOMAIN h : j <= i /\ Streaks(h)[j] = k
<1> DEFINE T == {j \in DOMAIN h : k <= Streaks(h)[j]}
<1>1. DOMAIN h = 1 .. Len(h) /\ Len(h) \in Nat
  BY LenProperties
<1>2. PICK j \in T : \A m \in T : j <= m
  <2>1. T \subseteq Nat /\ i \in T
    BY <1>1
  <2> HIDE DEF T
  <2> QED  BY <2>1, LeastNumber
<1>3. \A m \in 0 .. Len(h) : Streaks(h)[m] =
        IF m = 0 THEN 0 ELSE IF IsStable(h[m]) THEN Streaks(h)[m - 1] + 1 ELSE 0
  BY <1>1, StreaksRecursion
<1>4. Streaks(h)[j] = Streaks(h)[j - 1] + 1
  BY <1>1, <1>2, <1>3
<1>5. Streaks(h)[j - 1] < k
  <2>1. CASE j = 1
    BY <1>1, <1>3, <2>1
  <2>2. CASE j # 1
    <3>1. j - 1 \in DOMAIN h /\ j - 1 \notin T
      BY <1>1, <1>2, <2>2
    <3>2. Streaks(h)[j - 1] \in 0 .. j - 1
      BY <3>1, RunIffStreaks
    <3> QED  BY <1>1, <3>1, <3>2
  <2> QED  BY <2>1, <2>2
<1>6. Streaks(h)[j - 1] \in Nat
  BY <1>1, <1>2, StreaksAreRuns DEF IsRun
<1> QED  BY <1>2, <1>4, <1>5, <1>6

LEMMA FirstIsLeast ==
  ASSUME NEW C, C \subseteq Nat \ {0}
  PROVE  /\ First(C) \in Nat
         /\ First(C) = 0 <=> C = {}
         /\ C # {} => First(C) \in C /\ \A j \in C : First(C) <= j
         /\ \A i \in C : (\A j \in C : i <= j) => First(C) = i
<1>1. CASE C = {}
  BY <1>1 DEF First
<1>2. CASE C # {}
  <2>1. \E x \in C : \A y \in C : x <= y
    BY <1>2, LeastNumber
  <2>2. First(C) \in C /\ \A j \in C : First(C) <= j
    BY <1>2, <2>1 DEF First
  <2>3. First(C) \in Nat /\ First(C) # 0
    BY <2>2
  <2>4. ASSUME NEW i \in C, \A j \in C : i <= j PROVE First(C) = i
    <3>1. i <= First(C) /\ First(C) <= i /\ i \in Nat
      BY <2>2, <2>4
    <3> QED  BY <2>3, <3>1
  <2> QED  BY <1>2, <2>2, <2>3, <2>4
<1> QED  BY <1>1, <1>2

\* Before the first verdict that ends it a window is monitored, and one that was
\* verified had its streak: no cycle is added to it later.
VerifiedHadItsStreak == verdict = "verified" => streak >= Required

LEMMA VerifiedStreak == Spec => []VerifiedHadItsStreak
<1>1. Init => VerifiedHadItsStreak
  BY DEF Init, VerifiedHadItsStreak
<1>2. TypeOK /\ TypeOK' /\ VerifiedHadItsStreak /\ [Next]_vars => VerifiedHadItsStreak'
  <2> SUFFICES ASSUME TypeOK, TypeOK', VerifiedHadItsStreak, [Next]_vars
               PROVE  VerifiedHadItsStreak'
    OBVIOUS
  <2>1. ASSUME NEW o \in Reading, AdvanceCycle(o) PROVE VerifiedHadItsStreak'
    BY <2>1 DEF AdvanceCycle, VerifiedHadItsStreak, Verdict, TechnicalPass, WindowComplete
  <2>2. CASE UNCHANGED <<obs, streak, verdict>>
    BY <2>2 DEF VerifiedHadItsStreak
  <2> QED  BY <2>1, <2>2, WindowWrittenByAdvance
<1> QED  BY <1>1, <1>2, TypeCorrect, PTL DEF Spec

\* A window is completed at the first of its cycles that ends enough stable ones.
LEMMA CompletionIs ==
  ASSUME NEW h \in Seq(Reading)
  PROVE  /\ CompletedAt(h) \in Nat
         /\ CompletedAt(h) = 0 <=> \A i \in DOMAIN h : ~StableRun(h, i, Required)
         /\ \A i \in DOMAIN h :
              i = CompletedAt(h) <=>
                /\ StableRun(h, i, Required)
                /\ \A j \in DOMAIN h : StableRun(h, j, Required) => i <= j
<1> DEFINE marked == {j \in DOMAIN h \ Faulted(h) : Streaks(h)[j] >= Required}
           complete == {j \in DOMAIN h : StableRun(h, j, Required)}
<1>1. DOMAIN h = 1 .. Len(h) /\ Len(h) \in Nat /\ Required \in Nat \ {0}
  BY LenProperties, EvaluationAssumption
<1>2. marked = complete
  <2>1. ASSUME NEW j \in DOMAIN h, Streaks(h)[j] >= Required PROVE j \notin Faulted(h)
    <3>1. Streaks(h)[j] \in 0 .. j
      BY <1>1, RunIffStreaks
    <3>2. StableRun(h, j, 1)
      BY <1>1, <2>1, <3>1, RunIffStreaks
    <3>3. IsStable(h[j])
      BY <1>1, <3>2 DEF StableRun
    <3> QED  BY <3>3 DEF IsStable, Faulted
  <2>2. \A j \in DOMAIN h : StableRun(h, j, Required) <=> Streaks(h)[j] >= Required
    BY <1>1, RunIffStreaks
  <2> QED  BY <2>1, <2>2
<1>3. complete \subseteq Nat \ {0}
  BY <1>1
<1>4. CompletedAt(h) = First(complete)
  BY <1>2 DEF CompletedAt
<1>5. /\ First(complete) \in Nat
      /\ First(complete) = 0 <=> complete = {}
      /\ complete # {} => First(complete) \in complete
                           /\ \A j \in complete : First(complete) <= j
      /\ \A i \in complete : (\A j \in complete : i <= j) => First(complete) = i
  <2> HIDE DEF complete
  <2> QED  BY <1>3, FirstIsLeast
<1> HIDE DEF marked
<1>6. ASSUME NEW i \in DOMAIN h
      PROVE  i = First(complete) <=> i \in complete /\ \A j \in complete : i <= j
  <2>1. i # 0
    BY <1>1
  <2> HIDE DEF complete
  <2> QED  BY <1>5, <2>1
<1> QED  BY <1>4, <1>5, <1>6

\* Markers are put where the comment of the property says.
LEMMA CompletionMarked ==
  ASSUME NEW windows \in Seq(Seq(Reading)) PROVE MarksTheFirstCompletion(windows)
<1> DEFINE C == {v \in DOMAIN windows : CompletedAt(windows[v]) # 0}
<1>1. DOMAIN windows = 1 .. Len(windows) /\ Len(windows) \in Nat
  BY LenProperties
<1>2. \A v \in DOMAIN windows : windows[v] \in Seq(Reading)
  BY <1>1, ElementOfSeq
<1>3. /\ First(C) \in Nat
      /\ First(C) = 0 <=> C = {}
      /\ C # {} => First(C) \in C /\ \A v \in C : First(C) <= v
      /\ \A v \in C : (\A u \in C : v <= u) => First(C) = v
  <2>1. C \subseteq Nat \ {0}
    BY <1>1
  <2> HIDE DEF C
  <2> QED  BY <2>1, FirstIsLeast
<1> SUFFICES ASSUME NEW v \in DOMAIN windows, NEW i \in DOMAIN windows[v]
             PROVE  [window |-> v, cycle |-> i, kind |-> "window_complete"] \in Markers(windows)
                      <=> /\ StableRun(windows[v], i, Required)
                          /\ \A u \in 1 .. v : \A j \in DOMAIN windows[u] :
                               StableRun(windows[u], j, Required) => u = v /\ i <= j
  BY DEF MarksTheFirstCompletion
<1>4. v \in Nat \ {0} /\ \A u \in 1 .. v : u \in DOMAIN windows /\ u \in Nat /\ u <= v
  BY <1>1
<1>5. [window |-> v, cycle |-> i, kind |-> "window_complete"] \in Markers(windows)
        <=> v = First(C) /\ i = CompletedAt(windows[v])
  <2> DEFINE mark == [window |-> v, cycle |-> i, kind |-> "window_complete"]
  <2>1. mark \notin Relapses(windows)
    <3>1. ASSUME NEW u \in DOMAIN windows,
                 mark \in {[window |-> u, cycle |-> j, kind |-> "relapse"] : j \in Faulted(windows[u])}
          PROVE  FALSE
      <4>1. PICK j : mark = [window |-> u, cycle |-> j, kind |-> "relapse"]
        BY <3>1
      <4>2. mark.kind = "relapse" /\ mark.kind = "window_complete"
        BY <4>1
      <4> QED  BY <4>2
    <3> HIDE DEF mark
    <3> QED  BY <3>1 DEF Relapses
  <2>2. Markers(windows) = Relapses(windows) \cup
          {[window |-> u, cycle |-> CompletedAt(windows[u]), kind |-> "window_complete"] :
             u \in {First(C)} \ {0}}
    BY DEF Markers
  <2> HIDE DEF C
  <2> QED  BY <1>3, <1>4, <2>1, <2>2
<1>6. /\ i \in Nat \ {0}
      /\ i = CompletedAt(windows[v]) <=>
           /\ StableRun(windows[v], i, Required)
           /\ \A j \in DOMAIN windows[v] : StableRun(windows[v], j, Required) => i <= j
  <2>1. windows[v] \in Seq(Reading) /\ DOMAIN windows[v] = 1 .. Len(windows[v])
    BY <1>2, LenProperties
  <2> DEFINE h == windows[v]
  <2>2. \A x \in DOMAIN h :
          x = CompletedAt(h) <=> /\ StableRun(h, x, Required)
                                 /\ \A j \in DOMAIN h : StableRun(h, j, Required) => x <= j
    BY <2>1, CompletionIs
  <2>3. i \in Nat \ {0}
    BY <2>1, LenProperties
  <2> QED  BY <2>2, <2>3
<1>7. \A u \in DOMAIN windows :
        u \in C <=> \E j \in DOMAIN windows[u] : StableRun(windows[u], j, Required)
  <2> SUFFICES ASSUME NEW u \in DOMAIN windows
               PROVE  CompletedAt(windows[u]) # 0 <=>
                        \E j \in DOMAIN windows[u] : StableRun(windows[u], j, Required)
    OBVIOUS
  <2> QED  BY <1>2, CompletionIs
<1>8. ASSUME v = First(C), i = CompletedAt(windows[v])
      PROVE  \A u \in 1 .. v : \A j \in DOMAIN windows[u] :
               StableRun(windows[u], j, Required) => u = v /\ i <= j
  <2> SUFFICES ASSUME NEW u \in 1 .. v, NEW j \in DOMAIN windows[u],
                      StableRun(windows[u], j, Required)
               PROVE  u = v /\ i <= j
    OBVIOUS
  <2>1. u \in C /\ u \in Nat /\ u <= v
    BY <1>4, <1>7
  <2>2. v <= u
    <3> HIDE DEF C
    <3> QED  BY <1>3, <1>8, <2>1
  <2>3. u = v
    BY <1>4, <2>1, <2>2
  <2> QED  BY <1>6, <1>8, <2>3
<1>9. ASSUME StableRun(windows[v], i, Required),
             \A u \in 1 .. v : \A j \in DOMAIN windows[u] :
               StableRun(windows[u], j, Required) => u = v /\ i <= j
      PROVE  v = First(C) /\ i = CompletedAt(windows[v])
  <2>1. v \in C
    BY <1>7, <1>9
  <2>2. \A u \in C : v <= u
    <3> SUFFICES ASSUME NEW u \in DOMAIN windows, u \in C, ~(v <= u) PROVE FALSE
      OBVIOUS
    <3>1. u \in 1 .. v /\ u # v
      BY <1>1, <1>4
    <3>2. PICK j \in DOMAIN windows[u] : StableRun(windows[u], j, Required)
      BY <1>7
    <3> QED  BY <1>9, <3>1, <3>2
  <2>3. v = First(C)
    <3> HIDE DEF C
    <3> QED  BY <1>3, <2>1, <2>2
  <2>4. v \in 1 .. v
    BY <1>4
  <2> QED  BY <1>6, <1>9, <2>3, <2>4
<1> HIDE DEF C
<1> QED  BY <1>5, <1>6, <1>8, <1>9

LEMMA ReplayIsTrue ==
  TypeOK /\ StreakIsLongestStableSuffix /\ VerifiedHadItsStreak => ReplayTellsWhatHappened
<1> SUFFICES ASSUME TypeOK, StreakIsLongestStableSuffix, VerifiedHadItsStreak
             PROVE  ReplayTellsWhatHappened
  OBVIOUS
<1> DEFINE relapse == FirstRelapse(obs)
<1>1. /\ obs \in Seq(Reading) /\ DOMAIN obs = 1 .. Len(obs) /\ Len(obs) \in Nat
      /\ Required \in Nat \ {0} /\ streak \in 0 .. Len(obs)
  BY LenProperties, EvaluationAssumption DEF TypeOK
<1>2. Streaks(obs)[Len(obs)] = streak
  <2>1. IsRun(obs, Len(obs), Streaks(obs)[Len(obs)])
    BY <1>1, StreaksAreRuns
  <2>2. IsRun(obs, Len(obs), streak)
    BY <1>1 DEF IsRun, StreakIsLongestStableSuffix, StableSuffix
  <2> QED  BY <1>1, <2>1, <2>2, RunUnique
<1>3. Faulted(obs) \subseteq DOMAIN obs /\ DOMAIN obs \subseteq Nat \ {0}
  BY <1>1 DEF Faulted
<1>4. /\ relapse \in Nat
      /\ relapse = 0 <=> Faulted(obs) = {}
      /\ relapse # 0 => relapse \in Faulted(obs)
  BY <1>3, FirstIsLeast DEF FirstRelapse
<1>5. ASSUME NEW before \in Earlier PROVE MarksTheFirstCompletion(Append(before, obs))
  <2>1. before \in Seq(Seq(Reading))
    BY WindowAssumption
  <2> QED  BY <1>1, <2>1, AppendProperties, CompletionMarked
<1>6. ASSUME NEW k \in Nat \ {0}
      PROVE  LET close == Reach(obs, k)
             IN  /\ close \in Nat
                 /\ close = 0 <=> \A i \in DOMAIN obs : Streaks(obs)[i] # k
                 /\ close # 0 => /\ close \in DOMAIN obs /\ Streaks(obs)[close] = k
                                 /\ \A i \in DOMAIN obs : Streaks(obs)[i] = k => close <= i
  <2> DEFINE C == {i \in DOMAIN obs : Streaks(obs)[i] = k}
  <2>1. C \subseteq Nat \ {0} /\ Reach(obs, k) = First(C)
    BY <1>3 DEF Reach
  <2>2. /\ First(C) \in Nat
        /\ First(C) = 0 <=> C = {}
        /\ C # {} => First(C) \in C /\ \A j \in C : First(C) <= j
    <3> HIDE DEF C
    <3> QED  BY <2>1, FirstIsLeast
  <2> QED  BY <2>1, <2>2
<1>7. ASSUME NEW k \in Nat \ {0}
      PROVE  SweepOutcome(obs, k) = "false_close"
               <=> \E i \in 1 .. relapse - 1 : StableRun(obs, i, k)
  <2> DEFINE close == Reach(obs, k)
  <2>1. SweepOutcome(obs, k) = "false_close"
          <=> close # 0 /\ relapse # 0 /\ close < relapse
    BY DEF SweepOutcome
  <2>2. ASSUME close # 0, relapse # 0, close < relapse
        PROVE  \E i \in 1 .. relapse - 1 : StableRun(obs, i, k)
    <3>1. close \in DOMAIN obs /\ Streaks(obs)[close] = k
      BY <1>6, <2>2
    <3>2. StableRun(obs, close, k)
      BY <1>1, <3>1, RunIffStreaks
    <3>3. close \in 1 .. relapse - 1
      <4>1. close \in Nat \ {0} /\ relapse \in Nat
        BY <1>3, <1>4, <3>1
      <4> HIDE DEF close, relapse
      <4> QED  BY <2>2, <4>1
    <3> QED  BY <3>2, <3>3
  <2>3. ASSUME NEW i \in 1 .. relapse - 1, StableRun(obs, i, k)
        PROVE  close # 0 /\ relapse # 0 /\ close < relapse
    <3>1. relapse # 0 /\ relapse \in DOMAIN obs
      BY <1>3, <1>4
    <3>2. i \in DOMAIN obs /\ i < relapse
      BY <1>1, <3>1
    <3>3. k <= Streaks(obs)[i]
      BY <1>1, <2>3, <3>2, RunIffStreaks
    <3>4. PICK j \in DOMAIN obs : j <= i /\ Streaks(obs)[j] = k
      BY <1>1, <3>2, <3>3, StreaksReach
    <3>5. close # 0 /\ close <= j /\ close \in DOMAIN obs
      BY <1>6, <3>4
    <3>6. close \in Nat /\ j \in Nat /\ i \in Nat /\ relapse \in Nat
      BY <1>1, <3>1, <3>2, <3>4, <3>5
    <3> HIDE DEF close, relapse
    <3> QED  BY <3>1, <3>2, <3>4, <3>5, <3>6
  <2> QED  BY <2>1, <2>2, <2>3
<1>8. SafelyCalibrated(obs) => SweepOutcome(obs, Required) # "false_close"
  <2> SUFFICES ASSUME SafelyCalibrated(obs), SweepOutcome(obs, Required) = "false_close"
               PROVE  FALSE
    OBVIOUS
  <2>1. PICK i \in 1 .. relapse - 1 : StableRun(obs, i, Required)
    BY <1>1, <1>7
  <2>2. Required <= i /\ relapse # 0
    BY <1>4, <2>1 DEF StableRun
  <2>3. Required >= relapse
    BY <2>2 DEF SafelyCalibrated
  <2>4. relapse \in Nat
    BY <1>4
  <2> HIDE DEF relapse
  <2> QED  BY <1>1, <2>1, <2>2, <2>3, <2>4
<1>9. verdict = "verified" => SweepOutcome(obs, Required) # "incomplete"
  <2> SUFFICES ASSUME verdict = "verified" PROVE Reach(obs, Required) # 0
    BY <1>1, <1>4, <1>6 DEF SweepOutcome
  <2>1. streak >= Required
    BY DEF VerifiedHadItsStreak
  <2>2. Len(obs) \in DOMAIN obs /\ Required <= Streaks(obs)[Len(obs)]
    BY <1>1, <1>2, <2>1
  <2>3. \E j \in DOMAIN obs : Streaks(obs)[j] = Required
    BY <1>1, <2>2, StreaksReach
  <2> QED  BY <1>1, <1>6, <2>3
<1>10. FaultRecurred(obs) => SweepOutcome(obs, Required) # "verified"
  <2> SUFFICES ASSUME FaultRecurred(obs) PROVE relapse # 0
    BY DEF SweepOutcome
  <2>1. ContractFault # NoFault
    BY EvaluationAssumption
  <2>2. Faulted(obs) # {}
    BY <1>1, <2>1 DEF FaultRecurred, Faulted
  <2> QED  BY <1>4, <2>2
<1>11. \A k \in 1 .. MaxCycles : SweepOutcome(obs, k) = "false_close"
         <=> \E i \in 1 .. relapse - 1 : StableRun(obs, i, k)
  BY <1>7, WindowAssumption
<1> QED  BY <1>2, <1>5, <1>8, <1>9, <1>10, <1>11 DEF ReplayTellsWhatHappened

\* The recovery twin and the sensitivity analysis, which replay a window with
\* streaks of their own, agree with the cycle engine and the verdict it led to,
\* for every window that was ever recorded and every window length they try.
THEOREM ReplayTrue == Spec => []ReplayTellsWhatHappened
BY ReplayIsTrue, TypeCorrect, StreakIsExact, VerifiedStreak, PTL

=============================================================================
