------------------------- MODULE TelemetryFeed_proofs -------------------------
(***************************************************************************)
(* Proofs about TelemetryFeed, for any missions, exports, batches and any  *)
(* number of posts and cycles: no reading is lost and none overtaken.      *)
(***************************************************************************)
EXTENDS TelemetryFeed, SequenceTheorems, FiniteSetTheorems, WellFoundedInduction, TLAPS

-----------------------------------------------------------------------------
(* Numbers and lists.                                                      *)

\* A set of natural numbers that is not empty has a least element.
LEMMA LeastNumber ==
  ASSUME NEW T, T \subseteq Nat, T # {}
  PROVE  \E x \in T : \A y \in T : x <= y
<1> DEFINE R == {ss \in Nat \X Nat : ss[1] < ss[2]}
<1>1. IsWellFoundedOn(R, Nat)
  BY NatLessThanWellFounded DEF OpToRel
<1>2. \A x, y \in Nat : y < x => <<y, x>> \in R
  OBVIOUS
<1> HIDE DEF R
<1>3. PICK x \in T : \A y \in T : ~(<<y, x>> \in R)
  BY <1>1, WFMin
<1>4. ASSUME NEW y \in T PROVE x <= y
  <2>1. x \in Nat /\ y \in Nat /\ ~(y < x)
    BY <1>2, <1>3
  <2> QED  BY <2>1
<1> QED  BY <1>4

\* Of finitely many numbers one is the greatest.
LEMMA GreatestOfMany ==
  ASSUME NEW n \in Nat, n > 0, NEW f \in [1 .. n -> Nat]
  PROVE  \E i \in 1 .. n : \A j \in 1 .. n : f[j] <= f[i]
<1> DEFINE Bounded(k) == \E i \in 1 .. k : \A j \in 1 .. k : f[j] <= f[i]
           T == {k \in 1 .. n : ~Bounded(k)}
<1>1. ASSUME T # {} PROVE FALSE
  <2>1. T \subseteq Nat
    OBVIOUS
  <2>2. PICK k \in T : \A l \in T : k <= l
    <3> HIDE DEF T
    <3> QED  BY <1>1, <2>1, LeastNumber
  <2>3. k \in 1 .. n /\ ~Bounded(k)
    BY <2>2
  <2>4. k # 1
    BY <2>3
  <2>5. k - 1 \in 1 .. n /\ k - 1 \notin T
    <3>1. k \in Nat /\ k - 1 \in 1 .. n
      BY <2>3, <2>4
    <3> HIDE DEF T
    <3> QED  BY <2>2, <3>1
  <2>6. PICK i \in 1 .. k - 1 : \A j \in 1 .. k - 1 : f[j] <= f[i]
    BY <2>5
  <2>7. /\ f[i] \in Nat /\ f[k] \in Nat /\ i \in 1 .. k /\ k \in 1 .. k
        /\ \A j \in 1 .. k : j = k \/ j \in 1 .. k - 1
        /\ \A j \in 1 .. k : f[j] \in Nat
    BY <2>3, <2>6
  <2>8. CASE f[k] <= f[i]
    BY <2>3, <2>6, <2>7, <2>8
  <2>9. CASE f[i] < f[k]
    <3>1. \A j \in 1 .. k : f[j] <= f[k]
      BY <2>6, <2>7, <2>9
    <3> QED  BY <2>3, <2>7, <3>1
  <2> QED  BY <2>7, <2>8, <2>9
<1>2. n \in 1 .. n
  OBVIOUS
<1> QED  BY <1>1, <1>2

IsList(s) == s \in Seq(ToSet(s))

LEMMA SeqOfItsElements ==
  ASSUME NEW S, NEW s \in Seq(S)
  PROVE  IsList(s)
<1>1. Len(s) \in Nat /\ s \in [1 .. Len(s) -> S] /\ DOMAIN s = 1 .. Len(s)
  BY LenProperties
<1>2. s \in [1 .. Len(s) -> ToSet(s)]
  BY <1>1 DEF ToSet
<1> QED  BY <1>1, <1>2, SeqDef DEF IsList

LEMMA ListOf ==
  ASSUME NEW n \in Nat, NEW f, f = [i \in 1 .. n |-> f[i]]
  PROVE  IsList(f) /\ Len(f) = n /\ DOMAIN f = 1 .. n
<1>1. f \in [1 .. n -> ToSet(f)]
  BY DEF ToSet
<1>2. f \in Seq(ToSet(f))
  BY <1>1, SeqDef
<1> QED  BY <1>1, <1>2, LenProperties DEF IsList

LEMMA ListIndexed ==
  ASSUME NEW s, IsList(s)
  PROVE  Len(s) \in Nat /\ DOMAIN s = 1 .. Len(s)
BY LenProperties DEF IsList

LEMMA EmptyList == IsList(<<>>) /\ Len(<<>>) = 0 /\ DOMAIN <<>> = {}
<1>1. <<>> \in Seq(ToSet(<<>>)) /\ Len(<<>>) = 0
  BY EmptySeq
<1> QED  BY <1>1, LenProperties DEF IsList

Joined(u, s, t) ==
  /\ IsList(u) /\ Len(u) = Len(s) + Len(t) /\ DOMAIN u = 1 .. Len(u)
  /\ \A i \in DOMAIN s : i \in DOMAIN u /\ u[i] = s[i]
  /\ \A i \in DOMAIN u : i \in DOMAIN s \/ (i - Len(s) \in DOMAIN t /\ u[i] = t[i - Len(s)])

LEMMA ListJoined ==
  ASSUME NEW s, IsList(s), NEW t, IsList(t), NEW u, u = s \o t
  PROVE  Joined(u, s, t)
<1> DEFINE S == ToSet(s) \cup ToSet(t)
<1>1. s \in Seq(S) /\ t \in Seq(S)
  BY SeqMonotonic DEF IsList
<1>2. /\ Len(s) \in Nat /\ DOMAIN s = 1 .. Len(s)
      /\ Len(t) \in Nat /\ DOMAIN t = 1 .. Len(t)
  BY ListIndexed
<1>3. /\ u \in Seq(S) /\ Len(u) = Len(s) + Len(t)
      /\ \A i \in 1 .. Len(s) + Len(t) :
           u[i] = IF i <= Len(s) THEN s[i] ELSE t[i - Len(s)]
  <2> HIDE DEF S
  <2> QED  BY <1>1, ConcatProperties
<1>4. u \in [1 .. Len(u) -> S] /\ DOMAIN u = 1 .. Len(u)
  BY <1>3, LenProperties
<1>6. IsList(u)
  BY <1>3, SeqOfItsElements
<1>7. ASSUME NEW i \in DOMAIN s PROVE i \in DOMAIN u /\ u[i] = s[i]
  BY <1>2, <1>3, <1>4
<1>8. ASSUME NEW i \in DOMAIN u, i \notin DOMAIN s
      PROVE  i - Len(s) \in DOMAIN t /\ u[i] = t[i - Len(s)]
  <2>1. i \in 1 .. Len(s) + Len(t) /\ ~(i <= Len(s)) /\ i - Len(s) \in 1 .. Len(t)
    BY <1>2, <1>3, <1>4, <1>8
  <2> QED  BY <1>2, <1>3, <2>1
<1> QED  BY <1>3, <1>4, <1>6, <1>7, <1>8 DEF Joined

Appended(u, s, e) ==
  /\ IsList(u) /\ DOMAIN u = 1 .. Len(s) + 1
  /\ \A i \in 1 .. Len(s) : u[i] = s[i]
  /\ u[Len(s) + 1] = e

LEMMA ListAppended ==
  ASSUME NEW s, IsList(s), NEW e, NEW u, u = Append(s, e)
  PROVE  Appended(u, s, e)
<1> DEFINE S == ToSet(s) \cup {e}
<1>1. s \in Seq(S) /\ e \in S
  BY SeqMonotonic DEF IsList
<1>2. Len(s) \in Nat
  BY ListIndexed
<1>3. /\ u \in Seq(S) /\ Len(u) = Len(s) + 1
      /\ \A i \in 1 .. Len(s) : u[i] = s[i]
      /\ u[Len(s) + 1] = e
  <2> HIDE DEF S
  <2> QED  BY <1>1, AppendProperties
<1>4. u \in [1 .. Len(s) + 1 -> S] /\ DOMAIN u = 1 .. Len(s) + 1
  BY <1>3, LenProperties
<1>5. IsList(u)
  BY <1>3, SeqOfItsElements
<1> QED  BY <1>3, <1>4, <1>5 DEF Appended

-----------------------------------------------------------------------------
(* The samples of the machine, and what was judged of them.                *)

IsSample(r) ==
  /\ DOMAIN r = {"origin", "at", "reading", "seq", "consumed"}
  /\ r.seq \in Nat /\ r.consumed \in BOOLEAN
IsSamples(s) == IsList(s) /\ \A i \in DOMAIN s : IsSample(s[i])

Posted(id) == [edge |-> TRUE, id |-> id]
Upload(m) == [edge |-> FALSE, id |-> m]
Judged(o, i) == {k \in DOMAIN o : o[k].row = i}

\* Within one batch or upload the sequence numbers follow the places.
Numbered(s) ==
  \A i, j \in DOMAIN s :
    s[i].origin = s[j].origin /\ s[i].at < s[j].at => s[i].seq < s[j].seq

\* A mission judges a row once.
Once(o) ==
  \A k, l \in DOMAIN o :
    o[k].row = o[l].row /\ o[k].row # 0 /\ o[k].mission = o[l].mission => k = l

\* A row is consumed when it is judged, or reclaimed by the run of its mission.
Accounted(s, o, ran) ==
  \A i \in DOMAIN s :
    s[i].consumed <=> (Judged(o, i) # {} \/ \E m \in ran : s[i].origin = Upload(m))

JudgedInOrder(s, o) ==
  \A i, j \in DOMAIN s :
    s[i].origin = s[j].origin /\ s[i].at < s[j].at =>
      \A k \in Judged(o, j) : \E l \in Judged(o, i) : l < k

Judging(s, o, ran) ==
  /\ IsSamples(s) /\ IsList(o)
  /\ \A k \in DOMAIN o : o[k].row \in 0 .. Len(s)
  /\ Numbered(s) /\ Once(o) /\ Accounted(s, o, ran) /\ JudgedInOrder(s, o)

\* What an advance of mission m holds when it has read row i: a row it has not
\* judged, of which all that go before in its batch or upload are judged.
Taken(s, o, m, i) ==
  i # 0 =>
    /\ i \in DOMAIN s
    /\ \A k \in Judged(o, i) : o[k].mission # m
    /\ \A h \in DOMAIN s :
         s[h].origin = s[i].origin /\ s[h].at < s[i].at => Judged(o, h) # {}

\* HighestSeq is a number whatever there is.
LEMMA HighestIsNumber == ASSUME IsSamples(samples) PROVE HighestSeq \in Nat
<1>1. CASE samples = <<>>
  BY <1>1 DEF HighestSeq
<1>2. CASE samples # <<>>
  <2> DEFINE f == [i \in 1 .. Len(samples) |-> samples[i].seq]
             S == {samples[i].seq : i \in DOMAIN samples}
  <2>1. Len(samples) \in Nat /\ DOMAIN samples = 1 .. Len(samples)
    BY ListIndexed DEF IsSamples
  <2>2. Len(samples) > 0
    BY <1>2, <2>1, EmptySeq DEF IsSamples, IsList
  <2>3. f \in [1 .. Len(samples) -> Nat]
    BY <2>1 DEF IsSamples, IsSample
  <2>4. PICK i \in 1 .. Len(samples) : \A j \in 1 .. Len(samples) : f[j] <= f[i]
    <3> HIDE DEF f
    <3> QED  BY <2>1, <2>2, <2>3, GreatestOfMany
  <2>5. f[i] \in S /\ S \subseteq Nat
    BY <2>1, <2>3
  <2>6. \A y \in S : f[i] >= y
    BY <2>1, <2>3, <2>4
  <2>7. Max(S) \in S
    <3> HIDE DEF S, f
    <3> QED  BY <2>5, <2>6 DEF Max
  <2>8. HighestSeq = Max(S)
    BY <1>2 DEF HighestSeq
  <2> QED  BY <2>5, <2>7, <2>8
<1> QED  BY <1>1, <1>2

\* The row the source offers next: unconsumed, and of the unconsumed the least in
\* sequence, of equals the first stored.
LEMMA NextRowIs ==
  ASSUME NEW s, IsSamples(s), NEW i, i = NextRow(s), i # 0
  PROVE  /\ i \in DOMAIN s /\ s[i].consumed = FALSE
         /\ \A j \in DOMAIN s : s[j].consumed = FALSE => s[i].seq <= s[j].seq
<1> DEFINE free == {j \in DOMAIN s : ~s[j].consumed}
           seqs == {s[j].seq : j \in free}
<1>1. free # {}
  BY DEF NextRow
<1>2. DOMAIN s \subseteq Nat
  BY ListIndexed DEF IsSamples
<1>3. \A j \in free : s[j].seq \in Nat /\ j \in Nat
  BY <1>2 DEF IsSamples, IsSample
<1>4. seqs \subseteq Nat /\ seqs # {}
  BY <1>1, <1>3
<1>5. PICK q \in seqs : \A r \in seqs : q <= r
  <2> HIDE DEF seqs
  <2> QED  BY <1>4, LeastNumber
<1> DEFINE T == {j \in free : s[j].seq = q}
<1>6. T \subseteq Nat /\ T # {}
  BY <1>3, <1>5
<1>7. PICK t \in T : \A u \in T : t <= u
  <2> HIDE DEF T
  <2> QED  BY <1>6, LeastNumber
<1>8. t \in free /\ \A j \in free :
        s[t].seq < s[j].seq \/ (s[j].seq = s[t].seq /\ t <= j)
  <2> SUFFICES ASSUME NEW j \in free
               PROVE s[t].seq < s[j].seq \/ (s[j].seq = s[t].seq /\ t <= j)
    BY <1>7
  <2>1. s[j].seq \in seqs /\ s[t].seq = q /\ q \in Nat /\ s[j].seq \in Nat
    BY <1>3, <1>7, <1>5
  <2>2. q <= s[j].seq
    BY <1>5, <2>1
  <2>3. CASE s[j].seq = q
    BY <1>7, <2>1, <2>3
  <2>4. CASE s[j].seq # q
    BY <2>1, <2>2, <2>4
  <2> QED  BY <2>3, <2>4
<1>9. /\ i \in free
      /\ \A j \in free : s[i].seq < s[j].seq \/ (s[j].seq = s[i].seq /\ i <= j)
  <2>1. i = CHOOSE x \in free : \A j \in free :
              s[x].seq < s[j].seq \/ (s[j].seq = s[x].seq /\ x <= j)
    BY <1>1 DEF NextRow
  <2> HIDE DEF free, T, seqs
  <2> QED  BY <1>8, <2>1
<1>10. ASSUME NEW j \in DOMAIN s, s[j].consumed = FALSE PROVE s[i].seq <= s[j].seq
  <2>1. j \in free /\ i \in free
    BY <1>9, <1>10
  <2>2. s[i].seq \in Nat /\ s[j].seq \in Nat
    BY <1>3, <2>1
  <2>3. s[i].seq < s[j].seq \/ s[j].seq = s[i].seq
    BY <1>9, <2>1
  <2> QED  BY <2>2, <2>3
<1>11. s[i].consumed = FALSE
  BY <1>9 DEF IsSamples, IsSample
<1> QED  BY <1>9, <1>10, <1>11

-----------------------------------------------------------------------------
(* Rows are added.                                                         *)

NewRows(origin, base, b) == [i \in DOMAIN b |-> Row(origin, i, b[i], base + i)]

NewOrigin(s, ran, origin) ==
  /\ \A i \in DOMAIN s : s[i].origin # origin
  /\ \A m \in ran : origin # Upload(m)
OnlyAdded(t, s, origin) ==
  \A i \in DOMAIN t : (i \in DOMAIN s /\ t[i] = s[i]) \/ t[i].origin = origin
Kept(t, s) == \A i \in DOMAIN s : i \in DOMAIN t /\ t[i] = s[i]

\* The rows of a batch or an upload that is not there yet go after all others.
LEMMA RowsAdded ==
  ASSUME NEW s, NEW o, NEW ran, Judging(s, o, ran),
         NEW origin, NEW base \in Nat, NEW b, IsList(b),
         NEW t, t = s \o NewRows(origin, base, b), NewOrigin(s, ran, origin)
  PROVE  Judging(t, o, ran) /\ OnlyAdded(t, s, origin) /\ Kept(t, s)
<1> USE DEF NewOrigin, OnlyAdded
<1>1. Len(b) \in Nat /\ DOMAIN b = 1 .. Len(b)
  BY ListIndexed
<1>2. PICK e : e = [i \in 1 .. Len(b) |-> Row(origin, i, b[i], base + i)]
  OBVIOUS
<1>3. /\ IsList(e) /\ DOMAIN e = 1 .. Len(b)
      /\ \A i \in 1 .. Len(b) : e[i] = Row(origin, i, b[i], base + i)
  <2>1. e = [i \in 1 .. Len(b) |-> e[i]]
    BY <1>2
  <2>2. IsList(e)
    BY <1>1, <2>1, ListOf
  <2> QED  BY <1>2, <2>2
<1>4. t = s \o e
  BY <1>1, <1>2 DEF NewRows
<1>5. IsList(s) /\ Len(s) \in Nat /\ DOMAIN s = 1 .. Len(s)
  BY ListIndexed DEF Judging, IsSamples
<1>6. /\ IsList(t) /\ Len(t) = Len(s) + Len(e) /\ DOMAIN t = 1 .. Len(t)
      /\ \A i \in DOMAIN s : i \in DOMAIN t /\ t[i] = s[i]
      /\ \A i \in DOMAIN t : i \in DOMAIN s \/ (i - Len(s) \in DOMAIN e /\ t[i] = e[i - Len(s)])
  <2>1. Joined(t, s, e)
    BY <1>3, <1>4, <1>5, ListJoined
  <2> QED  BY <2>1 DEF Joined
<1>7. Len(t) \in Nat /\ Len(s) <= Len(t)
  BY <1>3, <1>5, <1>6, ListIndexed
<1>8. ASSUME NEW i \in DOMAIN t, i \notin DOMAIN s
      PROVE  /\ IsSample(t[i]) /\ t[i].origin = origin /\ t[i].consumed = FALSE
             /\ t[i].at = i - Len(s) /\ t[i].seq = base + t[i].at /\ i \in Nat
  <2>1. PICK j : j = i - Len(s)
    OBVIOUS
  <2>2. j \in 1 .. Len(b) /\ t[i] = e[j]
    BY <1>3, <1>6, <1>8, <2>1
  <2>3. t[i] = [origin |-> origin, at |-> j, reading |-> b[j], seq |-> base + j, consumed |-> FALSE]
    BY <1>3, <2>2 DEF Row
  <2>4. i \in Nat /\ j \in Nat /\ base + j \in Nat
    BY <1>6, <1>7, <2>2
  <2> QED  BY <2>1, <2>3, <2>4 DEF IsSample
<1>9. ASSUME NEW i \in DOMAIN t PROVE (i \in DOMAIN s /\ t[i] = s[i]) \/ t[i].origin = origin
  BY <1>6, <1>8
<1>10. IsSamples(t)
  BY <1>6, <1>8 DEF IsSamples, Judging
<1>11. \A k \in DOMAIN o : o[k].row \in 0 .. Len(s) /\ o[k].row \in 0 .. Len(t)
  BY <1>5, <1>7 DEF Judging
<1>12. ASSUME NEW i \in DOMAIN t, i \notin DOMAIN s PROVE Judged(o, i) = {}
  <2>1. i \notin 0 .. Len(s)
    BY <1>5, <1>6, <1>7, <1>12
  <2> QED  BY <1>11, <2>1 DEF Judged
<1>13. Numbered(t)
  <2> SUFFICES ASSUME NEW i \in DOMAIN t, NEW j \in DOMAIN t,
                      t[i].origin = t[j].origin, t[i].at < t[j].at
               PROVE  t[i].seq < t[j].seq
    BY DEF Numbered
  <2>1. CASE i \in DOMAIN s /\ j \in DOMAIN s
    BY <1>6, <2>1 DEF Judging, Numbered
  <2>2. CASE i \notin DOMAIN s /\ j \notin DOMAIN s
    <3>1. t[i].at = i - Len(s) /\ t[i].seq = base + t[i].at /\ i \in Nat
      BY <1>8, <2>2
    <3>2. t[j].at = j - Len(s) /\ t[j].seq = base + t[j].at /\ j \in Nat
      BY <1>8, <2>2
    <3>3. t[i].at \in Int /\ t[j].at \in Int
      BY <1>5, <3>1, <3>2
    <3> QED  BY <3>1, <3>2, <3>3
  <2>3. CASE i \in DOMAIN s /\ j \notin DOMAIN s
    <3>1. t[i] = s[i] /\ t[j].origin = origin /\ s[i].origin # origin
      BY <1>6, <1>8, <2>3
    <3> QED  BY <3>1
  <2>4. CASE i \notin DOMAIN s /\ j \in DOMAIN s
    <3>1. t[j] = s[j] /\ t[i].origin = origin /\ s[j].origin # origin
      BY <1>6, <1>8, <2>4
    <3> QED  BY <3>1
  <2> QED  BY <2>1, <2>2, <2>3, <2>4
<1>14. Accounted(t, o, ran)
  <2> SUFFICES ASSUME NEW i \in DOMAIN t
               PROVE t[i].consumed
                       <=> (Judged(o, i) # {} \/ \E m \in ran : t[i].origin = Upload(m))
    BY DEF Accounted
  <2>1. CASE i \in DOMAIN s
    BY <1>6, <2>1 DEF Judging, Accounted
  <2>2. CASE i \notin DOMAIN s
    BY <1>8, <1>12, <2>2
  <2> QED  BY <2>1, <2>2
<1>15. JudgedInOrder(t, o)
  <2> SUFFICES ASSUME NEW i \in DOMAIN t, NEW j \in DOMAIN t,
                      t[i].origin = t[j].origin, t[i].at < t[j].at, NEW k \in Judged(o, j)
               PROVE  \E l \in Judged(o, i) : l < k
    BY DEF JudgedInOrder
  <2>1. j \in DOMAIN s
    BY <1>12
  <2>2. i \in DOMAIN s
    BY <1>6, <1>8, <2>1
  <2> QED  BY <1>6, <2>1, <2>2 DEF Judging, JudgedInOrder
<1>16. Judging(t, o, ran)
  BY <1>10, <1>11, <1>13, <1>14, <1>15 DEF Judging
<1> QED  BY <1>6, <1>9, <1>16 DEF Kept

-----------------------------------------------------------------------------
(* A cycle judges one row, and n cycles at most n.                         *)

SameRows(t, s) ==
  Len(t) = Len(s) /\ \A i \in DOMAIN s : t[i].origin = s[i].origin /\ t[i].at = s[i].at

Consumes(s, i) == [s EXCEPT ![i].consumed = TRUE]

OnlyConsumed(t, s, i) ==
  /\ IsSamples(t) /\ DOMAIN t = DOMAIN s /\ SameRows(t, s)
  /\ \A j \in DOMAIN s : /\ t[j].origin = s[j].origin /\ t[j].at = s[j].at
                         /\ t[j].seq = s[j].seq
                         /\ j # i => t[j] = s[j]

LEMMA RowConsumed ==
  ASSUME NEW s, IsSamples(s), NEW i, i \in DOMAIN s, NEW t, t = Consumes(s, i)
  PROVE  OnlyConsumed(t, s, i) /\ t[i].consumed = TRUE
<1>1. Len(s) \in Nat /\ DOMAIN s = 1 .. Len(s) /\ IsSample(s[i])
  BY ListIndexed DEF IsSamples
<1>2. t = [j \in 1 .. Len(s) |-> IF j = i THEN [s[i] EXCEPT !.consumed = TRUE] ELSE s[j]]
  BY <1>1 DEF IsSamples, IsList, Consumes
<1>3. t = [j \in 1 .. Len(s) |-> t[j]]
  BY <1>2
<1>4. IsList(t) /\ Len(t) = Len(s) /\ DOMAIN t = 1 .. Len(s)
  BY <1>1, <1>3, ListOf
<1>5. t[i] = [s[i] EXCEPT !.consumed = TRUE]
  BY <1>1, <1>2
<1>6. /\ IsSample(t[i]) /\ t[i].consumed = TRUE /\ t[i].origin = s[i].origin
      /\ t[i].at = s[i].at /\ t[i].seq = s[i].seq
  BY <1>1, <1>5 DEF IsSample
<1>7. \A j \in DOMAIN s : j # i => t[j] = s[j]
  BY <1>1, <1>2
<1>8. IsSamples(t)
  BY <1>1, <1>4, <1>6, <1>7 DEF IsSamples
<1> QED  BY <1>1, <1>4, <1>6, <1>7, <1>8 DEF SameRows, OnlyConsumed

\* The row the source offers was judged by nobody, and what goes before it was.
LEMMA NextIsTaken ==
  ASSUME NEW s, NEW o, NEW ran, Judging(s, o, ran), NEW i, i = NextRow(s), NEW m
  PROVE  Taken(s, o, m, i)
<1> SUFFICES ASSUME i # 0
             PROVE  /\ i \in DOMAIN s
                    /\ \A k \in Judged(o, i) : o[k].mission # m
                    /\ \A h \in DOMAIN s :
                         s[h].origin = s[i].origin /\ s[h].at < s[i].at => Judged(o, h) # {}
  BY DEF Taken
<1>1. IsSamples(s)
  BY DEF Judging
<1>2. /\ i \in DOMAIN s /\ s[i].consumed = FALSE
      /\ \A h \in DOMAIN s : s[h].consumed = FALSE => s[i].seq <= s[h].seq
  BY <1>1, NextRowIs
<1>3. Judged(o, i) = {} /\ ~\E l \in ran : s[i].origin = Upload(l)
  BY <1>2 DEF Judging, Accounted
<1>4. ASSUME NEW h \in DOMAIN s, s[h].origin = s[i].origin, s[h].at < s[i].at
      PROVE  Judged(o, h) # {}
  <2>1. s[h].seq < s[i].seq /\ s[h].seq \in Nat /\ s[i].seq \in Nat
    BY <1>1, <1>2, <1>4 DEF Judging, Numbered, IsSamples, IsSample
  <2>2. ~(s[i].seq <= s[h].seq)
    BY <2>1
  <2>3. s[h].consumed # FALSE
    BY <1>2, <2>2
  <2>4. s[h].consumed = TRUE
    BY <1>1, <2>3 DEF IsSamples, IsSample
  <2>5. ~\E l \in ran : s[h].origin = Upload(l)
    BY <1>3, <1>4
  <2> QED  BY <2>4, <2>5 DEF Judging, Accounted
<1> QED  BY <1>2, <1>3, <1>4

\* A row taken, or none, is judged in the observation that follows.
LEMMA RowJudged ==
  ASSUME NEW s, NEW o, NEW ran, Judging(s, o, ran), NEW m, NEW i, Taken(s, o, m, i),
         NEW e, e.row = i, e.mission = m, NEW p, p = Append(o, e),
         NEW t, t = IF i = 0 THEN s ELSE Consumes(s, i)
  PROVE  Judging(t, p, ran) /\ SameRows(t, s)
<1>1. /\ IsSamples(s) /\ IsList(s) /\ Len(s) \in Nat /\ DOMAIN s = 1 .. Len(s)
      /\ IsList(o) /\ Len(o) \in Nat /\ DOMAIN o = 1 .. Len(o)
  BY ListIndexed DEF Judging, IsSamples
<1>2. /\ IsList(p) /\ DOMAIN p = 1 .. Len(o) + 1
      /\ \A k \in DOMAIN o : p[k] = o[k]
      /\ p[Len(o) + 1].row = i /\ p[Len(o) + 1].mission = m
  <2>1. Appended(p, o, e)
    BY <1>1, ListAppended
  <2> QED  BY <1>1, <2>1 DEF Appended
<1>3. /\ IsSamples(t) /\ DOMAIN t = DOMAIN s /\ SameRows(t, s)
      /\ i # 0 => i \in DOMAIN s /\ t[i].consumed = TRUE
      /\ \A j \in DOMAIN s : /\ t[j].origin = s[j].origin /\ t[j].at = s[j].at
                             /\ t[j].seq = s[j].seq
                             /\ j # i => t[j] = s[j]
  <2>1. CASE i = 0
    BY <1>1, <2>1 DEF SameRows
  <2>2. CASE i # 0
    <3>1. i \in DOMAIN s /\ t = Consumes(s, i)
      BY <2>2 DEF Taken
    <3>2. OnlyConsumed(t, s, i) /\ t[i].consumed = TRUE
      BY <1>1, <3>1, RowConsumed
    <3> QED  BY <3>1, <3>2 DEF OnlyConsumed
  <2> QED  BY <2>1, <2>2
<1>4. Len(t) = Len(s)
  BY <1>3 DEF SameRows
<1>5. \A k \in DOMAIN o : o[k].row \in 0 .. Len(s)
  BY DEF Judging
<1>6. \A k \in DOMAIN p : k \in DOMAIN o \/ k = Len(o) + 1
  BY <1>1, <1>2
<1>7. i \in 0 .. Len(s)
  BY <1>1, <1>3
<1>8. \A k \in DOMAIN p : p[k].row \in 0 .. Len(t)
  BY <1>2, <1>4, <1>5, <1>6, <1>7
<1>9. i # 0 => \A k \in DOMAIN o : o[k].row = i => o[k].mission # m
  BY DEF Taken, Judged
<1>10. ASSUME NEW j, j # i PROVE Judged(p, j) = Judged(o, j)
  BY <1>1, <1>2, <1>6, <1>10 DEF Judged
<1>11. Judged(p, i) = Judged(o, i) \cup {Len(o) + 1}
  <2>1. \A k \in DOMAIN o : k \in DOMAIN p
    BY <1>1, <1>2
  <2>2. Len(o) + 1 \in DOMAIN p
    BY <1>1, <1>2
  <2> QED  BY <1>2, <1>6, <2>1, <2>2 DEF Judged
<1>12. Numbered(t)
  BY <1>3 DEF Judging, Numbered
<1>13. Once(p)
  <2> SUFFICES ASSUME NEW k \in DOMAIN p, NEW l \in DOMAIN p, p[k].row = p[l].row,
                      p[k].row # 0, p[k].mission = p[l].mission
               PROVE  k = l
    BY DEF Once
  <2>1. CASE k \in DOMAIN o /\ l \in DOMAIN o
    BY <1>2, <2>1 DEF Judging, Once
  <2>2. CASE k \in DOMAIN o /\ l = Len(o) + 1
    BY <1>2, <1>9, <2>2
  <2>3. CASE k = Len(o) + 1 /\ l \in DOMAIN o
    BY <1>2, <1>9, <2>3
  <2> QED  BY <1>6, <2>1, <2>2, <2>3
<1>14. Accounted(t, p, ran)
  <2> SUFFICES ASSUME NEW j \in DOMAIN s
               PROVE t[j].consumed
                       <=> (Judged(p, j) # {} \/ \E n \in ran : t[j].origin = Upload(n))
    BY <1>3 DEF Accounted
  <2>1. CASE j = i
    <3>1. i # 0
      BY <1>1, <2>1
    <3> QED  BY <1>3, <1>11, <2>1, <3>1
  <2>2. CASE j # i
    BY <1>3, <1>10, <2>2 DEF Judging, Accounted
  <2> QED  BY <2>1, <2>2
<1>15. JudgedInOrder(t, p)
  <2> SUFFICES ASSUME NEW h \in DOMAIN s, NEW j \in DOMAIN s,
                      s[h].origin = s[j].origin, s[h].at < s[j].at, NEW k \in Judged(p, j)
               PROVE  \E l \in Judged(p, h) : l < k
    BY <1>3 DEF JudgedInOrder
  <2>1. \A l \in Judged(o, h) : l \in Judged(p, h) /\ l \in Nat /\ l < Len(o) + 1
    BY <1>1, <1>10, <1>11 DEF Judged
  <2>2. CASE k \in Judged(o, j)
    <3>1. PICK l \in Judged(o, h) : l < k
      BY <2>2 DEF Judging, JudgedInOrder
    <3> QED  BY <2>1, <3>1
  <2>3. CASE k \notin Judged(o, j)
    <3>1. j = i /\ k = Len(o) + 1 /\ i # 0
      BY <1>1, <1>10, <1>11, <2>3
    <3>2. PICK l \in Judged(o, h) : TRUE
      BY <3>1 DEF Taken
    <3> QED  BY <2>1, <3>1, <3>2
  <2> QED  BY <2>2, <2>3
<1>16. Judging(t, p, ran)
  BY <1>2, <1>3, <1>8, <1>12, <1>13, <1>14, <1>15 DEF Judging
<1> QED  BY <1>3, <1>16

\* A mission, and the three things a cycle is about.
IsMission(x) ==
  /\ DOMAIN x = {"state", "series", "fault", "table", "relapse", "readiness", "mapping",
                 "ran", "released", "window", "streak", "verdict"}
  /\ x.verdict \in {"monitoring", "violated", "verified"}
  /\ IsList(x.series)

Going(now, ran) ==
  Judging(now.samples, now.observations, ran) /\ IsMission(now.mission)

\* Observations are added after those there are, by cycles of mission m.
Longer(p, o) == \A k \in DOMAIN o : k \in DOMAIN p /\ p[k] = o[k]
Grown(p, o, m) == Longer(p, o) /\ \A k \in DOMAIN p : k \in DOMAIN o \/ p[k].mission = m

\* What cycles of mission m leave alone.
Went(end, before, m) ==
  /\ SameRows(end.samples, before.samples)
  /\ Grown(end.observations, before.observations, m)
  /\ end.mission.ran = before.mission.ran /\ end.mission.series = before.mission.series
  /\ end.mission.state = before.mission.state

LEMMA VerdictTyped ==
  \A h, n, f, r : Verdict(h, n, f, r) \in {"monitoring", "violated", "verified"}
BY DEF Verdict

\* A cycle changes of its mission the streak and the verdict.
Decided(end, m, now) ==
  \E streak, f, r :
    /\ end.mission = [now.mission EXCEPT !.streak = streak,
         !.verdict = Verdict(ReadingsOf(end.observations, m, now.mission.window),
                             streak, f, r)]
    /\ now.mission.released = FALSE => r = "PENDING"

LEMMA CycleDecides ==
  ASSUME NEW m, NEW i, NEW now, NEW end, end = Cycle(m, i, now)
  PROVE  Decided(end, m, now)
<1>2. PICK o : o = Append(now.observations,
                          [mission |-> m, window |-> now.mission.window, row |-> i,
                           reading |-> IF i = 0
                                       THEN Synthetic(now.mission.window,
                                              Len(WindowOf(now.observations, m,
                                                           now.mission.window)) + 1)
                                       ELSE now.samples[i].reading])
  OBVIOUS
<1>3. PICK readings : readings = ReadingsOf(o, m, now.mission.window)
  OBVIOUS
<1>4. PICK streak : streak = NextStreak(now.mission.streak, Latest(readings))
  OBVIOUS
<1>5. PICK f : f = IF now.mission.released THEN "fresh" ELSE "missing"
  OBVIOUS
<1>6. PICK r : r = IF now.mission.released THEN "APPROVED" ELSE "PENDING"
  OBVIOUS
<1>7. PICK t : t = Marked(now.samples, i)
  OBVIOUS
<1>8. end = [samples |-> t, observations |-> o,
             mission |-> [now.mission EXCEPT !.streak = streak,
                            !.verdict = Verdict(readings, streak, f, r)]]
  BY <1>2, <1>3, <1>4, <1>5, <1>6, <1>7 DEF Cycle
<1>9. end.observations = o
  BY <1>8
<1>10. end.mission = [now.mission EXCEPT !.streak = streak,
                        !.verdict = Verdict(readings, streak, f, r)]
  BY <1>8
<1>11. now.mission.released = FALSE => r = "PENDING"
  BY <1>6
<1>12. readings = ReadingsOf(end.observations, m, now.mission.window)
  BY <1>3, <1>9
<1>13. PICK v : v = Verdict(readings, streak, f, r)
  OBVIOUS
<1>14. v = Verdict(ReadingsOf(end.observations, m, now.mission.window), streak, f, r)
  BY <1>12, <1>13
<1>15. end.mission = [now.mission EXCEPT !.streak = streak, !.verdict = v]
  BY <1>10, <1>13
<1> QED  BY <1>11, <1>14, <1>15 DEF Decided

LEMMA CycleGoes ==
  ASSUME NEW m, NEW i, NEW now, NEW ran, Going(now, ran),
         Taken(now.samples, now.observations, m, i)
  PROVE  Going(Cycle(m, i, now), ran) /\ Went(Cycle(m, i, now), now, m)
<1> DEFINE end == Cycle(m, i, now)
<1>1. PICK e : /\ e.row = i /\ e.mission = m
               /\ end.observations = Append(now.observations, e)
               /\ end.samples = IF i = 0 THEN now.samples ELSE Consumes(now.samples, i)
  <2> DEFINE cycle == Len(WindowOf(now.observations, m, now.mission.window)) + 1
             reading == IF i = 0 THEN Synthetic(now.mission.window, cycle)
                        ELSE now.samples[i].reading
  <2>1. PICK r : r = [mission |-> m, window |-> now.mission.window, row |-> i,
                      reading |-> reading]
    OBVIOUS
  <2>2. r.row = i /\ r.mission = m
    BY <2>1
  <2>3. end.observations = Append(now.observations, r)
    BY <2>1 DEF Cycle
  <2>4. end.samples = IF i = 0 THEN now.samples ELSE Consumes(now.samples, i)
    BY DEF Cycle, Marked, Consumes
  <2> QED  BY <2>2, <2>3, <2>4
<1>2. Judging(end.samples, end.observations, ran) /\ SameRows(end.samples, now.samples)
  <2>1. PICK s, o, p, t : /\ s = now.samples /\ o = now.observations
                          /\ p = end.observations /\ t = end.samples
    OBVIOUS
  <2>2. /\ Judging(s, o, ran) /\ Taken(s, o, m, i) /\ p = Append(o, e)
        /\ t = IF i = 0 THEN s ELSE Consumes(s, i)
    <3> HIDE DEF end
    <3> QED  BY <1>1, <2>1 DEF Going
  <2>3. Judging(t, p, ran) /\ SameRows(t, s)
    BY <1>1, <2>2, RowJudged
  <2> QED  BY <2>1, <2>3
<1>3. /\ IsMission(end.mission) /\ end.mission.ran = now.mission.ran
      /\ end.mission.series = now.mission.series /\ end.mission.state = now.mission.state
  <2>1. PICK streak, readings, f, r :
          end.mission = [now.mission EXCEPT !.streak = streak,
                                            !.verdict = Verdict(readings, streak, f, r)]
    <3>1. Decided(end, m, now)
      BY CycleDecides
    <3> HIDE DEF end
    <3> QED  BY <3>1 DEF Decided
  <2> QED  BY <2>1, VerdictTyped DEF Going, IsMission
<1>4. Grown(end.observations, now.observations, m)
  <2>1. IsList(now.observations)
    BY DEF Going, Judging
  <2>2. PICK o, p : o = now.observations /\ p = end.observations
    OBVIOUS
  <2>3. Appended(p, o, e)
    <3> HIDE DEF end
    <3> QED  BY <1>1, <2>1, <2>2, ListAppended
  <2>4. Len(o) \in Nat /\ DOMAIN o = 1 .. Len(o)
    BY <2>1, <2>2, ListIndexed
  <2>5. /\ DOMAIN p = 1 .. Len(o) + 1 /\ p[Len(o) + 1] = e
        /\ \A k \in 1 .. Len(o) : p[k] = o[k]
    BY <2>3 DEF Appended
  <2>6. Longer(p, o)
    BY <2>4, <2>5 DEF Longer
  <2>7. \A k \in DOMAIN p : k \in DOMAIN o \/ p[k].mission = m
    <3>1. \A k \in DOMAIN p : k \in DOMAIN o \/ k = Len(o) + 1
      BY <2>4, <2>5
    <3> QED  BY <1>1, <2>5, <3>1
  <2> QED  BY <2>2, <2>6, <2>7 DEF Grown
<1> QED  BY <1>2, <1>3, <1>4 DEF Going, Went

\* advance() for n cycles, one after the other.
Further(m, x) ==
  IF x.mission.verdict # "monitoring" THEN x ELSE Cycle(m, NextRow(x.samples), x)
Steps(m, before, n, g) ==
  g = [k \in 0 .. n |-> IF k = 0 THEN before ELSE Further(m, g[k - 1])]

LEMMA StepsExist ==
  ASSUME NEW m, NEW before, NEW n \in Nat
  PROVE  \E g : Steps(m, before, n, g)
<1> DEFINE T == {k \in Nat : ~\E g : Steps(m, before, k, g)}
<1>1. ASSUME T # {} PROVE FALSE
  <2>1. T \subseteq Nat
    OBVIOUS
  <2>2. PICK k \in T : \A l \in T : k <= l
    <3> HIDE DEF T
    <3> QED  BY <1>1, <2>1, LeastNumber
  <2>3. k \in Nat /\ ~\E g : Steps(m, before, k, g)
    BY <2>2
  <2>4. k # 0
    <3>1. PICK g : g = [l \in 0 .. 0 |-> before]
      OBVIOUS
    <3>2. g = [l \in 0 .. 0 |-> IF l = 0 THEN before ELSE Further(m, g[l - 1])]
      BY <3>1
    <3> QED  BY <2>3, <3>2 DEF Steps
  <2>5. k - 1 \in Nat /\ k - 1 \notin T
    BY <2>2, <2>3, <2>4
  <2>6. PICK f : Steps(m, before, k - 1, f)
    BY <2>5
  <2>7. PICK g : g = [l \in 0 .. k |-> IF l = k THEN Further(m, f[k - 1]) ELSE f[l]]
    OBVIOUS
  <2>8. ASSUME NEW l \in 0 .. k
        PROVE  g[l] = IF l = 0 THEN before ELSE Further(m, g[l - 1])
    <3>1. f = [j \in 0 .. k - 1 |-> IF j = 0 THEN before ELSE Further(m, f[j - 1])]
      BY <2>6 DEF Steps
    <3>2. CASE l = k
      <4>1. k - 1 \in 0 .. k /\ k - 1 # k /\ k \in 0 .. k
        BY <2>5
      <4>2. g[k] = Further(m, f[k - 1]) /\ g[k - 1] = f[k - 1]
        BY <2>7, <4>1
      <4> QED  BY <2>4, <3>2, <4>2
    <3>3. CASE l # k
      <4>1. l \in 0 .. k - 1
        BY <2>3, <3>3
      <4>2. g[l] = f[l] /\ f[l] = IF l = 0 THEN before ELSE Further(m, f[l - 1])
        BY <2>7, <3>1, <3>3, <4>1
      <4>3. CASE l = 0
        BY <4>2, <4>3
      <4>4. CASE l # 0
        <5>1. l - 1 \in 0 .. k /\ l - 1 # k
          BY <2>3, <4>1, <4>4
        <5>2. g[l - 1] = f[l - 1]
          BY <2>7, <5>1
        <5> QED  BY <4>2, <4>4, <5>2
      <4> QED  BY <4>3, <4>4
    <3> QED  BY <3>2, <3>3
  <2>9. Steps(m, before, k, g)
    <3>1. g = [l \in 0 .. k |-> g[l]]
      BY <2>7
    <3> QED  BY <2>8, <3>1 DEF Steps
  <2> QED  BY <2>3, <2>9
<1> QED  BY <1>1

LEMMA SameRowsTransitive ==
  ASSUME NEW s, NEW t, NEW u, IsList(s), IsList(t), SameRows(t, s), SameRows(u, t)
  PROVE  SameRows(u, s)
<1>1. DOMAIN s = DOMAIN t
  BY ListIndexed DEF SameRows
<1> QED  BY <1>1 DEF SameRows

LEMMA GrownTransitive ==
  ASSUME NEW o, NEW p, NEW q, NEW m, Grown(p, o, m), Grown(q, p, m)
  PROVE  Grown(q, o, m)
<1>1. \A k \in DOMAIN o : k \in DOMAIN q /\ q[k] = o[k]
  BY DEF Grown, Longer
<1>2. \A k \in DOMAIN q : k \in DOMAIN o \/ q[k].mission = m
  BY DEF Grown, Longer
<1> QED  BY <1>1, <1>2 DEF Grown, Longer

LEMMA WentOn ==
  ASSUME NEW m, NEW before, NEW x, NEW g, IsList(before.samples), IsList(x.samples),
         Went(x, before, m), Went(g, x, m)
  PROVE  Went(g, before, m)
<1>1. SameRows(g.samples, before.samples)
  BY SameRowsTransitive DEF Went
<1>2. Grown(g.observations, before.observations, m)
  BY GrownTransitive DEF Went
<1> QED  BY <1>1, <1>2 DEF Went

LEMMA FurtherGoes ==
  ASSUME NEW m, NEW x, NEW ran, Going(x, ran), NEW g, g = Cycle(m, NextRow(x.samples), x)
  PROVE  Going(g, ran) /\ Went(g, x, m)
<1>1. PICK i : i = NextRow(x.samples)
  OBVIOUS
<1>2. Taken(x.samples, x.observations, m, i)
  BY <1>1, NextIsTaken DEF Going
<1> QED  BY <1>1, <1>2, CycleGoes

LEMMA AdvancedGoes ==
  ASSUME NEW m, NEW before, NEW ran, Going(before, ran), NEW n \in Nat
  PROVE  Going(Advanced(m, n, before), ran) /\ Went(Advanced(m, n, before), before, m)
<1> DEFINE after == CHOOSE g : Steps(m, before, n, g)
<1>1. Advanced(m, n, before) = after[n]
  BY DEF Advanced, Steps, Further
<1>2. Steps(m, before, n, after)
  BY StepsExist
<1> HIDE DEF after
<1>3. \A k \in 0 .. n : after[k] = IF k = 0 THEN before ELSE Further(m, after[k - 1])
  BY <1>2 DEF Steps
<1> DEFINE Good(k) == Going(after[k], ran) /\ Went(after[k], before, m)
           T == {k \in 0 .. n : ~Good(k)}
<1>4. ASSUME T # {} PROVE FALSE
  <2>1. T \subseteq Nat
    OBVIOUS
  <2>2. PICK k \in T : \A l \in T : k <= l
    <3> HIDE DEF T
    <3> QED  BY <1>4, <2>1, LeastNumber
  <2>3. k \in 0 .. n /\ ~Good(k)
    BY <2>2
  <2>4. k # 0
    <3>1. SUFFICES ASSUME k = 0 PROVE FALSE
      OBVIOUS
    <3>2. after[k] = before
      BY <1>3, <2>3, <3>1
    <3>3. Went(before, before, m)
      BY DEF Went, SameRows, Grown, Longer
    <3> QED  BY <2>3, <3>2, <3>3
  <2>5. k - 1 \in 0 .. n /\ k - 1 \notin T
    BY <2>2, <2>3, <2>4
  <2>6. PICK x : x = after[k - 1]
    OBVIOUS
  <2>7. Going(x, ran) /\ Went(x, before, m)
    BY <2>5, <2>6
  <2>8. after[k] = x \/ after[k] = Cycle(m, NextRow(x.samples), x)
    BY <1>3, <2>3, <2>4, <2>6 DEF Further
  <2>9. CASE after[k] = x
    BY <2>3, <2>7, <2>9
  <2>10. CASE after[k] = Cycle(m, NextRow(x.samples), x)
    <3>1. PICK g : g = after[k]
      OBVIOUS
    <3>2. Going(g, ran) /\ Went(g, x, m)
      BY <2>7, <2>10, <3>1, FurtherGoes
    <3>3. IsList(before.samples) /\ IsList(x.samples)
      BY <2>7 DEF Going, Judging, IsSamples
    <3>4. Went(g, before, m)
      BY <2>7, <3>2, <3>3, WentOn
    <3> QED  BY <2>3, <3>1, <3>2, <3>4
  <2> QED  BY <2>8, <2>9, <2>10
<1>5. n \in 0 .. n /\ Good(n)
  BY <1>4
<1> QED  BY <1>1, <1>5

-----------------------------------------------------------------------------
(* The machine's samples and missions at every moment.                     *)

\* A run reclaims what is left of its upload.
LEMMA RowsReclaimed ==
  ASSUME NEW s, NEW o, NEW ran, Judging(s, o, ran), NEW m, NEW t, t = Reclaimed(m, s)
  PROVE  Judging(t, o, ran \cup {m}) /\ SameRows(t, s)
<1>1. /\ IsSamples(s) /\ Len(s) \in Nat /\ DOMAIN s = 1 .. Len(s)
      /\ \A i \in DOMAIN s : IsSample(s[i])
  BY ListIndexed DEF Judging, IsSamples
<1>2. t = [i \in 1 .. Len(s) |-> IF s[i].origin = Upload(m)
                                 THEN [s[i] EXCEPT !.consumed = TRUE] ELSE s[i]]
  BY <1>1 DEF Reclaimed, Upload
<1>3. IsList(t) /\ Len(t) = Len(s) /\ DOMAIN t = DOMAIN s
  <2>1. t = [i \in 1 .. Len(s) |-> t[i]]
    BY <1>2
  <2> QED  BY <1>1, <2>1, ListOf
<1>4. ASSUME NEW i \in DOMAIN s
      PROVE  /\ IsSample(t[i]) /\ t[i].origin = s[i].origin /\ t[i].at = s[i].at
             /\ t[i].seq = s[i].seq
             /\ t[i].consumed <=> (s[i].consumed \/ s[i].origin = Upload(m))
  <2>1. t[i] = IF s[i].origin = Upload(m) THEN [s[i] EXCEPT !.consumed = TRUE] ELSE s[i]
    BY <1>1, <1>2
  <2> QED  BY <1>1, <2>1 DEF IsSample
<1>5. IsSamples(t) /\ SameRows(t, s)
  BY <1>3, <1>4 DEF IsSamples, SameRows
<1>6. Numbered(t) /\ JudgedInOrder(t, o)
  <2>1. Numbered(s) /\ JudgedInOrder(s, o)
    BY DEF Judging
  <2>2. Numbered(t)
    BY <1>3, <1>4, <2>1 DEF Numbered
  <2>3. JudgedInOrder(t, o)
    BY <1>3, <1>4, <2>1 DEF JudgedInOrder
  <2> QED  BY <2>2, <2>3
<1>7. Accounted(t, o, ran \cup {m})
  <2> SUFFICES ASSUME NEW i \in DOMAIN s
               PROVE t[i].consumed <=>
                       (Judged(o, i) # {} \/ \E l \in ran \cup {m} : t[i].origin = Upload(l))
    BY <1>3 DEF Accounted
  <2>1. s[i].consumed <=> (Judged(o, i) # {} \/ \E l \in ran : s[i].origin = Upload(l))
    BY DEF Judging, Accounted
  <2> QED  BY <1>4, <2>1
<1>8. IsList(o) /\ Once(o) /\ \A k \in DOMAIN o : o[k].row \in 0 .. Len(t)
  BY <1>3 DEF Judging
<1> QED  BY <1>5, <1>6, <1>7, <1>8 DEF Judging

\* The missions whose run has judged them, and those that have nothing on the
\* machine yet.
Finished == {m \in Mission : missions[m].ran = "judged"}
Absent(origin) == \A i \in DOMAIN samples : samples[i].origin # origin

MissionsInv ==
  /\ missions = [m \in Mission |-> missions[m]]
  /\ \A m \in Mission :
       /\ IsMission(missions[m])
       /\ missions[m].state \in {"absent", "INTERVENTION_RECORDED"} =>
            missions[m].ran = "no" /\ Absent(Upload(m))

\* A batch that is being posted has an id and rows of its own.
PostingInv ==
  /\ posted \in Nat
  /\ \A p \in posting :
       /\ p.id \in 1 .. posted /\ p.base \in Nat /\ IsList(p.batch)
       /\ Absent(Posted(p.id))
       /\ \A q \in posting : p.id = q.id => p = q
  /\ \A n \in Nat : n > posted => Absent(Posted(n))

\* An advance in flight is of a mission that monitors, and holds what it may judge.
AdvancingInv ==
  /\ advancing = [m \in Mission |-> advancing[m]]
  /\ \A m \in Mission : advancing[m] # NotAdvancing =>
       /\ missions[m].state = "MONITORING_RECOVERY"
       /\ Taken(samples, observations, m, advancing[m])

FeedInv ==
  MissionsInv /\ PostingInv /\ AdvancingInv /\ Judging(samples, observations, Finished)

LEMMA OriginsDiffer ==
  ASSUME NEW a, NEW b
  PROVE  /\ Posted(a) # Upload(b)
         /\ Posted(a) = Posted(b) => a = b
         /\ Upload(a) = Upload(b) => a = b
<1>1. Posted(a).edge = TRUE /\ Posted(a).id = a /\ Posted(b).id = b
  BY DEF Posted
<1>2. Upload(b).edge = FALSE /\ Upload(a).id = a /\ Upload(b).id = b
  BY DEF Upload
<1> QED  BY <1>1, <1>2

\* The telemetry series of an export is a list.
LEMMA SeriesIsList ==
  ASSUME NEW t \in DOMAIN Tables, NEW map
  PROVE  IsList(TelemetrySeries(Tables[t], map))
<1> DEFINE table == Tables[t]
           sorted == IF CycleColumn(table, map) # NoColumn
                     THEN SortedBy(table.rows, Cycles(table.rows, CycleColumn(table, map)))
                     ELSE IF Has(table, map, "source_timestamp")
                          THEN SortedBy(table.rows, Times(table.rows)) ELSE table.rows
           n == IF Len(sorted) < SeriesCap THEN Len(sorted) ELSE SeriesCap
<1>1. IsList(table.rows)
  BY FeedAssumption DEF IsList
<1>2. ASSUME NEW keys PROVE Len(SortedBy(table.rows, keys)) \in Nat
  <2>1. Len(table.rows) \in Nat /\ DOMAIN table.rows = 1 .. Len(table.rows)
    BY <1>1, ListIndexed
  <2>2. PICK f : f = SortedBy(table.rows, keys)
    OBVIOUS
  <2>3. f = [i \in 1 .. Len(table.rows) |-> f[i]]
    BY <2>1, <2>2 DEF SortedBy
  <2> QED  BY <2>1, <2>2, <2>3, ListOf
<1>3. Len(sorted) \in Nat
  BY <1>1, <1>2, ListIndexed
<1>4. n \in Nat
  BY <1>3, IntakeAssumption
<1>5. PICK f : f = TelemetrySeries(table, map)
  OBVIOUS
<1>6. f = [i \in 1 .. n |-> f[i]]
  BY <1>5 DEF TelemetrySeries
<1> QED  BY <1>4, <1>5, <1>6, ListOf

LEMMA StatesAfter ==
  ASSUME NEW x, IsMission(x)
  PROVE  StateAfter(x) \notin {"absent", "INTERVENTION_RECORDED"}
BY DEF IsMission, StateAfter

LEMMA FeedBegins == FeedInit => FeedInv
<1> SUFFICES ASSUME FeedInit PROVE FeedInv
  OBVIOUS
<1>1. IsMission(NoMission) /\ NoMission.ran = "no"
  BY EmptyList DEF NoMission, IsMission
<1>2. MissionsInv
  <2>1. \A m \in Mission : missions[m] = NoMission
    BY DEF FeedInit
  <2>2. missions = [m \in Mission |-> missions[m]]
    BY DEF FeedInit
  <2> QED  BY <1>1, <2>1, <2>2, EmptyList DEF MissionsInv, FeedInit, Absent
<1>3. PostingInv
  BY EmptyList DEF PostingInv, FeedInit, Absent
<1>4. Judging(samples, observations, Finished)
  BY EmptyList DEF Judging, FeedInit, IsSamples, Numbered, Once, Accounted, JudgedInOrder
<1>5. AdvancingInv
  BY DEF AdvancingInv, FeedInit
<1> QED  BY <1>2, <1>3, <1>4, <1>5 DEF FeedInv

\* Rows are kept, and those added are of one origin that was not there.
Extended(t, s, origin) ==
  /\ \A i \in DOMAIN s : i \in DOMAIN t /\ t[i].origin = s[i].origin /\ t[i].at = s[i].at
  /\ \A i \in DOMAIN t : i \in DOMAIN s \/ t[i].origin = origin
  /\ \A i \in DOMAIN s : s[i].origin # origin \/ DOMAIN t = DOMAIN s

\* What another mission judges, and what others add, leaves alone what was taken.
LEMMA TakenStill ==
  ASSUME NEW s, NEW o, NEW m, NEW i, Taken(s, o, m, i),
         NEW t, NEW origin, Extended(t, s, origin),
         NEW p, NEW l, Grown(p, o, l), l # m \/ p = o
  PROVE  Taken(t, p, m, i)
<1> SUFFICES ASSUME i # 0
             PROVE  /\ i \in DOMAIN t
                    /\ \A k \in Judged(p, i) : p[k].mission # m
                    /\ \A h \in DOMAIN t :
                         t[h].origin = t[i].origin /\ t[h].at < t[i].at => Judged(p, h) # {}
  BY DEF Taken
<1>1. i \in DOMAIN s /\ i \in DOMAIN t /\ t[i].origin = s[i].origin /\ t[i].at = s[i].at
  BY DEF Taken, Extended
<1>2. ASSUME NEW k \in Judged(p, i) PROVE p[k].mission # m
  <2>1. k \in DOMAIN p /\ p[k].row = i
    BY DEF Judged
  <2>2. CASE k \in DOMAIN o
    <3>1. p[k] = o[k]
      BY <2>2 DEF Grown, Longer
    <3>2. k \in Judged(o, i)
      BY <2>1, <2>2, <3>1 DEF Judged
    <3> QED  BY <3>1, <3>2 DEF Taken
  <2>3. CASE k \notin DOMAIN o
    BY <2>1, <2>3 DEF Grown
  <2> QED  BY <2>2, <2>3
<1>3. ASSUME NEW h \in DOMAIN t, t[h].origin = t[i].origin, t[h].at < t[i].at
      PROVE  Judged(p, h) # {}
  <2>1. h \in DOMAIN s
    BY <1>1, <1>3 DEF Extended
  <2>2. s[h].origin = s[i].origin /\ s[h].at < s[i].at
    BY <1>1, <1>3, <2>1 DEF Extended
  <2>3. PICK k \in Judged(o, h) : TRUE
    BY <2>1, <2>2 DEF Taken
  <2>4. k \in Judged(p, h)
    BY <2>3 DEF Grown, Longer, Judged
  <2> QED  BY <2>4
<1> QED  BY <1>1, <1>2, <1>3

LEMMA AdvancingStill ==
  ASSUME AdvancingInv, NEW origin, Extended(samples', samples, origin),
         NEW l, Grown(observations', observations, l),
         advancing' = [m \in Mission |-> advancing'[m]],
         \A m \in Mission : advancing'[m] # NotAdvancing =>
           /\ advancing'[m] = advancing[m] /\ (l # m \/ observations' = observations)
           /\ missions[m].state = "MONITORING_RECOVERY" =>
                missions'[m].state = "MONITORING_RECOVERY"
  PROVE  AdvancingInv'
<1>1. ASSUME NEW m \in Mission, advancing'[m] # NotAdvancing
      PROVE  /\ missions'[m].state = "MONITORING_RECOVERY"
             /\ Taken(samples', observations', m, advancing'[m])
  <2>1. /\ missions[m].state = "MONITORING_RECOVERY"
        /\ Taken(samples, observations, m, advancing[m])
    BY <1>1 DEF AdvancingInv
  <2>2. Taken(samples', observations', m, advancing[m])
    BY <1>1, <2>1, TakenStill
  <2> QED  BY <1>1, <2>1, <2>2
<1> QED  BY <1>1 DEF AdvancingInv, Taken, Judged

\* Steps that touch no row and no observation.
LEMMA RowsUntouched ==
  ASSUME FeedInv, UNCHANGED <<samples, observations>>,
         MissionsInv', PostingInv', AdvancingInv', Finished' = Finished
  PROVE  FeedInv'
BY DEF FeedInv

LEMMA NothingAdded ==
  ASSUME UNCHANGED <<samples, observations>>, NEW origin, NEW l
  PROVE  Extended(samples', samples, origin) /\ Grown(observations', observations, l)
BY DEF Extended, Grown, Longer

\* One mission changes and nothing else, and its run does not end.
LEMMA MissionMoves ==
  ASSUME FeedInv, UNCHANGED <<samples, observations, posting, posted, advancing>>,
         NEW m \in Mission, NEW x, missions' = [missions EXCEPT ![m] = x],
         IsMission(x), x.ran = missions[m].ran,
         x.state \in {"absent", "INTERVENTION_RECORDED"} =>
           missions[m].state \in {"absent", "INTERVENTION_RECORDED"},
         missions[m].state = "MONITORING_RECOVERY" => x.state = "MONITORING_RECOVERY"
  PROVE  FeedInv'
<1>1. missions = [l \in Mission |-> missions[l]]
  BY DEF FeedInv, MissionsInv
<1>2. missions' = [l \in Mission |-> missions'[l]]
  BY <1>1
<1>3. missions'[m] = x /\ \A l \in Mission : l # m => missions'[l] = missions[l]
  BY <1>1
<1>4. Finished' = Finished
  BY <1>3 DEF Finished
<1>5. MissionsInv'
  <2>1. \A l \in Mission : Absent(Upload(l))' <=> Absent(Upload(l))
    BY DEF Absent, Upload
  <2> QED  BY <1>2, <1>3, <2>1 DEF FeedInv, MissionsInv
<1>6. PostingInv'
  BY DEF FeedInv, PostingInv, Absent, Posted
<1>7. AdvancingInv'
  <2>1. \A l \in Mission : missions[l].state = "MONITORING_RECOVERY" =>
                             missions'[l].state = "MONITORING_RECOVERY"
    BY <1>3
  <2>2. PICK origin : Extended(samples', samples, origin)
                      /\ Grown(observations', observations, m)
    BY NothingAdded
  <2> QED  BY <2>1, <2>2, AdvancingStill DEF FeedInv, AdvancingInv
<1> QED  BY <1>4, <1>5, <1>6, <1>7, RowsUntouched

LEMMA PostingStep ==
  ASSUME FeedInv, NEW b \in Batches, PostBegins(b)
  PROVE  FeedInv'
<1> DEFINE p == [id |-> posted + 1, base |-> HighestSeq, batch |-> b]
<1>1. posted' = posted + 1 /\ posting' = posting \cup {p} /\ posted \in Nat
  BY DEF PostBegins, FeedInv, PostingInv
<1>2. HighestSeq \in Nat
  BY HighestIsNumber DEF FeedInv, Judging
<1>3. IsList(b)
  BY FeedAssumption DEF IsList
<1>4. UNCHANGED <<samples, observations, missions, advancing>>
  BY DEF PostBegins
<1>5. PostingInv'
  <2>1. \A n \in Nat : n > posted => Absent(Posted(n))
    BY DEF FeedInv, PostingInv
  <2>2. \A n : Absent(Posted(n))' <=> Absent(Posted(n))
    BY <1>4 DEF Absent, Posted
  <2>3. p.id = posted + 1 /\ p.base \in Nat /\ IsList(p.batch) /\ Absent(Posted(p.id))
    BY <1>1, <1>2, <1>3, <2>1
  <2>4. ASSUME NEW q \in posting
        PROVE  q.id \in 1 .. posted /\ q.id # p.id /\ q.id \in 1 .. posted + 1
               /\ q.base \in Nat /\ IsList(q.batch) /\ Absent(Posted(q.id))
               /\ \A r \in posting : q.id = r.id => q = r
    BY <1>1 DEF FeedInv, PostingInv
  <2>5. p.id \in 1 .. posted + 1 /\ posted + 1 \in Nat
    BY <1>1
  <2>6. \A n \in Nat : n > posted + 1 => Absent(Posted(n))
    BY <1>1, <2>1
  <2> HIDE DEF p
  <2> QED  BY <1>1, <2>2, <2>3, <2>4, <2>5, <2>6 DEF PostingInv
<1>6. MissionsInv' /\ Finished' = Finished
  BY <1>4 DEF FeedInv, MissionsInv, Finished, Absent, Upload
<1>7. AdvancingInv'
  BY <1>4 DEF FeedInv, AdvancingInv, Taken, Judged
<1> QED  BY <1>4, <1>5, <1>6, <1>7, RowsUntouched

LEMMA PostedStep ==
  ASSUME FeedInv, NEW p \in posting, PostCommits(p)
  PROVE  FeedInv'
<1>1. /\ p.id \in 1 .. posted /\ p.base \in Nat /\ IsList(p.batch) /\ Absent(Posted(p.id))
      /\ posted \in Nat
  BY DEF FeedInv, PostingInv
<1>2. /\ samples' = samples \o NewRows(Posted(p.id), p.base, p.batch)
      /\ UNCHANGED <<posted, observations, missions, advancing>> /\ posting' = posting \ {p}
  BY DEF PostCommits, Posted, NewRows
<1>3. NewOrigin(samples, Finished, Posted(p.id))
  BY <1>1, OriginsDiffer DEF NewOrigin, Absent
<1>4. /\ Judging(samples', observations, Finished)
      /\ OnlyAdded(samples', samples, Posted(p.id)) /\ Kept(samples', samples)
  <2>1. Judging(samples, observations, Finished)
    BY DEF FeedInv
  <2> QED  BY <1>1, <1>2, <1>3, <2>1, RowsAdded
<1>5. ASSUME NEW origin, Absent(origin), origin # Posted(p.id)
      PROVE  \A i \in DOMAIN samples' : samples'[i].origin # origin
  BY <1>4, <1>5 DEF Absent, OnlyAdded
<1>6. \A m \in Mission : Absent(Upload(m)) => Absent(Upload(m))'
  <2>1. \A m \in Mission : Absent(Upload(m)) =>
          \A i \in DOMAIN samples' : samples'[i].origin # Upload(m)
    BY <1>5, OriginsDiffer
  <2> QED  BY <2>1 DEF Absent, Upload
<1>7. \A n : n # p.id /\ Absent(Posted(n)) => Absent(Posted(n))'
  <2>1. \A n : n # p.id /\ Absent(Posted(n)) =>
          \A i \in DOMAIN samples' : samples'[i].origin # Posted(n)
    BY <1>5, OriginsDiffer
  <2> QED  BY <2>1 DEF Absent, Posted
<1>8. MissionsInv'
  BY <1>2, <1>6 DEF FeedInv, MissionsInv
<1>9. PostingInv'
  <2>1. ASSUME NEW q \in posting, q # p
        PROVE  /\ q.id \in 1 .. posted /\ q.base \in Nat /\ IsList(q.batch)
               /\ Absent(Posted(q.id))'
               /\ \A r \in posting : q.id = r.id => q = r
    <3>1. q.id # p.id /\ Absent(Posted(q.id))
      BY <2>1 DEF FeedInv, PostingInv
    <3> QED  BY <1>7, <3>1 DEF FeedInv, PostingInv
  <2>2. ASSUME NEW n \in Nat, n > posted PROVE Absent(Posted(n))'
    <3>1. n # p.id /\ Absent(Posted(n))
      BY <1>1, <2>2 DEF FeedInv, PostingInv
    <3> QED  BY <1>7, <3>1
  <2> QED  BY <1>1, <1>2, <2>1, <2>2 DEF PostingInv
<1>10. Finished' = Finished
  BY <1>2 DEF Finished
<1>11. AdvancingInv'
  <2>1. Extended(samples', samples, Posted(p.id))
    BY <1>1, <1>4 DEF Absent, OnlyAdded, Kept, Extended
  <2>2. Grown(observations', observations, p)
    BY <1>2 DEF Grown, Longer
  <2> QED  BY <1>2, <2>1, <2>2, AdvancingStill DEF FeedInv, AdvancingInv
<1> QED  BY <1>2, <1>4, <1>8, <1>9, <1>10, <1>11 DEF FeedInv

\* The rows after an uploaded run: those there were, and those of its upload.
LEMMA UploadedRows ==
  ASSUME FeedInv, NEW m \in Mission, missions[m].state = "INTERVENTION_RECORDED",
         NEW series, series = missions[m].series,
         NEW t, t = samples \o NewRows(Upload(m), HighestSeq, series)
  PROVE  /\ Judging(t, observations, Finished)
         /\ OnlyAdded(t, samples, Upload(m)) /\ Kept(t, samples)
<1>1. /\ Judging(samples, observations, Finished) /\ HighestSeq \in Nat
      /\ IsList(series) /\ Absent(Upload(m)) /\ missions[m].ran = "no"
  BY HighestIsNumber DEF FeedInv, Judging, MissionsInv, IsMission
<1>2. NewOrigin(samples, Finished, Upload(m))
  BY <1>1, OriginsDiffer DEF Finished, Absent, NewOrigin
<1> QED  BY <1>1, <1>2, RowsAdded

\* What a run does to the tables, whether it got to monitoring or not.
LEMMA RunKeepsOthers ==
  ASSUME FeedInv, NEW m \in Mission, UNCHANGED <<posting, posted>>,
         NEW x, missions' = [missions EXCEPT ![m] = x],
         IsMission(x), x.state \notin {"absent", "INTERVENTION_RECORDED"},
         NEW t, OnlyAdded(t, samples, Upload(m)),
         IsList(t), IsList(samples'), SameRows(samples', t)
  PROVE  MissionsInv' /\ PostingInv'
<1>1. missions = [l \in Mission |-> missions[l]]
  BY DEF FeedInv, MissionsInv
<1>2. missions' = [l \in Mission |-> missions'[l]]
  BY <1>1
<1>3. missions'[m] = x /\ \A l \in Mission : l # m => missions'[l] = missions[l]
  BY <1>1
<1>4. DOMAIN samples' = DOMAIN t /\ \A i \in DOMAIN t : samples'[i].origin = t[i].origin
  BY ListIndexed DEF SameRows
<1>5. ASSUME NEW origin, Absent(origin), origin # Upload(m)
      PROVE  \A i \in DOMAIN samples' : samples'[i].origin # origin
  BY <1>4, <1>5 DEF Absent, OnlyAdded
<1>6. \A l : l # m /\ Absent(Upload(l)) => Absent(Upload(l))'
  <2>1. \A l : l # m /\ Absent(Upload(l)) =>
          \A i \in DOMAIN samples' : samples'[i].origin # Upload(l)
    BY <1>5, OriginsDiffer
  <2> QED  BY <2>1 DEF Absent, Upload
<1>7. \A n : Absent(Posted(n)) => Absent(Posted(n))'
  <2>1. \A n : Absent(Posted(n)) => \A i \in DOMAIN samples' : samples'[i].origin # Posted(n)
    BY <1>5, OriginsDiffer
  <2> QED  BY <2>1 DEF Absent, Posted
<1>8. MissionsInv'
  BY <1>2, <1>3, <1>6 DEF FeedInv, MissionsInv
<1>9. PostingInv'
  BY <1>7 DEF FeedInv, PostingInv
<1> QED  BY <1>8, <1>9

\* A run is of a mission that does not monitor: what others have taken, they keep.
LEMMA RunAdvancing ==
  ASSUME FeedInv, NEW m \in Mission, missions[m].state = "INTERVENTION_RECORDED",
         UNCHANGED advancing, NEW x, missions' = [missions EXCEPT ![m] = x],
         NEW t, IsList(t), OnlyAdded(t, samples, Upload(m)), Kept(t, samples),
         IsList(samples'), SameRows(samples', t), Grown(observations', observations, m)
  PROVE  AdvancingInv'
<1>1. Absent(Upload(m)) /\ AdvancingInv /\ missions = [l \in Mission |-> missions[l]]
  BY DEF FeedInv, MissionsInv
<1>2. PICK u : u = samples'
  OBVIOUS
<1>3. /\ DOMAIN u = DOMAIN t
      /\ \A i \in DOMAIN t : u[i].origin = t[i].origin /\ u[i].at = t[i].at
  BY <1>2, ListIndexed DEF SameRows
<1>4. \A i \in DOMAIN samples :
        i \in DOMAIN u /\ u[i].origin = samples[i].origin /\ u[i].at = samples[i].at
  BY <1>3 DEF Kept
<1>5. \A i \in DOMAIN u : i \in DOMAIN samples \/ u[i].origin = Upload(m)
  BY <1>3 DEF OnlyAdded
<1>6. Extended(samples', samples, Upload(m))
  <2>1. \A i \in DOMAIN samples : samples[i].origin # Upload(m)
    BY <1>1 DEF Absent
  <2> QED  BY <1>2, <1>4, <1>5, <2>1 DEF Extended
<1>7. advancing[m] = NotAdvancing
  BY <1>1 DEF AdvancingInv
<1>8. \A l \in Mission : l # m => missions'[l] = missions[l]
  BY <1>1
<1> QED  BY <1>1, <1>6, <1>7, <1>8, AdvancingStill DEF AdvancingInv

\* The machine's table with the rows of an upload, and what the cycles of a staffed run
\* make of it.
WithUpload(m) == samples \o NewRows(Upload(m), HighestSeq, missions[m].series)
RanTo(m) ==
  Advanced(m, Len(missions[m].series),
           [samples |-> WithUpload(m), observations |-> observations,
            mission |-> Prepared(missions[m])])

LEMMA RunSays ==
  ASSUME NEW m \in Mission, RunVerification(m)
  PROVE  /\ staffed =>
              /\ samples' = Reclaimed(m, RanTo(m).samples)
              /\ observations' = RanTo(m).observations
              /\ missions' = [missions EXCEPT ![m] =
                   [RanTo(m).mission EXCEPT !.state = StateAfter(RanTo(m).mission),
                                            !.ran = "judged"]]
         /\ ~staffed =>
              /\ samples' = WithUpload(m) /\ UNCHANGED observations
              /\ missions' = [missions EXCEPT ![m].state = "AWAITING_REQUIRED_EVIDENCE",
                                              ![m].ran = "blocked"]
BY DEF RunVerification, RanTo, WithUpload, Upload, NewRows

LEMMA RunStep ==
  ASSUME FeedInv, NEW m \in Mission, RunVerification(m)
  PROVE  FeedInv'
<1> DEFINE series == missions[m].series
<1>1. PICK t : t = samples \o NewRows(Upload(m), HighestSeq, series)
  OBVIOUS
<1>2. missions[m].state = "INTERVENTION_RECORDED" /\ UNCHANGED <<posting, posted, advancing>>
  BY DEF RunVerification
<1>3. /\ Judging(t, observations, Finished)
      /\ OnlyAdded(t, samples, Upload(m)) /\ Kept(t, samples)
  BY <1>1, <1>2, UploadedRows
<1>4. /\ missions = [l \in Mission |-> missions[l]] /\ IsMission(missions[m])
      /\ missions[m].ran = "no" /\ Len(series) \in Nat /\ IsList(t)
  BY <1>2, <1>3, ListIndexed DEF FeedInv, MissionsInv, IsMission, Judging, IsSamples
<1>5. CASE staffed
  <2> DEFINE before == [samples |-> t, observations |-> observations,
                        mission |-> Prepared(missions[m])]
             end == Advanced(m, Len(series), before)
             x == [end.mission EXCEPT !.state = StateAfter(end.mission), !.ran = "judged"]
  <2>1. /\ samples' = Reclaimed(m, end.samples) /\ observations' = end.observations
        /\ missions' = [missions EXCEPT ![m] = x]
    <3>1. end = RanTo(m)
      BY <1>1 DEF RanTo, WithUpload
    <3> HIDE DEF end
    <3> QED  BY <1>5, <3>1, RunSays
  <2>2. Going(before, Finished)
    <3>1. IsMission(Prepared(missions[m]))
      BY <1>4 DEF IsMission, Prepared, Monitoring
    <3> QED  BY <1>3, <3>1 DEF Going
  <2>3. Going(end, Finished) /\ Went(end, before, m)
    <3> HIDE DEF before
    <3> QED  BY <1>4, <2>2, AdvancedGoes
  <2>4. IsMission(x) /\ x.ran = "judged" /\ x.state \notin {"absent", "INTERVENTION_RECORDED"}
    <3>1. IsMission(end.mission)
      BY <2>3 DEF Going
    <3>2. StateAfter(end.mission) \notin {"absent", "INTERVENTION_RECORDED"}
      BY <3>1, StatesAfter
    <3> HIDE DEF end
    <3> QED  BY <3>1, <3>2 DEF IsMission
  <2>5. Judging(samples', observations', Finished \cup {m}) /\ SameRows(samples', end.samples)
    <3>1. Judging(end.samples, end.observations, Finished)
      BY <2>3 DEF Going
    <3> HIDE DEF end
    <3> QED  BY <2>1, <3>1, RowsReclaimed
  <2>6. SameRows(samples', t)
    <3>1. SameRows(end.samples, t) /\ IsList(end.samples)
      BY <2>3 DEF Went, Going, Judging, IsSamples
    <3> HIDE DEF end
    <3> QED  BY <1>4, <2>5, <3>1, SameRowsTransitive
  <2>7. IsList(samples')
    BY <2>5 DEF Judging, IsSamples
  <2> HIDE DEF x, end, before
  <2>8. MissionsInv' /\ PostingInv'
    BY <1>2, <1>3, <1>4, <2>1, <2>4, <2>6, <2>7, RunKeepsOthers
  <2>9. Finished' = Finished \cup {m}
    <3>1. missions'[m] = x /\ \A l \in Mission : l # m => missions'[l] = missions[l]
      BY <1>4, <2>1
    <3> QED  BY <2>4, <3>1 DEF Finished
  <2>10. AdvancingInv'
    <3>1. Grown(observations', observations, m)
      BY <2>1, <2>3 DEF Went, before
    <3> QED  BY <1>2, <1>3, <1>4, <2>1, <2>6, <2>7, <3>1, RunAdvancing
  <2> QED  BY <2>5, <2>8, <2>9, <2>10 DEF FeedInv
<1>6. CASE ~staffed
  <2> DEFINE x == [missions[m] EXCEPT !.state = "AWAITING_REQUIRED_EVIDENCE", !.ran = "blocked"]
  <2>1. samples' = t /\ UNCHANGED observations
    BY <1>1, <1>6, RunSays DEF WithUpload
  <2>2. missions' = [missions EXCEPT ![m] = x]
    BY <1>4, <1>6, RunSays DEF IsMission
  <2>3. IsMission(x) /\ x.ran = "blocked" /\ x.state \notin {"absent", "INTERVENTION_RECORDED"}
    BY <1>4 DEF IsMission
  <2>4. SameRows(samples', t)
    BY <2>1 DEF SameRows
  <2> HIDE DEF x
  <2>5. MissionsInv' /\ PostingInv'
    BY <1>2, <1>3, <1>4, <2>1, <2>2, <2>3, <2>4, RunKeepsOthers
  <2>6. Finished' = Finished
    <3>1. missions'[m] = x /\ \A l \in Mission : l # m => missions'[l] = missions[l]
      BY <1>4, <2>2
    <3> QED  BY <1>4, <2>3, <3>1 DEF Finished
  <2>7. AdvancingInv'
    <3>1. Grown(observations', observations, m)
      BY <2>1 DEF Grown, Longer
    <3>2. IsList(samples')
      BY <1>4, <2>1
    <3> QED  BY <1>2, <1>3, <1>4, <2>2, <2>4, <3>1, <3>2, RunAdvancing
  <2> QED  BY <1>3, <2>1, <2>5, <2>6, <2>7 DEF FeedInv
<1> QED  BY <1>5, <1>6

\* An advance that reads, one that dies and one that commits.
LEMMA BeginsStep ==
  ASSUME FeedInv, NEW m \in Mission, AdvanceBegins(m)
  PROVE  FeedInv'
<1>1. /\ missions[m].state = "MONITORING_RECOVERY"
      /\ advancing' = [advancing EXCEPT ![m] = NextRow(samples)]
      /\ UNCHANGED <<samples, posting, posted, observations, missions>>
  BY DEF AdvanceBegins
<1>2. advancing = [l \in Mission |-> advancing[l]]
  BY DEF FeedInv, AdvancingInv
<1>3. PICK i : i = NextRow(samples)
  OBVIOUS
<1>4. Taken(samples, observations, m, i)
  BY <1>3, NextIsTaken DEF FeedInv
<1>5. /\ advancing' = [l \in Mission |-> advancing'[l]] /\ advancing'[m] = i
      /\ \A l \in Mission : l # m => advancing'[l] = advancing[l]
  BY <1>1, <1>2, <1>3
<1>6. ASSUME NEW l \in Mission, advancing'[l] # NotAdvancing
      PROVE  /\ missions[l].state = "MONITORING_RECOVERY"
             /\ Taken(samples, observations, l, advancing'[l])
  <2>1. CASE l = m
    BY <1>1, <1>4, <1>5, <2>1
  <2>2. CASE l # m
    BY <1>5, <1>6, <2>2 DEF FeedInv, AdvancingInv
  <2> QED  BY <2>1, <2>2
<1>7. AdvancingInv'
  BY <1>1, <1>5, <1>6 DEF AdvancingInv, Taken, Judged
<1>8. MissionsInv' /\ PostingInv' /\ Finished' = Finished
  BY <1>1 DEF FeedInv, MissionsInv, PostingInv, Absent, Upload, Posted, Finished
<1> QED  BY <1>1, <1>7, <1>8, RowsUntouched

LEMMA FailsStep ==
  ASSUME FeedInv, NEW m \in Mission, AdvanceFails(m)
  PROVE  FeedInv'
<1>1. /\ advancing' = [advancing EXCEPT ![m] = NotAdvancing]
      /\ UNCHANGED <<samples, posting, posted, observations, missions>>
  BY DEF AdvanceFails
<1>2. advancing = [l \in Mission |-> advancing[l]]
  BY DEF FeedInv, AdvancingInv
<1>3. /\ advancing' = [l \in Mission |-> advancing'[l]]
      /\ \A l \in Mission : advancing'[l] # NotAdvancing => advancing'[l] = advancing[l]
  BY <1>1, <1>2
<1>4. AdvancingInv'
  BY <1>1, <1>3 DEF FeedInv, AdvancingInv, Taken, Judged
<1>5. MissionsInv' /\ PostingInv' /\ Finished' = Finished
  BY <1>1 DEF FeedInv, MissionsInv, PostingInv, Absent, Upload, Posted, Finished
<1> QED  BY <1>1, <1>4, <1>5, RowsUntouched

\* What an advance that commits makes of the tables and of its mission.
CommitLeaves(m, i, before, end, x) ==
  /\ i = advancing[m] /\ i # NotAdvancing
  /\ before = [samples |-> samples, observations |-> observations, mission |-> missions[m]]
  /\ end = Cycle(m, i, before)
  /\ x = [end.mission EXCEPT !.state = StateAfter(end.mission)]
  /\ samples' = end.samples /\ observations' = end.observations
  /\ missions' = [missions EXCEPT ![m] = x]
  /\ advancing' = [advancing EXCEPT ![m] = NotAdvancing]
  /\ UNCHANGED <<posting, posted>>

LEMMA CommitSays ==
  ASSUME NEW m \in Mission, AdvanceCommits(m)
  PROVE  \E i, before, end, x : CommitLeaves(m, i, before, end, x)
<1>1. PICK i : i = advancing[m]
  OBVIOUS
<1>2. PICK before : before = [samples |-> samples, observations |-> observations,
                              mission |-> missions[m]]
  OBVIOUS
<1>3. PICK end : end = Cycle(m, i, before)
  OBVIOUS
<1>4. PICK x : x = [end.mission EXCEPT !.state = StateAfter(end.mission)]
  OBVIOUS
<1>5. CommitLeaves(m, i, before, end, x)
  BY <1>1, <1>2, <1>3, <1>4 DEF AdvanceCommits, CommitLeaves
<1> QED  BY <1>5

LEMMA CommitGoes ==
  ASSUME FeedInv, NEW m \in Mission, NEW i, NEW before, NEW end, NEW x,
         CommitLeaves(m, i, before, end, x)
  PROVE  /\ missions[m].state = "MONITORING_RECOVERY"
         /\ Going(before, Finished) /\ Taken(before.samples, before.observations, m, i)
         /\ Going(end, Finished) /\ Went(end, before, m)
<1>1. /\ before.samples = samples /\ before.observations = observations
      /\ before.mission = missions[m] /\ end = Cycle(m, i, before)
  BY DEF CommitLeaves
<1>2. /\ missions[m].state = "MONITORING_RECOVERY"
      /\ Taken(before.samples, before.observations, m, i)
  BY <1>1 DEF CommitLeaves, FeedInv, AdvancingInv
<1>3. Going(before, Finished)
  BY <1>1 DEF FeedInv, MissionsInv, Going
<1> QED  BY <1>1, <1>2, <1>3, CycleGoes

LEMMA CycleStep ==
  ASSUME FeedInv, NEW m \in Mission, AdvanceCommits(m)
  PROVE  FeedInv'
<1>1. PICK i, before, end, x : CommitLeaves(m, i, before, end, x)
  BY CommitSays
<1>2. /\ before.samples = samples /\ before.observations = observations
      /\ before.mission = missions[m]
      /\ x = [end.mission EXCEPT !.state = StateAfter(end.mission)]
      /\ samples' = end.samples /\ observations' = end.observations
      /\ missions' = [missions EXCEPT ![m] = x]
      /\ advancing' = [advancing EXCEPT ![m] = NotAdvancing]
      /\ UNCHANGED <<posting, posted>>
  BY <1>1 DEF CommitLeaves
<1>3. Going(end, Finished) /\ Went(end, before, m)
  BY <1>1, CommitGoes
<1>4. /\ IsMission(x) /\ x.ran = missions[m].ran
      /\ x.state \notin {"absent", "INTERVENTION_RECORDED"}
  <2>1. IsMission(end.mission) /\ end.mission.ran = missions[m].ran
    BY <1>2, <1>3 DEF Going, Went
  <2>2. StateAfter(end.mission) \notin {"absent", "INTERVENTION_RECORDED"}
    BY <2>1, StatesAfter
  <2> QED  BY <1>2, <2>1, <2>2 DEF IsMission
<1>5. /\ Judging(samples', observations', Finished) /\ SameRows(samples', samples)
      /\ IsList(samples')
  BY <1>2, <1>3 DEF Going, Went, Judging, IsSamples
<1>6. /\ IsList(samples) /\ missions = [l \in Mission |-> missions[l]]
      /\ advancing = [l \in Mission |-> advancing[l]]
  BY DEF FeedInv, Judging, IsSamples, MissionsInv, AdvancingInv
<1>7. MissionsInv' /\ PostingInv'
  <2>1. OnlyAdded(samples, samples, Upload(m))
    BY DEF OnlyAdded
  <2> QED  BY <1>2, <1>4, <1>5, <1>6, <2>1, RunKeepsOthers
<1>8. missions'[m] = x /\ \A l \in Mission : l # m => missions'[l] = missions[l]
  BY <1>2, <1>6
<1>9. Finished' = Finished
  BY <1>4, <1>8 DEF Finished
<1>10. AdvancingInv'
  <2>1. Extended(samples', samples, Upload(m))
    <3>1. PICK u : u = samples'
      OBVIOUS
    <3>2. DOMAIN u = DOMAIN samples
      BY <1>5, <1>6, <3>1, ListIndexed DEF SameRows
    <3> QED  BY <1>5, <3>1, <3>2 DEF SameRows, Extended
  <2>2. Grown(observations', observations, m)
    BY <1>2, <1>3 DEF Went
  <2>3. /\ advancing' = [l \in Mission |-> advancing'[l]] /\ advancing'[m] = NotAdvancing
        /\ \A l \in Mission : l # m => advancing'[l] = advancing[l]
    BY <1>2, <1>6
  <2> QED  BY <1>8, <2>1, <2>2, <2>3, AdvancingStill DEF FeedInv
<1> QED  BY <1>5, <1>7, <1>9, <1>10 DEF FeedInv

LEMMA FeedStep == FeedInv /\ [FeedNext]_feedVars => FeedInv'
<1> SUFFICES ASSUME FeedInv, [FeedNext]_feedVars PROVE FeedInv'
  OBVIOUS
<1> USE DEF Prepared, Monitoring
<1>1. \A m \in Mission : IsMission(missions[m])
  BY DEF FeedInv, MissionsInv
<1>2. ASSUME NEW m \in Mission, NEW t \in DOMAIN Tables, NEW saved, CreateMission(m, t, saved)
      PROVE FeedInv'
  <2> DEFINE intake == Analysis(Tables[t], saved)
             x == [NoMission EXCEPT
                     !.state = "INTERVENTION_RECORDED", !.table = t,
                     !.mapping = intake.mapping, !.series = intake.series,
                     !.fault = intake.fault, !.relapse = intake.relapse,
                     !.readiness = intake.readiness]
  <2>1. missions' = [missions EXCEPT ![m] = x] /\ missions[m].state = "absent"
    BY <1>2 DEF CreateMission
  <2>2. UNCHANGED <<samples, observations, posting, posted, advancing>>
    BY <1>2 DEF CreateMission
  <2>3. IsList(intake.series)
    BY SeriesIsList DEF Analysis
  <2>4. IsMission(x) /\ x.ran = "no"
    <3> HIDE DEF intake
    <3> QED  BY <2>3 DEF NoMission, IsMission
  <2>5. missions[m].ran = "no"
    BY <2>1 DEF FeedInv, MissionsInv
  <2> HIDE DEF x
  <2> QED  BY <2>1, <2>2, <2>4, <2>5, MissionMoves
<1>3. ASSUME NEW m \in Mission, StartMonitoring(m) PROVE FeedInv'
  <2> DEFINE x == Monitoring(missions[m], 1)
  <2>1. /\ missions' = [missions EXCEPT ![m] = x]
        /\ missions[m].state = "AWAITING_REQUIRED_EVIDENCE"
        /\ UNCHANGED <<samples, observations, posting, posted, advancing>>
    BY <1>3 DEF StartMonitoring
  <2>2. /\ IsMission(x) /\ x.ran = missions[m].ran
        /\ x.state = "MONITORING_RECOVERY"
    BY <1>1 DEF IsMission
  <2> HIDE DEF x
  <2> QED  BY <2>1, <2>2, MissionMoves
<1>4. ASSUME NEW m \in Mission, ReleaseQuality(m) PROVE FeedInv'
  <2> DEFINE x == [missions[m] EXCEPT !.released = TRUE]
  <2>1. /\ missions' = [missions EXCEPT ![m] = x]
        /\ UNCHANGED <<samples, observations, posting, posted, advancing>>
    BY <1>4 DEF ReleaseQuality
  <2>2. IsMission(x) /\ x.ran = missions[m].ran /\ x.state = missions[m].state
    BY <1>1 DEF IsMission
  <2> HIDE DEF x
  <2> QED  BY <2>1, <2>2, MissionMoves
<1>5. ASSUME NEW m \in Mission, CompleteContingency(m) PROVE FeedInv'
  <2> DEFINE x == [Monitoring(missions[m], missions[m].window + 1) EXCEPT !.released = FALSE]
  <2>1. /\ missions' = [missions EXCEPT ![m] = x]
        /\ UNCHANGED <<samples, observations, posting, posted, advancing>>
    BY <1>5 DEF CompleteContingency
  <2>2. /\ IsMission(x) /\ x.ran = missions[m].ran
        /\ x.state = "MONITORING_RECOVERY"
    BY <1>1 DEF IsMission
  <2> HIDE DEF x
  <2> QED  BY <2>1, <2>2, MissionMoves
<1>6. ASSUME UNCHANGED feedVars PROVE FeedInv'
  BY <1>6 DEF feedVars, FeedInv, MissionsInv, PostingInv, AdvancingInv, Absent, Finished
<1> QED  BY <1>2, <1>3, <1>4, <1>5, <1>6, PostingStep, PostedStep, RunStep, BeginsStep, FailsStep,
            CycleStep DEF FeedNext

LEMMA FeedInvariant == FeedSpec => []FeedInv
BY FeedBegins, FeedStep, PTL DEF FeedSpec

-----------------------------------------------------------------------------
(* What the sources promise.                                               *)

\* Whatever missions share a machine, however their advances overlap and batches are
\* posted meanwhile, a row is consumed exactly when a cycle judged it, or when the run
\* of its own upload is over; and no mission judges a row twice (next_sample() and
\* _consume_leftovers()).
THEOREM ReadingsKept == FeedSpec => []NoReadingIsLost
<1>1. FeedInv => NoReadingIsLost
  <2> SUFFICES ASSUME FeedInv, NEW i \in DOMAIN samples
               PROVE /\ samples[i].consumed <=>
                          \/ JudgedAt(i) # {}
                          \/ \E m \in Mission : Own(m, i) /\ missions[m].ran = "judged"
                     /\ \A k, l \in JudgedAt(i) :
                          observations[k].mission = observations[l].mission => k = l
    BY DEF NoReadingIsLost
  <2>1. JudgedAt(i) = Judged(observations, i)
    BY DEF JudgedAt, Judged
  <2>2. i # 0
    BY ListIndexed DEF FeedInv, Judging, IsSamples
  <2>3. \A k, l \in JudgedAt(i) :
          observations[k].mission = observations[l].mission => k = l
    BY <2>2 DEF FeedInv, Judging, Once, JudgedAt
  <2>4. samples[i].consumed <=>
          (Judged(observations, i) # {} \/ \E m \in Finished : samples[i].origin = Upload(m))
    BY DEF FeedInv, Judging, Accounted
  <2>5. (\E m \in Finished : samples[i].origin = Upload(m))
          <=> \E m \in Mission : Own(m, i) /\ missions[m].ran = "judged"
    BY DEF Finished, Own, Upload
  <2> QED  BY <2>1, <2>3, <2>4, <2>5
<1> QED  BY <1>1, FeedInvariant, PTL

\* The readings of one batch or upload are judged in their own order and without a
\* gap, whatever other rows carry the same sequence numbers (uploaded_verification.py,
\* "so we never reorder").
THEOREM ReadingsInOrder == FeedSpec => []ReadingsKeepTheirOrder
<1>1. FeedInv => ReadingsKeepTheirOrder
  BY DEF FeedInv, Judging, JudgedInOrder, ReadingsKeepTheirOrder, JudgedAt, Judged
<1> QED  BY <1>1, FeedInvariant, PTL

-----------------------------------------------------------------------------
(* Sets of integers in ascending order.                                    *)

\* As many ways to count as there are things to count: every number is reached.
LEMMA AllReached ==
  ASSUME NEW D, IsFiniteSet(D), NEW f \in [D -> 0 .. Cardinality(D) - 1],
         \A x, y \in D : f[x] = f[y] => x = y
  PROVE  \A n \in 0 .. Cardinality(D) - 1 : \E x \in D : f[x] = n
<1> DEFINE c == Cardinality(D)
<1> DEFINE T == 0 .. c - 1
<1>1. c \in Nat
  BY FS_CardinalityType
<1>2. IsFiniteSet(T) /\ Cardinality(T) = c
  <2> HIDE DEF c
  <2>1. 0 \in Int /\ c - 1 \in Int
    BY <1>1
  <2>2. /\ IsFiniteSet(0 .. c - 1)
        /\ Cardinality(0 .. c - 1) = IF 0 > c - 1 THEN 0 ELSE (c - 1) - 0 + 1
    BY <2>1, FS_Interval
  <2> QED  BY <1>1, <2>2
<1>3. f \in Injection(D, T)
  BY DEF Injection, IsInjective
<1> HIDE DEF T
<1>4. f \in Surjection(D, T)
  BY <1>2, <1>3, FS_Injection
<1>5. \A n \in T : \E x \in D : f[x] = n
  BY <1>4 DEF Surjection
<1> QED  BY <1>5 DEF T

LEMMA RankIsNumber ==
  ASSUME NEW S \in SUBSET Int, IsFiniteSet(S), NEW x \in S
  PROVE  Rank(S, x) \in 0 .. Cardinality(S) - 1
<1> DEFINE L == {y \in S : y < x}
<1>1. IsFiniteSet(S \ {x}) /\ Cardinality(S \ {x}) = Cardinality(S) - 1
  BY FS_RemoveElement
<1>2. L \in SUBSET (S \ {x})
  OBVIOUS
<1> HIDE DEF L
<1>3. IsFiniteSet(L) /\ Cardinality(L) <= Cardinality(S) - 1
  BY <1>1, <1>2, FS_Subset
<1>4. Cardinality(L) \in Nat /\ Cardinality(S) \in Nat
  BY <1>3, FS_CardinalityType
<1>5. Rank(S, x) = Cardinality(L)
  BY DEF Rank, L
<1> QED  BY <1>3, <1>4, <1>5

LEMMA RankRises ==
  ASSUME NEW S \in SUBSET Int, IsFiniteSet(S), NEW x \in S, NEW y \in S, x < y
  PROVE  Rank(S, x) < Rank(S, y)
<1> DEFINE L(z) == {k \in S : k < z}
<1>0. x \in Int /\ y \in Int /\ \A k \in S : k \in Int
  OBVIOUS
<1>1. L(x) \in SUBSET L(y) /\ x \in L(y) /\ x \notin L(x) /\ L(y) \in SUBSET S
  <2>1. \A k \in S : k < x => k < y
    BY <1>0
  <2>2. ~(x < x)
    BY <1>0
  <2> QED  BY <2>1, <2>2
<1>2. Rank(S, x) = Cardinality(L(x)) /\ Rank(S, y) = Cardinality(L(y))
  BY DEF Rank
<1> HIDE DEF L
<1>3. IsFiniteSet(L(y))
  BY <1>1, FS_Subset
<1>4. /\ IsFiniteSet(L(x)) /\ Cardinality(L(x)) <= Cardinality(L(y))
      /\ Cardinality(L(x)) # Cardinality(L(y))
  BY <1>1, <1>3, FS_Subset
<1>5. Cardinality(L(x)) \in Nat /\ Cardinality(L(y)) \in Nat
  BY <1>3, <1>4, FS_CardinalityType
<1> QED  BY <1>2, <1>4, <1>5

\* What InOrder() promises of a finite set of integers.
Ascends(s, S) ==
  /\ DOMAIN s = 1 .. Cardinality(S)
  /\ \A n \in DOMAIN s : s[n] \in S /\ Rank(S, s[n]) = n - 1
  /\ \A x \in S : Rank(S, x) + 1 \in DOMAIN s /\ s[Rank(S, x) + 1] = x

LEMMA InOrderAscends ==
  ASSUME NEW S \in SUBSET Int, IsFiniteSet(S)
  PROVE  Ascends(InOrder(S), S)
<1> DEFINE f == [x \in S |-> Rank(S, x)]
<1>1. Cardinality(S) \in Nat
  BY FS_CardinalityType
<1>2. \A x \in S : Rank(S, x) \in 0 .. Cardinality(S) - 1
  BY RankIsNumber
<1>3. \A x, y \in S : Rank(S, x) = Rank(S, y) => x = y
  <2> SUFFICES ASSUME NEW x \in S, NEW y \in S, Rank(S, x) = Rank(S, y), x # y PROVE FALSE
    OBVIOUS
  <2>1. Rank(S, x) \in Int /\ Rank(S, y) \in Int
    BY <1>2
  <2>2. x < y \/ y < x
    OBVIOUS
  <2> QED  BY <2>1, <2>2, RankRises
<1>4. f \in [S -> 0 .. Cardinality(S) - 1]
  BY <1>2
<1>5. \A n \in 0 .. Cardinality(S) - 1 : \E x \in S : f[x] = n
  <2>1. \A x, y \in S : f[x] = f[y] => x = y
    BY <1>3
  <2> HIDE DEF f
  <2> QED  BY <1>4, <2>1, AllReached
<1>6. DOMAIN InOrder(S) = 1 .. Cardinality(S)
  BY DEF InOrder
<1>7. ASSUME NEW n \in 1 .. Cardinality(S)
      PROVE  InOrder(S)[n] \in S /\ Rank(S, InOrder(S)[n]) = n - 1
  <2>1. n - 1 \in 0 .. Cardinality(S) - 1
    BY <1>1
  <2>2. \E x \in S : Rank(S, x) = n - 1
    BY <1>5, <2>1
  <2>3. InOrder(S)[n] = CHOOSE x \in S : Rank(S, x) = n - 1
    BY DEF InOrder
  <2> QED  BY <2>2, <2>3
<1>8. ASSUME NEW x \in S
      PROVE  Rank(S, x) + 1 \in 1 .. Cardinality(S) /\ InOrder(S)[Rank(S, x) + 1] = x
  <2>1. Rank(S, x) + 1 \in 1 .. Cardinality(S)
    BY <1>1, <1>2
  <2>2. Rank(S, InOrder(S)[Rank(S, x) + 1]) = Rank(S, x)
    BY <1>2, <1>7, <2>1
  <2> QED  BY <1>3, <1>7, <2>1, <2>2
<1> QED  BY <1>6, <1>7, <1>8 DEF Ascends

-----------------------------------------------------------------------------
(* What a table has, its series has.                                       *)

\* A stable sort leaves out no row.
LEMMA SortedCovers ==
  ASSUME NEW rows, IsList(rows), NEW keys, DOMAIN keys = DOMAIN rows,
         \A i \in DOMAIN rows : keys[i] \in Int
  PROVE  /\ IsList(SortedBy(rows, keys)) /\ Len(SortedBy(rows, keys)) = Len(rows)
         /\ DOMAIN SortedBy(rows, keys) = DOMAIN rows
         /\ \A i \in DOMAIN rows : \E n \in DOMAIN rows : SortedBy(rows, keys)[n] = rows[i]
<1> DEFINE D == DOMAIN rows
           Sooner(i) == {j \in D : keys[j] < keys[i] \/ (keys[j] = keys[i] /\ j < i)}
           f == [i \in D |-> Position(keys, i)]
           pick(n) == CHOOSE i \in D : Position(keys, i) = n - 1
<1>1. Len(rows) \in Nat /\ D = 1 .. Len(rows)
  BY ListIndexed
<1>2. IsFiniteSet(D) /\ Cardinality(D) = Len(rows)
  <2>1. PICK n \in Nat : n = Len(rows)
    BY <1>1
  <2>2. IsFiniteSet(1 .. n) /\ Cardinality(1 .. n) = n
    BY FS_Interval
  <2> QED  BY <1>1, <2>1, <2>2
<1>3. \A i \in D : i \in Int /\ keys[i] \in Int
  BY <1>1
<1>4. \A i \in D : Position(keys, i) = Cardinality(Sooner(i))
  BY DEF Position
<1>5. ASSUME NEW i \in D
      PROVE  IsFiniteSet(Sooner(i)) /\ Position(keys, i) \in 0 .. Cardinality(D) - 1
  <2>1. Sooner(i) \in SUBSET (D \ {i})
    BY <1>3
  <2>2. IsFiniteSet(D \ {i}) /\ Cardinality(D \ {i}) = Cardinality(D) - 1
    BY <1>2, FS_RemoveElement
  <2> HIDE DEF Sooner, D
  <2>3. IsFiniteSet(Sooner(i)) /\ Cardinality(Sooner(i)) <= Cardinality(D) - 1
    BY <2>1, <2>2, FS_Subset
  <2>4. Cardinality(Sooner(i)) \in Nat /\ Cardinality(D) \in Nat
    BY <1>2, <2>3, FS_CardinalityType
  <2> QED  BY <1>4, <2>3, <2>4
<1>6. ASSUME NEW i \in D, NEW j \in D, i \in Sooner(j)
      PROVE  Position(keys, i) < Position(keys, j)
  <2>1. \A k \in D : k \in Sooner(i) => k \in Sooner(j)
    BY <1>3, <1>6
  <2>2. i \notin Sooner(i)
    BY <1>3
  <2>3. Sooner(i) \subseteq Sooner(j) /\ Sooner(i) # Sooner(j)
    BY <1>6, <2>1, <2>2
  <2> HIDE DEF Sooner, D
  <2>4. /\ Cardinality(Sooner(i)) <= Cardinality(Sooner(j))
        /\ Cardinality(Sooner(i)) # Cardinality(Sooner(j))
    BY <1>5, <2>3, FS_Subset
  <2>5. Cardinality(Sooner(i)) \in Nat /\ Cardinality(Sooner(j)) \in Nat
    BY <1>5, FS_CardinalityType
  <2> QED  BY <1>4, <2>4, <2>5
<1>7. \A i, j \in D : Position(keys, i) = Position(keys, j) => i = j
  <2> SUFFICES ASSUME NEW i \in D, NEW j \in D, Position(keys, i) = Position(keys, j), i # j
               PROVE FALSE
    OBVIOUS
  <2>1. Position(keys, i) \in Int
    <3>1. Position(keys, i) \in 0 .. Cardinality(D) - 1
      BY <1>5
    <3> HIDE DEF D
    <3> QED  BY <3>1
  <2>2. i \in Sooner(j) \/ j \in Sooner(i)
    BY <1>3
  <2>3. Position(keys, i) < Position(keys, j) \/ Position(keys, j) < Position(keys, i)
    BY <1>6, <2>2
  <2> QED  BY <2>1, <2>3
<1>8. \A n \in 0 .. Cardinality(D) - 1 : \E i \in D : f[i] = n
  <2>1. f \in [D -> 0 .. Cardinality(D) - 1] /\ \A i, j \in D : f[i] = f[j] => i = j
    BY <1>5, <1>7
  <2> HIDE DEF f, D
  <2> QED  BY <1>2, <2>1, AllReached
<1>9. ASSUME NEW n \in D PROVE pick(n) \in D /\ Position(keys, pick(n)) = n - 1
  <2>1. n - 1 \in 0 .. Cardinality(D) - 1
    BY <1>1, <1>2
  <2>2. \E i \in D : Position(keys, i) = n - 1
    BY <1>8, <2>1
  <2> QED  BY <2>2
<1>10. ASSUME NEW i \in D PROVE \E n \in D : SortedBy(rows, keys)[n] = rows[i]
  <2>1. PICK n : n = Position(keys, i) + 1
    OBVIOUS
  <2>2. Position(keys, i) \in 0 .. Cardinality(D) - 1
    BY <1>5
  <2>3. n \in D /\ n - 1 = Position(keys, i)
    BY <1>1, <1>2, <2>1, <2>2
  <2>4. pick(n) = i
    BY <1>7, <1>9, <2>3
  <2>5. SortedBy(rows, keys)[n] = rows[pick(n)]
    BY <2>3 DEF SortedBy
  <2> QED  BY <2>3, <2>4, <2>5
<1>11. PICK g : g = SortedBy(rows, keys)
  OBVIOUS
<1>12. g = [n \in 1 .. Len(rows) |-> g[n]]
  BY <1>1, <1>11 DEF SortedBy
<1>13. IsList(g) /\ Len(g) = Len(rows) /\ DOMAIN g = 1 .. Len(rows)
  BY <1>1, <1>12, ListOf
<1> QED  BY <1>1, <1>10, <1>11, <1>13

\* The rows the series is made of: those of the table, in some order.
SeriesRows(table, map) ==
  IF CycleColumn(table, map) # NoColumn
  THEN SortedBy(table.rows, Cycles(table.rows, CycleColumn(table, map)))
  ELSE IF Has(table, map, "source_timestamp") THEN SortedBy(table.rows, Times(table.rows))
  ELSE table.rows

\* A column found by its header is one of the columns.
LEMMA FoundIsOne ==
  ASSUME NEW columns, IsList(columns), NEW S, FirstIn(columns, S) # NoColumn
  PROVE  FirstIn(columns, S) \in ToSet(columns)
<1> DEFINE at == {i \in DOMAIN columns : columns[i] \in S}
<1>1. at # {} /\ FirstIn(columns, S) = columns[Min(at)]
  BY DEF FirstIn
<1>2. at \subseteq Nat /\ at \subseteq DOMAIN columns
  BY ListIndexed
<1>3. Min(at) \in at
  <2> HIDE DEF at
  <2>1. PICK x \in at : \A y \in at : x <= y
    BY <1>1, <1>2, LeastNumber
  <2> QED  BY <2>1 DEF Min
<1> HIDE DEF at
<1> QED  BY <1>1, <1>2, <1>3 DEF ToSet

\* So is a column that is mapped to a target.
LEMMA MappedIsOne ==
  ASSUME NEW table, IsList(table.columns), NEW map, NEW target, Has(table, map, target)
  PROVE  ColumnFor(table, map, target) \in ToSet(table.columns)
<1>1. PICK columns : columns = table.columns
  OBVIOUS
<1>2. Len(columns) \in Nat /\ DOMAIN columns = 1 .. Len(columns)
  BY <1>1, ListIndexed
<1> DEFINE LastOne(i) == /\ map[columns[i]] = target
                      /\ \A j \in DOMAIN columns : map[columns[j]] = target => j <= i
<1>3. (\E i \in DOMAIN columns : map[columns[i]] = target)
      /\ ColumnFor(table, map, target) = columns[CHOOSE i \in DOMAIN columns : LastOne(i)]
  BY <1>1 DEF Has, ColumnFor
<1>4. PICK n \in Nat : n = Len(columns)
  BY <1>2
<1>5. PICK f : f = [i \in 1 .. n |-> IF map[columns[i]] = target THEN i ELSE 0]
  OBVIOUS
<1>6. f \in [1 .. n -> Nat] /\ n > 0
  BY <1>2, <1>3, <1>4, <1>5
<1>7. PICK i \in 1 .. n : \A j \in 1 .. n : f[j] <= f[i]
  BY <1>6, GreatestOfMany
<1>8. PICK k \in 1 .. n : map[columns[k]] = target
  BY <1>2, <1>3, <1>4
<1>9. f[i] = i /\ map[columns[i]] = target
  <2>1. f[k] = k /\ f[k] <= f[i] /\ k > 0
    BY <1>5, <1>7, <1>8
  <2>2. f[i] # 0
    BY <1>5, <2>1
  <2> QED  BY <1>5, <2>2
<1>10. \A j \in 1 .. n : map[columns[j]] = target => j <= i
  BY <1>5, <1>7, <1>9
<1>11. i \in DOMAIN columns /\ LastOne(i)
  BY <1>2, <1>4, <1>9, <1>10
<1>12. (CHOOSE j \in DOMAIN columns : LastOne(j)) \in DOMAIN columns
  <2> HIDE DEF LastOne
  <2> QED  BY <1>11
<1> QED  BY <1>1, <1>3, <1>12 DEF ToSet

\* Whichever column is taken for the cycle number, it is one of the table's.
LEMMA CycleColumnIsOne ==
  ASSUME NEW t \in DOMAIN Tables, NEW map, CycleColumn(Tables[t], map) # NoColumn
  PROVE  CycleColumn(Tables[t], map) \in ToSet(Tables[t].columns)
<1>1. PICK table : table = Tables[t]
  OBVIOUS
<1>2. IsList(table.columns)
  BY <1>1, FeedAssumption DEF IsList
<1>3. CASE Has(table, map, "cycle_index")
  BY <1>1, <1>2, <1>3, MappedIsOne DEF CycleColumn, MappedOrLike
<1>4. CASE ~Has(table, map, "cycle_index")
  <2>1. PICK S : CycleColumn(table, map) = FirstIn(table.columns, S)
    BY <1>4 DEF CycleColumn, MappedOrLike, MatchCol
  <2> QED  BY <1>1, <1>2, <2>1, FoundIsOne
<1> QED  BY <1>3, <1>4

LEMMA SeriesRowsCover ==
  ASSUME NEW t \in DOMAIN Tables, NEW map, NEW rows, rows = Tables[t].rows,
         NEW sorted, sorted = SeriesRows(Tables[t], map)
  PROVE  /\ IsList(rows) /\ Len(rows) \in Nat /\ DOMAIN rows = 1 .. Len(rows)
         /\ Len(sorted) = Len(rows)
         /\ \A i \in DOMAIN rows : \E n \in DOMAIN rows : sorted[n] = rows[i]
<1>1. IsList(rows)
  BY FeedAssumption DEF IsList
<1>2. Len(rows) \in Nat /\ DOMAIN rows = 1 .. Len(rows)
  BY <1>1, ListIndexed
<1>3. PICK c : c = CycleColumn(Tables[t], map)
  OBVIOUS
<1>4. \A i \in DOMAIN rows : rows[i].time \in Int /\ (c # NoColumn => rows[i].number[c] \in Int)
  <2>1. \A i \in DOMAIN rows : rows[i] \in ToSet(rows)
    BY DEF ToSet
  <2>2. c # NoColumn => c \in ToSet(Tables[t].columns)
    BY <1>3, CycleColumnIsOne
  <2> QED  BY <2>1, <2>2, FeedAssumption
<1>5. DOMAIN Times(rows) = DOMAIN rows /\ \A i \in DOMAIN rows : Times(rows)[i] \in Int
  BY <1>4 DEF Times
<1>6. ASSUME c # NoColumn
      PROVE  /\ DOMAIN Cycles(rows, c) = DOMAIN rows
             /\ \A i \in DOMAIN rows : Cycles(rows, c)[i] \in Int
  BY <1>4, <1>6 DEF Cycles
<1>7. CASE \/ sorted = SortedBy(rows, Times(rows))
           \/ c # NoColumn /\ sorted = SortedBy(rows, Cycles(rows, c))
  <2>1. PICK keys : /\ sorted = SortedBy(rows, keys) /\ DOMAIN keys = DOMAIN rows
                    /\ \A i \in DOMAIN rows : keys[i] \in Int
    BY <1>5, <1>6, <1>7
  <2>2. /\ Len(sorted) = Len(rows)
        /\ \A i \in DOMAIN rows : \E n \in DOMAIN rows : sorted[n] = rows[i]
    BY <1>1, <2>1, SortedCovers
  <2> QED  BY <1>1, <1>2, <2>2
<1>8. CASE sorted = rows
  BY <1>1, <1>2, <1>8
<1> QED  BY <1>3, <1>7, <1>8 DEF SeriesRows

Entry(r, c) ==
  [ fault |-> IF Code(r, c) \in SeriesNulls THEN "none" ELSE Code(r, c),
    value |-> r.value, temp |-> r.temp ]

Capped(n) == IF n < SeriesCap THEN n ELSE SeriesCap

LEMMA TheCap == SeriesCap \in Nat /\ SeriesCap > 0
<1>1. SeriesCap \in Nat \ {0}
  BY IntakeAssumption
<1> QED  BY <1>1

LEMMA SeriesOf ==
  ASSUME NEW t \in DOMAIN Tables, NEW map, NEW sorted, sorted = SeriesRows(Tables[t], map),
         NEW c, c = SeriesColumn(Tables[t], map)
  PROVE  TelemetrySeries(Tables[t], map) = [i \in 1 .. Capped(Len(sorted)) |-> Entry(sorted[i], c)]
BY DEF TelemetrySeries, SeriesRows, Entry, Capped

\* The fault a mission is created for is in its series, if the export is no longer
\* than the cap.
LEMMA SeriesHasTheFault ==
  ASSUME NEW t \in DOMAIN Tables, NEW map, FirstFault(Tables[t], map) = ContractFault,
         Len(Tables[t].rows) <= SeriesCap
  PROVE  \E i \in DOMAIN TelemetrySeries(Tables[t], map) :
           TelemetrySeries(Tables[t], map)[i].fault = ContractFault
<1>1. PICK rows, sorted, c :
        /\ rows = Tables[t].rows /\ sorted = SeriesRows(Tables[t], map)
        /\ c = ColumnFor(Tables[t], map, "event_code")
  OBVIOUS
<1>2. /\ Len(rows) \in Nat /\ DOMAIN rows = 1 .. Len(rows) /\ Len(sorted) = Len(rows)
      /\ \A i \in DOMAIN rows : \E n \in DOMAIN rows : sorted[n] = rows[i]
  BY <1>1, SeriesRowsCover
<1>3. ContractFault \notin SeriesNulls /\ ContractFault # "none"
  BY FeedAssumption DEF SeriesNulls
<1> DEFINE faulty == {i \in DOMAIN rows : Code(rows[i], c) \notin FirstFaultNulls}
<1>4. PICK i \in DOMAIN rows : Code(rows[i], c) = ContractFault
  <2>1. FirstFault(Tables[t], map)
          = IF faulty = {} THEN "none" ELSE Code(rows[Min(faulty)], c)
    BY <1>1 DEF FirstFault
  <2>2. faulty # {} /\ Code(rows[Min(faulty)], c) = ContractFault
    BY <1>3, <2>1
  <2>3. faulty \subseteq Nat
    BY <1>2
  <2>4. PICK x \in faulty : \A y \in faulty : x <= y
    <3> HIDE DEF faulty
    <3> QED  BY <2>2, <2>3, LeastNumber
  <2>5. Min(faulty) \in faulty
    <3> HIDE DEF faulty
    <3> QED  BY <2>4 DEF Min
  <2> QED  BY <2>2, <2>5
<1>5. SeriesColumn(Tables[t], map) = c
  <2>1. c # NoColumn
    BY <1>3, <1>4 DEF Code
  <2> QED  BY <1>1, <2>1 DEF SeriesColumn, MappedOrLike, Has
<1>6. PICK n \in DOMAIN rows : sorted[n] = rows[i]
  BY <1>2
<1>7. /\ DOMAIN TelemetrySeries(Tables[t], map) = 1 .. Len(rows)
      /\ TelemetrySeries(Tables[t], map)[n] = Entry(rows[i], c)
  <2>1. PICK l : l = Capped(Len(sorted))
    OBVIOUS
  <2>2. l = Len(rows)
    BY <1>1, <1>2, <2>1, TheCap DEF Capped
  <2>3. TelemetrySeries(Tables[t], map) = [j \in 1 .. l |-> Entry(sorted[j], c)]
    BY <1>1, <1>5, <2>1, SeriesOf
  <2> QED  BY <1>2, <1>6, <2>2, <2>3
<1>8. Entry(rows[i], c).fault = ContractFault
  BY <1>3, <1>4 DEF Entry
<1> QED  BY <1>2, <1>6, <1>7, <1>8

\* An export that is not blocked has a readable time, and so a row and a reading.
LEMMA SeriesNotEmpty ==
  ASSUME NEW t \in DOMAIN Tables, NEW map, Readiness(Tables[t], map) # "blocked"
  PROVE  TelemetrySeries(Tables[t], map) # <<>>
<1>1. PICK rows, sorted, c, n :
        /\ rows = Tables[t].rows /\ sorted = SeriesRows(Tables[t], map)
        /\ c = SeriesColumn(Tables[t], map)
        /\ n = Capped(Len(sorted))
  OBVIOUS
<1>2. Readable(rows) # {}
  <2>1. "Timestamp" \notin BlockedDimensions(Tables[t], map)
    BY DEF Readiness
  <2> QED  BY <1>1, <2>1 DEF BlockedDimensions
<1>3. Len(rows) \in Nat /\ DOMAIN rows = 1 .. Len(rows) /\ Len(sorted) = Len(rows)
  BY <1>1, SeriesRowsCover
<1>4. n \in Nat /\ n > 0
  BY <1>1, <1>2, <1>3, TheCap DEF Readable, Capped
<1>5. TelemetrySeries(Tables[t], map) = [i \in 1 .. n |-> Entry(sorted[i], c)]
  BY <1>1, SeriesOf
<1>6. 1 \in DOMAIN TelemetrySeries(Tables[t], map)
  BY <1>4, <1>5
<1> QED  BY <1>6, EmptyList

-----------------------------------------------------------------------------
(* A fault in the window rejects.                                          *)

\* The part of a list at some of its positions has all of them.
LEMMA OnlyCovers ==
  ASSUME NEW o, IsList(o), NEW I \in SUBSET DOMAIN o
  PROVE  /\ Cardinality(I) \in Nat /\ DOMAIN Only(o, I) = 1 .. Cardinality(I)
         /\ \A k \in I : \E n \in DOMAIN Only(o, I) : Only(o, I)[n] = o[k]
<1>1. Len(o) \in Nat /\ DOMAIN o = 1 .. Len(o)
  BY ListIndexed
<1>2. IsFiniteSet(1 .. Len(o))
  BY <1>1, FS_Interval
<1>3. I \in SUBSET Int /\ IsFiniteSet(I)
  BY <1>1, <1>2, FS_Subset
<1>4. Ascends(InOrder(I), I)
  BY <1>3, InOrderAscends
<1>5. DOMAIN Only(o, I) = DOMAIN InOrder(I)
      /\ \A n \in DOMAIN InOrder(I) : Only(o, I)[n] = o[InOrder(I)[n]]
  BY DEF Only
<1>6. ASSUME NEW k \in I PROVE \E n \in DOMAIN Only(o, I) : Only(o, I)[n] = o[k]
  <2>1. PICK n \in DOMAIN InOrder(I) : InOrder(I)[n] = k
    BY <1>4 DEF Ascends
  <2> QED  BY <1>5, <2>1
<1>7. Cardinality(I) \in Nat
  BY <1>3, FS_CardinalityType
<1> QED  BY <1>4, <1>5, <1>6, <1>7 DEF Ascends

FaultJudged(o, m, w) ==
  \E k \in DOMAIN o :
    o[k].mission = m /\ o[k].window = w /\ o[k].reading.fault = ContractFault

LEMMA FaultRejects ==
  ASSUME NEW o, IsList(o), NEW m, NEW w, FaultJudged(o, m, w), NEW streak, NEW f, NEW r
  PROVE  Verdict(ReadingsOf(o, m, w), streak, f, r) = "violated"
<1> DEFINE I == {k \in DOMAIN o : o[k].mission = m /\ o[k].window = w}
<1>1. PICK k \in I : o[k].reading.fault = ContractFault
  BY DEF FaultJudged
<1>2. PICK x : x = Only(o, I)
  OBVIOUS
<1>3. /\ Cardinality(I) \in Nat /\ DOMAIN x = 1 .. Cardinality(I)
      /\ \E n \in DOMAIN x : x[n] = o[k]
  <2>1. I \in SUBSET DOMAIN o
    OBVIOUS
  <2> HIDE DEF I
  <2> QED  BY <1>2, <2>1, OnlyCovers
<1>4. PICK n \in DOMAIN x : x[n] = o[k]
  BY <1>3
<1>5. PICK h : h = ReadingsOf(o, m, w)
  OBVIOUS
<1>6. x = WindowOf(o, m, w)
  BY <1>2 DEF WindowOf
<1>7. h = [i \in DOMAIN x |-> [fault |-> x[i].reading.fault, value |-> x[i].reading.value,
                               cooler |-> x[i].reading.temp < x[1].reading.temp]]
  BY <1>5, <1>6 DEF ReadingsOf
<1>8. h[n].fault = ContractFault /\ h = [i \in DOMAIN x |-> h[i]]
  BY <1>1, <1>4, <1>7
<1>9. Len(h) = Cardinality(I)
  <2>1. PICK c \in Nat : c = Cardinality(I)
    BY <1>3
  <2>2. h = [i \in 1 .. c |-> h[i]]
    BY <1>3, <1>8, <2>1
  <2>3. Len(h) = c
    BY <2>2, ListOf
  <2> QED  BY <2>1, <2>3
<1>10. FaultRecurred(h)
  BY <1>3, <1>8, <1>9 DEF FaultRecurred
<1> QED  BY <1>5, <1>10 DEF Verdict, Violated, FaultStatus

\* Without a release nothing is verified.
LEMMA NeverWithoutRelease ==
  ASSUME NEW h, NEW streak, NEW f
  PROVE  Verdict(h, streak, f, "PENDING") \in {"monitoring", "violated"}
BY DEF Verdict, QualityReleaseSatisfied

-----------------------------------------------------------------------------
(* What the cycles of a mission leave alone, and what they judge.          *)

SameIntake(x, y) ==
  /\ x.table = y.table /\ x.fault = y.fault /\ x.readiness = y.readiness
  /\ x.series = y.series

SameReadings(t, s) == \A i \in DOMAIN s : t[i].reading = s[i].reading

Carried(g, before) ==
  /\ SameIntake(g.mission, before.mission)
  /\ g.mission.window = before.mission.window /\ g.mission.released = before.mission.released
  /\ Longer(g.observations, before.observations)
  /\ SameReadings(g.samples, before.samples)

\* An observation of mission m in window w, with the reading of its row.
Mine(e, s, m, w) ==
  /\ e.mission = m /\ e.window = w
  /\ e.row # 0 => e.row \in DOMAIN s /\ e.reading = s[e.row].reading

LEMMA CycleJudges ==
  ASSUME NEW m, NEW i, NEW now, NEW ran, Going(now, ran),
         Taken(now.samples, now.observations, m, i), NEW end, end = Cycle(m, i, now)
  PROVE  /\ Carried(end, now)
         /\ \E e : /\ Appended(end.observations, now.observations, e)
                   /\ Mine(e, now.samples, m, now.mission.window)
         /\ end.mission.verdict = "monitoring" =>
              ~FaultJudged(end.observations, m, now.mission.window)
         /\ now.mission.released = FALSE => end.mission.verdict \in {"monitoring", "violated"}
<1> DEFINE w == now.mission.window
<1>1. PICK reading : (i # 0 => reading = now.samples[i].reading)
        /\ end.observations = Append(now.observations,
             [mission |-> m, window |-> w, row |-> i, reading |-> reading])
  <2> DEFINE c == Len(WindowOf(now.observations, m, w)) + 1
             r == IF i = 0 THEN Synthetic(w, c) ELSE now.samples[i].reading
  <2>1. end.observations = Append(now.observations,
             [mission |-> m, window |-> w, row |-> i, reading |-> r])
    BY DEF Cycle
  <2> HIDE DEF c
  <2> QED  BY <2>1
<1>2. PICK e : e = [mission |-> m, window |-> w, row |-> i, reading |-> reading]
  OBVIOUS
<1>3. IsSamples(now.samples) /\ IsList(now.observations) /\ IsMission(now.mission)
  BY DEF Going, Judging
<1>4. Appended(end.observations, now.observations, e)
  <2>1. end.observations = Append(now.observations, e)
    BY <1>1, <1>2
  <2> QED  BY <1>3, <2>1, ListAppended
<1>5. i # 0 => i \in DOMAIN now.samples
  BY DEF Taken
<1>6. Mine(e, now.samples, m, w)
  <2> HIDE DEF w
  <2> QED  BY <1>1, <1>2, <1>5 DEF Mine
<1>7. Longer(end.observations, now.observations)
  <2>1. Len(now.observations) \in Nat /\ DOMAIN now.observations = 1 .. Len(now.observations)
    BY <1>3, ListIndexed
  <2> QED  BY <1>4, <2>1 DEF Appended, Longer
<1>8. SameReadings(end.samples, now.samples)
  <2>1. end.samples = IF i = 0 THEN now.samples ELSE Consumes(now.samples, i)
    BY DEF Cycle, Marked, Consumes
  <2>2. CASE i = 0
    BY <2>1, <2>2 DEF SameReadings
  <2>3. CASE i # 0
    <3>1. PICK s, j : s = now.samples /\ j = i
      OBVIOUS
    <3>2. IsSample(s[j]) /\ j \in DOMAIN s
      BY <1>3, <1>5, <2>3, <3>1 DEF IsSamples
    <3>3. \A l \in DOMAIN s : Consumes(s, j)[l].reading = s[l].reading
      BY <3>2 DEF Consumes, IsSample
    <3> QED  BY <2>1, <2>3, <3>1, <3>3 DEF SameReadings
  <2> QED  BY <2>2, <2>3
<1>9. PICK streak, f, r :
        /\ end.mission = [now.mission EXCEPT !.streak = streak,
             !.verdict = Verdict(ReadingsOf(end.observations, m, w), streak, f, r)]
        /\ now.mission.released = FALSE => r = "PENDING"
  <2>1. Decided(end, m, now)
    BY CycleDecides
  <2> QED  BY <2>1 DEF Decided
<1>10. PICK v : v = Verdict(ReadingsOf(end.observations, m, w), streak, f, r)
  OBVIOUS
<1>11. end.mission = [now.mission EXCEPT !.streak = streak, !.verdict = v]
  BY <1>9, <1>10
<1>12. /\ SameIntake(end.mission, now.mission)
       /\ end.mission.window = now.mission.window
       /\ end.mission.released = now.mission.released
       /\ end.mission.verdict = v
  BY <1>3, <1>11 DEF SameIntake, IsMission
<1>13. v = "monitoring" => ~FaultJudged(end.observations, m, w)
  <2>1. IsList(end.observations)
    BY <1>4 DEF Appended
  <2>2. FaultJudged(end.observations, m, w) => v = "violated"
    BY <1>10, <2>1, FaultRejects
  <2> QED  BY <2>2
<1>14. now.mission.released = FALSE => v \in {"monitoring", "violated"}
  BY <1>9, <1>10, NeverWithoutRelease
<1>15. Carried(end, now)
  BY <1>7, <1>8, <1>12 DEF Carried
<1> QED  BY <1>4, <1>6, <1>12, <1>13, <1>14, <1>15

\* Of k cycles none has decided: each judged a row of its own, none a fault.
AllJudged(g, before, m, k) ==
  /\ Len(g.observations) = Len(before.observations) + k
  /\ \A j \in DOMAIN g.observations : j > Len(before.observations) =>
       Mine(g.observations[j], before.samples, m, before.mission.window)
  /\ k > 0 => ~FaultJudged(g.observations, m, before.mission.window)

Unreleased(g, before, m, k) ==
  /\ g.mission.verdict \in {"monitoring", "violated"}
  /\ g.mission.verdict = "monitoring" => AllJudged(g, before, m, k)

LEMMA CarriedOn ==
  ASSUME NEW g, NEW x, NEW before, Carried(x, before), Carried(g, x),
         IsList(before.samples), IsList(x.samples), SameRows(x.samples, before.samples)
  PROVE  Carried(g, before)
<1>1. DOMAIN x.samples = DOMAIN before.samples
  BY ListIndexed DEF SameRows
<1>2. SameReadings(g.samples, before.samples)
  BY <1>1 DEF Carried, SameReadings
<1>3. Longer(g.observations, before.observations)
  BY DEF Carried, Longer
<1>4. SameIntake(g.mission, before.mission)
  BY DEF Carried, SameIntake
<1> QED  BY <1>2, <1>3, <1>4 DEF Carried

LEMMA OneMoreJudged ==
  ASSUME NEW m, NEW before, NEW now, NEW ran, NEW k \in Nat,
         Going(before, ran), Going(now, ran), Went(now, before, m), Carried(now, before),
         AllJudged(now, before, m, k), NEW i, Taken(now.samples, now.observations, m, i),
         NEW end, end = Cycle(m, i, now), end.mission.verdict = "monitoring"
  PROVE  AllJudged(end, before, m, k + 1)
<1> DEFINE w == before.mission.window
           o == now.observations
           p == end.observations
<1>1. now.mission.window = w /\ SameReadings(now.samples, before.samples)
  BY DEF Carried
<1>2. PICK e : Appended(p, o, e) /\ Mine(e, now.samples, m, w)
  BY <1>1, CycleJudges
<1>3. ~FaultJudged(p, m, w)
  BY <1>1, CycleJudges
<1>4. /\ IsList(o) /\ Len(o) \in Nat /\ DOMAIN o = 1 .. Len(o)
      /\ Len(before.observations) \in Nat
  BY ListIndexed DEF Going, Judging
<1>5. DOMAIN now.samples = DOMAIN before.samples
  BY ListIndexed DEF Going, Judging, IsSamples, Went, SameRows
<1>6. Mine(e, before.samples, m, w)
  BY <1>1, <1>2, <1>5 DEF Mine, SameReadings
<1> HIDE DEF w, o, p
<1>7. /\ IsList(p) /\ DOMAIN p = 1 .. Len(o) + 1
      /\ \A j \in 1 .. Len(o) : p[j] = o[j]
      /\ p[Len(o) + 1] = e
  BY <1>2 DEF Appended
<1>8. Len(p) = Len(o) + 1
  <2>1. Len(p) \in Nat /\ DOMAIN p = 1 .. Len(p)
    BY <1>7, ListIndexed
  <2> QED  BY <1>4, <1>7, <2>1
<1>9. /\ Len(o) = Len(before.observations) + k
      /\ \A j \in DOMAIN o : j > Len(before.observations) => Mine(o[j], before.samples, m, w)
  BY DEF AllJudged, o, w
<1>10. ASSUME NEW j \in DOMAIN p, j > Len(before.observations)
       PROVE  Mine(p[j], before.samples, m, w)
  <2>1. CASE j = Len(o) + 1
    BY <1>6, <1>7, <2>1
  <2>2. CASE j # Len(o) + 1
    <3>1. j \in DOMAIN o /\ p[j] = o[j]
      BY <1>4, <1>7, <2>2
    <3> QED  BY <1>9, <1>10, <3>1
  <2> QED  BY <2>1, <2>2
<1>11. Len(p) = Len(before.observations) + (k + 1)
  <2>1. PICK a, b, c : a = Len(before.observations) /\ b = Len(o) /\ c = Len(p)
    OBVIOUS
  <2>2. a \in Nat /\ b = a + k /\ c = b + 1
    BY <1>4, <1>8, <1>9, <2>1
  <2>3. c = a + (k + 1)
    BY <2>2
  <2> QED  BY <2>1, <2>3
<1> QED  BY <1>3, <1>10, <1>11 DEF AllJudged, p, w

Begun(before) == before.mission.released = FALSE /\ before.mission.verdict = "monitoring"

LEMMA AdvancedJudges ==
  ASSUME NEW m, NEW before, NEW ran, Going(before, ran), NEW n \in Nat,
         NEW end, end = Advanced(m, n, before)
  PROVE  /\ Carried(end, before)
         /\ Begun(before) => Unreleased(end, before, m, n)
<1> DEFINE after == CHOOSE g : Steps(m, before, n, g)
<1>1. end = after[n]
  BY DEF Advanced, Steps, Further
<1>2. Steps(m, before, n, after)
  BY StepsExist
<1> HIDE DEF after
<1>3. \A k \in 0 .. n : after[k] = IF k = 0 THEN before ELSE Further(m, after[k - 1])
  BY <1>2 DEF Steps
<1> DEFINE Good(k) == /\ Going(after[k], ran) /\ Went(after[k], before, m)
                      /\ Carried(after[k], before)
                      /\ Begun(before) => Unreleased(after[k], before, m, k)
           T == {k \in 0 .. n : ~Good(k)}
<1>4. ASSUME T # {} PROVE FALSE
  <2>1. T \subseteq Nat
    OBVIOUS
  <2>2. PICK k \in T : \A l \in T : k <= l
    <3> HIDE DEF T
    <3> QED  BY <1>4, <2>1, LeastNumber
  <2>3. k \in 0 .. n /\ ~Good(k)
    BY <2>2
  <2>4. k # 0
    <3>1. SUFFICES ASSUME k = 0 PROVE FALSE
      OBVIOUS
    <3>2. after[k] = before
      BY <1>3, <2>3, <3>1
    <3>3. Went(before, before, m)
      BY DEF Went, SameRows, Grown, Longer
    <3>4. Carried(before, before)
      BY DEF Carried, SameIntake, Longer, SameReadings
    <3>5. Begun(before) => Unreleased(before, before, m, 0)
      <4>1. Len(before.observations) \in Nat
            /\ DOMAIN before.observations = 1 .. Len(before.observations)
        BY ListIndexed DEF Going, Judging
      <4>2. AllJudged(before, before, m, 0)
        BY <4>1 DEF AllJudged
      <4> QED  BY <4>2 DEF Unreleased, Begun
    <3> QED  BY <2>3, <3>1, <3>2, <3>3, <3>4, <3>5
  <2>5. k - 1 \in 0 .. n /\ k - 1 \notin T /\ k - 1 \in Nat /\ (k - 1) + 1 = k
    BY <2>2, <2>3, <2>4
  <2>6. PICK x : x = after[k - 1]
    OBVIOUS
  <2>7. /\ Going(x, ran) /\ Went(x, before, m) /\ Carried(x, before)
        /\ Begun(before) => Unreleased(x, before, m, k - 1)
    BY <2>5, <2>6
  <2>8. after[k] = Further(m, x)
    BY <1>3, <2>3, <2>4, <2>6
  <2>9. CASE x.mission.verdict # "monitoring"
    <3>1. after[k] = x
      BY <2>8, <2>9 DEF Further
    <3>2. Unreleased(x, before, m, k - 1) => Unreleased(x, before, m, k)
      BY <2>9 DEF Unreleased
    <3> QED  BY <2>3, <2>7, <3>1, <3>2
  <2>10. CASE x.mission.verdict = "monitoring"
    <3>1. PICK i, g : i = NextRow(x.samples) /\ g = Cycle(m, i, x) /\ after[k] = g
      BY <2>8, <2>10 DEF Further
    <3>2. Taken(x.samples, x.observations, m, i)
      BY <2>7, <3>1, NextIsTaken DEF Going
    <3>3. Going(g, ran) /\ Went(g, x, m)
      BY <2>7, <3>1, <3>2, CycleGoes
    <3>4. /\ IsList(before.samples) /\ IsList(x.samples)
          /\ SameRows(x.samples, before.samples)
      BY <2>7 DEF Going, Judging, IsSamples, Went
    <3>5. Went(g, before, m)
      BY <2>7, <3>3, <3>4, WentOn
    <3>6. Carried(g, x)
      BY <2>7, <3>1, <3>2, CycleJudges
    <3>7. Carried(g, before)
      BY <2>7, <3>4, <3>6, CarriedOn
    <3>8. ASSUME Begun(before) PROVE Unreleased(g, before, m, k)
      <4>1. x.mission.released = FALSE
        BY <2>7, <3>8 DEF Carried, Begun
      <4>2. g.mission.verdict \in {"monitoring", "violated"}
        BY <2>7, <3>1, <3>2, <4>1, CycleJudges
      <4>3. AllJudged(x, before, m, k - 1)
        BY <2>7, <2>10, <3>8 DEF Unreleased
      <4>4. g.mission.verdict = "monitoring" => AllJudged(g, before, m, (k - 1) + 1)
        BY <2>5, <2>7, <3>1, <3>2, <4>3, OneMoreJudged
      <4> QED  BY <2>5, <4>2, <4>4 DEF Unreleased
    <3> QED  BY <2>3, <3>1, <3>3, <3>5, <3>7, <3>8
  <2> QED  BY <2>9, <2>10
<1>5. Good(n)
  <2>1. n \in 0 .. n
    OBVIOUS
  <2> HIDE DEF Good
  <2> QED  BY <1>4, <2>1
<1> QED  BY <1>1, <1>5

\* Window w of mission m has judged nothing but rows of U.
JudgedWithin(o, m, w, U) ==
  \A k \in DOMAIN o : o[k].mission = m /\ o[k].window = w => o[k].row \in U

\* The run of an upload with the fault: if the cycles judged nothing but its rows,
\* they came to the fault.
LEMMA RunComesToTheFault ==
  ASSUME NEW m, NEW before, NEW ran, Going(before, ran), NEW n \in Nat, n > 0,
         before.mission.verdict = "monitoring", before.mission.released = FALSE,
         NEW U, IsFiniteSet(U), Cardinality(U) = n, 0 \notin U,
         NEW i \in U, before.samples[i].reading.fault = ContractFault,
         NEW end, end = Advanced(m, n, before),
         JudgedWithin(end.observations, m, before.mission.window, U)
  PROVE  end.mission.verdict = "violated"
<1>1. SUFFICES ASSUME end.mission.verdict # "violated" PROVE FALSE
  OBVIOUS
<1>2. Unreleased(end, before, m, n) /\ Going(end, ran)
  BY AdvancedJudges, AdvancedGoes DEF Begun
<1>3. AllJudged(end, before, m, n)
  BY <1>1, <1>2 DEF Unreleased
<1> DEFINE o == end.observations
           b == Len(before.observations)
           f == [j \in 1 .. n |-> o[b + j].row]
<1>4. b \in Nat /\ Len(o) = b + n /\ DOMAIN o = 1 .. b + n
  <2>1. b \in Nat
    BY ListIndexed DEF Going, Judging
  <2>2. DOMAIN o = 1 .. Len(o)
    BY <1>2, ListIndexed DEF Going, Judging
  <2> QED  BY <1>3, <2>1, <2>2 DEF AllJudged
<1>5. ASSUME NEW j \in 1 .. n
      PROVE  /\ b + j \in DOMAIN o /\ o[b + j].row \in U
             /\ Mine(o[b + j], before.samples, m, before.mission.window)
  <2>1. b + j \in DOMAIN o /\ b + j > b
    BY <1>4
  <2>2. Mine(o[b + j], before.samples, m, before.mission.window)
    BY <1>3, <2>1 DEF AllJudged
  <2> QED  BY <2>1, <2>2 DEF Mine, JudgedWithin
<1>6. ASSUME NEW j \in 1 .. n, NEW k \in 1 .. n, f[j] = f[k]
      PROVE  j = k
  <2>1. /\ o[b + j].row = o[b + k].row /\ o[b + j].row # 0
        /\ o[b + j].mission = o[b + k].mission
    BY <1>5, <1>6 DEF Mine
  <2>2. b + j = b + k
    BY <1>2, <1>5, <2>1 DEF Going, Judging, Once
  <2> QED  BY <1>4, <2>2
<1>7. f \in Injection(1 .. n, U)
  <2>1. f \in [1 .. n -> U]
    BY <1>5
  <2>2. \A j, k \in 1 .. n : f[j] = f[k] => j = k
    BY <1>6
  <2> HIDE DEF f
  <2> QED  BY <2>1, <2>2 DEF Injection, IsInjective
<1>8. f \in Surjection(1 .. n, U)
  <2>1. IsFiniteSet(1 .. n) /\ Cardinality(1 .. n) = n
    BY FS_Interval
  <2> HIDE DEF f
  <2> QED  BY <1>7, <2>1, FS_Injection
<1>9. PICK j \in 1 .. n : f[j] = i
  <2> HIDE DEF f
  <2> QED  BY <1>8 DEF Surjection
<1>10. o[b + j].reading.fault = ContractFault /\ o[b + j].row = i
  BY <1>5, <1>9 DEF Mine
<1>11. FaultJudged(o, m, before.mission.window)
  BY <1>5, <1>10 DEF FaultJudged, Mine
<1> QED  BY <1>3, <1>11 DEF AllJudged

-----------------------------------------------------------------------------
(* Intake and evaluator.                                                   *)

Unprepared == {"absent", "INTERVENTION_RECORDED", "AWAITING_REQUIRED_EVIDENCE"}

Staged(x) ==
  /\ x.state \in Unprepared => x.ran # "judged" /\ x.released = FALSE
  /\ x.state \notin Unprepared => x.window \in Nat /\ x.window > 0

OwnOnly(m, s, o) ==
  \A k \in DOMAIN o :
    o[k].mission = m /\ o[k].window = 1 => o[k].row # 0 /\ s[o[k].row].origin = Upload(m)

Fits(x) == Len(Tables[x.table].rows) <= SeriesCap
HasTheFault(series) == \E i \in DOMAIN series : series[i].fault = ContractFault

\* SeenAlike() of a mission x, of which only the upload was judged or not.
Alike(x, own) ==
  /\ x.ran = "judged" /\ Fits(x) /\ x.window = 1 /\ own =>
       x.state = "CONTINGENCY_AWAITING_APPROVAL"
  /\ x.fault = ContractFault /\ Fits(x) => HasTheFault(x.series)
  /\ x.state # "absent" /\ x.readiness # "blocked" => x.series # <<>>

AgreeInv ==
  \A m \in Mission :
    Staged(missions[m]) /\ Alike(missions[m], OwnOnly(m, samples, observations))

LEMMA AgreeSeenAlike == AgreeInv => \A m \in Mission : SeenAlike(m)
<1> SUFFICES ASSUME AgreeInv, NEW m \in Mission PROVE SeenAlike(m)
  OBVIOUS
<1>1. Alike(missions[m], OwnOnly(m, samples, observations))
  BY DEF AgreeInv
<1>2. JudgedOwnOnly(m) <=> OwnOnly(m, samples, observations)
  BY DEF JudgedOwnOnly, OwnOnly, Own, Upload
<1>3. Whole(m) <=> Fits(missions[m])
  BY DEF Whole, Fits
<1> QED  BY <1>1, <1>2, <1>3 DEF Alike, SeenAlike, HasTheFault

\* Rows and observations are only added.
Added(s, o, t, p) == Longer(p, o) /\ \A i \in DOMAIN s : t[i].origin = s[i].origin

LEMMA OwnBefore ==
  ASSUME NEW s, NEW o, NEW ran, Judging(s, o, ran), NEW t, NEW p, Added(s, o, t, p), NEW m,
         OwnOnly(m, t, p)
  PROVE  OwnOnly(m, s, o)
<1> SUFFICES ASSUME NEW k \in DOMAIN o, o[k].mission = m, o[k].window = 1
             PROVE  o[k].row # 0 /\ s[o[k].row].origin = Upload(m)
  BY DEF OwnOnly
<1>1. k \in DOMAIN p /\ p[k] = o[k]
  BY DEF Added, Longer
<1>2. o[k].row # 0 /\ t[o[k].row].origin = Upload(m)
  BY <1>1 DEF OwnOnly
<1>3. o[k].row \in DOMAIN s
  BY <1>2, ListIndexed DEF Judging, IsSamples
<1> QED  BY <1>2, <1>3 DEF Added

LEMMA AlikeWithLess ==
  ASSUME NEW x, NEW own, NEW less, less => own, Alike(x, own)
  PROVE  Alike(x, less)
BY DEF Alike

\* A mission that changes, its intake aside.
LEMMA AlikeStill ==
  ASSUME NEW x, NEW y, SameIntake(x, y), NEW own, NEW less, Alike(y, own),
         y.state # "absent",
         x.ran = "judged" /\ Fits(x) /\ x.window = 1 /\ less =>
           x.state = "CONTINGENCY_AWAITING_APPROVAL"
  PROVE  Alike(x, less)
BY DEF Alike, SameIntake, Fits

LEMMA AgreeOthers ==
  ASSUME FeedInv, AgreeInv, Added(samples, observations, samples', observations'),
         NEW m \in Mission, NEW x, missions' = [missions EXCEPT ![m] = x],
         Staged(x), Alike(x, OwnOnly(m, samples', observations'))
  PROVE  AgreeInv'
<1>1. /\ missions = [l \in Mission |-> missions[l]]
      /\ Judging(samples, observations, Finished)
  BY DEF FeedInv, MissionsInv
<1>2. missions'[m] = x /\ \A l \in Mission : l # m => missions'[l] = missions[l]
  BY <1>1
<1>3. ASSUME NEW l \in Mission
      PROVE  Staged(missions'[l]) /\ Alike(missions'[l], OwnOnly(l, samples', observations'))
  <2>1. CASE l = m
    BY <1>2, <2>1
  <2>2. CASE l # m
    <3>1. Staged(missions[l]) /\ Alike(missions[l], OwnOnly(l, samples, observations))
      BY DEF AgreeInv
    <3>2. OwnOnly(l, samples', observations') => OwnOnly(l, samples, observations)
      BY <1>1, OwnBefore
    <3>3. Alike(missions[l], OwnOnly(l, samples', observations'))
      BY <3>1, <3>2, AlikeWithLess
    <3> QED  BY <1>2, <2>2, <3>1, <3>3
  <2> QED  BY <2>1, <2>2
<1> QED  BY <1>3 DEF AgreeInv, OwnOnly, Alike, Staged, Fits, Upload

\* The rows of an upload on the machine: as many as its series, after all others.
UploadRows(n) == Len(samples) + 1 .. Len(samples) + n

Placed(U, t, m, series) ==
  /\ IsFiniteSet(U) /\ Cardinality(U) = Len(series) /\ 0 \notin U
  /\ \A i \in DOMAIN t : t[i].origin = Upload(m) => i \in U
  /\ \A j \in DOMAIN series :
       Len(samples) + j \in U /\ t[Len(samples) + j].reading = series[j]
  /\ \A i \in DOMAIN samples : i \in DOMAIN t /\ t[i] = samples[i]

LEMMA UploadPlaces ==
  ASSUME IsList(samples), NEW m, Absent(Upload(m)), NEW series, IsList(series), NEW base,
         NEW t, t = samples \o NewRows(Upload(m), base, series),
         NEW U, U = UploadRows(Len(series))
  PROVE  Placed(U, t, m, series)
<1>1. /\ Len(samples) \in Nat /\ DOMAIN samples = 1 .. Len(samples)
      /\ Len(series) \in Nat /\ DOMAIN series = 1 .. Len(series)
  BY ListIndexed
<1>2. PICK e : e = NewRows(Upload(m), base, series)
  OBVIOUS
<1>3. e = [i \in 1 .. Len(series) |-> Row(Upload(m), i, series[i], base + i)]
  BY <1>1, <1>2 DEF NewRows
<1>4. /\ IsList(e) /\ Len(e) = Len(series) /\ DOMAIN e = 1 .. Len(series)
      /\ \A i \in 1 .. Len(series) : e[i].reading = series[i]
  <2>1. e = [i \in 1 .. Len(series) |-> e[i]]
    BY <1>3
  <2>2. IsList(e) /\ Len(e) = Len(series) /\ DOMAIN e = 1 .. Len(series)
    BY <1>1, <2>1, ListOf
  <2> QED  BY <1>3, <2>2 DEF Row
<1>5. Joined(t, samples, e)
  BY <1>2, <1>4, ListJoined
<1>6. /\ DOMAIN t = 1 .. Len(samples) + Len(series)
      /\ \A i \in DOMAIN samples : i \in DOMAIN t /\ t[i] = samples[i]
      /\ \A i \in DOMAIN t : i \in DOMAIN samples
                             \/ (i - Len(samples) \in DOMAIN e /\ t[i] = e[i - Len(samples)])
  BY <1>4, <1>5 DEF Joined
<1>7. IsFiniteSet(U) /\ Cardinality(U) = Len(series) /\ 0 \notin U
  <2>1. PICK a \in Nat, n \in Nat : a = Len(samples) /\ n = Len(series)
    BY <1>1
  <2>2. IsFiniteSet(a + 1 .. a + n) /\ Cardinality(a + 1 .. a + n) = n
    BY FS_Interval
  <2>3. U = a + 1 .. a + n /\ 0 \notin a + 1 .. a + n
    BY <2>1 DEF UploadRows
  <2> QED  BY <2>1, <2>2, <2>3
<1>8. ASSUME NEW i \in DOMAIN t, t[i].origin = Upload(m) PROVE i \in U
  <2>1. i \notin DOMAIN samples
    BY <1>6, <1>8 DEF Absent
  <2> QED  BY <1>1, <1>6, <2>1 DEF UploadRows
<1>9. ASSUME NEW j \in DOMAIN series
      PROVE  Len(samples) + j \in U /\ t[Len(samples) + j].reading = series[j]
  <2>1. PICK i : i = Len(samples) + j
    OBVIOUS
  <2>2. i \in DOMAIN t /\ i \notin DOMAIN samples /\ i - Len(samples) = j /\ i \in U
    BY <1>1, <1>6, <2>1 DEF UploadRows
  <2>3. t[i] = e[j]
    BY <1>6, <2>2
  <2> QED  BY <1>1, <1>4, <2>1, <2>2, <2>3
<1> QED  BY <1>6, <1>7, <1>8, <1>9 DEF Placed

LEMMA VerdictStates ==
  ASSUME NEW x, IsMission(x)
  PROVE  /\ StateAfter(x) \notin Unprepared
         /\ x.verdict = "violated" => StateAfter(x) = "CONTINGENCY_AWAITING_APPROVAL"
BY DEF IsMission, StateAfter, Unprepared


\* One mission changes, its intake aside.
LEMMA AgreeStill ==
  ASSUME FeedInv, AgreeInv, Added(samples, observations, samples', observations'),
         NEW m \in Mission, NEW x, missions' = [missions EXCEPT ![m] = x],
         missions[m].state # "absent", SameIntake(x, missions[m]), Staged(x),
         x.ran = "judged" /\ Fits(x) /\ x.window = 1 /\ OwnOnly(m, samples', observations') =>
           x.state = "CONTINGENCY_AWAITING_APPROVAL"
  PROVE  AgreeInv'
<1>1. PICK y, own, less : /\ y = missions[m] /\ own = OwnOnly(m, samples, observations)
                          /\ less = OwnOnly(m, samples', observations')
  OBVIOUS
<1>2. Alike(y, own)
  BY <1>1 DEF AgreeInv
<1>3. Alike(x, less)
  BY <1>1, <1>2, AlikeStill
<1> QED  BY <1>1, <1>3, AgreeOthers

\* While a mission monitors or has not run, nothing of it was rejected.
LEMMA NotRejectedYet ==
  ASSUME FeedInv, AgreeInv, Added(samples, observations, samples', observations'),
         NEW m \in Mission, missions[m].state = "MONITORING_RECOVERY",
         missions[m].ran = "judged", Fits(missions[m]), missions[m].window = 1
  PROVE  ~OwnOnly(m, samples', observations')
<1>1. Alike(missions[m], OwnOnly(m, samples, observations))
  BY DEF AgreeInv
<1>2. ~OwnOnly(m, samples, observations)
  BY <1>1 DEF Alike
<1>3. Judging(samples, observations, Finished)
  BY DEF FeedInv
<1> QED  BY <1>2, <1>3, OwnBefore

LEMMA AgreeBegins == FeedInit => AgreeInv
<1> SUFFICES ASSUME FeedInit, NEW m \in Mission
             PROVE  Staged(missions[m]) /\ Alike(missions[m], OwnOnly(m, samples, observations))
  BY DEF AgreeInv
<1>1. missions[m] = NoMission
  BY DEF FeedInit
<1>2. ContractFault # "none"
  BY FeedAssumption DEF SeriesNulls
<1>3. /\ NoMission.state = "absent" /\ NoMission.ran = "no" /\ NoMission.released = FALSE
      /\ NoMission.fault = "none"
  BY DEF NoMission
<1> QED  BY <1>1, <1>2, <1>3 DEF Staged, Alike, Unprepared

LEMMA CreateAgrees ==
  ASSUME FeedInv, AgreeInv, NEW m \in Mission, NEW t \in DOMAIN Tables, NEW saved,
         CreateMission(m, t, saved)
  PROVE  AgreeInv'
<1> DEFINE map == Mapping(Tables[t], saved)
           intake == Analysis(Tables[t], saved)
           x == [NoMission EXCEPT
                   !.state = "INTERVENTION_RECORDED", !.table = t,
                   !.mapping = intake.mapping, !.series = intake.series,
                   !.fault = intake.fault, !.relapse = intake.relapse,
                   !.readiness = intake.readiness]
<1>1. missions' = [missions EXCEPT ![m] = x] /\ UNCHANGED <<samples, observations>>
  BY DEF CreateMission
<1>2. /\ intake.series = TelemetrySeries(Tables[t], map)
      /\ intake.fault = FirstFault(Tables[t], map)
      /\ intake.readiness = Readiness(Tables[t], map)
  BY DEF Analysis
<1>3. /\ x.state = "INTERVENTION_RECORDED" /\ x.ran = "no" /\ x.released = FALSE
      /\ x.table = t /\ x.series = TelemetrySeries(Tables[t], map)
      /\ x.fault = FirstFault(Tables[t], map) /\ x.readiness = Readiness(Tables[t], map)
  <2> HIDE DEF intake, map
  <2> QED  BY <1>2 DEF NoMission
<1> HIDE DEF x, intake, map
<1>4. Staged(x)
  BY <1>3 DEF Staged, Unprepared
<1>5. x.fault = ContractFault /\ Fits(x) => HasTheFault(x.series)
  <2>1. PICK series : series = TelemetrySeries(Tables[t], map) /\ series = x.series
    BY <1>3
  <2>2. ASSUME FirstFault(Tables[t], map) = ContractFault, Len(Tables[t].rows) <= SeriesCap
        PROVE  \E i \in DOMAIN series : series[i].fault = ContractFault
    BY <2>1, <2>2, SeriesHasTheFault
  <2> QED  BY <1>3, <2>1, <2>2 DEF Fits, HasTheFault
<1>6. x.readiness # "blocked" => x.series # <<>>
  BY <1>3, SeriesNotEmpty
<1>7. Alike(x, OwnOnly(m, samples', observations'))
  BY <1>3, <1>5, <1>6 DEF Alike
<1>8. Added(samples, observations, samples', observations')
  BY <1>1 DEF Added, Longer
<1> QED  BY <1>1, <1>4, <1>7, <1>8, AgreeOthers

LEMMA MonitoringAgrees ==
  ASSUME FeedInv, AgreeInv, NEW m \in Mission,
         StartMonitoring(m) \/ ReleaseQuality(m) \/ CompleteContingency(m)
  PROVE  AgreeInv'
<1>1. IsMission(missions[m]) /\ Staged(missions[m])
  BY DEF FeedInv, MissionsInv, AgreeInv
<1>2. UNCHANGED <<samples, observations>>
  BY DEF StartMonitoring, ReleaseQuality, CompleteContingency
<1>3. Added(samples, observations, samples', observations')
  BY <1>2 DEF Added, Longer
<1>4. CASE StartMonitoring(m)
  <2> DEFINE x == Monitoring(missions[m], 1)
  <2>1. /\ missions' = [missions EXCEPT ![m] = x]
        /\ missions[m].state = "AWAITING_REQUIRED_EVIDENCE"
    BY <1>4 DEF StartMonitoring
  <2>2. /\ SameIntake(x, missions[m]) /\ x.state = "MONITORING_RECOVERY" /\ x.window = 1
        /\ x.ran = missions[m].ran
    BY <1>1 DEF IsMission, SameIntake, Monitoring
  <2>3. missions[m].ran # "judged"
    BY <1>1, <2>1 DEF Staged, Unprepared
  <2> HIDE DEF x
  <2>4. Staged(x)
    BY <2>2 DEF Staged, Unprepared
  <2> QED  BY <1>3, <2>1, <2>2, <2>3, <2>4, AgreeStill
<1>5. CASE ReleaseQuality(m)
  <2> DEFINE x == [missions[m] EXCEPT !.released = TRUE]
  <2>1. missions' = [missions EXCEPT ![m] = x] /\ missions[m].state = "MONITORING_RECOVERY"
    BY <1>5 DEF ReleaseQuality
  <2>2. /\ SameIntake(x, missions[m]) /\ x.state = missions[m].state
        /\ x.window = missions[m].window /\ x.ran = missions[m].ran /\ x.table = missions[m].table
    BY <1>1 DEF IsMission, SameIntake
  <2> HIDE DEF x
  <2>3. Staged(x)
    BY <1>1, <2>1, <2>2 DEF Staged, Unprepared
  <2>4. ~(x.ran = "judged" /\ Fits(x) /\ x.window = 1 /\ OwnOnly(m, samples', observations'))
    BY <1>3, <2>1, <2>2, NotRejectedYet DEF Fits
  <2> QED  BY <1>3, <2>1, <2>2, <2>3, <2>4, AgreeStill
<1>6. CASE CompleteContingency(m)
  <2> DEFINE x == [Monitoring(missions[m], missions[m].window + 1) EXCEPT !.released = FALSE]
  <2>1. /\ missions' = [missions EXCEPT ![m] = x]
        /\ missions[m].state = "CONTINGENCY_AWAITING_APPROVAL"
    BY <1>6 DEF CompleteContingency
  <2>2. /\ SameIntake(x, missions[m]) /\ x.state = "MONITORING_RECOVERY"
        /\ x.window = missions[m].window + 1 /\ x.ran = missions[m].ran
    BY <1>1 DEF IsMission, SameIntake, Monitoring
  <2>3. missions[m].window \in Nat /\ missions[m].window > 0
    BY <1>1, <2>1 DEF Staged, Unprepared
  <2> HIDE DEF x
  <2>4. x.window \in Nat /\ x.window > 0 /\ x.window # 1
    BY <2>2, <2>3
  <2>5. Staged(x)
    BY <2>2, <2>4 DEF Staged, Unprepared
  <2> QED  BY <1>3, <2>1, <2>2, <2>4, <2>5, AgreeStill
<1> QED  BY <1>4, <1>5, <1>6

LEMMA CycleAgrees ==
  ASSUME FeedInv, AgreeInv, NEW m \in Mission, AdvanceCommits(m)
  PROVE  AgreeInv'
<1>1. PICK i, before, end, x : CommitLeaves(m, i, before, end, x)
  BY CommitSays
<1>2. /\ before.samples = samples /\ before.observations = observations
      /\ before.mission = missions[m] /\ end = Cycle(m, i, before)
      /\ x = [end.mission EXCEPT !.state = StateAfter(end.mission)]
      /\ samples' = end.samples /\ observations' = end.observations
      /\ missions' = [missions EXCEPT ![m] = x]
  BY <1>1 DEF CommitLeaves
<1>3. /\ missions[m].state = "MONITORING_RECOVERY"
      /\ Going(before, Finished) /\ Taken(before.samples, before.observations, m, i)
      /\ Going(end, Finished) /\ Went(end, before, m)
  BY <1>1, CommitGoes
<1>4. Carried(end, before)
  BY <1>2, <1>3, CycleJudges
<1>5. SameIntake(end.mission, missions[m]) /\ end.mission.window = missions[m].window
  BY <1>2, <1>4 DEF Carried
<1>6. IsMission(end.mission) /\ end.mission.ran = missions[m].ran
  BY <1>2, <1>3 DEF Going, Went
<1>7. /\ SameIntake(x, missions[m]) /\ x.window = missions[m].window
      /\ x.ran = missions[m].ran /\ x.state = StateAfter(end.mission)
      /\ x.table = missions[m].table
  BY <1>2, <1>5, <1>6 DEF SameIntake, IsMission
<1>8. Added(samples, observations, samples', observations')
  <2>1. Longer(end.observations, observations)
    BY <1>2, <1>4 DEF Carried
  <2>2. \A j \in DOMAIN samples : end.samples[j].origin = samples[j].origin
    BY <1>2, <1>3 DEF Went, SameRows
  <2> QED  BY <1>2, <2>1, <2>2 DEF Added
<1>9. x.state \notin Unprepared
  BY <1>6, <1>7, VerdictStates
<1>10. Staged(x)
  BY <1>3, <1>7, <1>9 DEF Staged, Unprepared, AgreeInv
<1>11. ~(x.ran = "judged" /\ Fits(x) /\ x.window = 1 /\ OwnOnly(m, samples', observations'))
  BY <1>3, <1>7, <1>8, NotRejectedYet DEF Fits
<1> QED  BY <1>2, <1>3, <1>7, <1>8, <1>10, <1>11, AgreeStill

\* A run of rows U that judged nothing but its upload came to the fault in it.
LEMMA RunRejects ==
  ASSUME FeedInv, NEW m \in Mission, missions[m].state = "INTERVENTION_RECORDED",
         NEW series, series = missions[m].series, HasTheFault(series),
         NEW t, t = samples \o NewRows(Upload(m), HighestSeq, series),
         NEW before, before.samples = t, Going(before, Finished), Begun(before),
         before.mission.window = 1,
         NEW end, end = Advanced(m, Len(series), before),
         NEW s, SameRows(s, t), OwnOnly(m, s, end.observations)
  PROVE  end.mission.verdict = "violated"
<1>1. IsList(samples) /\ IsList(series) /\ Absent(Upload(m)) /\ IsList(t)
  <2>1. IsList(samples) /\ IsList(series) /\ Absent(Upload(m))
    BY DEF FeedInv, Judging, IsSamples, MissionsInv, IsMission
  <2>2. IsList(t)
    BY DEF Going, Judging, IsSamples
  <2> QED  BY <2>1, <2>2
<1>2. PICK n \in Nat : n = Len(series)
  BY <1>1, ListIndexed
<1>3. PICK U : U = UploadRows(Len(series))
  OBVIOUS
<1>4. /\ IsFiniteSet(U) /\ Cardinality(U) = n /\ 0 \notin U
      /\ \A i \in DOMAIN t : t[i].origin = Upload(m) => i \in U
      /\ \A j \in DOMAIN series :
           Len(samples) + j \in U /\ t[Len(samples) + j].reading = series[j]
  <2>1. Placed(U, t, m, series)
    BY <1>1, <1>3, UploadPlaces
  <2> QED  BY <1>2, <2>1 DEF Placed
<1>5. PICK j \in DOMAIN series : series[j].fault = ContractFault
  BY DEF HasTheFault
<1>6. PICK i : i = Len(samples) + j
  OBVIOUS
<1>7. i \in U /\ before.samples[i].reading.fault = ContractFault
  BY <1>4, <1>5, <1>6
<1>8. n > 0
  BY <1>1, <1>2, <1>5, ListIndexed
<1>9. /\ Judging(end.samples, end.observations, Finished) /\ Len(end.samples) = Len(t)
      /\ DOMAIN t = 1 .. Len(t)
  <2>1. Going(end, Finished) /\ Went(end, before, m)
    BY <1>2, AdvancedGoes
  <2> QED  BY <1>1, <2>1, ListIndexed DEF Going, Went, SameRows
<1>10. ASSUME NEW k \in DOMAIN end.observations,
              end.observations[k].mission = m, end.observations[k].window = 1
       PROVE  end.observations[k].row \in U
  <2>1. PICK r : r = end.observations[k].row
    OBVIOUS
  <2>2. r # 0 /\ s[r].origin = Upload(m)
    BY <1>10, <2>1 DEF OwnOnly
  <2>3. r \in 0 .. Len(t)
    BY <1>9, <2>1 DEF Judging
  <2>4. r \in DOMAIN t
    BY <1>1, <1>9, <2>2, <2>3, ListIndexed
  <2>5. t[r].origin = Upload(m)
    BY <2>2, <2>4 DEF SameRows
  <2> QED  BY <1>4, <2>1, <2>4, <2>5
<1>11. before.mission.verdict = "monitoring" /\ before.mission.released = FALSE
  BY DEF Begun
<1>12. JudgedWithin(end.observations, m, before.mission.window, U)
  BY <1>10 DEF JudgedWithin
<1>13. end = Advanced(m, n, before)
  BY <1>2
<1>14. IsFiniteSet(U) /\ Cardinality(U) = n /\ 0 \notin U
  BY <1>4
<1> QED  BY <1>2, <1>7, <1>8, <1>11, <1>12, <1>13, <1>14, RunComesToTheFault

\* The staffed run: what it leaves of the machine's tables, and of its mission.
RunLeaves(m, series, t, before, end, x) ==
  /\ series = missions[m].series
  /\ t = samples \o NewRows(Upload(m), HighestSeq, series)
  /\ before = [samples |-> t, observations |-> observations,
               mission |-> Prepared(missions[m])]
  /\ end = Advanced(m, Len(series), before)
  /\ x = [end.mission EXCEPT !.state = StateAfter(end.mission), !.ran = "judged"]
  /\ samples' = Reclaimed(m, end.samples) /\ observations' = end.observations
  /\ missions' = [missions EXCEPT ![m] = x]

LEMMA RunJudges ==
  ASSUME FeedInv, AgreeInv, NEW m \in Mission, missions[m].state = "INTERVENTION_RECORDED",
         missions[m].fault = ContractFault,
         NEW series, NEW t, NEW before, NEW end, NEW x,
         RunLeaves(m, series, t, before, end, x)
  PROVE  AgreeInv'
<1>a. series = missions[m].series /\ t = samples \o NewRows(Upload(m), HighestSeq, series)
  BY DEF RunLeaves
<1>b. PICK z : z = end.mission
  OBVIOUS
<1>1. /\ Judging(t, observations, Finished) /\ IsMission(missions[m])
      /\ Staged(missions[m]) /\ Alike(missions[m], OwnOnly(m, samples, observations))
      /\ IsList(samples) /\ Len(series) \in Nat /\ Absent(Upload(m))
      /\ missions[m].ran = "no"
  <2>1. Judging(t, observations, Finished)
    BY <1>a, UploadedRows
  <2>2. /\ IsMission(missions[m]) /\ IsList(samples) /\ Absent(Upload(m))
        /\ missions[m].ran = "no"
    BY DEF FeedInv, MissionsInv, Judging, IsSamples
  <2>3. Len(series) \in Nat
    BY <1>a, <2>2, ListIndexed DEF IsMission
  <2>4. Staged(missions[m]) /\ Alike(missions[m], OwnOnly(m, samples, observations))
    BY DEF AgreeInv
  <2> QED  BY <2>1, <2>2, <2>3, <2>4
<1>2. PICK y : y = Prepared(missions[m])
  OBVIOUS
<1>3. /\ IsMission(y) /\ SameIntake(y, missions[m]) /\ y.window = 1
      /\ y.released = FALSE /\ y.verdict = "monitoring"
  <2>1. y = [missions[m] EXCEPT !.state = "MONITORING_RECOVERY", !.window = 1,
                                !.streak = 0, !.verdict = "monitoring"]
    BY <1>2 DEF Prepared, Monitoring
  <2>2. missions[m].released = FALSE
    BY <1>1 DEF Staged, Unprepared
  <2> QED  BY <1>1, <2>1, <2>2 DEF IsMission, SameIntake
<1>4. /\ before.samples = t /\ before.observations = observations /\ before.mission = y
  BY <1>2 DEF RunLeaves
<1>5. Going(before, Finished) /\ Begun(before)
  BY <1>1, <1>3, <1>4 DEF Going, Begun
<1>6. PICK n \in Nat : n = Len(series) /\ end = Advanced(m, n, before)
  BY <1>1 DEF RunLeaves
<1>7. /\ Going(end, Finished) /\ Went(end, before, m) /\ Carried(end, before)
      /\ Unreleased(end, before, m, n)
  BY <1>5, <1>6, AdvancedGoes, AdvancedJudges
<1>8. IsMission(z) /\ SameIntake(z, missions[m]) /\ z.window = 1
  <2>1. /\ IsMission(z) /\ SameIntake(z, y)
        /\ z.window = y.window
    BY <1>4, <1>7, <1>b DEF Going, Carried
  <2> QED  BY <1>3, <2>1 DEF SameIntake
<1>9. /\ SameIntake(x, missions[m]) /\ x.window = 1 /\ x.table = missions[m].table
      /\ x.state = StateAfter(z)
  <2>1. x = [z EXCEPT !.state = StateAfter(z), !.ran = "judged"]
    BY <1>b DEF RunLeaves
  <2> QED  BY <1>8, <2>1 DEF SameIntake, IsMission
<1>10. Staged(x)
  <2>1. x.state \notin Unprepared
    BY <1>8, <1>9, VerdictStates
  <2>2. x.window \in Nat /\ x.window > 0
    <3>1. x.window = 1
      BY <1>9
    <3> QED  BY <3>1
  <2> QED  BY <2>1, <2>2 DEF Staged
<1>11. SameRows(samples', t) /\ DOMAIN t = 1 .. Len(t)
  <2>1. IsList(t) /\ IsList(end.samples) /\ SameRows(end.samples, t)
    BY <1>1, <1>4, <1>7 DEF Went, Going, Judging, IsSamples
  <2>2. PICK s, p : s = end.samples /\ p = samples' /\ p = Reclaimed(m, s)
    BY DEF RunLeaves
  <2>3. SameRows(p, s)
    BY <1>7, <2>2, RowsReclaimed DEF Going
  <2> QED  BY <2>1, <2>2, <2>3, SameRowsTransitive, ListIndexed
<1>12. Added(samples, observations, samples', observations')
  <2>1. IsList(series)
    BY <1>1, <1>a DEF IsMission
  <2>2. Placed(UploadRows(Len(series)), t, m, series)
    BY <1>1, <1>a, <2>1, UploadPlaces
  <2>3. \A i \in DOMAIN samples : samples'[i].origin = samples[i].origin
    <3>1. PICK s : s = samples'
      OBVIOUS
    <3>2. \A i \in DOMAIN t : s[i].origin = t[i].origin
      BY <1>11, <3>1 DEF SameRows
    <3>3. \A i \in DOMAIN samples : i \in DOMAIN t /\ t[i] = samples[i]
      BY <2>2 DEF Placed
    <3>4. \A i \in DOMAIN samples : s[i].origin = samples[i].origin
      BY <3>2, <3>3
    <3> QED  BY <3>1, <3>4
  <2>4. Longer(observations', observations)
    BY <1>4, <1>7 DEF Carried, RunLeaves
  <2> QED  BY <2>3, <2>4 DEF Added
<1>13. ASSUME Fits(x), OwnOnly(m, samples', observations')
       PROVE  x.state = "CONTINGENCY_AWAITING_APPROVAL"
  <2>1. HasTheFault(series)
    BY <1>1, <1>9, <1>13, <1>a DEF Alike, Fits
  <2>2. PICK s : s = samples' /\ SameRows(s, t) /\ OwnOnly(m, s, end.observations)
    BY <1>11, <1>13 DEF RunLeaves
  <2>3. before.mission.window = 1
    BY <1>3, <1>4
  <2>4. PICK b, e : b = before /\ e = end
    OBVIOUS
  <2>5. /\ b.samples = t /\ Going(b, Finished) /\ Begun(b) /\ b.mission.window = 1
        /\ e = Advanced(m, Len(series), b) /\ OwnOnly(m, s, e.observations)
    BY <1>4, <1>5, <2>2, <2>3, <2>4 DEF RunLeaves
  <2>6. e.mission.verdict = "violated"
    BY <1>a, <2>1, <2>2, <2>5, RunRejects
  <2>7. z.verdict = "violated"
    BY <1>b, <2>4, <2>6
  <2> QED  BY <1>8, <1>9, <2>7, VerdictStates
<1>14. missions[m].state # "absent"
  OBVIOUS
<1>15. missions' = [missions EXCEPT ![m] = x]
  BY DEF RunLeaves
<1>16. SameIntake(x, missions[m]) /\ Staged(x)
  BY <1>9, <1>10
<1> QED  BY <1>12, <1>13, <1>14, <1>15, <1>16, AgreeStill

LEMMA RunAgrees ==
  ASSUME FeedInv, AgreeInv, NEW m \in Mission, RunVerification(m)
  PROVE  AgreeInv'
<1>1. missions[m].state = "INTERVENTION_RECORDED" /\ missions[m].fault = ContractFault
  BY DEF RunVerification
<1>2. PICK series, t : /\ series = missions[m].series
                       /\ t = samples \o NewRows(Upload(m), HighestSeq, series)
  OBVIOUS
<1>3. CASE staffed
  <2>1. PICK before : before = [samples |-> t, observations |-> observations,
                                mission |-> Prepared(missions[m])]
    OBVIOUS
  <2>2. PICK end : end = Advanced(m, Len(series), before)
    OBVIOUS
  <2>3. PICK x : x = [end.mission EXCEPT !.state = StateAfter(end.mission), !.ran = "judged"]
    OBVIOUS
  <2>4. /\ samples' = Reclaimed(m, end.samples) /\ observations' = end.observations
        /\ missions' = [missions EXCEPT ![m] = x]
    <3>1. end = RanTo(m)
      BY <1>2, <2>1, <2>2 DEF RanTo, WithUpload
    <3> QED  BY <1>3, <2>3, <3>1, RunSays
  <2>5. RunLeaves(m, series, t, before, end, x)
    BY <1>2, <2>1, <2>2, <2>3, <2>4 DEF RunLeaves
  <2> QED  BY <1>1, <2>5, RunJudges
<1>4. CASE ~staffed
  <2> DEFINE x == [missions[m] EXCEPT !.state = "AWAITING_REQUIRED_EVIDENCE", !.ran = "blocked"]
  <2>1. missions = [l \in Mission |-> missions[l]] /\ IsMission(missions[m]) /\ Staged(missions[m])
    BY DEF FeedInv, MissionsInv, AgreeInv
  <2>2. samples' = t /\ UNCHANGED observations /\ missions' = [missions EXCEPT ![m] = x]
    <3>1. samples' = t /\ UNCHANGED observations
      BY <1>2, <1>4, RunSays DEF WithUpload
    <3>2. missions' = [missions EXCEPT ![m] = x]
      BY <1>4, <2>1, RunSays DEF IsMission
    <3> QED  BY <3>1, <3>2
  <2>3. /\ SameIntake(x, missions[m]) /\ x.ran = "blocked"
        /\ x.state = "AWAITING_REQUIRED_EVIDENCE" /\ x.released = missions[m].released
    BY <2>1 DEF SameIntake, IsMission
  <2> HIDE DEF x
  <2>4. Staged(x)
    BY <1>1, <2>1, <2>3 DEF Staged, Unprepared
  <2>5. Added(samples, observations, samples', observations')
    <3>1. IsList(samples) /\ IsList(series) /\ Absent(Upload(m))
      BY <1>1, <1>2 DEF FeedInv, MissionsInv, Judging, IsSamples, IsMission
    <3>2. PICK base : base = HighestSeq /\ t = samples \o NewRows(Upload(m), base, series)
      BY <1>2
    <3>3. Placed(UploadRows(Len(series)), t, m, series)
      BY <3>1, <3>2, UploadPlaces
    <3> QED  BY <2>2, <3>3 DEF Placed, Added, Longer
  <2> QED  BY <1>1, <2>2, <2>3, <2>4, <2>5, AgreeStill
<1> QED  BY <1>3, <1>4

\* Steps that touch no mission.
LEMMA PostingAgrees ==
  ASSUME FeedInv, AgreeInv, UNCHANGED missions,
         Added(samples, observations, samples', observations')
  PROVE  AgreeInv'
<1>1. Judging(samples, observations, Finished)
  BY DEF FeedInv
<1>2. ASSUME NEW l \in Mission
      PROVE  Staged(missions'[l]) /\ Alike(missions'[l], OwnOnly(l, samples', observations'))
  <2>1. Staged(missions[l]) /\ Alike(missions[l], OwnOnly(l, samples, observations))
    BY DEF AgreeInv
  <2>2. OwnOnly(l, samples', observations') => OwnOnly(l, samples, observations)
    BY <1>1, OwnBefore
  <2>3. Alike(missions[l], OwnOnly(l, samples', observations'))
    BY <2>1, <2>2, AlikeWithLess
  <2> QED  BY <2>1, <2>3
<1> QED  BY <1>2 DEF AgreeInv, OwnOnly, Alike, Staged, Fits, Upload

LEMMA AgreeStep == FeedInv /\ AgreeInv /\ [FeedNext]_feedVars => AgreeInv'
<1> SUFFICES ASSUME FeedInv, AgreeInv, FeedNext \/ UNCHANGED feedVars
             PROVE  AgreeInv'
  BY DEF feedVars
<1>1. ASSUME NEW b \in Batches, PostBegins(b) PROVE AgreeInv'
  <2>1. UNCHANGED <<samples, observations, missions>>
    BY <1>1 DEF PostBegins
  <2>2. Added(samples, observations, samples', observations')
    BY <2>1 DEF Added, Longer
  <2> QED  BY <2>1, <2>2, PostingAgrees
<1>2. ASSUME NEW p \in posting, PostCommits(p) PROVE AgreeInv'
  <2>1. UNCHANGED <<observations, missions>>
    BY <1>2 DEF PostCommits
  <2>2. PICK e : samples' = samples \o e /\ IsList(e)
    <3>1. samples' = samples \o NewRows(Posted(p.id), p.base, p.batch)
      BY <1>2 DEF PostCommits, Posted, NewRows
    <3>2. IsList(p.batch)
      BY DEF FeedInv, PostingInv
    <3>3. Len(p.batch) \in Nat /\ DOMAIN p.batch = 1 .. Len(p.batch)
      BY <3>2, ListIndexed
    <3>4. PICK e : e = NewRows(Posted(p.id), p.base, p.batch)
      OBVIOUS
    <3>5. e = [i \in 1 .. Len(p.batch) |-> e[i]]
      BY <3>3, <3>4 DEF NewRows
    <3>6. IsList(e)
      BY <3>3, <3>5, ListOf
    <3> QED  BY <3>1, <3>4, <3>6
  <2>3. Joined(samples', samples, e)
    <3>1. IsList(samples)
      BY DEF FeedInv, Judging, IsSamples
    <3>2. PICK u : u = samples'
      OBVIOUS
    <3> QED  BY <2>2, <3>1, <3>2, ListJoined
  <2>4. Added(samples, observations, samples', observations')
    BY <2>1, <2>3 DEF Joined, Added, Longer
  <2> QED  BY <2>1, <2>4, PostingAgrees
<1>3. ASSUME UNCHANGED feedVars PROVE AgreeInv'
  <2>1. UNCHANGED <<samples, observations, missions>>
    BY <1>3 DEF feedVars
  <2>2. Added(samples, observations, samples', observations')
    BY <2>1 DEF Added, Longer
  <2> QED  BY <2>1, <2>2, PostingAgrees
<1>4. ASSUME NEW m \in Mission, AdvanceBegins(m) \/ AdvanceFails(m) PROVE AgreeInv'
  <2>1. UNCHANGED <<samples, observations, missions>>
    BY <1>4 DEF AdvanceBegins, AdvanceFails
  <2>2. Added(samples, observations, samples', observations')
    BY <2>1 DEF Added, Longer
  <2> QED  BY <2>1, <2>2, PostingAgrees
<1> QED  BY <1>1, <1>2, <1>3, <1>4, CreateAgrees, MonitoringAgrees, CycleAgrees, RunAgrees
         DEF FeedNext

\* Of an export within the cap of its series, a run that judged nothing but its own
\* upload rejected it, and the fault that made it run is in the series; of any export
\* that is not blocked there are readings (_first_fault(), build_telemetry_series(),
\* assess_readiness() and the evaluator read the same rows).
THEOREM IntakeAgrees == FeedSpec => []IntakeAndEvaluatorAgree
<1>1. FeedInit => FeedInv /\ AgreeInv
  BY FeedBegins, AgreeBegins
<1>2. FeedInv /\ AgreeInv /\ [FeedNext]_feedVars => (FeedInv /\ AgreeInv)'
  BY FeedStep, AgreeStep
<1>3. FeedInv /\ AgreeInv => IntakeAndEvaluatorAgree
  BY AgreeSeenAlike DEF IntakeAndEvaluatorAgree
<1> QED  BY <1>1, <1>2, <1>3, PTL DEF FeedSpec

-----------------------------------------------------------------------------
(* Types: no streak is longer than its window.                             *)

InWindow(o, m, w) == {k \in DOMAIN o : o[k].mission = m /\ o[k].window = w}

LEMMA WindowLength ==
  ASSUME NEW o, IsList(o), NEW m, NEW w
  PROVE  /\ IsFiniteSet(InWindow(o, m, w)) /\ Cardinality(InWindow(o, m, w)) \in Nat
         /\ Len(WindowOf(o, m, w)) = Cardinality(InWindow(o, m, w))
<1>1. PICK I : I = InWindow(o, m, w)
  OBVIOUS
<1>2. I \in SUBSET DOMAIN o
  BY <1>1 DEF InWindow
<1>3. PICK x : x = Only(o, I)
  OBVIOUS
<1>4. Cardinality(I) \in Nat /\ DOMAIN x = 1 .. Cardinality(I)
  BY <1>2, <1>3, OnlyCovers
<1>5. x = WindowOf(o, m, w)
  BY <1>1, <1>3 DEF InWindow, WindowOf
<1>6. Len(x) = Cardinality(I)
  <2>1. PICK c \in Nat : c = Cardinality(I)
    BY <1>4
  <2>2. x = [i \in 1 .. c |-> x[i]]
    <3>1. x = [i \in DOMAIN InOrder(I) |-> o[InOrder(I)[i]]]
      BY <1>3 DEF Only
    <3> QED  BY <1>4, <2>1, <3>1
  <2> QED  BY <2>1, <2>2, ListOf
<1>7. IsFiniteSet(I)
  <2>1. PICK n \in Nat : n = Len(o) /\ DOMAIN o = 1 .. n
    BY ListIndexed
  <2>2. IsFiniteSet(1 .. n)
    BY FS_Interval
  <2> QED  BY <1>2, <2>1, <2>2, FS_Subset
<1> QED  BY <1>1, <1>4, <1>5, <1>6, <1>7

LEMMA WindowGrows ==
  ASSUME NEW o, IsList(o), NEW p, IsList(p), Longer(p, o), NEW m, NEW w
  PROVE  Len(WindowOf(o, m, w)) <= Len(WindowOf(p, m, w))
<1>1. PICK I, J : I = InWindow(o, m, w) /\ J = InWindow(p, m, w)
  OBVIOUS
<1>2. I \in SUBSET J
  BY <1>1 DEF Longer, InWindow
<1>3. IsFiniteSet(J)
  BY <1>1, WindowLength
<1>4. Cardinality(I) <= Cardinality(J)
  BY <1>2, <1>3, FS_Subset
<1> QED  BY <1>1, <1>4, WindowLength

LEMMA WindowOneMore ==
  ASSUME NEW o, IsList(o), NEW p, NEW e, Appended(p, o, e), NEW m, NEW w,
         e.mission = m, e.window = w
  PROVE  Len(WindowOf(p, m, w)) = Len(WindowOf(o, m, w)) + 1
<1>1. PICK I, J : I = InWindow(o, m, w) /\ J = InWindow(p, m, w)
  OBVIOUS
<1>2. Len(o) \in Nat /\ DOMAIN o = 1 .. Len(o)
  BY ListIndexed
<1>3. /\ IsList(p) /\ DOMAIN p = 1 .. Len(o) + 1 /\ p[Len(o) + 1] = e
      /\ \A i \in 1 .. Len(o) : p[i] = o[i]
  BY DEF Appended
<1>4. PICK n : n = Len(o) + 1
  OBVIOUS
<1>5. n \notin I
  BY <1>1, <1>2, <1>4 DEF InWindow
<1>6. J = I \cup {n}
  <2>1. \A k \in DOMAIN p : k \in DOMAIN o \/ k = n
    BY <1>2, <1>3, <1>4
  <2>2. \A k \in DOMAIN o : k \in DOMAIN p /\ p[k] = o[k]
    BY <1>2, <1>3
  <2>3. n \in DOMAIN p /\ p[n] = e
    BY <1>2, <1>3, <1>4
  <2> QED  BY <1>1, <2>1, <2>2, <2>3 DEF InWindow
<1>7. IsFiniteSet(I)
  BY <1>1, WindowLength
<1>8. Cardinality(J) = Cardinality(I) + 1
  BY <1>5, <1>6, <1>7, FS_AddElement
<1> QED  BY <1>1, <1>3, <1>8, WindowLength

\* The streak of a mission x, as observations o have it.
StreakFits(x, o, m) == x.streak \in 0 .. Len(WindowOf(o, m, x.window))
OfMissions(o) == \A k \in DOMAIN o : o[k].mission \in Mission

LEMMA CycleTypes ==
  ASSUME NEW m \in Mission, NEW now, NEW ran, Going(now, ran),
         StreakFits(now.mission, now.observations, m), OfMissions(now.observations),
         NEW i, Taken(now.samples, now.observations, m, i), NEW end, end = Cycle(m, i, now)
  PROVE  StreakFits(end.mission, end.observations, m) /\ OfMissions(end.observations)
<1>1. PICK o, p, w : /\ o = now.observations /\ p = end.observations
                     /\ w = now.mission.window
  OBVIOUS
<1>2. IsList(o) /\ Len(o) \in Nat /\ DOMAIN o = 1 .. Len(o)
  BY <1>1, ListIndexed DEF Going, Judging
<1>3. PICK e : Appended(p, o, e) /\ Mine(e, now.samples, m, w)
  BY <1>1, CycleJudges
<1>4. /\ IsList(p) /\ DOMAIN p = 1 .. Len(o) + 1 /\ p[Len(o) + 1] = e
      /\ \A j \in 1 .. Len(o) : p[j] = o[j]
  BY <1>3 DEF Appended
<1>5. OfMissions(p)
  <2>1. e.mission \in Mission
    BY <1>3 DEF Mine
  <2>2. \A k \in DOMAIN p : k \in DOMAIN o \/ k = Len(o) + 1
    BY <1>2, <1>4
  <2> QED  BY <1>1, <1>2, <1>4, <2>1, <2>2 DEF OfMissions
<1>6. PICK n \in Nat : n = Len(WindowOf(o, m, w))
  BY <1>2, WindowLength
<1>7. Len(WindowOf(p, m, w)) = n + 1
  BY <1>2, <1>3, <1>6, WindowOneMore DEF Mine
<1>8. PICK streak, v, latest :
        /\ end.mission = [now.mission EXCEPT !.streak = streak, !.verdict = v]
        /\ streak = NextStreak(now.mission.streak, latest)
  BY DEF Cycle
<1>9. now.mission.streak \in 0 .. n
  BY <1>1, <1>6 DEF StreakFits
<1>10. streak \in 0 .. n + 1
  BY <1>8, <1>9 DEF NextStreak
<1>11. end.mission.streak = streak /\ end.mission.window = w
  BY <1>1, <1>8 DEF Going, IsMission
<1> QED  BY <1>1, <1>5, <1>7, <1>10, <1>11 DEF StreakFits

LEMMA AdvancedTypes ==
  ASSUME NEW m \in Mission, NEW before, NEW ran, Going(before, ran), NEW n \in Nat,
         StreakFits(before.mission, before.observations, m),
         OfMissions(before.observations),
         NEW end, end = Advanced(m, n, before)
  PROVE  StreakFits(end.mission, end.observations, m) /\ OfMissions(end.observations)
<1> DEFINE after == CHOOSE g : Steps(m, before, n, g)
<1>1. end = after[n]
  BY DEF Advanced, Steps, Further
<1>2. Steps(m, before, n, after)
  BY StepsExist
<1> HIDE DEF after
<1>3. \A k \in 0 .. n : after[k] = IF k = 0 THEN before ELSE Further(m, after[k - 1])
  BY <1>2 DEF Steps
<1> DEFINE Good(k) == /\ Going(after[k], ran)
                      /\ StreakFits(after[k].mission, after[k].observations, m)
                      /\ OfMissions(after[k].observations)
           T == {k \in 0 .. n : ~Good(k)}
<1>4. ASSUME T # {} PROVE FALSE
  <2>1. T \subseteq Nat
    OBVIOUS
  <2>2. PICK k \in T : \A l \in T : k <= l
    <3> HIDE DEF T
    <3> QED  BY <1>4, <2>1, LeastNumber
  <2>3. k \in 0 .. n /\ ~Good(k)
    BY <2>2
  <2>4. k # 0
    <3>1. SUFFICES ASSUME k = 0 PROVE FALSE
      OBVIOUS
    <3>2. after[k] = before
      BY <1>3, <2>3, <3>1
    <3> QED  BY <2>3, <3>2
  <2>5. k - 1 \in 0 .. n /\ k - 1 \notin T
    BY <2>2, <2>3, <2>4
  <2>6. PICK x : x = after[k - 1]
    OBVIOUS
  <2>7. /\ Going(x, ran) /\ StreakFits(x.mission, x.observations, m)
        /\ OfMissions(x.observations)
    BY <2>5, <2>6
  <2>8. after[k] = Further(m, x)
    BY <1>3, <2>3, <2>4, <2>6
  <2>9. CASE x.mission.verdict # "monitoring"
    <3>1. after[k] = x
      BY <2>8, <2>9 DEF Further
    <3> QED  BY <2>3, <2>7, <3>1
  <2>10. CASE x.mission.verdict = "monitoring"
    <3>1. PICK i, g : i = NextRow(x.samples) /\ g = Cycle(m, i, x) /\ after[k] = g
      BY <2>8, <2>10 DEF Further
    <3>2. Taken(x.samples, x.observations, m, i)
      BY <2>7, <3>1, NextIsTaken DEF Going
    <3>3. Going(g, ran)
      BY <2>7, <3>1, <3>2, CycleGoes
    <3>4. StreakFits(g.mission, g.observations, m) /\ OfMissions(g.observations)
      BY <2>7, <3>1, <3>2, CycleTypes
    <3> QED  BY <2>3, <3>1, <3>3, <3>4
  <2> QED  BY <2>9, <2>10
<1>5. Good(n)
  <2>1. n \in 0 .. n
    OBVIOUS
  <2> HIDE DEF Good
  <2> QED  BY <1>4, <2>1
<1> QED  BY <1>1, <1>5

MissionStates ==
  {"absent", "INTERVENTION_RECORDED", "AWAITING_REQUIRED_EVIDENCE", "MONITORING_RECOVERY",
   "CONTINGENCY_AWAITING_APPROVAL", "VERIFIED_RECOVERY"}

TypesInv ==
  /\ OfMissions(observations)
  /\ \A m \in Mission :
       missions[m].state \in MissionStates /\ StreakFits(missions[m], observations, m)

LEMMA StreakStillFits ==
  ASSUME NEW o, IsList(o), NEW p, IsList(p), Longer(p, o), NEW m, NEW x, StreakFits(x, o, m)
  PROVE  StreakFits(x, p, m)
<1>1. Len(WindowOf(o, m, x.window)) <= Len(WindowOf(p, m, x.window))
  BY WindowGrows
<1>2. /\ Len(WindowOf(o, m, x.window)) \in Nat /\ Len(WindowOf(p, m, x.window)) \in Nat
  BY WindowLength
<1> QED  BY <1>1, <1>2 DEF StreakFits

LEMMA TypesStill ==
  ASSUME FeedInv, TypesInv, IsList(observations'), Longer(observations', observations),
         OfMissions(observations'),
         NEW m \in Mission, NEW x, missions' = [missions EXCEPT ![m] = x],
         x.state \in MissionStates, StreakFits(x, observations', m)
  PROVE  TypesInv'
<1>1. missions = [l \in Mission |-> missions[l]] /\ IsList(observations)
  BY DEF FeedInv, MissionsInv, Judging
<1>2. missions'[m] = x /\ \A l \in Mission : l # m => missions'[l] = missions[l]
  BY <1>1
<1>3. ASSUME NEW l \in Mission
      PROVE  missions'[l].state \in MissionStates /\ StreakFits(missions'[l], observations', l)
  <2>1. CASE l = m
    BY <1>2, <2>1
  <2>2. CASE l # m
    <3>1. missions[l].state \in MissionStates /\ StreakFits(missions[l], observations, l)
      BY DEF TypesInv
    <3>2. StreakFits(missions[l], observations', l)
      BY <1>1, <3>1, StreakStillFits
    <3> QED  BY <1>2, <2>2, <3>1, <3>2
  <2> QED  BY <2>1, <2>2
<1> QED  BY <1>3 DEF TypesInv, OfMissions, StreakFits

LEMMA StateTyped ==
  ASSUME NEW x, IsMission(x)
  PROVE  StateAfter(x) \in MissionStates
BY DEF IsMission, StateAfter, MissionStates

LEMMA NoStreakFits ==
  ASSUME NEW o, IsList(o), NEW m, NEW x, x.streak = 0
  PROVE  StreakFits(x, o, m)
<1>1. Len(WindowOf(o, m, x.window)) \in Nat
  BY WindowLength
<1> QED  BY <1>1 DEF StreakFits

\* What is left of n cycles from a window without a streak, or from one that has it.
LEMMA CyclesTyped ==
  ASSUME FeedInv, TypesInv, NEW m \in Mission, NEW t, Judging(t, observations, Finished),
         NEW y, IsMission(y), StreakFits(y, observations, m), NEW n \in Nat,
         NEW before, before = [samples |-> t, observations |-> observations, mission |-> y],
         NEW end, end = Advanced(m, n, before)
  PROVE  /\ IsMission(end.mission) /\ StreakFits(end.mission, end.observations, m)
         /\ OfMissions(end.observations) /\ IsList(end.observations)
         /\ Longer(end.observations, observations)
<1>1. Going(before, Finished)
  BY DEF Going
<1>2. before.observations = observations /\ before.mission = y
  OBVIOUS
<1>3. /\ StreakFits(before.mission, before.observations, m)
      /\ OfMissions(before.observations)
  BY <1>2 DEF TypesInv
<1>4. Going(end, Finished) /\ Carried(end, before)
  BY <1>1, AdvancedGoes, AdvancedJudges
<1>5. StreakFits(end.mission, end.observations, m) /\ OfMissions(end.observations)
  BY <1>1, <1>3, AdvancedTypes
<1> QED  BY <1>2, <1>4, <1>5 DEF Going, Judging, Carried

LEMMA RunTypes ==
  ASSUME FeedInv, TypesInv, NEW m \in Mission, RunVerification(m)
  PROVE  TypesInv'
<1>1. /\ missions[m].state = "INTERVENTION_RECORDED" /\ IsMission(missions[m])
      /\ StreakFits(missions[m], observations, m) /\ OfMissions(observations)
      /\ IsList(observations)
  BY DEF RunVerification, FeedInv, MissionsInv, TypesInv, Judging
<1>2. PICK series, t : /\ series = missions[m].series
                       /\ t = samples \o NewRows(Upload(m), HighestSeq, series)
  OBVIOUS
<1>3. CASE staffed
  <2>1. PICK y : y = Prepared(missions[m])
    OBVIOUS
  <2>2. PICK before : before = [samples |-> t, observations |-> observations, mission |-> y]
    OBVIOUS
  <2>3. PICK end : end = Advanced(m, Len(series), before)
    OBVIOUS
  <2>4. PICK x : x = [end.mission EXCEPT !.state = StateAfter(end.mission), !.ran = "judged"]
    OBVIOUS
  <2>5. observations' = end.observations /\ missions' = [missions EXCEPT ![m] = x]
    <3>1. end = RanTo(m)
      BY <1>2, <2>1, <2>2, <2>3 DEF RanTo, WithUpload
    <3> QED  BY <1>3, <2>4, <3>1, RunSays
  <2>6. Judging(t, observations, Finished)
    BY <1>1, <1>2, UploadedRows
  <2>7. IsMission(y) /\ y.streak = 0
    BY <1>1, <2>1 DEF IsMission, Prepared, Monitoring
  <2>8. StreakFits(y, observations, m)
    BY <1>1, <2>7, NoStreakFits
  <2>9. Len(series) \in Nat
    BY <1>1, <1>2, ListIndexed DEF IsMission
  <2>10. /\ IsMission(end.mission) /\ StreakFits(end.mission, end.observations, m)
         /\ OfMissions(end.observations) /\ IsList(end.observations)
         /\ Longer(end.observations, observations)
    BY <2>2, <2>3, <2>6, <2>7, <2>8, <2>9, CyclesTyped
  <2>11. /\ x.state = StateAfter(end.mission) /\ x.streak = end.mission.streak
         /\ x.window = end.mission.window
    BY <2>4, <2>10 DEF IsMission
  <2>12. x.state \in MissionStates /\ StreakFits(x, end.observations, m)
    BY <2>10, <2>11, StateTyped DEF StreakFits
  <2> QED  BY <2>5, <2>10, <2>12, TypesStill
<1>4. CASE ~staffed
  <2>1. PICK x : x = [missions[m] EXCEPT !.state = "AWAITING_REQUIRED_EVIDENCE",
                                         !.ran = "blocked"]
    OBVIOUS
  <2>2. missions = [l \in Mission |-> missions[l]]
    BY DEF FeedInv, MissionsInv
  <2>3. UNCHANGED observations /\ missions' = [missions EXCEPT ![m] = x]
    BY <1>1, <1>4, <2>1, <2>2, RunSays DEF IsMission
  <2>4. /\ x.state \in MissionStates /\ x.streak = missions[m].streak
        /\ x.window = missions[m].window
    BY <1>1, <2>1 DEF IsMission, MissionStates
  <2>5. StreakFits(x, observations, m) /\ Longer(observations, observations)
    BY <1>1, <2>4 DEF StreakFits, Longer
  <2> QED  BY <1>1, <2>3, <2>4, <2>5, TypesStill
<1> QED  BY <1>3, <1>4

LEMMA CycleStepTypes ==
  ASSUME FeedInv, TypesInv, NEW m \in Mission, AdvanceCommits(m)
  PROVE  TypesInv'
<1>1. PICK i, before, end, x : CommitLeaves(m, i, before, end, x)
  BY CommitSays
<1>2. /\ before.observations = observations /\ before.mission = missions[m]
      /\ end = Cycle(m, i, before)
      /\ x = [end.mission EXCEPT !.state = StateAfter(end.mission)]
      /\ observations' = end.observations /\ missions' = [missions EXCEPT ![m] = x]
  BY <1>1 DEF CommitLeaves
<1>3. /\ Going(before, Finished) /\ Taken(before.samples, before.observations, m, i)
      /\ Going(end, Finished)
  BY <1>1, CommitGoes
<1>4. /\ StreakFits(before.mission, before.observations, m)
      /\ OfMissions(before.observations)
  BY <1>2 DEF TypesInv
<1>5. /\ StreakFits(end.mission, end.observations, m) /\ OfMissions(end.observations)
      /\ Carried(end, before)
  BY <1>2, <1>3, <1>4, CycleTypes, CycleJudges
<1>6. IsMission(end.mission) /\ IsList(observations') /\ Longer(observations', observations)
  BY <1>2, <1>3, <1>5 DEF Going, Judging, Carried
<1>7. /\ x.state = StateAfter(end.mission) /\ x.streak = end.mission.streak
      /\ x.window = end.mission.window
  BY <1>2, <1>6 DEF IsMission
<1>8. x.state \in MissionStates /\ StreakFits(x, end.observations, m)
  BY <1>5, <1>6, <1>7, StateTyped DEF StreakFits
<1> QED  BY <1>2, <1>5, <1>6, <1>8, TypesStill

\* Steps that observe nothing.
LEMMA MissionTypes ==
  ASSUME FeedInv, TypesInv, NEW m \in Mission,
         \/ StartMonitoring(m) \/ ReleaseQuality(m) \/ CompleteContingency(m)
         \/ \E t \in DOMAIN Tables, saved \in profiles \cup {<<>>} : CreateMission(m, t, saved)
  PROVE  TypesInv'
<1>1. /\ UNCHANGED observations /\ IsList(observations) /\ OfMissions(observations)
      /\ Longer(observations, observations) /\ IsMission(missions[m])
  BY DEF StartMonitoring, ReleaseQuality, CompleteContingency, CreateMission, FeedInv,
         MissionsInv, Judging, TypesInv, Longer
<1>2. ASSUME NEW x, missions' = [missions EXCEPT ![m] = x], x.state \in MissionStates,
             x.streak = 0 \/ (x.streak = missions[m].streak /\ x.window = missions[m].window)
      PROVE  TypesInv'
  <2>1. StreakFits(missions[m], observations, m)
    BY DEF TypesInv
  <2>2. StreakFits(x, observations, m)
    BY <1>1, <1>2, <2>1, NoStreakFits DEF StreakFits
  <2> QED  BY <1>1, <1>2, <2>2, TypesStill
<1>3. CASE StartMonitoring(m)
  <2>1. PICK x : x = Monitoring(missions[m], 1) /\ missions' = [missions EXCEPT ![m] = x]
    BY <1>3 DEF StartMonitoring
  <2>2. x.state \in MissionStates /\ x.streak = 0
    BY <1>1, <2>1 DEF Monitoring, IsMission, MissionStates
  <2> QED  BY <1>2, <2>1, <2>2
<1>4. CASE ReleaseQuality(m)
  <2>1. PICK x : x = [missions[m] EXCEPT !.released = TRUE]
    OBVIOUS
  <2>2. missions' = [missions EXCEPT ![m] = x] /\ missions[m].state = "MONITORING_RECOVERY"
    BY <1>4, <2>1 DEF ReleaseQuality
  <2>3. /\ x.state \in MissionStates /\ x.streak = missions[m].streak
        /\ x.window = missions[m].window
    BY <1>1, <2>1, <2>2 DEF IsMission, MissionStates
  <2> QED  BY <1>2, <2>2, <2>3
<1>5. CASE CompleteContingency(m)
  <2>1. PICK x : /\ x = [Monitoring(missions[m], missions[m].window + 1)
                           EXCEPT !.released = FALSE]
                 /\ missions' = [missions EXCEPT ![m] = x]
    BY <1>5 DEF CompleteContingency
  <2>2. x.state \in MissionStates /\ x.streak = 0
    BY <1>1, <2>1 DEF Monitoring, IsMission, MissionStates
  <2> QED  BY <1>2, <2>1, <2>2
<1>6. ASSUME NEW t \in DOMAIN Tables, NEW saved, CreateMission(m, t, saved) PROVE TypesInv'
  <2>1. PICK intake : intake = Analysis(Tables[t], saved)
    OBVIOUS
  <2>2. PICK x : x = [NoMission EXCEPT
                        !.state = "INTERVENTION_RECORDED", !.table = t,
                        !.mapping = intake.mapping, !.series = intake.series,
                        !.fault = intake.fault, !.relapse = intake.relapse,
                        !.readiness = intake.readiness]
    OBVIOUS
  <2>3. missions' = [missions EXCEPT ![m] = x]
    BY <1>6, <2>1, <2>2 DEF CreateMission
  <2>4. x.state \in MissionStates /\ x.streak = 0
    BY <2>2 DEF NoMission, MissionStates
  <2> QED  BY <1>2, <2>3, <2>4
<1> QED  BY <1>3, <1>4, <1>5, <1>6

LEMMA TypesBegin == FeedInit => TypesInv
<1> SUFFICES ASSUME FeedInit PROVE TypesInv
  OBVIOUS
<1>1. observations = <<>> /\ \A m \in Mission : missions[m] = NoMission
  BY DEF FeedInit
<1>2. NoMission.state \in MissionStates /\ NoMission.streak = 0
  BY DEF NoMission, MissionStates
<1>3. IsList(observations) /\ DOMAIN observations = {}
  BY <1>1, EmptyList
<1>4. \A m \in Mission : StreakFits(NoMission, observations, m)
  BY <1>2, <1>3, NoStreakFits
<1> QED  BY <1>1, <1>2, <1>3, <1>4 DEF TypesInv, OfMissions

LEMMA TypesStep == FeedInv /\ TypesInv /\ [FeedNext]_feedVars => TypesInv'
<1> SUFFICES ASSUME FeedInv, TypesInv, FeedNext \/ UNCHANGED feedVars PROVE TypesInv'
  BY DEF feedVars
<1>1. ASSUME UNCHANGED <<observations, missions>> PROVE TypesInv'
  BY <1>1 DEF TypesInv, OfMissions, StreakFits, WindowOf
<1>2. ASSUME NEW b \in Batches, PostBegins(b) PROVE TypesInv'
  BY <1>1, <1>2 DEF PostBegins
<1>3. ASSUME NEW p \in posting, PostCommits(p) PROVE TypesInv'
  BY <1>1, <1>3 DEF PostCommits
<1>4. ASSUME UNCHANGED feedVars PROVE TypesInv'
  BY <1>1, <1>4 DEF feedVars
<1>5. ASSUME NEW m \in Mission, AdvanceBegins(m) \/ AdvanceFails(m) PROVE TypesInv'
  BY <1>1, <1>5 DEF AdvanceBegins, AdvanceFails
<1> QED  BY <1>2, <1>3, <1>4, <1>5, MissionTypes, CycleStepTypes, RunTypes DEF FeedNext

\* Samples, observations and missions are of their types, and no streak is longer than
\* the window it is counted in, whoever shares the machine.
THEOREM FeedTypeCorrect == FeedSpec => []FeedTypeOK
<1>1. FeedInit => FeedInv /\ TypesInv
  BY FeedBegins, TypesBegin
<1>2. FeedInv /\ TypesInv /\ [FeedNext]_feedVars => (FeedInv /\ TypesInv)'
  BY FeedStep, TypesStep
<1>3. FeedInv /\ TypesInv => FeedTypeOK
  <2> SUFFICES ASSUME FeedInv, TypesInv PROVE FeedTypeOK
    OBVIOUS
  <2>1. \A i \in DOMAIN samples : samples[i].seq \in Nat /\ samples[i].consumed \in BOOLEAN
    BY DEF FeedInv, Judging, IsSamples, IsSample
  <2>2. \A k \in DOMAIN observations :
          observations[k].row \in 0 .. Len(samples) /\ observations[k].mission \in Mission
    BY DEF FeedInv, Judging, TypesInv, OfMissions
  <2>3. \A m \in Mission :
          /\ missions[m].state \in MissionStates
          /\ missions[m].streak \in 0 .. Len(WindowOf(observations, m, missions[m].window))
    BY DEF TypesInv, StreakFits
  <2> QED  BY <2>1, <2>2, <2>3 DEF FeedTypeOK, MissionStates
<1> QED  BY <1>1, <1>2, <1>3, PTL DEF FeedSpec

=============================================================================
