------------------------- MODULE ShadowStream_proofs -------------------------
(***************************************************************************)
(* Proofs about ShadowStream: what reconcile() makes of a feed, for any    *)
(* events, any number of repeats and garbled deliveries and any order.     *)
(***************************************************************************)
EXTENDS ShadowStream, SequenceTheorems, FiniteSetTheorems, TLAPS

-----------------------------------------------------------------------------
(* Bags.                                                                   *)

\* C is the bag B and one more copy of what is in S.
Adds(C, B, S) ==
  /\ IsABag(C) /\ DOMAIN C = DOMAIN B \cup S
  /\ \A x : Copies(x, C) = Copies(x, B) + IF x \in S THEN 1 ELSE 0

LEMMA Added ==
  ASSUME NEW B, IsABag(B), NEW S, NEW C, C = B (+) SetToBag(S)
  PROVE  Adds(C, B, S)
<1> DEFINE g == SetToBag(S)
<1>1. DOMAIN g = S /\ \A x \in S : g[x] = 1
  BY DEF SetToBag
<1>2. \A x \in DOMAIN B : B[x] \in Nat /\ B[x] > 0
  BY DEF IsABag
<1> HIDE DEF g
<1>3. C = [x \in DOMAIN B \cup S |-> (IF x \in DOMAIN B THEN B[x] ELSE 0)
                                   + (IF x \in S THEN g[x] ELSE 0)]
  BY <1>1 DEF (+), g
<1>4. DOMAIN C = DOMAIN B \cup S
  BY <1>3
<1>5. \A x \in DOMAIN C : C[x] = Copies(x, B) + IF x \in S THEN 1 ELSE 0
  BY <1>1, <1>2, <1>3 DEF Copies, BagIn, BagToSet
<1>6. \A x \in DOMAIN C : C[x] \in Nat /\ C[x] > 0
  BY <1>1, <1>2, <1>4, <1>5 DEF Copies, BagIn, BagToSet
<1>7. IsABag(C)
  BY <1>3, <1>4, <1>6 DEF IsABag
<1>8. \A x : Copies(x, C) = Copies(x, B) + IF x \in S THEN 1 ELSE 0
  BY <1>4, <1>5 DEF Copies, BagIn, BagToSet
<1> QED  BY <1>4, <1>7, <1>8 DEF Adds

LEMMA NoCopies == IsABag(EmptyBag) /\ DOMAIN EmptyBag = {} /\ \A x : Copies(x, EmptyBag) = 0
BY DEF EmptyBag, SetToBag, IsABag, Copies, BagIn, BagToSet

LEMMA CopiesCounted ==
  ASSUME NEW B, IsABag(B), NEW x
  PROVE  Copies(x, B) \in Nat
BY DEF IsABag, Copies, BagIn, BagToSet

-----------------------------------------------------------------------------
(* The table of accepted events.                                           *)

\* The place of an event among those accepted: how many are not later.
NotLater(s, t) == {i \in DOMAIN s : s[i].source <= t}
Place(s, e) == Cardinality(NotLater(s, e.source))

LEMMA PlaceInside ==
  ASSUME NEW S, NEW s \in Seq(S), NEW e
  PROVE  Place(s, e) \in 0 .. Len(s) /\ IsFiniteSet(NotLater(s, e.source))
<1>1. Len(s) \in Nat /\ DOMAIN s = 1 .. Len(s)
  BY LenProperties
<1>2. IsFiniteSet(1 .. Len(s)) /\ Cardinality(1 .. Len(s)) = Len(s)
  BY <1>1, FS_Interval
<1>3. NotLater(s, e.source) \in SUBSET (1 .. Len(s))
  BY <1>1 DEF NotLater
<1>4. /\ IsFiniteSet(NotLater(s, e.source))
      /\ Cardinality(NotLater(s, e.source)) <= Cardinality(1 .. Len(s))
  BY <1>2, <1>3, FS_Subset
<1>5. Cardinality(NotLater(s, e.source)) \in Nat
  BY <1>4, FS_CardinalityType
<1> QED  BY <1>1, <1>2, <1>4, <1>5 DEF Place

\* The parts InsertAt() makes its result of.
LEMMA Part ==
  ASSUME NEW S, NEW s \in Seq(S), NEW m \in Nat, m > 0, NEW n \in Nat, n <= Len(s),
         m <= n + 1, NEW t, t = SubSeq(s, m, n)
  PROVE  /\ t \in Seq(S) /\ Len(t) = n - m + 1
         /\ \A i \in 1 .. n - m + 1 : t[i] = s[m + i - 1]
<1>1. \A i \in m .. n : s[i] \in S
  BY ElementOfSeq, LenProperties
<1>2. m \in Int /\ n \in Int
  OBVIOUS
<1> QED  BY <1>1, <1>2, SubSeqProperties

IsJoin(t, a, b, S) ==
  /\ t \in Seq(S) /\ Len(t) = Len(a) + Len(b)
  /\ \A i \in 1 .. Len(a) : t[i] = a[i]
  /\ \A i \in 1 .. Len(b) : t[Len(a) + i] = b[i]

LEMMA Joined ==
  ASSUME NEW S, NEW a \in Seq(S), NEW b \in Seq(S), NEW t, t = a \o b
  PROVE  IsJoin(t, a, b, S)
<1>1. Len(a) \in Nat /\ Len(b) \in Nat
  BY LenProperties
<1>2. /\ t \in Seq(S) /\ Len(t) = Len(a) + Len(b)
      /\ \A i \in 1 .. Len(a) + Len(b) : t[i] = IF i <= Len(a) THEN a[i] ELSE b[i - Len(a)]
  BY ConcatProperties
<1>3. \A i \in 1 .. Len(a) : t[i] = a[i]
  BY <1>1, <1>2
<1>4. ASSUME NEW i \in 1 .. Len(b) PROVE t[Len(a) + i] = b[i]
  <2>1. Len(a) + i \in 1 .. Len(a) + Len(b) /\ ~(Len(a) + i <= Len(a))
        /\ (Len(a) + i) - Len(a) = i
    BY <1>1
  <2> QED  BY <1>2, <2>1
<1> QED  BY <1>2, <1>3, <1>4 DEF IsJoin

\* t is s with e at place p + 1.
With(t, s, e, p) ==
  /\ p \in 0 .. Len(s) /\ Len(t) = Len(s) + 1
  /\ DOMAIN s = 1 .. Len(s) /\ DOMAIN t = 1 .. Len(s) + 1 /\ Len(s) \in Nat
  /\ \A i \in 1 .. p : t[i] = s[i]
  /\ t[p + 1] = e
  /\ \A i \in p + 1 .. Len(s) : t[i + 1] = s[i]

\* InsertAt() puts the event at its place and moves the later ones by one.
LEMMA Inserted ==
  ASSUME NEW S, NEW s \in Seq(S), NEW e \in S, NEW p \in 0 .. Len(s),
         NEW t, t = InsertAt(s, 1 + p, e)
  PROVE  t \in Seq(S) /\ With(t, s, e, p)
<1>1. Len(s) \in Nat /\ DOMAIN s = 1 .. Len(s) /\ p \in Nat
  BY LenProperties
<1>2. PICK a : a = SubSeq(s, 1, p)
  OBVIOUS
<1>3. PICK b : b = SubSeq(s, p + 1, Len(s))
  OBVIOUS
<1>4. PICK c : c = <<e>>
  OBVIOUS
<1>5. PICK d : d = a \o c
  OBVIOUS
<1>6. t = d \o b
  <2>1. (1 + p) - 1 = p /\ 1 + p = p + 1
    BY <1>1
  <2> QED  BY <1>2, <1>3, <1>4, <1>5, <2>1 DEF InsertAt
<1>7. a \in Seq(S) /\ Len(a) = p /\ \A i \in 1 .. p : a[i] = s[i]
  <2>1. /\ a \in Seq(S) /\ Len(a) = p - 1 + 1
        /\ \A i \in 1 .. p - 1 + 1 : a[i] = s[1 + i - 1]
    BY <1>1, <1>2, Part
  <2> QED  BY <1>1, <2>1
<1>8. b \in Seq(S) /\ Len(b) = Len(s) - p /\ \A i \in 1 .. Len(s) - p : b[i] = s[p + i]
  <2>1. /\ b \in Seq(S) /\ Len(b) = Len(s) - (p + 1) + 1
        /\ \A i \in 1 .. Len(s) - (p + 1) + 1 : b[i] = s[(p + 1) + i - 1]
    <3>1. p + 1 \in Nat /\ p + 1 > 0 /\ Len(s) \in Nat /\ Len(s) <= Len(s)
          /\ p + 1 <= Len(s) + 1
      BY <1>1
    <3> QED  BY <1>3, <3>1, Part
  <2> QED  BY <1>1, <2>1
<1>9. c \in Seq(S) /\ Len(c) = 1 /\ c[1] = e
  BY <1>4
<1>10. /\ d \in Seq(S) /\ Len(d) = p + 1 /\ d[p + 1] = e
       /\ \A i \in 1 .. p : d[i] = s[i]
  <2>1. /\ d \in Seq(S) /\ Len(d) = Len(a) + Len(c)
        /\ \A i \in 1 .. Len(a) : d[i] = a[i]
        /\ \A i \in 1 .. Len(c) : d[Len(a) + i] = c[i]
    <3>1. IsJoin(d, a, c, S)
      BY <1>5, <1>7, <1>9, Joined
    <3> QED  BY <3>1 DEF IsJoin
  <2>2. d[p + 1] = c[1]
    BY <1>1, <1>7, <1>9, <2>1
  <2> QED  BY <1>1, <1>7, <1>9, <2>1, <2>2
<1>11. /\ t \in Seq(S) /\ Len(t) = Len(d) + Len(b)
       /\ \A i \in 1 .. Len(d) : t[i] = d[i]
       /\ \A i \in 1 .. Len(b) : t[Len(d) + i] = b[i]
  <2>1. IsJoin(t, d, b, S)
    BY <1>6, <1>8, <1>10, Joined
  <2> QED  BY <2>1 DEF IsJoin
<1>12. Len(t) = Len(s) + 1
  BY <1>1, <1>8, <1>10, <1>11
<1>13. DOMAIN t = 1 .. Len(s) + 1
  BY <1>11, <1>12, LenProperties
<1>14. \A i \in 1 .. p : t[i] = s[i]
  BY <1>1, <1>10, <1>11
<1>15. t[p + 1] = e
  BY <1>1, <1>10, <1>11
<1>16. ASSUME NEW i \in p + 1 .. Len(s) PROVE t[i + 1] = s[i]
  <2>1. i - p \in 1 .. Len(s) - p /\ Len(d) + (i - p) = i + 1 /\ p + (i - p) = i
    BY <1>1, <1>10
  <2>2. t[Len(d) + (i - p)] = b[i - p] /\ b[i - p] = s[p + (i - p)]
    BY <1>8, <1>11, <2>1
  <2> QED  BY <2>1, <2>2
<1> QED  BY <1>1, <1>11, <1>12, <1>13, <1>14, <1>15, <1>16 DEF With

\* The keys of a table, and a table in which each occurs once.
KeysIn(s) == {s[i].key : i \in DOMAIN s}
OnePerKey(s) == \A i, j \in DOMAIN s : s[i].key = s[j].key => i = j
BySource(s) == \A i, j \in DOMAIN s : i <= j => s[i].source <= s[j].source
HasInts(S) == \A d \in S : d.source \in Int

LEMMA InsertedWith ==
  ASSUME NEW S, NEW s \in Seq(S), NEW e \in S, NEW t, t = InsertAt(s, 1 + Place(s, e), e)
  PROVE  t \in Seq(S) /\ With(t, s, e, Place(s, e))
BY PlaceInside, Inserted

\* Where the row of t at j was in s.
From(j, p) == IF j <= p THEN j ELSE j - 1

LEMMA WithRows ==
  ASSUME NEW t, NEW s, NEW e, NEW p, With(t, s, e, p)
  PROVE  /\ p + 1 \in DOMAIN t /\ t[p + 1] = e
         /\ \A j \in DOMAIN t : j # p + 1 => From(j, p) \in DOMAIN s /\ t[j] = s[From(j, p)]
         /\ \A i \in DOMAIN s : \E j \in DOMAIN t : j # p + 1 /\ t[j] = s[i]
<1>1. /\ p \in 0 .. Len(s) /\ Len(s) \in Nat
      /\ DOMAIN s = 1 .. Len(s) /\ DOMAIN t = 1 .. Len(s) + 1
      /\ \A i \in 1 .. p : t[i] = s[i]
      /\ t[p + 1] = e
      /\ \A i \in p + 1 .. Len(s) : t[i + 1] = s[i]
  BY DEF With
<1>2. p + 1 \in DOMAIN t /\ t[p + 1] = e
  BY <1>1
<1>3. ASSUME NEW j \in DOMAIN t, j # p + 1
      PROVE  From(j, p) \in DOMAIN s /\ t[j] = s[From(j, p)]
  <2>1. CASE j <= p
    BY <1>1, <2>1 DEF From
  <2>2. CASE j > p
    <3>1. j - 1 \in p + 1 .. Len(s) /\ (j - 1) + 1 = j /\ From(j, p) = j - 1
      BY <1>1, <1>3, <2>2 DEF From
    <3>2. t[(j - 1) + 1] = s[j - 1]
      BY <1>1, <3>1
    <3> QED  BY <1>1, <3>1, <3>2
  <2> QED  BY <1>1, <2>1, <2>2
<1>4. ASSUME NEW i \in DOMAIN s PROVE \E j \in DOMAIN t : j # p + 1 /\ t[j] = s[i]
  <2>1. CASE i <= p
    <3>1. i \in DOMAIN t /\ i # p + 1 /\ t[i] = s[i]
      BY <1>1, <2>1
    <3> QED  BY <3>1
  <2>2. CASE i > p
    <3>1. i + 1 \in DOMAIN t /\ i + 1 # p + 1 /\ t[i + 1] = s[i]
      BY <1>1, <2>2
    <3> QED  BY <3>1
  <2> QED  BY <1>1, <2>1, <2>2
<1> QED  BY <1>2, <1>3, <1>4

LEMMA WithKeys ==
  ASSUME NEW t, NEW s, NEW e, NEW p, With(t, s, e, p)
  PROVE  /\ KeysIn(t) = KeysIn(s) \cup {e.key}
         /\ OnePerKey(s) /\ e.key \notin KeysIn(s) => OnePerKey(t)
<1>1. /\ p + 1 \in DOMAIN t /\ t[p + 1] = e
      /\ \A j \in DOMAIN t : j # p + 1 => From(j, p) \in DOMAIN s /\ t[j] = s[From(j, p)]
      /\ \A i \in DOMAIN s : \E j \in DOMAIN t : j # p + 1 /\ t[j] = s[i]
  BY WithRows
<1>2. KeysIn(t) = KeysIn(s) \cup {e.key}
  BY <1>1 DEF KeysIn
<1>3. \A i, j \in DOMAIN t : i # p + 1 /\ j # p + 1 /\ From(i, p) = From(j, p) => i = j
  BY DEF With, From
<1>4. ASSUME OnePerKey(s), e.key \notin KeysIn(s), NEW i \in DOMAIN t, NEW j \in DOMAIN t,
             t[i].key = t[j].key
      PROVE  i = j
  <2>1. CASE i # p + 1 /\ j # p + 1
    <3>1. s[From(i, p)].key = s[From(j, p)].key /\ From(i, p) \in DOMAIN s
          /\ From(j, p) \in DOMAIN s
      BY <1>1, <1>4, <2>1
    <3>2. From(i, p) = From(j, p)
      BY <1>4, <3>1 DEF OnePerKey
    <3> QED  BY <1>3, <2>1, <3>2
  <2>2. \A k \in DOMAIN t : k # p + 1 => t[k].key # e.key
    BY <1>1, <1>4 DEF KeysIn
  <2> QED  BY <1>1, <1>4, <2>1, <2>2
<1> QED  BY <1>2, <1>4 DEF OnePerKey

\* In a table in source order the rows not later than an event come first.
LEMMA NotLaterFirst ==
  ASSUME NEW S, HasInts(S), NEW s \in Seq(S), BySource(s), NEW e \in S
  PROVE  NotLater(s, e.source) = 1 .. Place(s, e)
<1> DEFINE P == NotLater(s, e.source)
           p == Place(s, e)
<1>1. Len(s) \in Nat /\ DOMAIN s = 1 .. Len(s) /\ \A i \in DOMAIN s : s[i] \in S
  BY LenProperties, ElementOfSeq
<1>2. p \in 0 .. Len(s) /\ IsFiniteSet(P) /\ p = Cardinality(P)
  BY PlaceInside DEF Place
<1>3. e.source \in Int /\ \A i \in DOMAIN s : s[i].source \in Int
  BY <1>1 DEF HasInts
<1>4. P \subseteq 1 .. Len(s) /\ \A i \in P : \A j \in 1 .. i : j \in P
  BY <1>1, <1>3 DEF NotLater, BySource
<1> HIDE DEF P, p
<1>5. ASSUME NEW i \in P PROVE i \in 1 .. p
  <2>1. i \in Nat /\ i > 0 /\ 1 .. i \subseteq P
    BY <1>1, <1>4
  <2>2. IsFiniteSet(1 .. i) /\ Cardinality(1 .. i) = i
    BY <2>1, FS_Interval
  <2>3. Cardinality(1 .. i) <= Cardinality(P)
    BY <1>2, <2>1, FS_Subset
  <2> QED  BY <1>1, <1>2, <2>1, <2>2, <2>3
<1>6. ASSUME NEW i \in 1 .. p PROVE i \in P
  <2>1. SUFFICES ASSUME i \notin P PROVE FALSE
    OBVIOUS
  <2>2. i \in Nat /\ i - 1 \in Nat /\ i <= p
    BY <1>1, <1>2
  <2>3. P \subseteq 1 .. i - 1
    BY <1>1, <1>4, <2>1, <2>2
  <2>4. IsFiniteSet(1 .. i - 1) /\ Cardinality(1 .. i - 1) = i - 1
    BY <2>2, FS_Interval
  <2>5. Cardinality(P) <= Cardinality(1 .. i - 1)
    BY <2>3, <2>4, FS_Subset
  <2> QED  BY <1>1, <1>2, <2>2, <2>4, <2>5
<1> QED  BY <1>5, <1>6 DEF P, p

LEMMA WithOrder ==
  ASSUME NEW S, HasInts(S), NEW s \in Seq(S), BySource(s), NEW e \in S,
         NEW t, With(t, s, e, Place(s, e))
  PROVE  BySource(t)
<1> DEFINE p == Place(s, e)
<1>1. NotLater(s, e.source) = 1 .. p
  BY NotLaterFirst
<1>2. p \in 0 .. Len(s) /\ Len(s) \in Nat /\ DOMAIN s = 1 .. Len(s)
      /\ DOMAIN t = 1 .. Len(s) + 1
  BY DEF With
<1>3. /\ p + 1 \in DOMAIN t /\ t[p + 1] = e
      /\ \A j \in DOMAIN t : j # p + 1 => From(j, p) \in DOMAIN s /\ t[j] = s[From(j, p)]
  BY WithRows
<1>4. e.source \in Int /\ \A i \in DOMAIN s : s[i].source \in Int
  BY ElementOfSeq, <1>2 DEF HasInts
<1> HIDE DEF p
<1>5. \A i \in DOMAIN s : s[i].source <= e.source <=> i <= p
  BY <1>1, <1>2 DEF NotLater
<1>6. SUFFICES ASSUME NEW i \in DOMAIN t, NEW j \in DOMAIN t, i <= j
               PROVE  t[i].source <= t[j].source
  BY DEF BySource
<1>7. CASE i # p + 1 /\ j # p + 1
  <2>1. From(i, p) <= From(j, p)
    BY <1>2, <1>6, <1>7 DEF From
  <2> QED  BY <1>3, <1>6, <1>7, <2>1 DEF BySource
<1>8. CASE i = p + 1 /\ j # p + 1
  <2>1. From(j, p) \in DOMAIN s /\ t[j] = s[From(j, p)] /\ t[i] = e
    BY <1>3, <1>8
  <2>2. ~(From(j, p) <= p)
    BY <1>2, <1>6, <1>8 DEF From
  <2>3. ~(s[From(j, p)].source <= e.source)
    BY <1>5, <2>1, <2>2
  <2> QED  BY <1>4, <2>1, <2>3
<1>9. CASE i # p + 1 /\ j = p + 1
  <2>1. From(i, p) \in DOMAIN s /\ t[i] = s[From(i, p)] /\ t[j] = e
    BY <1>3, <1>9
  <2>2. From(i, p) <= p
    BY <1>2, <1>6, <1>9 DEF From
  <2> QED  BY <1>5, <2>1, <2>2
<1>10. CASE i = p + 1 /\ j = p + 1
  BY <1>3, <1>4, <1>10
<1> QED  BY <1>7, <1>8, <1>9, <1>10

-----------------------------------------------------------------------------
(* The invariant.                                                          *)

LatestOf(s) == IF s = <<>> THEN NoTime ELSE s[Len(s)].source

TableInv ==
  /\ bundle \in Bundles
  /\ accepted \in Seq(bundle)
  /\ OnePerKey(accepted)
  /\ seen = KeysIn(accepted)
  /\ BySource(accepted)
  /\ watermark = LatestOf(accepted)

LEMMA BundleEvents ==
  ASSUME NEW b \in Bundles
  PROVE  /\ HasInts(b)
         /\ \A d, e \in b : d.key = e.key => d = e
         /\ \A e \in b : IsEvent(e) /\ e.key \in Keys
<1>1. \A e \in b : e \in Events
  BY DEF Events
<1>2. \A e \in b : IsEvent(e) /\ e.key \in Keys
  BY <1>1, StreamAssumption DEF Keys
<1>3. HasInts(b)
  BY <1>2 DEF HasInts, IsEvent
<1> QED  BY <1>2, <1>3, StreamAssumption

\* The watermark tells whether an event is behind: the table is in source order.
LEMMA BehindTheWatermark ==
  ASSUME TableInv, NEW e \in bundle
  PROVE  /\ Behind(e) <=> \E i \in DOMAIN accepted : accepted[i].source > e.source
         /\ Behind(e) <=> Place(accepted, e) < Len(accepted)
         /\ Behind(e) => Len(accepted) > 0
<1>1. /\ bundle \in Bundles /\ accepted \in Seq(bundle) /\ BySource(accepted)
      /\ watermark = LatestOf(accepted)
  BY DEF TableInv
<1>2. HasInts(bundle)
  BY <1>1, BundleEvents
<1>3. Len(accepted) \in Nat /\ DOMAIN accepted = 1 .. Len(accepted)
  BY <1>1, LenProperties
<1>4. e.source \in Int /\ \A i \in DOMAIN accepted : accepted[i].source \in Int
  BY <1>1, <1>2, <1>3, ElementOfSeq DEF HasInts
<1>5. NotLater(accepted, e.source) = 1 .. Place(accepted, e)
      /\ Place(accepted, e) \in 0 .. Len(accepted)
  BY <1>1, <1>2, NotLaterFirst, PlaceInside
<1>6. CASE accepted = <<>>
  <2>1. ~Behind(e) /\ Len(accepted) = 0
    BY <1>1, <1>6 DEF LatestOf, Behind
  <2> QED  BY <1>3, <1>5, <2>1
<1>7. CASE accepted # <<>>
  <2>1. Len(accepted) > 0
    BY <1>1, <1>3, <1>7, EmptySeq
  <2>2. watermark = accepted[Len(accepted)].source /\ Len(accepted) \in DOMAIN accepted
    BY <1>1, <1>3, <1>7, <2>1 DEF LatestOf
  <2>3. Behind(e) <=> e.source < accepted[Len(accepted)].source
    BY <1>4, <2>2, StreamAssumption DEF Behind
  <2>4. Behind(e) <=> Len(accepted) \notin NotLater(accepted, e.source)
    BY <1>4, <2>2, <2>3 DEF NotLater
  <2>5. Behind(e) <=> Place(accepted, e) < Len(accepted)
    BY <1>3, <1>5, <2>1, <2>4
  <2>6. ASSUME NEW i \in DOMAIN accepted, accepted[i].source > e.source PROVE Behind(e)
    <3>1. accepted[i].source <= accepted[Len(accepted)].source
      BY <1>1, <1>3, <2>2 DEF BySource
    <3> QED  BY <1>4, <2>2, <2>3, <2>6, <3>1
  <2>7. Behind(e) => \E i \in DOMAIN accepted : accepted[i].source > e.source
    BY <1>4, <2>2, <2>3
  <2> QED  BY <2>1, <2>5, <2>6, <2>7
<1> QED  BY <1>6, <1>7

\* Accepting an event: its place in the table, and the watermark behind it.
LEMMA Accepted ==
  ASSUME TableInv, NEW e \in bundle, Accept(e), UNCHANGED bundle
  PROVE  /\ TableInv'
         /\ With(accepted', accepted, e, Place(accepted, e))
         /\ seen' = seen \cup {e.key} /\ e.key \notin seen
<1>1. /\ bundle \in Bundles /\ accepted \in Seq(bundle) /\ OnePerKey(accepted)
      /\ seen = KeysIn(accepted) /\ BySource(accepted)
      /\ watermark = LatestOf(accepted)
  BY DEF TableInv
<1>2. /\ e.key \notin seen /\ seen' = seen \cup {e.key}
      /\ watermark' = NextWatermark(e)
      /\ accepted' = Placed(e) /\ bundle' = bundle
  BY DEF Accept
<1>3. HasInts(bundle)
  BY <1>1, BundleEvents
<1>4. accepted' = InsertAt(accepted, 1 + Place(accepted, e), e)
  BY <1>2 DEF Placed, Place, NotLater
<1>5. accepted' \in Seq(bundle) /\ With(accepted', accepted, e, Place(accepted, e))
  BY <1>1, <1>4, InsertedWith
<1>6. KeysIn(accepted') = KeysIn(accepted) \cup {e.key} /\ OnePerKey(accepted')
  BY <1>1, <1>2, <1>5, WithKeys
<1>7. BySource(accepted')
  BY <1>1, <1>3, <1>5, WithOrder
<1>8. watermark' = LatestOf(accepted')
  <2>1. /\ Place(accepted, e) \in 0 .. Len(accepted) /\ Len(accepted) \in Nat
        /\ Len(accepted') = Len(accepted) + 1
        /\ accepted'[Place(accepted, e) + 1] = e
        /\ \A i \in Place(accepted, e) + 1 .. Len(accepted) : accepted'[i + 1] = accepted[i]
    BY <1>5 DEF With
  <2>2. accepted' # <<>>
    BY <1>5, <2>1, EmptySeq
  <2>3. LatestOf(accepted') = accepted'[Len(accepted) + 1].source
    BY <2>1, <2>2 DEF LatestOf
  <2>4. /\ Behind(e) <=> Place(accepted, e) < Len(accepted)
        /\ Behind(e) => Len(accepted) > 0
    BY BehindTheWatermark
  <2>5. CASE Behind(e)
    <3>1. accepted'[Len(accepted) + 1] = accepted[Len(accepted)]
      BY <2>1, <2>4, <2>5
    <3>2. accepted # <<>>
      BY <1>1, <2>4, <2>5, EmptySeq
    <3>3. watermark' = watermark /\ watermark = accepted[Len(accepted)].source
      BY <1>1, <1>2, <2>5, <3>2 DEF NextWatermark, LatestOf
    <3> QED  BY <2>3, <3>1, <3>3
  <2>6. CASE ~Behind(e)
    <3>1. accepted'[Len(accepted) + 1] = e
      BY <2>1, <2>4, <2>6
    <3> QED  BY <1>2, <2>3, <2>6, <3>1 DEF NextWatermark
  <2> QED  BY <2>5, <2>6
<1>9. TableInv'
  BY <1>1, <1>2, <1>5, <1>6, <1>7, <1>8 DEF TableInv
<1> QED  BY <1>2, <1>5, <1>9

\* What Receive() does, one case per outcome of a delivery.
LEMMA Deliveries ==
  ASSUME TableInv, NEW e \in bundle, NEW readable \in BOOLEAN, Receive(e, readable)
  PROVE  /\ bundle' = bundle
         /\ feed' = feed (+) SetToBag({[event |-> e, readable |-> readable]})
         /\ \/ ~readable /\ Unmappable(e)
            \/ readable /\ Duplicate(e)
            \/ readable /\ Accept(e)
BY DEF Receive

LEMMA TableStep ==
  ASSUME TableInv, [StreamNext]_vars
  PROVE  TableInv'
<1>1. CASE UNCHANGED vars
  BY <1>1 DEF vars, reconciler, TableInv
<1>2. ASSUME NEW e \in bundle, NEW readable \in BOOLEAN, Receive(e, readable)
      PROVE  TableInv'
  <2>1. CASE Unmappable(e)
    BY <1>2, <2>1, Deliveries DEF Unmappable, SeenUnread, TableInv
  <2>2. CASE Duplicate(e)
    BY <1>2, <2>2, Deliveries DEF Duplicate, TableInv
  <2>3. CASE Accept(e)
    BY <1>2, <2>3, Deliveries, Accepted
  <2> QED  BY <1>2, <2>1, <2>2, <2>3, Deliveries
<1> QED  BY <1>1, <1>2 DEF StreamNext

LEMMA TableInit == StreamInit => TableInv
<1> SUFFICES ASSUME StreamInit PROVE TableInv
  OBVIOUS
<1>1. bundle \in Bundles /\ accepted = <<>> /\ seen = {} /\ watermark = NoTime
  BY DEF StreamInit
<1>2. accepted \in Seq(bundle) /\ DOMAIN accepted = {}
  BY <1>1
<1> QED  BY <1>1, <1>2 DEF TableInv, OnePerKey, KeysIn, BySource, LatestOf

-----------------------------------------------------------------------------
(* What was delivered of an event, and what was recorded of it.            *)

Sent(e, readable) == [event |-> e, readable |-> readable]
Good(e) == Delivered(Sent(e, TRUE))
Bad(e) == Delivered(Sent(e, FALSE))

\* Of an event: ingested iff delivered readable; its further copies are
\* duplicates, its garbled ones missing mappings; nothing else about it before.
CountsOf(e) ==
  /\ e.key \in seen <=> Good(e) > 0
  /\ Recorded("duplicate", e) = Good(e) - IF e.key \in seen THEN 1 ELSE 0
  /\ Recorded("missing_mapping", e) = Bad(e)
  /\ e.key \notin seen => Recorded("late", e) = 0 /\ Recorded("out_of_order", e) = 0

CountInv ==
  /\ IsABag(feed) /\ IsABag(anomalies)
  /\ \A a \in DOMAIN anomalies : a.kind \in AnomalyKinds /\ a.key \in Keys
  /\ \A e \in bundle : CountsOf(e)

LEMMA Noted ==
  ASSUME CountInv, TableInv, NEW e \in bundle, NEW kinds, kinds \subseteq AnomalyKinds,
         anomalies' = Note(kinds, e)
  PROVE  /\ IsABag(anomalies')
         /\ \A a \in DOMAIN anomalies' : a.kind \in AnomalyKinds /\ a.key \in Keys
         /\ \A d \in bundle : \A k :
              Recorded(k, d)' = Recorded(k, d) + IF k \in kinds /\ d = e THEN 1 ELSE 0
<1> DEFINE S == {Anomaly(k, e) : k \in kinds}
<1>1. anomalies' = anomalies (+) SetToBag(S)
  BY DEF Note
<1>2. IsABag(anomalies)
  BY DEF CountInv
<1> HIDE DEF S
<1>3. /\ IsABag(anomalies') /\ DOMAIN anomalies' = DOMAIN anomalies \cup S
      /\ \A x : Copies(x, anomalies') = Copies(x, anomalies) + IF x \in S THEN 1 ELSE 0
  <2>1. Adds(anomalies', anomalies, S)
    BY <1>1, <1>2, Added
  <2> QED  BY <2>1 DEF Adds
<1>4. /\ e.key \in Keys
      /\ \A d \in bundle : d.key = e.key => d = e
  BY BundleEvents DEF TableInv
<1>5. \A a \in S : a.kind \in AnomalyKinds /\ a.key \in Keys
  BY <1>4 DEF S, Anomaly
<1>6. \A d \in bundle : \A k : Anomaly(k, d) \in S <=> k \in kinds /\ d = e
  BY <1>4 DEF S, Anomaly
<1>7. \A d \in bundle : \A k :
        Recorded(k, d)' = Recorded(k, d) + IF k \in kinds /\ d = e THEN 1 ELSE 0
  BY <1>3, <1>6 DEF Recorded
<1>8. \A a \in DOMAIN anomalies : a.kind \in AnomalyKinds /\ a.key \in Keys
  BY DEF CountInv
<1> QED  BY <1>3, <1>5, <1>7, <1>8

LEMMA Fed ==
  ASSUME CountInv, NEW e \in bundle, NEW readable \in BOOLEAN,
         feed' = feed (+) SetToBag({Sent(e, readable)})
  PROVE  /\ IsABag(feed')
         /\ \A d \in bundle :
              /\ Good(d)' = Good(d) + IF d = e /\ readable THEN 1 ELSE 0
              /\ Bad(d)' = Bad(d) + IF d = e /\ ~readable THEN 1 ELSE 0
<1>1. IsABag(feed)
  BY DEF CountInv
<1>2. Adds(feed', feed, {Sent(e, readable)})
  BY <1>1, Added
<1>3. \A d \in bundle : /\ Sent(d, TRUE) \in {Sent(e, readable)} <=> d = e /\ readable
                        /\ Sent(d, FALSE) \in {Sent(e, readable)} <=> d = e /\ ~readable
  BY DEF Sent
<1>4. ASSUME NEW d \in bundle
      PROVE  /\ Copies(Sent(d, TRUE), feed')
                  = Copies(Sent(d, TRUE), feed) + IF d = e /\ readable THEN 1 ELSE 0
             /\ Copies(Sent(d, FALSE), feed')
                  = Copies(Sent(d, FALSE), feed) + IF d = e /\ ~readable THEN 1 ELSE 0
  BY <1>2, <1>3 DEF Adds
<1> QED  BY <1>2, <1>4 DEF Adds, Delivered, Good, Bad

LEMMA CopiesAreNumbers ==
  ASSUME CountInv, NEW e \in bundle
  PROVE  /\ Good(e) \in Nat /\ Bad(e) \in Nat
         /\ \A k : Recorded(k, e) \in Nat
BY CopiesCounted DEF CountInv, Delivered, Recorded, Good, Bad

\* The kinds an accepted event is noted under.
LEMMA FoundKinds ==
  ASSUME NEW e
  PROVE  /\ Found(e) \subseteq AnomalyKinds
         /\ "duplicate" \notin Found(e) /\ "missing_mapping" \notin Found(e)
         /\ ~Behind(e) => "late" \notin Found(e) /\ "out_of_order" \notin Found(e)
         /\ Behind(e) => ("late" \in Found(e) <=> "out_of_order" \notin Found(e))
BY DEF Found, AnomalyKinds

LEMMA CountStep ==
  ASSUME TableInv, CountInv, [StreamNext]_vars
  PROVE  CountInv'
<1>1. CASE UNCHANGED vars
  BY <1>1 DEF vars, reconciler, CountInv, CountsOf, Good, Bad, Delivered, Recorded
<1>2. ASSUME NEW e \in bundle, NEW readable \in BOOLEAN, Receive(e, readable)
      PROVE  CountInv'
  <2>1. bundle' = bundle /\ feed' = feed (+) SetToBag({Sent(e, readable)})
    BY <1>2, Deliveries DEF Sent
  <2>2. /\ IsABag(feed')
        /\ \A d \in bundle :
             /\ Good(d)' = Good(d) + IF d = e /\ readable THEN 1 ELSE 0
             /\ Bad(d)' = Bad(d) + IF d = e /\ ~readable THEN 1 ELSE 0
    BY <2>1, Fed
  <2>3. \A d \in bundle : /\ Good(d) \in Nat /\ Bad(d) \in Nat
                          /\ \A k : Recorded(k, d) \in Nat
    BY CopiesAreNumbers
  <2>4. \A d \in bundle : CountsOf(d) /\ (d.key = e.key => d = e)
    BY BundleEvents DEF CountInv, TableInv
  <2>5. CASE ~readable /\ Unmappable(e)
    <3>1. anomalies' = Note({"missing_mapping"}, e) /\ seen' = seen
      BY <2>5 DEF Unmappable, SeenUnread
    <3>2. /\ IsABag(anomalies')
          /\ \A a \in DOMAIN anomalies' : a.kind \in AnomalyKinds /\ a.key \in Keys
          /\ \A d \in bundle : \A k :
               Recorded(k, d)' = Recorded(k, d)
                                   + IF k \in {"missing_mapping"} /\ d = e THEN 1 ELSE 0
      <4>1. {"missing_mapping"} \subseteq AnomalyKinds
        BY DEF AnomalyKinds
      <4> QED  BY <3>1, <4>1, Noted
    <3>3. ASSUME NEW d \in bundle PROVE CountsOf(d)'
      BY <2>2, <2>3, <2>4, <2>5, <3>1, <3>2 DEF CountsOf
    <3> QED  BY <2>1, <2>2, <3>2, <3>3 DEF CountInv
  <2>6. CASE readable /\ Duplicate(e)
    <3>1. e.key \in seen /\ anomalies' = Note({"duplicate"}, e) /\ seen' = seen
      BY <2>6 DEF Duplicate
    <3>2. /\ IsABag(anomalies')
          /\ \A a \in DOMAIN anomalies' : a.kind \in AnomalyKinds /\ a.key \in Keys
          /\ \A d \in bundle : \A k :
               Recorded(k, d)' = Recorded(k, d)
                                   + IF k \in {"duplicate"} /\ d = e THEN 1 ELSE 0
      <4>1. {"duplicate"} \subseteq AnomalyKinds
        BY DEF AnomalyKinds
      <4> QED  BY <3>1, <4>1, Noted
    <3>3. ASSUME NEW d \in bundle PROVE CountsOf(d)'
      BY <2>2, <2>3, <2>4, <2>6, <3>1, <3>2 DEF CountsOf
    <3> QED  BY <2>1, <2>2, <3>2, <3>3 DEF CountInv
  <2>7. CASE readable /\ Accept(e)
    <3>1. e.key \notin seen /\ seen' = seen \cup {e.key} /\ anomalies' = Note(Found(e), e)
      BY <2>7 DEF Accept
    <3>2. /\ IsABag(anomalies')
          /\ \A a \in DOMAIN anomalies' : a.kind \in AnomalyKinds /\ a.key \in Keys
          /\ \A d \in bundle : \A k :
               Recorded(k, d)' = Recorded(k, d) + IF k \in Found(e) /\ d = e THEN 1 ELSE 0
      BY <3>1, FoundKinds, Noted
    <3>3. ASSUME NEW d \in bundle PROVE CountsOf(d)'
      BY <2>2, <2>3, <2>4, <2>7, <3>1, <3>2, FoundKinds DEF CountsOf
    <3> QED  BY <2>1, <2>2, <3>2, <3>3 DEF CountInv
  <2> QED  BY <1>2, <2>5, <2>6, <2>7, Deliveries
<1> QED  BY <1>1, <1>2 DEF StreamNext

LEMMA CountInit == StreamInit => CountInv
<1> SUFFICES ASSUME StreamInit PROVE CountInv
  OBVIOUS
<1>1. feed = EmptyBag /\ anomalies = EmptyBag /\ seen = {}
  BY DEF StreamInit
<1>2. IsABag(feed) /\ IsABag(anomalies) /\ DOMAIN anomalies = {}
      /\ \A x : Copies(x, feed) = 0 /\ Copies(x, anomalies) = 0
  BY <1>1, NoCopies
<1>3. \A e \in bundle : /\ Good(e) = 0 /\ Bad(e) = 0
                        /\ \A k : Recorded(k, e) = 0
  BY <1>2 DEF Good, Bad, Delivered, Recorded
<1>4. ASSUME NEW e \in bundle PROVE CountsOf(e)
  <2>1. e.key \notin seen
    BY <1>1
  <2> QED  BY <1>3, <2>1 DEF CountsOf
<1> QED  BY <1>2, <1>4 DEF CountInv

-----------------------------------------------------------------------------
(* The theorems.                                                           *)

StreamInv == TableInv /\ CountInv

LEMMA StreamInductive == StreamSpec => []StreamInv
<1>1. StreamInit => StreamInv
  BY TableInit, CountInit DEF StreamInv
<1>2. StreamInv /\ [StreamNext]_vars => StreamInv'
  BY TableStep, CountStep DEF StreamInv
<1> QED  BY <1>1, <1>2, PTL DEF StreamSpec

\* An event is accepted once if its key was ingested, and else not at all.
LEMMA KeptOnce ==
  ASSUME TableInv, NEW e \in bundle
  PROVE  Cardinality({i \in DOMAIN accepted : accepted[i] = e})
           = IF e.key \in seen THEN 1 ELSE 0
<1>1. \A i \in DOMAIN accepted : accepted[i] \in bundle
  BY LenProperties, ElementOfSeq DEF TableInv
<1>2. \A d \in bundle : d.key = e.key => d = e
  BY BundleEvents DEF TableInv
<1>3. CASE e.key \in seen
  <2>1. PICK i \in DOMAIN accepted : accepted[i].key = e.key
    BY <1>3 DEF TableInv, KeysIn
  <2>2. {j \in DOMAIN accepted : accepted[j] = e} = {i}
    BY <1>1, <1>2, <2>1 DEF TableInv, OnePerKey
  <2> QED  BY <1>3, <2>2, FS_Singleton
<1>4. CASE e.key \notin seen
  <2>1. {j \in DOMAIN accepted : accepted[j] = e} = {}
    BY <1>4 DEF TableInv, KeysIn
  <2> QED  BY <1>4, <2>1, FS_EmptySet
<1> QED  BY <1>3, <1>4

\* Whatever the feed delays, repeats, reorders or garbles, an event delivered
\* readable is accepted exactly once, each further copy is recorded as a
\* duplicate and each garbled one as a missing mapping: reconcile() of
\* integration/efficast/reconciliation.py drops nothing silently.
THEOREM NothingDropped == StreamSpec => []NothingIsDropped
<1>1. StreamInv => NothingIsDropped
  <2> SUFFICES ASSUME StreamInv, NEW e \in bundle
               PROVE  LET good == Delivered([event |-> e, readable |-> TRUE])
                          bad == Delivered([event |-> e, readable |-> FALSE])
                          kept == Cardinality({i \in DOMAIN accepted : accepted[i] = e})
                      IN  /\ kept = IF good > 0 THEN 1 ELSE 0
                          /\ Recorded("duplicate", e) = good - kept
                          /\ Recorded("missing_mapping", e) = bad
    BY DEF NothingIsDropped
  <2>1. Good(e) = Delivered([event |-> e, readable |-> TRUE])
        /\ Bad(e) = Delivered([event |-> e, readable |-> FALSE])
    BY DEF Good, Bad, Sent
  <2>2. CountsOf(e) /\ Good(e) \in Nat
    BY CopiesAreNumbers DEF StreamInv, CountInv
  <2>3. PICK kept : kept = Cardinality({i \in DOMAIN accepted : accepted[i] = e})
    OBVIOUS
  <2>4. kept = IF e.key \in seen THEN 1 ELSE 0
    BY <2>3, KeptOnce DEF StreamInv
  <2>5. kept = (IF Good(e) > 0 THEN 1 ELSE 0) /\ Recorded("duplicate", e) = Good(e) - kept
        /\ Recorded("missing_mapping", e) = Bad(e)
    BY <2>2, <2>4 DEF CountsOf
  <2> QED  BY <2>1, <2>3, <2>5
<1> QED  BY <1>1, StreamInductive, PTL

\* The flag a newly ingested event gets.
LEMMA FlaggedIffBehind ==
  ASSUME StreamInv, [StreamNext]_vars, NEW e \in bundle,
         e.key \in seen', e.key \notin seen
  PROVE  /\ Recorded("late", e)' + Recorded("out_of_order", e)' = 1 <=> Behind(e)
<1>1. PICK d \in bundle, readable \in BOOLEAN : Receive(d, readable)
  BY DEF StreamNext, vars, reconciler
<1>2. TableInv /\ CountInv
  BY DEF StreamInv
<1>3. Accept(d)
  BY <1>1, <1>2, Deliveries DEF Unmappable, SeenUnread, Duplicate
<1>4. seen' = seen \cup {d.key} /\ anomalies' = Note(Found(d), d)
  BY <1>3 DEF Accept
<1>5. d = e
  BY <1>2, <1>4, BundleEvents DEF TableInv
<1>6. CountsOf(e)
  BY <1>2 DEF CountInv
<1>7. Recorded("late", e) = 0 /\ Recorded("out_of_order", e) = 0
  BY <1>6 DEF CountsOf
<1>8. \A k : Recorded(k, e)' = Recorded(k, e) + IF k \in Found(e) /\ e = e THEN 1 ELSE 0
  BY <1>2, <1>4, <1>5, FoundKinds, Noted
<1>9. /\ Recorded("late", e)' = IF "late" \in Found(e) THEN 1 ELSE 0
      /\ Recorded("out_of_order", e)' = IF "out_of_order" \in Found(e) THEN 1 ELSE 0
  BY <1>7, <1>8
<1> QED  BY <1>9, FoundKinds

\* The running watermark of reconcile() is as good as the whole table: an event
\* is flagged late or out of order exactly when one with a greater source
\* timestamp was accepted before it.
THEOREM LatenessFlagged == StreamSpec => LatenessIsFlagged
<1>1. StreamInv /\ [StreamNext]_vars =>
        [\A e \in bundle :
           (e.key \in seen' /\ e.key \notin seen) =>
             ((Recorded("late", e)' + Recorded("out_of_order", e)' = 1)
                <=> \E i \in DOMAIN accepted : accepted[i].source > e.source)]_vars
  BY FlaggedIffBehind, BehindTheWatermark DEF StreamInv
<1> QED  BY <1>1, StreamInductive, PTL DEF StreamSpec, LatenessIsFlagged

\* Every mapping version remembered is that of an accepted event.
MappingInv ==
  \A s \in DOMAIN mapping : \E i \in DOMAIN accepted : accepted[i].mapping = mapping[s]

LEMMA MappingStep ==
  ASSUME TableInv, MappingInv, [StreamNext]_vars
  PROVE  MappingInv'
<1>1. CASE UNCHANGED vars
  BY <1>1 DEF vars, reconciler, MappingInv
<1>2. ASSUME NEW e \in bundle, NEW readable \in BOOLEAN, Receive(e, readable)
      PROVE  MappingInv'
  <2>1. CASE Unmappable(e) \/ Duplicate(e)
    BY <2>1 DEF Unmappable, Duplicate, MappingInv
  <2>2. CASE Accept(e)
    <3>1. With(accepted', accepted, e, Place(accepted, e))
      BY <1>2, <2>2, Deliveries, Accepted
    <3>2. /\ \E j \in DOMAIN accepted' : accepted'[j] = e
          /\ \A i \in DOMAIN accepted : \E j \in DOMAIN accepted' : accepted'[j] = accepted[i]
      BY <3>1, WithRows
    <3>3. /\ DOMAIN mapping' = {e.system} \cup DOMAIN mapping
          /\ \A s \in DOMAIN mapping' :
               mapping'[s] = IF s = e.system THEN e.mapping ELSE mapping[s]
      BY <2>2 DEF Accept
    <3>4. ASSUME NEW s \in DOMAIN mapping'
          PROVE  \E j \in DOMAIN accepted' : accepted'[j].mapping = mapping'[s]
      <4>1. CASE s = e.system
        BY <3>2, <3>3, <4>1
      <4>2. CASE s # e.system
        <5>1. PICK i \in DOMAIN accepted : accepted[i].mapping = mapping[s]
          BY <3>3, <4>2 DEF MappingInv
        <5>2. PICK j \in DOMAIN accepted' : accepted'[j] = accepted[i]
          BY <3>2
        <5>3. accepted'[j].mapping = mapping'[s]
          BY <3>3, <4>2, <5>1, <5>2
        <5> QED  BY <5>3
      <4> QED  BY <4>1, <4>2
    <3> QED  BY <3>4 DEF MappingInv
  <2> QED  BY <1>2, <2>1, <2>2, Deliveries
<1> QED  BY <1>1, <1>2 DEF StreamNext

\* The table of reconcile() keeps to its types, and its watermark is the source
\* timestamp of the last row: the greatest, for the rows are in source order.
THEOREM StreamTyped == StreamSpec => [](StreamTypeOK /\ BySource(accepted))
<1>1. StreamInit => MappingInv
  BY DEF StreamInit, MappingInv
<1>2. StreamInv /\ MappingInv /\ [StreamNext]_vars => MappingInv'
  BY MappingStep DEF StreamInv
<1>3. StreamInv /\ MappingInv => StreamTypeOK /\ BySource(accepted)
  BY DEF StreamInv, MappingInv, TableInv, CountInv, StreamTypeOK, KeysIn, LatestOf
<1> QED  BY <1>1, <1>2, <1>3, StreamInductive, PTL DEF StreamSpec

-----------------------------------------------------------------------------
(* Sets of integers in ascending order.                                    *)

\* As many ways to count as there are things to count: every number is reached.
LEMMA AllReached ==
  ASSUME NEW D, IsFiniteSet(D), NEW f \in [D -> 0 .. Cardinality(D) - 1],
         \A x, y \in D : f[x] = f[y] => x = y
  PROVE  \A n \in 0 .. Cardinality(D) - 1 : \E x \in D : f[x] = n
<1> DEFINE c == Cardinality(D)
<1> DEFINE T == 0 .. c - 1
<1>1. c \in Nat
  BY FS_CardinalityType
<1>2. IsFiniteSet(T) /\ Cardinality(T) = c
  BY <1>1, FS_Interval
<1>3. f \in Injection(D, T)
  BY DEF Injection, IsInjective
<1> HIDE DEF T
<1>4. f \in Surjection(D, T)
  BY <1>2, <1>3, FS_Injection
<1>5. \A n \in T : \E x \in D : f[x] = n
  BY <1>4 DEF Surjection
<1> QED  BY <1>5 DEF T

\* A map that keeps things apart makes a set no smaller.
LEMMA NotMore ==
  ASSUME NEW S, NEW T, IsFiniteSet(T), NEW f \in [S -> T],
         \A x, y \in S : f[x] = f[y] => x = y
  PROVE  IsFiniteSet(S) /\ Cardinality(S) <= Cardinality(T)
<1>1. f \in Injection(S, T)
  BY DEF Injection, IsInjective
<1> QED  BY <1>1, FS_Injection

LEMMA RankIsNumber ==
  ASSUME NEW S \in SUBSET Int, IsFiniteSet(S), NEW x \in S
  PROVE  Rank(S, x) \in 0 .. Cardinality(S) - 1
<1> DEFINE L == {y \in S : y < x}
<1>1. IsFiniteSet(S \ {x}) /\ Cardinality(S \ {x}) = Cardinality(S) - 1
  BY FS_RemoveElement
<1>2. L \in SUBSET (S \ {x})
  OBVIOUS
<1> HIDE DEF L
<1>3. IsFiniteSet(L) /\ Cardinality(L) <= Cardinality(S) - 1
  BY <1>1, <1>2, FS_Subset
<1>4. Cardinality(L) \in Nat /\ Cardinality(S) \in Nat
  BY <1>3, FS_CardinalityType
<1>5. Rank(S, x) = Cardinality(L)
  BY DEF Rank, L
<1> QED  BY <1>3, <1>4, <1>5

LEMMA RankRises ==
  ASSUME NEW S \in SUBSET Int, IsFiniteSet(S), NEW x \in S, NEW y \in S, x < y
  PROVE  Rank(S, x) < Rank(S, y)
<1> DEFINE L(z) == {k \in S : k < z}
<1>0. x \in Int /\ y \in Int /\ \A k \in S : k \in Int
  OBVIOUS
<1>1. L(x) \in SUBSET L(y) /\ x \in L(y) /\ x \notin L(x) /\ L(y) \in SUBSET S
  <2>1. \A k \in S : k < x => k < y
    BY <1>0
  <2>2. ~(x < x)
    BY <1>0
  <2> QED  BY <2>1, <2>2
<1>2. Rank(S, x) = Cardinality(L(x)) /\ Rank(S, y) = Cardinality(L(y))
  BY DEF Rank
<1> HIDE DEF L
<1>3. IsFiniteSet(L(y))
  BY <1>1, FS_Subset
<1>4. /\ IsFiniteSet(L(x)) /\ Cardinality(L(x)) <= Cardinality(L(y))
      /\ Cardinality(L(x)) # Cardinality(L(y))
  BY <1>1, <1>3, FS_Subset
<1>5. Cardinality(L(x)) \in Nat /\ Cardinality(L(y)) \in Nat
  BY <1>3, <1>4, FS_CardinalityType
<1> QED  BY <1>2, <1>4, <1>5

\* What InOrder() promises of a finite set of integers.
Ascends(s, S) ==
  /\ DOMAIN s = 1 .. Cardinality(S)
  /\ \A n \in DOMAIN s : s[n] \in S /\ Rank(S, s[n]) = n - 1
  /\ \A x \in S : Rank(S, x) + 1 \in DOMAIN s /\ s[Rank(S, x) + 1] = x

LEMMA InOrderAscends ==
  ASSUME NEW S \in SUBSET Int, IsFiniteSet(S)
  PROVE  Ascends(InOrder(S), S)
<1> DEFINE f == [x \in S |-> Rank(S, x)]
<1>1. Cardinality(S) \in Nat
  BY FS_CardinalityType
<1>2. \A x \in S : Rank(S, x) \in 0 .. Cardinality(S) - 1
  BY RankIsNumber
<1>3. \A x, y \in S : Rank(S, x) = Rank(S, y) => x = y
  <2> SUFFICES ASSUME NEW x \in S, NEW y \in S, Rank(S, x) = Rank(S, y), x # y PROVE FALSE
    OBVIOUS
  <2>1. Rank(S, x) \in Int /\ Rank(S, y) \in Int
    BY <1>2
  <2>2. x < y \/ y < x
    OBVIOUS
  <2> QED  BY <2>1, <2>2, RankRises
<1>4. f \in [S -> 0 .. Cardinality(S) - 1]
  BY <1>2
<1>5. \A n \in 0 .. Cardinality(S) - 1 : \E x \in S : f[x] = n
  <2>1. \A x, y \in S : f[x] = f[y] => x = y
    BY <1>3
  <2> HIDE DEF f
  <2> QED  BY <1>4, <2>1, AllReached
<1>6. DOMAIN InOrder(S) = 1 .. Cardinality(S)
  BY DEF InOrder
<1>7. ASSUME NEW n \in 1 .. Cardinality(S)
      PROVE  InOrder(S)[n] \in S /\ Rank(S, InOrder(S)[n]) = n - 1
  <2>1. n - 1 \in 0 .. Cardinality(S) - 1
    BY <1>1
  <2>2. \E x \in S : Rank(S, x) = n - 1
    BY <1>5, <2>1
  <2>3. InOrder(S)[n] = CHOOSE x \in S : Rank(S, x) = n - 1
    BY DEF InOrder
  <2> QED  BY <2>2, <2>3
<1>8. ASSUME NEW x \in S
      PROVE  Rank(S, x) + 1 \in 1 .. Cardinality(S) /\ InOrder(S)[Rank(S, x) + 1] = x
  <2>1. Rank(S, x) + 1 \in 1 .. Cardinality(S)
    BY <1>1, <1>2
  <2>2. Rank(S, InOrder(S)[Rank(S, x) + 1]) = Rank(S, x)
    BY <1>2, <1>7, <2>1
  <2> QED  BY <1>3, <1>7, <2>1, <2>2
<1> QED  BY <1>6, <1>7, <1>8 DEF Ascends

\* The first of them is the least.
LEMMA LeastExists ==
  ASSUME NEW S \in SUBSET Int, IsFiniteSet(S), S # {}
  PROVE  Min(S) \in S /\ \A y \in S : Min(S) <= y
<1>1. Cardinality(S) \in Nat /\ Cardinality(S) # 0
  BY FS_CardinalityType, FS_EmptySet
<1>2. Ascends(InOrder(S), S)
  BY InOrderAscends
<1>3. PICK x \in S : Rank(S, x) = 0
  <2>1. 1 \in DOMAIN InOrder(S)
    BY <1>1, <1>2 DEF Ascends
  <2>2. PICK x : x = InOrder(S)[1]
    OBVIOUS
  <2>3. x \in S /\ Rank(S, x) = 1 - 1
    BY <1>2, <2>1, <2>2 DEF Ascends
  <2>4. Rank(S, x) = 0
    BY <2>3
  <2> QED  BY <2>3, <2>4
<1>4. {y \in S : y < x} = {}
  <2>1. {y \in S : y < x} \in SUBSET S
    OBVIOUS
  <2>2. IsFiniteSet({y \in S : y < x})
    BY <2>1, FS_Subset
  <2> QED  BY <1>3, <2>2, FS_EmptySet DEF Rank
<1>5. \A y \in S : x <= y
  BY <1>4
<1> QED  BY <1>5 DEF Min

-----------------------------------------------------------------------------
(* The report and the order of arrival.                                    *)

\* A stream that tells the events E, each once and in the order of their source
\* timestamps.
Tells(s, E) ==
  /\ s \in Seq(E)
  /\ \A e \in E : \E i \in DOMAIN s : s[i] = e
  /\ \A i, j \in DOMAIN s : s[i] = s[j] => i = j
  /\ BySource(s)

LEMMA Telling ==
  ASSUME NEW E, NEW s, Tells(s, E)
  PROVE  /\ \A i \in DOMAIN s : s[i] \in E
         /\ DOMAIN s \in SUBSET Int /\ IsFiniteSet(DOMAIN s)
<1>1. Len(s) \in Nat /\ DOMAIN s = 1 .. Len(s)
  BY LenProperties DEF Tells
<1>2. IsFiniteSet(1 .. Len(s))
  BY <1>1, FS_Interval
<1> QED  BY <1>1, <1>2, ElementOfSeq DEF Tells

\* Two streams of the same events have the same events of each type.
LEMMA OfIsFinite ==
  ASSUME NEW E, NEW s, Tells(s, E), NEW type, NEW cid, NEW I \in SUBSET Of(type, s, cid)
  PROVE  I \in SUBSET Int /\ IsFiniteSet(I)
<1>1. I \in SUBSET DOMAIN s
  BY DEF Of
<1> QED  BY <1>1, Telling, FS_Subset

LEMMA SameEvents ==
  ASSUME NEW E, NEW s, NEW t, Tells(s, E), Tells(t, E), NEW type, NEW cid
  PROVE  \A i \in Of(type, s, cid) : \E j \in Of(type, t, cid) : t[j] = s[i]
<1> SUFFICES ASSUME NEW i \in Of(type, s, cid)
             PROVE  \E j \in Of(type, t, cid) : t[j] = s[i]
  OBVIOUS
<1>1. i \in DOMAIN s /\ s[i].cid = cid /\ Is(type, s[i])
  BY DEF Of
<1>2. s[i] \in E
  BY <1>1, Telling
<1>3. PICK j \in DOMAIN t : t[j] = s[i]
  BY <1>2 DEF Tells
<1> QED  BY <1>1, <1>3 DEF Of

\* Of the events that must not bear one timestamp, what is read of the first.
Kinds == {"telemetry_observation", "production_order_context", "recovery_decision_publication"}

LEMMA OneAtATime ==
  ASSUME NEW E, NEW cid, Untied(E, cid), NEW type \in Kinds,
         NEW s, NEW t, Tells(s, E), Tells(t, E),
         NEW i \in Of(type, s, cid), NEW j \in Of(type, t, cid), s[i].source = t[j].source,
         type = "telemetry_observation" => s[i].metric = t[j].metric
  PROVE  s[i] = t[j]
<1>1. s[i] \in E /\ t[j] \in E
  BY Telling DEF Of
<1>2. /\ s[i].cid = cid /\ t[j].cid = cid /\ s[i].type = type /\ t[j].type = type
  BY DEF Of, Is
<1> QED  BY <1>1, <1>2 DEF Untied, Is, Kinds

LEMMA FirstIsTheSame ==
  ASSUME NEW E, HasInts(E), NEW cid, Untied(E, cid), NEW type \in Kinds,
         type # "telemetry_observation",
         NEW s, NEW t, Tells(s, E), Tells(t, E)
  PROVE  /\ Of(type, s, cid) = {} <=> Of(type, t, cid) = {}
         /\ Of(type, s, cid) # {} => s[Min(Of(type, s, cid))] = t[Min(Of(type, t, cid))]
<1> DEFINE I == Of(type, s, cid)
<1> DEFINE J == Of(type, t, cid)
<1>1. (\A i \in I : \E j \in J : t[j] = s[i]) /\ (\A j \in J : \E i \in I : s[i] = t[j])
  BY SameEvents
<1>2. I = {} <=> J = {}
  BY <1>1
<1>3. ASSUME I # {} PROVE s[Min(I)] = t[Min(J)]
  <2>1. I \in SUBSET Int /\ IsFiniteSet(I) /\ J \in SUBSET Int /\ IsFiniteSet(J)
    BY OfIsFinite
  <2>2. Min(I) \in I /\ \A y \in I : Min(I) <= y
    BY <1>3, <2>1, LeastExists
  <2>3. Min(J) \in J /\ \A y \in J : Min(J) <= y
    BY <1>2, <1>3, <2>1, LeastExists
  <2>4. PICK j \in J : t[j] = s[Min(I)]
    BY <1>1, <2>2
  <2>5. PICK i \in I : s[i] = t[Min(J)]
    BY <1>1, <2>3
  <2>6. I \subseteq DOMAIN s /\ J \subseteq DOMAIN t
    BY DEF Of
  <2>7. s[Min(I)].source <= s[i].source
    BY <2>2, <2>5, <2>6 DEF Tells, BySource
  <2>8. t[Min(J)].source <= t[j].source
    BY <2>3, <2>4, <2>6 DEF Tells, BySource
  <2>9. s[Min(I)].source \in Int /\ t[Min(J)].source \in Int
    BY <2>2, <2>3, <2>6, Telling DEF HasInts
  <2>10. s[Min(I)].source = t[Min(J)].source
    BY <2>4, <2>5, <2>7, <2>8, <2>9
  <2> HIDE DEF I, J
  <2> QED  BY <2>2, <2>3, <2>10, OneAtATime DEF I, J
<1> QED  BY <1>2, <1>3

\* The same sample times, the same readings at each, the same faults.
LEMMA SameTimes ==
  ASSUME NEW E, NEW s, NEW t, Tells(s, E), Tells(t, E), NEW cid
  PROVE  /\ SampleTimes(s, cid) = SampleTimes(t, cid)
         /\ FaultTimes(s, cid) = FaultTimes(t, cid)
<1>1. \A type : /\ \A i \in Of(type, s, cid) : \E j \in Of(type, t, cid) : t[j] = s[i]
                /\ \A j \in Of(type, t, cid) : \E i \in Of(type, s, cid) : s[i] = t[j]
  BY SameEvents
<1>2. SampleTimes(s, cid) = SampleTimes(t, cid)
  <2>1. SampleTimes(s, cid) \subseteq SampleTimes(t, cid)
    BY <1>1 DEF SampleTimes
  <2>2. SampleTimes(t, cid) \subseteq SampleTimes(s, cid)
    BY <1>1 DEF SampleTimes
  <2> QED  BY <2>1, <2>2
<1>3. FaultTimes(s, cid) = FaultTimes(t, cid)
  <2>1. FaultTimes(s, cid) \subseteq FaultTimes(t, cid)
    BY <1>1 DEF FaultTimes
  <2>2. FaultTimes(t, cid) \subseteq FaultTimes(s, cid)
    BY <1>1 DEF FaultTimes
  <2> QED  BY <2>1, <2>2
<1> QED  BY <1>2, <1>3

\* The samples of a metric at a time.
ReadingsAt(time, metric, s, cid) == {i \in SampledAt(time, s, cid) : s[i].metric = metric}

LEMMA OneReading ==
  ASSUME NEW E, NEW cid, Untied(E, cid), NEW s, Tells(s, E), NEW time, NEW metric,
         NEW i \in ReadingsAt(time, metric, s, cid)
  PROVE  ReadingsAt(time, metric, s, cid) = {i} /\ LastValue(time, metric, s, cid) = s[i].value
<1> DEFINE R == ReadingsAt(time, metric, s, cid)
<1>1. \A j \in R : /\ j \in Of("telemetry_observation", s, cid) /\ j \in DOMAIN s
                    /\ s[j].source = time /\ s[j].metric = metric
  BY DEF ReadingsAt, SampledAt, Of
<1>2. "telemetry_observation" \in Kinds
  BY DEF Kinds
<1>3. ASSUME NEW j \in R PROVE j = i
  <2>1. s[j] = s[i]
    BY <1>1, <1>2, OneAtATime
  <2> QED  BY <1>1, <2>1 DEF Tells
<1>4. R = {i}
  BY <1>3
<1>5. i \in Int
  BY <1>1, Telling
<1>6. Max(R) = i
  BY <1>4, <1>5 DEF Max
<1> QED  BY <1>4, <1>6 DEF LastValue, ReadingsAt

LEMMA SameMetrics ==
  ASSUME NEW E, NEW s, NEW t, Tells(s, E), Tells(t, E), NEW cid, NEW time, NEW metric,
         NEW i \in ReadingsAt(time, metric, s, cid)
  PROVE  \E j \in ReadingsAt(time, metric, t, cid) : t[j] = s[i]
<1>1. i \in Of("telemetry_observation", s, cid) /\ s[i].source = time /\ s[i].metric = metric
  BY DEF ReadingsAt, SampledAt
<1>2. PICK j \in Of("telemetry_observation", t, cid) : t[j] = s[i]
  BY <1>1, SameEvents
<1> QED  BY <1>1, <1>2 DEF ReadingsAt, SampledAt

Metrics(time, s, cid) == {s[i].metric : i \in SampledAt(time, s, cid)}

LEMMA SameObservation ==
  ASSUME NEW E, NEW cid, Untied(E, cid), NEW s, NEW t, Tells(s, E), Tells(t, E), NEW time
  PROVE  ObservationAt(time, s, cid) = ObservationAt(time, t, cid)
<1>1. CycleFault(time, SampleTimes(s, cid), s, cid) = CycleFault(time, SampleTimes(t, cid), t, cid)
  BY SameTimes DEF CycleFault
<1>2. \A m : m \in Metrics(time, s, cid) <=> ReadingsAt(time, m, s, cid) # {}
  BY DEF Metrics, ReadingsAt
<1>3. \A m : m \in Metrics(time, t, cid) <=> ReadingsAt(time, m, t, cid) # {}
  BY DEF Metrics, ReadingsAt
<1>4. Metrics(time, s, cid) = Metrics(time, t, cid)
  <2>1. \A m : ReadingsAt(time, m, s, cid) # {} => ReadingsAt(time, m, t, cid) # {}
    BY SameMetrics
  <2>2. \A m : ReadingsAt(time, m, t, cid) # {} => ReadingsAt(time, m, s, cid) # {}
    BY SameMetrics
  <2> QED  BY <1>2, <1>3, <2>1, <2>2
<1>5. ASSUME NEW m \in Metrics(time, s, cid)
      PROVE  LastValue(time, m, s, cid) = LastValue(time, m, t, cid)
  <2>1. PICK i \in ReadingsAt(time, m, s, cid) : TRUE
    BY <1>2
  <2>2. PICK j \in ReadingsAt(time, m, t, cid) : t[j] = s[i]
    BY SameMetrics
  <2>3. LastValue(time, m, s, cid) = s[i].value
    BY OneReading
  <2>4. LastValue(time, m, t, cid) = t[j].value
    BY OneReading
  <2> QED  BY <2>2, <2>3, <2>4
<1>6. [m \in Metrics(time, s, cid) |-> LastValue(time, m, s, cid)]
        = [m \in Metrics(time, t, cid) |-> LastValue(time, m, t, cid)]
  BY <1>4, <1>5
<1> QED  BY <1>1, <1>6 DEF ObservationAt, Metrics

LEMMA SameObservations ==
  ASSUME NEW E, NEW cid, Untied(E, cid), NEW s, NEW t, Tells(s, E), Tells(t, E)
  PROVE  ObservationsFrom(s, cid) = ObservationsFrom(t, cid)
<1>1. InOrder(SampleTimes(s, cid)) = InOrder(SampleTimes(t, cid))
  BY SameTimes
<1>2. \A time : ObservationAt(time, s, cid) = ObservationAt(time, t, cid)
  BY SameObservation
<1> QED  BY <1>1, <1>2 DEF ObservationsFrom

\* The series of one metric.
Series(metric, s, cid) == {i \in Of("telemetry_observation", s, cid) : s[i].metric = metric}

\* The place of a row of s in t.
PlaceIn(s, t, i) == CHOOSE j \in DOMAIN t : t[j] = s[i]

LEMMA Placing ==
  ASSUME NEW E, NEW s, NEW t, Tells(s, E), Tells(t, E), NEW cid, NEW metric,
         NEW i \in Series(metric, s, cid)
  PROVE  PlaceIn(s, t, i) \in Series(metric, t, cid) /\ t[PlaceIn(s, t, i)] = s[i]
<1>1. i \in Of("telemetry_observation", s, cid) /\ s[i].metric = metric /\ i \in DOMAIN s
  BY DEF Series, Of
<1>2. PICK j \in Of("telemetry_observation", t, cid) : t[j] = s[i]
  BY <1>1, SameEvents
<1>3. j \in DOMAIN t
  BY DEF Of
<1>4. PlaceIn(s, t, i) \in DOMAIN t /\ t[PlaceIn(s, t, i)] = s[i]
  BY <1>2, <1>3 DEF PlaceIn
<1>5. PlaceIn(s, t, i) = j
  BY <1>2, <1>3, <1>4 DEF Tells
<1> QED  BY <1>1, <1>2, <1>5 DEF Series

LEMMA PlacesApart ==
  ASSUME NEW E, NEW s, NEW t, Tells(s, E), Tells(t, E), NEW cid, NEW metric,
         NEW i \in Series(metric, s, cid), NEW k \in Series(metric, s, cid),
         PlaceIn(s, t, i) = PlaceIn(s, t, k)
  PROVE  i = k
<1>1. s[i] = s[k]
  BY Placing
<1>2. i \in DOMAIN s /\ k \in DOMAIN s
  BY DEF Series, Of
<1> QED  BY <1>1, <1>2 DEF Tells

\* In both streams a row of the series has as many rows of it before it.
LEMMA RankNotMore ==
  ASSUME NEW E, HasInts(E), NEW cid, Untied(E, cid), NEW s, NEW t, Tells(s, E), Tells(t, E),
         NEW metric, NEW i \in Series(metric, s, cid), NEW j \in Series(metric, t, cid),
         s[i] = t[j]
  PROVE  Rank(Series(metric, s, cid), i) <= Rank(Series(metric, t, cid), j)
<1> DEFINE I == Series(metric, s, cid)
<1> DEFINE J == Series(metric, t, cid)
<1> DEFINE L == {k \in I : k < i}
<1> DEFINE M == {k \in J : k < j}
<1> DEFINE f == [k \in L |-> PlaceIn(s, t, k)]
<1>1. I \subseteq Of("telemetry_observation", s, cid) /\ J \subseteq Of("telemetry_observation", t, cid)
      /\ I \subseteq DOMAIN s /\ J \subseteq DOMAIN t
      /\ (\A k \in I : s[k].metric = metric) /\ (\A k \in J : t[k].metric = metric)
  BY DEF Series, Of
<1>2. I \in SUBSET Int /\ J \in SUBSET Int /\ IsFiniteSet(J)
  <2> HIDE DEF I, J
  <2>1. I \in SUBSET Int
    BY <1>1, OfIsFinite
  <2>2. J \in SUBSET Int /\ IsFiniteSet(J)
    BY <1>1, OfIsFinite
  <2> QED  BY <2>1, <2>2
<1>3. IsFiniteSet(M)
  <2>1. M \in SUBSET J
    OBVIOUS
  <2> HIDE DEF M, J
  <2> QED  BY <1>2, <2>1, FS_Subset
<1>4. ASSUME NEW k \in L PROVE PlaceIn(s, t, k) \in M
  <2> DEFINE p == PlaceIn(s, t, k)
  <2>1. k \in I /\ k < i /\ k \in Int /\ i \in Int /\ j \in Int
    BY <1>2
  <2>2. p \in J /\ t[p] = s[k]
    BY <2>1, Placing
  <2>3. p \in Int /\ p \in DOMAIN t
    BY <1>1, <1>2, <2>2
  <2>4. s[k].source <= s[i].source
    <3>1. k \in DOMAIN s /\ i \in DOMAIN s /\ k <= i
      BY <1>1, <2>1
    <3> HIDE DEF I, J, L
    <3> QED  BY <3>1 DEF Tells, BySource
  <2>5. s[k] # s[i]
    BY <1>1, <2>1 DEF Tells
  <2>6. s[k].source # s[i].source
    <3>1. "telemetry_observation" \in Kinds
      BY DEF Kinds
    <3>2. k \in Of("telemetry_observation", s, cid) /\ j \in Of("telemetry_observation", t, cid)
          /\ s[k].metric = t[j].metric
      BY <1>1, <2>1
    <3>3. s[k].source = t[j].source => s[k] = t[j]
      BY <3>1, <3>2, OneAtATime
    <3> QED  BY <2>5, <3>3
  <2>7. j <= p => t[j].source <= t[p].source
    BY <1>1, <2>3 DEF Tells, BySource
  <2>8. s[k].source \in Int /\ s[i].source \in Int
    BY <1>1, <2>1, Telling DEF HasInts
  <2>9. ~(j <= p)
    BY <2>2, <2>4, <2>6, <2>7, <2>8
  <2> QED  BY <2>1, <2>2, <2>3, <2>9
<1>5. f \in [L -> M] /\ \A x, y \in L : f[x] = f[y] => x = y
  <2>1. \A x, y \in L : PlaceIn(s, t, x) = PlaceIn(s, t, y) => x = y
    BY PlacesApart
  <2> HIDE DEF L, M
  <2> QED  BY <1>4, <2>1
<1>6. Rank(I, i) = Cardinality(L) /\ Rank(J, j) = Cardinality(M)
  BY DEF Rank
<1> HIDE DEF f, L, M
<1>7. Cardinality(L) <= Cardinality(M)
  BY <1>3, <1>5, NotMore
<1> QED  BY <1>6, <1>7

LEMMA SeriesNotLonger ==
  ASSUME NEW E, NEW cid, NEW s, NEW t, Tells(s, E), Tells(t, E), NEW metric
  PROVE  Cardinality(Series(metric, s, cid)) <= Cardinality(Series(metric, t, cid))
<1> DEFINE I == Series(metric, s, cid)
<1> DEFINE J == Series(metric, t, cid)
<1> DEFINE f == [k \in I |-> PlaceIn(s, t, k)]
<1>1. J \subseteq Of("telemetry_observation", t, cid)
  BY DEF Series
<1>2. IsFiniteSet(J)
  BY <1>1, OfIsFinite
<1>3. f \in [I -> J] /\ \A x, y \in I : f[x] = f[y] => x = y
  BY Placing, PlacesApart
<1> HIDE DEF f, I, J
<1>4. Cardinality(I) <= Cardinality(J)
  BY <1>2, <1>3, NotMore
<1> QED  BY <1>4 DEF I, J

LEMMA SameSeries ==
  ASSUME NEW E, HasInts(E), NEW cid, Untied(E, cid), NEW s, NEW t, Tells(s, E), Tells(t, E)
  PROVE  Vibrations(s, cid) = Vibrations(t, cid)
<1> DEFINE I == Series("vibration_rms", s, cid)
<1> DEFINE J == Series("vibration_rms", t, cid)
<1>1. I \subseteq Of("telemetry_observation", s, cid) /\ J \subseteq Of("telemetry_observation", t, cid)
  BY DEF Series
<1>2. I \in SUBSET Int /\ IsFiniteSet(I) /\ J \in SUBSET Int /\ IsFiniteSet(J)
  BY <1>1, OfIsFinite
<1>3. Ascends(InOrder(I), I) /\ Ascends(InOrder(J), J)
  BY <1>2, InOrderAscends
<1>4. Cardinality(I) = Cardinality(J)
  <2>1. Cardinality(I) <= Cardinality(J) /\ Cardinality(J) <= Cardinality(I)
    BY SeriesNotLonger
  <2>2. Cardinality(I) \in Nat /\ Cardinality(J) \in Nat
    BY <1>2, FS_CardinalityType
  <2> QED  BY <2>1, <2>2
<1>5. ASSUME NEW n \in DOMAIN InOrder(I)
      PROVE  s[InOrder(I)[n]] = t[InOrder(J)[n]]
  <2> DEFINE i == InOrder(I)[n]
  <2> DEFINE j == PlaceIn(s, t, i)
  <2>1. i \in I /\ Rank(I, i) = n - 1
    BY <1>3 DEF Ascends
  <2>2. j \in J /\ t[j] = s[i]
    BY <2>1, Placing
  <2> HIDE DEF i, j
  <2>3. Rank(I, i) <= Rank(J, j) /\ Rank(J, j) <= Rank(I, i)
    BY <2>1, <2>2, RankNotMore
  <2>4. Rank(I, i) \in Int /\ Rank(J, j) \in Int
    BY <1>2, <2>1, <2>2, RankIsNumber
  <2>5. Rank(J, j) = n - 1
    BY <2>1, <2>3, <2>4
  <2>6. InOrder(J)[Rank(J, j) + 1] = j
    BY <1>3, <2>2 DEF Ascends
  <2>7. n \in Int
    BY <1>2, <1>3, FS_CardinalityType DEF Ascends
  <2>8. InOrder(J)[n] = j
    BY <2>5, <2>6, <2>7
  <2> QED  BY <2>2, <2>8 DEF i
<1>6. DOMAIN InOrder(I) = DOMAIN InOrder(J)
  BY <1>3, <1>4 DEF Ascends
<1>7. Only(s, I) = Only(t, J)
  BY <1>5, <1>6 DEF Only
<1>8. Vibrations(s, cid) = [n \in DOMAIN Only(s, I) |-> Only(s, I)[n].value]
      /\ Vibrations(t, cid) = [n \in DOMAIN Only(t, J) |-> Only(t, J)[n].value]
  BY DEF Vibrations, Series
<1> QED  BY <1>7, <1>8

LEMMA SameTrust ==
  ASSUME NEW E, HasInts(E), NEW cid, Untied(E, cid), NEW s, NEW t, Tells(s, E), Tells(t, E)
  PROVE  SensorTrust(s, cid) = SensorTrust(t, cid)
<1> DEFINE I == Of("sensor_health", s, cid)
<1> DEFINE J == Of("sensor_health", t, cid)
<1>1. (\A i \in I : \E j \in J : t[j] = s[i]) /\ (\A j \in J : \E i \in I : s[i] = t[j])
  BY SameEvents
<1>2. I = {} <=> J = {}
  BY <1>1
<1>3. {s[i].status : i \in I} = {t[j].status : j \in J}
  BY <1>1
<1>4. Declared(s, cid) = Declared(t, cid)
  BY <1>2, <1>3 DEF Declared
<1>5. Vibrations(s, cid) = Vibrations(t, cid)
  BY SameSeries
<1> QED  BY <1>4, <1>5 DEF SensorTrust

\* Whoever tells the same events in source order gets the same report.
THEOREM ReportOfTheEvents ==
  ASSUME NEW E, HasInts(E), NEW cid, Untied(E, cid), NEW s, NEW t, Tells(s, E), Tells(t, E)
  PROVE  Report(s, cid) = Report(t, cid)
<1>1. /\ ObservationsFrom(s, cid) = ObservationsFrom(t, cid)
      /\ SensorTrust(s, cid) = SensorTrust(t, cid)
  BY SameObservations, SameTrust
<1>2. /\ "production_order_context" \in Kinds \ {"telemetry_observation"}
      /\ "recovery_decision_publication" \in Kinds \ {"telemetry_observation"}
  BY DEF Kinds
<1>3. Product(s, cid) = Product(t, cid)
  BY <1>2, FirstIsTheSame DEF Product
<1>4. Comparability(s, cid) = Comparability(t, cid)
  BY <1>1, <1>3 DEF Comparability
<1>5. ActualOutcome(s, cid) = ActualOutcome(t, cid)
  BY <1>2, FirstIsTheSame DEF ActualOutcome
<1> QED  BY <1>1, <1>4, <1>5 DEF Report

-----------------------------------------------------------------------------
(* The same events told again.                                             *)

Sooner(s, i) == {j \in DOMAIN s : Before(s, j, i)}

LEMMA SoonerIsFinite ==
  ASSUME NEW E, NEW s, Tells(s, E), NEW i
  PROVE  IsFiniteSet(Sooner(s, i)) /\ Turn(s, i) = Cardinality(Sooner(s, i))
<1>1. Sooner(s, i) \in SUBSET DOMAIN s
  BY DEF Sooner
<1>2. IsFiniteSet(Sooner(s, i))
  BY <1>1, Telling, FS_Subset
<1> QED  BY <1>2 DEF Turn, Sooner

\* Before() orders the positions of a stream: one of two comes first, and what
\* comes before the first comes before the second.
LEMMA BeforeOrders ==
  ASSUME NEW E, HasInts(E), NEW s, Tells(s, E), NEW i \in DOMAIN s, NEW j \in DOMAIN s
  PROVE  /\ ~Before(s, i, i)
         /\ i # j => Before(s, i, j) \/ Before(s, j, i)
         /\ \A k \in DOMAIN s : Before(s, k, i) /\ Before(s, i, j) => Before(s, k, j)
<1>1. \A k \in DOMAIN s : k \in Int /\ s[k].source \in Int
  BY Telling DEF HasInts
<1> QED  BY <1>1 DEF Before

LEMMA TurnRises ==
  ASSUME NEW E, HasInts(E), NEW s, Tells(s, E), NEW i \in DOMAIN s, NEW j \in DOMAIN s,
         Before(s, i, j)
  PROVE  Turn(s, i) < Turn(s, j)
<1>1. \A k \in DOMAIN s : Before(s, k, i) => Before(s, k, j)
  BY BeforeOrders
<1>2. ~Before(s, i, i)
  BY BeforeOrders
<1>3. Sooner(s, i) \subseteq Sooner(s, j) /\ Sooner(s, i) # Sooner(s, j)
  BY <1>1, <1>2 DEF Sooner
<1>4. IsFiniteSet(Sooner(s, i)) /\ IsFiniteSet(Sooner(s, j))
  BY SoonerIsFinite
<1>5. /\ Cardinality(Sooner(s, i)) <= Cardinality(Sooner(s, j))
      /\ Cardinality(Sooner(s, i)) # Cardinality(Sooner(s, j))
  BY <1>3, <1>4, FS_Subset
<1>6. Cardinality(Sooner(s, i)) \in Nat /\ Cardinality(Sooner(s, j)) \in Nat
  BY <1>4, FS_CardinalityType
<1> QED  BY <1>5, <1>6, SoonerIsFinite

LEMMA TurnIsNumber ==
  ASSUME NEW E, HasInts(E), NEW s, Tells(s, E), NEW i \in DOMAIN s
  PROVE  Turn(s, i) \in 0 .. Cardinality(DOMAIN s) - 1
<1>1. IsFiniteSet(DOMAIN s)
  BY Telling
<1>2. IsFiniteSet(DOMAIN s \ {i}) /\ Cardinality(DOMAIN s \ {i}) = Cardinality(DOMAIN s) - 1
  BY <1>1, FS_RemoveElement
<1>3. ~Before(s, i, i)
  BY BeforeOrders
<1>4. Sooner(s, i) \in SUBSET (DOMAIN s \ {i})
  BY <1>3 DEF Sooner
<1>5. IsFiniteSet(Sooner(s, i)) /\ Cardinality(Sooner(s, i)) <= Cardinality(DOMAIN s) - 1
  BY <1>2, <1>4, FS_Subset
<1>6. Cardinality(Sooner(s, i)) \in Nat /\ Cardinality(DOMAIN s) \in Nat
  BY <1>1, <1>5, FS_CardinalityType
<1>7. Turn(s, i) = Cardinality(Sooner(s, i))
  BY SoonerIsFinite
<1> QED  BY <1>5, <1>6, <1>7

\* Where the n-th row of the retold stream was.
Pick(s, n) == CHOOSE i \in DOMAIN s : Turn(s, i) = n - 1

LEMMA Picked ==
  ASSUME NEW E, HasInts(E), NEW s, Tells(s, E)
  PROVE  /\ \A n \in DOMAIN s : Pick(s, n) \in DOMAIN s /\ Turn(s, Pick(s, n)) = n - 1
         /\ \A i \in DOMAIN s : \E n \in DOMAIN s : Pick(s, n) = i
<1> DEFINE D == DOMAIN s
<1> DEFINE f == [i \in D |-> Turn(s, i)]
<1>1. Len(s) \in Nat /\ D = 1 .. Len(s)
  BY LenProperties DEF Tells
<1>2. IsFiniteSet(D) /\ Cardinality(D) = Len(s)
  <2>1. PICK n \in Nat : n = Len(s)
    BY <1>1
  <2> HIDE DEF f, D
  <2>2. IsFiniteSet(1 .. n) /\ Cardinality(1 .. n) = n
    BY FS_Interval
  <2> QED  BY <1>1, <2>1, <2>2
<1>3. \A i \in D : Turn(s, i) \in 0 .. Cardinality(D) - 1
  BY TurnIsNumber
<1>4. \A i, j \in D : Turn(s, i) = Turn(s, j) => i = j
  <2> SUFFICES ASSUME NEW i \in D, NEW j \in D, Turn(s, i) = Turn(s, j), i # j PROVE FALSE
    OBVIOUS
  <2>1. Turn(s, i) \in Int /\ Turn(s, j) \in Int
    BY <1>3
  <2>2. Before(s, i, j) \/ Before(s, j, i)
    BY BeforeOrders
  <2>3. Turn(s, i) < Turn(s, j) \/ Turn(s, j) < Turn(s, i)
    BY <2>2, TurnRises
  <2> QED  BY <2>1, <2>3
<1>5. f \in [D -> 0 .. Cardinality(D) - 1] /\ \A i, j \in D : f[i] = f[j] => i = j
  BY <1>3, <1>4
<1>6. \A n \in 0 .. Cardinality(D) - 1 : \E i \in D : f[i] = n
  <2> HIDE DEF f, D
  <2> QED  BY <1>2, <1>5, AllReached
<1>7. ASSUME NEW n \in D PROVE Pick(s, n) \in D /\ Turn(s, Pick(s, n)) = n - 1
  <2>1. n - 1 \in 0 .. Cardinality(D) - 1
    BY <1>1, <1>2
  <2>2. \E i \in D : Turn(s, i) = n - 1
    BY <1>6, <2>1
  <2> QED  BY <2>2 DEF Pick
<1>8. ASSUME NEW i \in D PROVE \E n \in D : Pick(s, n) = i
  <2>1. PICK n : n = Turn(s, i) + 1
    OBVIOUS
  <2>2. Turn(s, i) \in 0 .. Cardinality(D) - 1
    BY <1>3
  <2>3. n \in D /\ n - 1 = Turn(s, i)
    BY <1>1, <1>2, <2>1, <2>2
  <2>4. Turn(s, Pick(s, n)) = Turn(s, i) /\ Pick(s, n) \in D
    BY <1>7, <2>3
  <2> QED  BY <1>4, <2>3, <2>4
<1> QED  BY <1>7, <1>8

\* Retold() tells the same events.
LEMMA RetoldTells ==
  ASSUME NEW E, HasInts(E), NEW s, Tells(s, E)
  PROVE  Tells(Retold(s), E)
<1> DEFINE r == Retold(s)
<1>1. Len(s) \in Nat /\ DOMAIN s = 1 .. Len(s)
  BY LenProperties DEF Tells
<1>2. r = [n \in DOMAIN s |-> s[Pick(s, n)]]
  BY DEF Retold, Pick
<1>3. DOMAIN r = DOMAIN s /\ \A n \in DOMAIN s : r[n] = s[Pick(s, n)]
  BY <1>2
<1>4. \A n \in DOMAIN s : Pick(s, n) \in DOMAIN s /\ Turn(s, Pick(s, n)) = n - 1
  BY Picked
<1>5. \A i \in DOMAIN s : \E n \in DOMAIN s : Pick(s, n) = i
  BY Picked
<1>6. \A i \in DOMAIN s : s[i] \in E /\ s[i].source \in Int /\ i \in Int
  BY Telling DEF HasInts
<1>7. r \in [1 .. Len(s) -> E]
  BY <1>1, <1>2, <1>4, <1>6
<1> HIDE DEF r
<1>8. r \in Seq(E)
  BY <1>1, <1>7, SeqDef
<1>9. \A e \in E : \E n \in DOMAIN r : r[n] = e
  <2> SUFFICES ASSUME NEW e \in E PROVE \E n \in DOMAIN r : r[n] = e
    OBVIOUS
  <2>1. PICK i \in DOMAIN s : s[i] = e
    BY DEF Tells
  <2>2. PICK n \in DOMAIN s : Pick(s, n) = i
    BY <1>5
  <2> QED  BY <1>3, <2>1, <2>2
<1>10. ASSUME NEW m \in DOMAIN r, NEW n \in DOMAIN r, r[m] = r[n] PROVE m = n
  <2>1. Pick(s, m) = Pick(s, n)
    BY <1>3, <1>4, <1>10 DEF Tells
  <2>2. m - 1 = n - 1 /\ m \in Int /\ n \in Int
    BY <1>3, <1>4, <1>6, <2>1
  <2> QED  BY <2>2
<1>11. ASSUME NEW m \in DOMAIN r, NEW n \in DOMAIN r, m <= n
       PROVE  r[m].source <= r[n].source
  <2>1. SUFFICES ASSUME ~(r[m].source <= r[n].source) PROVE FALSE
    OBVIOUS
  <2>2. PICK i \in DOMAIN s : i = Pick(s, m) /\ Turn(s, i) = m - 1 /\ r[m] = s[i]
    BY <1>3, <1>4
  <2>3. PICK j \in DOMAIN s : j = Pick(s, n) /\ Turn(s, j) = n - 1 /\ r[n] = s[j]
    BY <1>3, <1>4
  <2>4. Before(s, j, i)
    BY <1>6, <2>1, <2>2, <2>3 DEF Before
  <2>5. Turn(s, j) < Turn(s, i)
    BY <2>4, TurnRises
  <2>6. m \in Int /\ n \in Int
    BY <1>3, <1>6
  <2> QED  BY <1>11, <2>2, <2>3, <2>5, <2>6
<1>12. BySource(r)
  BY <1>11 DEF BySource
<1> QED  BY <1>8, <1>9, <1>10, <1>12 DEF Tells, r

\* The table of the accepted events tells them.
RowsOf(s) == {s[i] : i \in DOMAIN s}

LEMMA TableTells ==
  ASSUME NEW b \in Bundles, NEW s \in Seq(b), OnePerKey(s), BySource(s)
  PROVE  HasInts(RowsOf(s)) /\ Tells(s, RowsOf(s))
<1>1. Len(s) \in Nat /\ DOMAIN s = 1 .. Len(s)
      /\ \A i \in DOMAIN s : s[i] \in b /\ s[i] \in RowsOf(s)
  BY LenProperties, ElementOfSeq DEF RowsOf
<1>2. s \in [1 .. Len(s) -> b]
  BY LenProperties
<1>3. s \in [1 .. Len(s) -> RowsOf(s)]
  BY <1>1, <1>2
<1>4. s \in Seq(RowsOf(s))
  BY <1>1, <1>3, SeqDef
<1>5. HasInts(RowsOf(s))
  BY <1>1, BundleEvents DEF HasInts, RowsOf
<1>6. \A i, j \in DOMAIN s : s[i] = s[j] => i = j
  BY DEF OnePerKey
<1>7. \A e \in RowsOf(s) : \E i \in DOMAIN s : s[i] = e
  BY DEF RowsOf
<1> QED  BY <1>4, <1>5, <1>6, <1>7 DEF Tells

\* ReportIgnoresArrivalOrder: delayed, repeated or out of order, the feed leaves the
\* same reports as the events in source order.
THEOREM ArrivalOrderIgnored == StreamSpec => []ReportIgnoresArrivalOrder
<1>1. TableInv => ReportIgnoresArrivalOrder
  <2> SUFFICES ASSUME TableInv, NEW cid, Untied(Told, cid)
               PROVE  Report(accepted, cid) = Report(Retold(accepted), cid)
    BY DEF ReportIgnoresArrivalOrder
  <2>1. HasInts(Told) /\ Tells(accepted, Told)
    BY TableTells DEF TableInv, Told, RowsOf
  <2>2. Tells(Retold(accepted), Told)
    BY <2>1, RetoldTells
  <2> QED  BY <2>1, <2>2, ReportOfTheEvents
<1> QED  BY <1>1, StreamInductive, PTL DEF StreamInv

-----------------------------------------------------------------------------
(* The fault at the time of a sample.                                      *)

LEMMA SampleTimesFinite ==
  ASSUME NEW E, HasInts(E), NEW s, Tells(s, E), NEW cid
  PROVE  SampleTimes(s, cid) \in SUBSET Int /\ IsFiniteSet(SampleTimes(s, cid))
<1> DEFINE I == Of("telemetry_observation", s, cid)
<1> DEFINE T == SampleTimes(s, cid)
<1> DEFINE f == [t \in T |-> CHOOSE i \in I : s[i].source = t]
<1>1. IsFiniteSet(I)
  BY OfIsFinite
<1>2. \A t \in T : f[t] \in I /\ s[f[t]].source = t
  BY DEF SampleTimes
<1>3. f \in [T -> I] /\ \A t, u \in T : f[t] = f[u] => t = u
  BY <1>2
<1>4. \A t \in T : t \in Int
  BY Telling DEF SampleTimes, Of, HasInts
<1> HIDE DEF f, I, T
<1>5. IsFiniteSet(T)
  BY <1>1, <1>3, NotMore
<1> QED  BY <1>4, <1>5 DEF T

\* The observations carry the fault exactly when it bears the time of a sample.
LEMMA FaultSeen ==
  ASSUME NEW E, HasInts(E), NEW s, Tells(s, E), NEW cid
  PROVE  FaultIn(ObservationsFrom(s, cid))
           <=> \E t \in SampleTimes(s, cid) : t \in FaultTimes(s, cid)
<1> DEFINE obs == ObservationsFrom(s, cid)
<1> DEFINE times == InOrder(SampleTimes(s, cid))
<1>1. Ascends(times, SampleTimes(s, cid))
  BY SampleTimesFinite, InOrderAscends
<1>2. DOMAIN obs = DOMAIN times /\ \A n \in DOMAIN times : obs[n] = ObservationAt(times[n], s, cid)
  BY DEF ObservationsFrom
<1>3. \A t : ObservationAt(t, s, cid).fault # NoCode <=> t \in FaultTimes(s, cid)
  BY StreamAssumption DEF ObservationAt, CycleFault
<1> HIDE DEF obs, times
<1>4. ASSUME NEW n \in DOMAIN obs, obs[n].fault # NoCode
      PROVE  \E t \in SampleTimes(s, cid) : t \in FaultTimes(s, cid)
  <2>1. times[n] \in SampleTimes(s, cid)
    BY <1>1, <1>2, <1>4 DEF Ascends
  <2>2. times[n] \in FaultTimes(s, cid)
    BY <1>2, <1>3, <1>4
  <2> QED  BY <2>1, <2>2
<1>5. ASSUME NEW t \in SampleTimes(s, cid), t \in FaultTimes(s, cid)
      PROVE  \E n \in DOMAIN obs : obs[n].fault # NoCode
  <2>1. PICK n \in DOMAIN times : times[n] = t
    BY <1>1, <1>5 DEF Ascends
  <2>2. obs[n].fault # NoCode /\ n \in DOMAIN obs
    BY <1>2, <1>3, <1>5, <2>1
  <2> QED  BY <2>2
<1> QED  BY <1>4, <1>5 DEF FaultIn, obs

LEMMA FailedIffFault ==
  ASSUME NEW obs, NEW trust, NEW comparability
  PROVE  Propose(obs, trust, comparability) = "failed" <=> FaultIn(obs)
<1>1. CASE FaultIn(obs)
  BY <1>1 DEF Propose
<1>2. CASE ~FaultIn(obs)
  <2> DEFINE rung == Rung(obs, TrailingClean(obs))
  <2>1. Propose(obs, trust, comparability) \in {"insufficient_evidence", "verified", "in_progress"}
    <3> HIDE DEF rung
    <3> QED  BY <1>2 DEF Propose, rung
  <2> QED  BY <1>2, <2>1
<1> QED  BY <1>1, <1>2

\* More events, more times.
LEMMA MoreTimes ==
  ASSUME NEW E, NEW F, E \subseteq F, NEW s, NEW t, Tells(s, E), Tells(t, F), NEW cid
  PROVE  /\ SampleTimes(s, cid) \subseteq SampleTimes(t, cid)
         /\ FaultTimes(s, cid) \subseteq FaultTimes(t, cid)
<1>1. \A type : \A i \in Of(type, s, cid) : \E j \in Of(type, t, cid) : t[j] = s[i]
  <2> SUFFICES ASSUME NEW type, NEW i \in Of(type, s, cid)
               PROVE  \E j \in Of(type, t, cid) : t[j] = s[i]
    OBVIOUS
  <2>1. i \in DOMAIN s /\ s[i].cid = cid /\ Is(type, s[i])
    BY DEF Of
  <2>2. s[i] \in F
    BY <2>1, Telling
  <2>3. PICK j \in DOMAIN t : t[j] = s[i]
    BY <2>2 DEF Tells
  <2> QED  BY <2>1, <2>3 DEF Of
<1>2. SampleTimes(s, cid) \subseteq SampleTimes(t, cid)
  BY <1>1 DEF SampleTimes
<1>3. FaultTimes(s, cid) \subseteq FaultTimes(t, cid)
  BY <1>1 DEF FaultTimes
<1> QED  BY <1>2, <1>3

\* Accepted events stay accepted.
LEMMA ToldGrows ==
  ASSUME TableInv, [StreamNext]_vars
  PROVE  Told \subseteq Told'
<1>1. CASE UNCHANGED accepted
  BY <1>1 DEF Told
<1>2. ASSUME NEW e \in bundle, NEW readable \in BOOLEAN, Receive(e, readable)
      PROVE  UNCHANGED accepted \/ Told \subseteq Told'
  <2>1. CASE Unmappable(e)
    BY <2>1 DEF Unmappable
  <2>2. CASE Duplicate(e)
    BY <2>2 DEF Duplicate
  <2>3. CASE Accept(e)
    <3>1. With(accepted', accepted, e, Place(accepted, e))
      BY <1>2, <2>3, Deliveries, Accepted
    <3>2. \A i \in DOMAIN accepted : \E j \in DOMAIN accepted' : accepted'[j] = accepted[i]
      BY <3>1, WithRows
    <3> QED  BY <3>2 DEF Told
  <2> QED  BY <1>2, <2>1, <2>2, <2>3, Deliveries
<1> QED  BY <1>1, <1>2 DEF StreamNext, vars, reconciler

\* The sample and the fault of a relapse are events of the stream.
LEMMA RelapseTimes ==
  ASSUME NEW E, NEW s, Tells(s, E), NEW cid, RelapseSampled(E, cid)
  PROVE  \E t \in SampleTimes(s, cid) : t \in FaultTimes(s, cid)
<1>1. PICK d \in E, e \in E :
        /\ Is("machine_event", d) /\ d.cid = cid /\ d.code = MonitoredFault
        /\ Is("telemetry_observation", e) /\ e.cid = cid /\ e.source = d.source
  BY DEF RelapseSampled
<1>2. PICK i \in DOMAIN s : s[i] = d
  BY DEF Tells
<1>3. PICK j \in DOMAIN s : s[j] = e
  BY DEF Tells
<1>4. d.source \in FaultTimes(s, cid)
  BY <1>1, <1>2 DEF FaultTimes, Of
<1>5. d.source \in SampleTimes(s, cid)
  BY <1>1, <1>3 DEF SampleTimes, Of
<1> QED  BY <1>4, <1>5

FailedRule ==
  \A cid \in Cids(accepted') :
    /\ cid \in Cids(accepted) /\ Report(accepted, cid).proposed = "failed"
         => Report(accepted', cid).proposed = "failed"
    /\ RelapseSampled(Told', cid)
         => ~FalseVerification(Report(accepted', cid))

\* FailedStaysFailed: what arrives later never takes a fault back that was seen at
\* the time of a sample, and what was seen is never verified.
THEOREM FailedIsFinal == StreamSpec => FailedStaysFailed
<1>1. ASSUME TableInv, TableInv', [StreamNext]_vars,
             NEW cid \in Cids(accepted)
      PROVE  Report(accepted, cid).proposed = "failed"
               => Report(accepted', cid).proposed = "failed"
  <2>1. HasInts(Told) /\ Tells(accepted, Told)
    BY <1>1, TableTells DEF TableInv, Told, RowsOf
  <2>2. HasInts(Told') /\ Tells(accepted', Told')
    BY <1>1, TableTells DEF TableInv, Told, RowsOf
  <2>3. Told \subseteq Told'
    BY <1>1, ToldGrows
  <2>4. /\ SampleTimes(accepted, cid) \subseteq SampleTimes(accepted', cid)
        /\ FaultTimes(accepted, cid) \subseteq FaultTimes(accepted', cid)
    BY <2>1, <2>2, <2>3, MoreTimes
  <2>5. FaultIn(ObservationsFrom(accepted, cid)) => FaultIn(ObservationsFrom(accepted', cid))
    BY <2>1, <2>2, <2>4, FaultSeen
  <2> QED  BY <2>5, FailedIffFault DEF Report
<1>2. ASSUME TableInv', NEW cid, RelapseSampled(Told', cid)
      PROVE  ~FalseVerification(Report(accepted', cid))
  <2>1. HasInts(Told') /\ Tells(accepted', Told')
    BY <1>2, TableTells DEF TableInv, Told, RowsOf
  <2>2. FaultIn(ObservationsFrom(accepted', cid))
    BY <1>2, <2>1, RelapseTimes, FaultSeen
  <2>3. Report(accepted', cid).proposed = "failed"
    BY <2>2, FailedIffFault DEF Report
  <2> QED  BY <2>3 DEF FalseVerification
<1>3. StreamInv /\ StreamInv' /\ [StreamNext]_vars => FailedRule
  BY <1>1, <1>2 DEF StreamInv, FailedRule
<1> QED  BY <1>3, StreamInductive, PTL DEF StreamSpec, FailedStaysFailed, FailedRule
=============================================================================
