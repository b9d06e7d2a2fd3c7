-------------------------- MODULE OutboxRelay_proofs --------------------------
(***************************************************************************)
(* Proofs about OutboxRelay, for any number of events, poison events,      *)
(* batch size, attempts and crashes, and any overlap of requests with the  *)
(* drain.                                                                  *)
(***************************************************************************)
EXTENDS OutboxRelay, FiniteSetTheorems, WellFoundedInduction, TLAPS

-----------------------------------------------------------------------------
(* The batch.                                                              *)

\* A set of numbers up to n that is not empty has a largest one.
LEMMA LargestNumber ==
  ASSUME NEW n \in Nat, NEW T, T \subseteq 1 .. n, T # {}
  PROVE  \E x \in T : \A y \in T : y <= x
<1> DEFINE R == {ss \in Nat \X Nat : ss[1] < ss[2]}
           D == {n - x : x \in T}
<1>1. IsWellFoundedOn(R, Nat)
  BY NatLessThanWellFounded DEF OpToRel
<1>2. \A x, y \in Nat : y < x => <<y, x>> \in R
  OBVIOUS
<1>3. D \subseteq Nat /\ D # {}
  <2>1. \A x \in T : n - x \in Nat
    BY SMT
  <2>2. PICK x \in T : TRUE
    OBVIOUS
  <2>3. n - x \in D
    OBVIOUS
  <2>4. D \subseteq Nat
    BY <2>1
  <2> QED  BY <2>3, <2>4
<1>4. PICK d \in D : \A y \in D : ~(<<y, d>> \in R)
  <2> HIDE DEF R, D
  <2> QED  BY <1>1, <1>3, WFMin
<1>5. PICK x \in T : d = n - x
  BY <1>4
<1>6. ASSUME NEW y \in T PROVE y <= x
  <2>1. n - y \in D /\ n - y \in Nat /\ d \in Nat
    BY <1>3
  <2>2. ~(n - y < d)
    <3> HIDE DEF R, D
    <3> QED  BY <1>2, <1>4, <2>1
  <2> QED  BY <1>5, <2>2
<1> QED  BY <1>6

LEMMA EventsFinite == IsFiniteSet(Events) /\ Events \subseteq Nat /\ N \in Nat
BY FS_Interval, OutboxAssumption DEF Events

\* The LIMIT of the query: a drain never takes more rows than it.
LEMMA OldestFit ==
  ASSUME NEW S \in SUBSET Events
  PROVE  Oldest(S) \subseteq S /\ Cardinality(Oldest(S)) <= Limit
<1>1. Oldest(S) \subseteq S
  BY DEF Oldest
<1>2. CASE Oldest(S) = {}
  BY <1>1, <1>2, FS_EmptySet, OutboxAssumption
<1>3. CASE Oldest(S) # {}
  <2>1. PICK x \in Oldest(S) : \A y \in Oldest(S) : y <= x
    BY <1>1, <1>3, EventsFinite, LargestNumber DEF Events
  <2> DEFINE upto == {d \in S : d <= x}
  <2>2. Oldest(S) \subseteq upto /\ Cardinality(upto) <= Limit
    BY <1>1, <2>1 DEF Oldest
  <2>3. IsFiniteSet(upto)
    BY EventsFinite, FS_Subset
  <2>4. Cardinality(Oldest(S)) <= Cardinality(upto)
    BY <2>2, <2>3, FS_Subset
  <2>5. Cardinality(upto) \in Nat /\ IsFiniteSet(Oldest(S))
    BY <2>2, <2>3, FS_CardinalityType, FS_Subset
  <2>6. Cardinality(Oldest(S)) \in Nat
    BY <2>5, FS_CardinalityType
  <2> QED  BY <1>1, <2>2, <2>4, <2>5, <2>6, OutboxAssumption
<1> QED  BY <1>1, <1>2, <1>3

LEMMA SmallerBatch ==
  ASSUME NEW B \in SUBSET Events, Cardinality(B) <= Limit, NEW e
  PROVE  Cardinality(B \ {e}) <= Limit
<1>1. IsFiniteSet(B)
  BY EventsFinite, FS_Subset
<1>2. /\ Cardinality(B) \in Nat
      /\ Cardinality(B \ {e}) = IF e \in B THEN Cardinality(B) - 1 ELSE Cardinality(B)
  BY <1>1, FS_CardinalityType, FS_RemoveElement
<1> QED  BY <1>2, OutboxAssumption

LEMMA EmptyBatch == Cardinality(NoBatch) <= Limit
BY FS_EmptySet, OutboxAssumption DEF NoBatch

-----------------------------------------------------------------------------
(* What the drain holds is true of the rows.                               *)

\* OutboxTellsTheTruth and DuplicatesCostACrash are not inductive by themselves:
\* what a drain will commit must be true before it commits it.  An event was
\* delivered at most once per crash as long as its row, or what the drain noted
\* of it, still asks for a delivery; and only pending rows are handed over.
Heard(e) == e \in DOMAIN noted /\ noted[e] = "published"

EventInv(e) ==
  /\ status[e] \notin Committed => delivered[e] = 0
  /\ status[e] \notin {"published", "failed"} => attempts[e] < MaxAttempts
  /\ status[e] = "published" => delivered[e] > 0
  /\ status[e] = "failed" => attempts[e] = MaxAttempts
  /\ delivered[e] <= IF status[e] = "pending" /\ ~Heard(e) THEN crashes ELSE 1 + crashes

NoteInv(e) ==
  /\ status[e] = "pending" /\ e \notin batch
  /\ noted[e] = "pending" => attempts[e] + 1 < MaxAttempts
  /\ noted[e] = "published" => delivered[e] > 0
  /\ noted[e] = "failed" => attempts[e] + 1 = MaxAttempts

RelayInv ==
  /\ \A e \in Events : EventInv(e)
  /\ \A e \in batch : status[e] = "pending"
  /\ \A e \in DOMAIN noted : NoteInv(e)

IInv == TypeOK /\ RelayInv

\* publish_outbox() and the end of a request: an event not yet committed is in no
\* drain and was never delivered.
LEMMA RequestStep ==
  ASSUME IInv, NEW e \in Events, Publish(e) \/ EndRequest(e, "pending") \/ EndRequest(e, "undone")
  PROVE  IInv'
<1>1. PICK s \in {"open", "pending", "undone"} : status' = [status EXCEPT ![e] = s]
  BY DEF Publish, EndRequest
<1>2. status[e] \notin Committed /\ UNCHANGED <<attempts, batch, noted, delivered, crashes>>
  BY DEF Publish, EndRequest, Committed
<1>3. TypeOK'
  BY <1>1, <1>2 DEF IInv, TypeOK, Committed
<1>4. e \notin batch /\ e \notin DOMAIN noted
  BY <1>2 DEF IInv, RelayInv, NoteInv, Committed
<1>5. delivered[e] = 0 /\ attempts[e] < MaxAttempts /\ crashes \in Nat
  BY <1>2 DEF IInv, TypeOK, RelayInv, EventInv, Committed
<1>6. ASSUME NEW d \in Events PROVE EventInv(d)'
  <2>1. CASE d = e
    <3>1. status'[d] = s
      BY <1>1, <2>1 DEF IInv, TypeOK
    <3> QED  BY <1>1, <1>2, <1>4, <1>5, <2>1, <3>1 DEF EventInv, Heard, Committed
  <2>2. CASE d # e
    BY <1>1, <1>2, <2>2 DEF IInv, TypeOK, RelayInv, EventInv, Heard
  <2> QED  BY <2>1, <2>2
<1>7. RelayInv'
  BY <1>1, <1>2, <1>4, <1>6 DEF IInv, TypeOK, RelayInv, NoteInv
<1> QED  BY <1>3, <1>7 DEF IInv

LEMMA StartStep == IInv /\ StartDrain => IInv'
<1> SUFFICES ASSUME IInv, StartDrain PROVE IInv'
  OBVIOUS
<1>1. /\ batch' = Oldest(Pending) /\ noted = Nothing
      /\ UNCHANGED <<status, attempts, noted, delivered, crashes>>
  BY DEF StartDrain, Idle, rows
<1>2. Pending \in SUBSET Events
  BY DEF Pending
<1>3. batch' \subseteq Pending /\ Cardinality(batch') <= Limit
  BY <1>1, <1>2, OldestFit
<1>4. TypeOK'
  BY <1>1, <1>2, <1>3 DEF IInv, TypeOK
<1>5. DOMAIN noted = {}
  BY <1>1 DEF Nothing
<1>6. RelayInv'
  BY <1>1, <1>3, <1>5 DEF IInv, RelayInv, EventInv, Heard, Pending
<1> QED  BY <1>4, <1>6 DEF IInv

\* The sink is asked about the oldest row of the batch, and the drain notes the
\* answer, which no other session sees yet.
LEMMA NoteKeeps ==
  ASSUME IInv, NEW e \in Events, NEW s \in Committed, Note(e, s)
  PROVE  /\ noted'[e] = s /\ DOMAIN noted' = DOMAIN noted \cup {e}
         /\ \A d \in DOMAIN noted : d # e /\ noted'[d] = noted[d]
         /\ batch' = batch \ {e} /\ e \in batch /\ e \notin DOMAIN noted
         /\ status[e] = "pending" /\ UNCHANGED <<status, attempts, crashes>>
         /\ \A d \in Events : d # e => Heard(d)' = Heard(d)
         /\ ~Heard(e)
BY DEF Note, IInv, RelayInv, NoteInv, rows, Heard

LEMMA NoteTyped ==
  ASSUME IInv, NEW e \in Events, NEW s \in Committed, Note(e, s),
         delivered' \in [Events -> Nat]
  PROVE  TypeOK'
<1>1. Cardinality(batch') <= Limit
  BY NoteKeeps, SmallerBatch DEF IInv, TypeOK
<1> QED  BY <1>1, NoteKeeps DEF IInv, TypeOK

LEMMA AcceptStep ==
  ASSUME IInv, NEW e \in Events, SinkAccepts(e)
  PROVE  IInv'
<1>1. Note(e, "published") /\ "published" \in Committed
      /\ delivered' = [delivered EXCEPT ![e] = @ + 1]
  BY DEF SinkAccepts, Committed
<1>2. /\ noted'[e] = "published" /\ DOMAIN noted' = DOMAIN noted \cup {e}
      /\ \A d \in DOMAIN noted : d # e /\ noted'[d] = noted[d]
      /\ batch' = batch \ {e} /\ e \in batch /\ e \notin DOMAIN noted
      /\ status[e] = "pending" /\ UNCHANGED <<status, attempts, crashes>>
      /\ \A d \in Events : d # e => Heard(d)' = Heard(d)
      /\ ~Heard(e)
  BY <1>1, NoteKeeps
<1>3. /\ delivered' \in [Events -> Nat] /\ delivered'[e] = delivered[e] + 1
      /\ \A d \in Events : d # e => delivered'[d] = delivered[d]
      /\ delivered \in [Events -> Nat] /\ crashes \in Nat
  BY <1>1 DEF IInv, TypeOK
<1>4. TypeOK'
  BY <1>1, <1>3, NoteTyped
<1>5. ASSUME NEW d \in Events PROVE EventInv(d)'
  <2>1. EventInv(d)
    BY DEF IInv, RelayInv
  <2>2. CASE d = e
    <3>1. delivered[e] <= crashes /\ Heard(e)' /\ attempts[e] < MaxAttempts
      BY <1>2, <2>1, <2>2 DEF EventInv, Heard
    <3>2. delivered'[e] <= 1 + crashes /\ delivered'[e] > 0
      BY <1>3, <3>1
    <3> QED  BY <1>2, <2>2, <3>1, <3>2 DEF EventInv, Committed
  <2>3. CASE d # e
    BY <1>2, <1>3, <2>1, <2>3 DEF EventInv
  <2> QED  BY <2>2, <2>3
<1>6. ASSUME NEW d \in DOMAIN noted' PROVE NoteInv(d)'
  <2>1. CASE d = e
    BY <1>2, <1>3, <2>1 DEF NoteInv
  <2>2. CASE d # e
    <3>1. d \in DOMAIN noted /\ NoteInv(d) /\ d \in Events
      BY <1>2, <2>2 DEF IInv, RelayInv, TypeOK
    <3> QED  BY <1>2, <1>3, <2>2, <3>1 DEF NoteInv
  <2> QED  BY <2>1, <2>2
<1>7. RelayInv'
  BY <1>2, <1>5, <1>6 DEF IInv, RelayInv
<1> QED  BY <1>4, <1>7 DEF IInv

LEMMA RaiseStep ==
  ASSUME IInv, NEW e \in Events, SinkRaises(e)
  PROVE  IInv'
<1>1. PICK s \in {"pending", "failed"} :
        /\ Note(e, s)
        /\ s = IF attempts[e] + 1 >= MaxAttempts THEN "failed" ELSE "pending"
  BY DEF SinkRaises
<1>2. s \in Committed /\ UNCHANGED delivered
  BY DEF SinkRaises, Committed
<1>3. /\ noted'[e] = s /\ DOMAIN noted' = DOMAIN noted \cup {e}
      /\ \A d \in DOMAIN noted : d # e /\ noted'[d] = noted[d]
      /\ batch' = batch \ {e} /\ e \in batch /\ e \notin DOMAIN noted
      /\ status[e] = "pending" /\ UNCHANGED <<status, attempts, crashes>>
      /\ \A d \in Events : d # e => Heard(d)' = Heard(d)
      /\ ~Heard(e)
  BY <1>1, <1>2, NoteKeeps
<1>4. TypeOK'
  BY <1>1, <1>2, NoteTyped DEF IInv, TypeOK
<1>5. ASSUME NEW d \in Events PROVE EventInv(d)'
  <2>1. EventInv(d)
    BY DEF IInv, RelayInv
  <2>2. Heard(d)' = Heard(d)
    BY <1>3 DEF Heard
  <2> QED  BY <1>2, <1>3, <2>1, <2>2 DEF EventInv
<1>6. attempts[e] < MaxAttempts /\ attempts[e] \in Nat /\ MaxAttempts \in Nat
  BY <1>3, OutboxAssumption DEF IInv, TypeOK, RelayInv, EventInv
<1>7. ASSUME NEW d \in DOMAIN noted' PROVE NoteInv(d)'
  <2>1. CASE d = e
    BY <1>1, <1>3, <1>6, <2>1 DEF NoteInv
  <2>2. CASE d # e
    <3>1. d \in DOMAIN noted /\ NoteInv(d)
      BY <1>3, <2>2 DEF IInv, RelayInv
    <3> QED  BY <1>2, <1>3, <2>2, <3>1 DEF NoteInv
  <2> QED  BY <2>1, <2>2
<1>8. RelayInv'
  BY <1>3, <1>5, <1>7 DEF IInv, RelayInv
<1> QED  BY <1>4, <1>8 DEF IInv

\* The commit of the drain makes true of the rows what was true of the notes.
LEMMA CommitStep == IInv /\ CommitDrain => IInv'
<1> SUFFICES ASSUME IInv, CommitDrain PROVE IInv'
  OBVIOUS
<1>1. /\ \A e \in Events : status'[e] = IF e \in DOMAIN noted THEN noted[e] ELSE status[e]
      /\ \A e \in Events :
           attempts'[e] = IF e \in DOMAIN noted THEN attempts[e] + 1 ELSE attempts[e]
      /\ DOMAIN noted' = {} /\ batch = {}
      /\ UNCHANGED <<batch, delivered, crashes>>
  BY DEF CommitDrain, Handled, Nothing, NoBatch
<1>2. ASSUME NEW e \in Events PROVE EventInv(e)' /\ attempts'[e] \in 0 .. MaxAttempts
  <2>1. EventInv(e) /\ attempts[e] \in Nat /\ delivered[e] \in Nat /\ crashes \in Nat
        /\ MaxAttempts \in Nat /\ attempts[e] <= MaxAttempts
    BY OutboxAssumption DEF IInv, TypeOK, RelayInv
  <2>2. ~Heard(e)'
    BY <1>1 DEF Heard
  <2>3. CASE e \notin DOMAIN noted
    <3>1. ~Heard(e) /\ status'[e] = status[e] /\ attempts'[e] = attempts[e]
      BY <1>1, <2>3 DEF Heard
    <3> QED  BY <1>1, <2>1, <2>2, <3>1 DEF EventInv
  <2>4. CASE e \in DOMAIN noted
    <3>1. NoteInv(e) /\ noted[e] \in Committed
      BY <2>4 DEF IInv, RelayInv, TypeOK
    <3>2. status'[e] = noted[e] /\ attempts'[e] = attempts[e] + 1 /\ attempts[e] < MaxAttempts
      BY <1>1, <2>1, <2>4, <3>1 DEF NoteInv, EventInv
    <3>3. delivered[e] <= IF noted[e] = "published" THEN 1 + crashes ELSE crashes
      BY <2>1, <2>4, <3>1 DEF NoteInv, EventInv, Heard
    <3> QED  BY <1>1, <2>1, <2>2, <3>1, <3>2, <3>3 DEF EventInv, NoteInv, Committed
  <2> QED  BY <2>3, <2>4
<1>3. TypeOK'
  <2>1. status' \in [Events -> {"unwritten", "open", "undone"} \cup Committed]
    BY DEF CommitDrain, IInv, TypeOK
  <2>2. attempts' \in [Events -> 0 .. MaxAttempts]
    BY <1>2 DEF CommitDrain
  <2> QED  BY <1>1, <2>1, <2>2 DEF IInv, TypeOK
<1>4. RelayInv'
  BY <1>1, <1>2 DEF RelayInv
<1> QED  BY <1>3, <1>4 DEF IInv

\* A drain that published nothing is dropped: what it noted was never true of a row.
LEMMA DropStep == IInv /\ DropDrain => IInv'
<1> SUFFICES ASSUME IInv, DropDrain PROVE IInv'
  OBVIOUS
<1>1. /\ UNCHANGED <<status, attempts, batch, delivered, crashes>>
      /\ DOMAIN noted' = {} /\ batch = {}
  BY DEF DropDrain, Handled, Nothing, NoBatch, rows
<1>2. \A e \in Events : ~Heard(e) /\ ~Heard(e)'
  BY <1>1 DEF DropDrain, Progressed, Heard
<1>3. TypeOK'
  BY <1>1 DEF IInv, TypeOK
<1>4. RelayInv'
  BY <1>1, <1>2 DEF IInv, RelayInv, EventInv
<1> QED  BY <1>3, <1>4 DEF IInv

\* What the sink took and the crash forgot is delivered once more: the crash pays.
LEMMA CrashStep == IInv /\ Crash => IInv'
<1> SUFFICES ASSUME IInv, Crash PROVE IInv'
  OBVIOUS
<1>1. /\ UNCHANGED <<status, attempts, delivered>> /\ crashes' = crashes + 1
      /\ crashes \in Nat /\ MaxCrashes \in Nat /\ crashes < MaxCrashes
      /\ DOMAIN noted' = {} /\ batch' = {}
  BY OutboxAssumption DEF Crash, Nothing, NoBatch, rows, IInv, TypeOK
<1>2. TypeOK'
  BY <1>1, EmptyBatch DEF IInv, TypeOK, NoBatch
<1>3. ASSUME NEW e \in Events PROVE EventInv(e)'
  <2>1. EventInv(e) /\ delivered[e] \in Nat /\ ~Heard(e)'
    BY <1>1 DEF IInv, RelayInv, TypeOK, Heard
  <2>2. delivered[e] <= 1 + crashes
    BY <1>1, <2>1 DEF EventInv
  <2> QED  BY <1>1, <2>1, <2>2 DEF EventInv
<1>4. RelayInv'
  BY <1>1, <1>3 DEF RelayInv
<1> QED  BY <1>2, <1>4 DEF IInv

LEMMA Inductive == IInv /\ [Next]_vars => IInv'
<1> SUFFICES ASSUME IInv, [Next]_vars PROVE IInv'
  OBVIOUS
<1>1. CASE UNCHANGED vars
  BY <1>1 DEF vars, rows, IInv, TypeOK, RelayInv, EventInv, NoteInv, Heard
<1> QED
  BY <1>1, RequestStep, StartStep, AcceptStep, RaiseStep, CommitStep, DropStep, CrashStep
  DEF Next, HandOver, FinishDrain

LEMMA Invariant == Spec => []IInv
<1>1. Init => IInv
  <2> SUFFICES ASSUME Init PROVE IInv
    OBVIOUS
  <2>1. DOMAIN noted = {} /\ batch = {} /\ MaxAttempts \in Nat \ {0}
    BY OutboxAssumption DEF Init, Nothing, NoBatch
  <2>2. TypeOK
    BY <2>1, EmptyBatch, OutboxAssumption DEF Init, TypeOK
  <2>3. RelayInv
    BY <2>1 DEF Init, RelayInv, EventInv, Heard, Committed
  <2> QED  BY <2>2, <2>3 DEF IInv
<1> QED  BY <1>1, Inductive, PTL DEF Spec

-----------------------------------------------------------------------------
(* What the relay promises.                                                *)

\* Rows, notes and counters stay what they can be; in particular no drain holds
\* more than Limit rows and no row is tried more than MaxAttempts times.
THEOREM TypeCorrect == Spec => []TypeOK
BY Invariant, PTL DEF IInv

\* However requests, drains and crashes overlap: nothing rolled back is heard of,
\* nothing unheard of is marked published, nothing is given up early.
THEOREM OutboxTruthful == Spec => []OutboxTellsTheTruth
<1>1. IInv => OutboxTellsTheTruth
  BY DEF IInv, TypeOK, RelayInv, EventInv, OutboxTellsTheTruth
<1> QED  BY <1>1, Invariant, PTL

\* The sink hears an event at most once more than the process crashed.
THEOREM DuplicatesBounded == Spec => []DuplicatesCostACrash
<1>1. IInv => DuplicatesCostACrash
  BY DEF IInv, TypeOK, RelayInv, EventInv, DuplicatesCostACrash
<1> QED  BY <1>1, Invariant, PTL

=============================================================================
