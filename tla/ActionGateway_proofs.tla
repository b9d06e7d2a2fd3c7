------------------------ MODULE ActionGateway_proofs ------------------------
(***************************************************************************)
(* Proofs about ActionGateway, for any set of requests, keys and           *)
(* correlations, and any assignment of keys and correlations to requests.  *)
(***************************************************************************)
EXTENDS ActionGateway, SequenceTheorems, FiniteSetTheorems, TLAPS

USE DEF Open, Ended

-----------------------------------------------------------------------------
(* Type correctness.                                                       *)

LEMMA RowTyped ==
  ASSUME TypeOK, NEW r \in Requests, Propose(r)
  PROVE  /\ row'[r] \in Row /\ row'[r].corr = CorrelationOf[r] /\ row'[r].by = r
         /\ \A q \in Requests : q # r => row'[q] = row[q]
         /\ row' \in [Requests -> Row \cup {None}]
         /\ IF row'[r].seq = 1 THEN row'[r].prev = None
            ELSE \E f \in audit : /\ f.corr = row'[r].corr /\ f.seq = row'[r].seq - 1
                                  /\ f.by = row'[r].prev
<1> DEFINE c == CorrelationOf[r]
           last == CHOOSE e \in LastRow(c) : TRUE
           new == IF LastRow(c) = {}
                  THEN [corr |-> c, seq |-> 1, by |-> r, prev |-> None]
                  ELSE [corr |-> c, seq |-> last.seq + 1, by |-> r, prev |-> last.by]
<1>1. row' = [row EXCEPT ![r] = new]
  BY DEF Propose
<1>2. row \in [Requests -> Row \cup {None}] /\ c \in Correlations
  BY GatewayAssumption DEF TypeOK
<1>3. LastRow(c) # {} => last \in audit /\ last.corr = c
  BY DEF LastRow, Chain
<1>4. \A e \in audit : e.seq \in Nat \ {0} /\ e.by \in Requests
  BY DEF TypeOK, Row
<1>5. new \in Row /\ new.corr = c /\ new.by = r
  <2>1. CASE LastRow(c) = {}
    BY <1>2, <2>1 DEF Row
  <2>2. CASE LastRow(c) # {}
    BY <1>2, <1>3, <1>4, <2>2 DEF Row
  <2> QED  BY <2>1, <2>2
<1>6. IF new.seq = 1 THEN new.prev = None
      ELSE \E f \in audit : f.corr = new.corr /\ f.seq = new.seq - 1 /\ f.by = new.prev
  <2>1. CASE LastRow(c) = {}
    BY <2>1
  <2>2. CASE LastRow(c) # {}
    <3>1. new.seq = last.seq + 1 /\ new.prev = last.by /\ new.corr = c
      BY <2>2
    <3>2. last.seq \in Nat \ {0} /\ last \in audit /\ last.corr = c
      BY <1>3, <1>4, <2>2
    <3> HIDE DEF new, last
    <3>3. new.seq # 1 /\ last.seq = new.seq - 1
      BY <3>1, <3>2
    <3> QED  BY <3>1, <3>2, <3>3
  <2> QED  BY <2>1, <2>2
<1> HIDE DEF new
<1>7. row'[r] = new
  BY <1>1, <1>2
<1> QED  BY <1>1, <1>2, <1>5, <1>6, <1>7

LEMMA AbortTyped ==
  ASSUME TypeOK, NEW r \in Requests, NEW how \in {"refused", "lost"}, Abort(r, how)
  PROVE  TypeOK'
BY DEF TypeOK, Abort, dbVars

\* Only a session that reached its end writes committed rows.
LEMMA CommitTyped ==
  ASSUME TypeOK, NEW r \in Requests, row[r] \in Row, Commit(r) \/ CommitReplay(r)
  PROVE  TypeOK'
<1>1. audit' \in SUBSET Row /\ pc' \in [Requests -> {"idle"} \cup Open \cup Ended]
      /\ UNCHANGED <<seen, row>>
  BY DEF TypeOK, Commit, CommitReplay, Step
<1>2. CASE Commit(r)
  <2>1. version' \in [Correlations -> Nat]
    <3>1. seen[r] + 1 \in Nat /\ CorrelationOf[r] \in Correlations
      BY GatewayAssumption DEF TypeOK
    <3>2. version' = [version EXCEPT ![CorrelationOf[r]] = seen[r] + 1]
      BY <1>2 DEF Commit
    <3> QED  BY <3>1, <3>2 DEF TypeOK
  <2>2. effects' \in Seq(Requests)
    BY <1>2, AppendProperties DEF TypeOK, Commit
  <2>3. ledger' \in [Keys -> Requests \cup {None}]
    BY <1>2, GatewayAssumption DEF TypeOK, Commit
  <2>4. proposals' \in [Requests -> ProposalStatus] /\ breaker' = Recovered
    BY <1>2 DEF TypeOK, Commit, ProposalStatus
  <2>5. breaker' \in [state : {"closed", "open"}, failures : Nat]
    BY <2>4 DEF Recovered
  <2> QED  BY <1>1, <2>1, <2>2, <2>3, <2>4, <2>5 DEF TypeOK
<1>3. CASE CommitReplay(r)
  BY <1>1, <1>3 DEF TypeOK, CommitReplay, ProposalStatus
<1> QED  BY <1>2, <1>3

-----------------------------------------------------------------------------
(* The invariant of the sessions and of what they commit.                  *)

\* The sessions that have numbered an audit row, those whose row holds its slot,
\* and those whose row is committed.
Logged  == {r \in Requests : pc[r] \in {"committed", "replayed"}}
Holders == {r \in Requests : pc[r] \in Open \ {"loaded", "proposing"}} \cup Logged
Writers == {r \in Requests : pc[r] = "proposing"} \cup Holders
Committed == {r \in Requests : pc[r] = "committed"}

Linked(e) ==
  IF e.seq = 1 THEN e.prev = None
  ELSE \E f \in audit : f.corr = e.corr /\ f.seq = e.seq - 1 /\ f.by = e.prev

\* AuditChainVerifies is not inductive: what a session is about to commit must
\* hold a free slot, and be chained to a committed row, before it is committed.
RowsInv ==
  /\ \A r \in Writers : row[r] \in Row /\ row[r].corr = CorrelationOf[r] /\ row[r].by = r
  /\ audit = {row[r] : r \in Logged}
  /\ \A q, r \in Holders : SameSlot(row[q], row[r]) => q = r
  /\ \A r \in Writers : Linked(row[r])

ChainInv ==
  \A c \in Correlations :
    /\ IsFiniteSet(Chain(c))
    /\ {e.seq : e \in Chain(c)} = 1 .. Cardinality(Chain(c))

\* Nor is OnceOnlyEffect: a request that has inserted its key is the only one.
KeysInv ==
  /\ \A k \in Keys : ledger[k] # None => ledger[k] \in Committed /\ KeyOf[ledger[k]] = k
  /\ \A r \in Committed : KeyOf[r] # None => ledger[KeyOf[r]] = r
  /\ \A r \in Requests : pc[r] = "remembered" /\ KeyOf[r] # None => ledger[KeyOf[r]] = None
  /\ \A q, r \in Requests :
       pc[q] = "remembered" /\ pc[r] = "remembered" /\ KeyOf[q] = KeyOf[r] /\ KeyOf[r] # None
         => q = r

EffectsInv ==
  /\ Executions = Committed
  /\ \A i, j \in DOMAIN effects : effects[i] = effects[j] => i = j
  /\ \A r \in Requests :
       proposals[r] = IF pc[r] = "committed" THEN "executed"
                      ELSE IF pc[r] = "replayed" THEN "proposed" ELSE "none"
  /\ breaker = Recovered

GatewayInv == RowsInv /\ ChainInv /\ KeysInv /\ EffectsInv

\* A step of a session that writes nothing shared, and neither takes an audit slot
\* nor a key, and keeps its row.
LEMMA QuietStep ==
  ASSUME TypeOK, GatewayInv, NEW r \in Requests, NEW to,
         pc' = [pc EXCEPT ![r] = to], UNCHANGED <<dbVars, row>>,
         \/ pc[r] = "idle" /\ to = "loaded"
         \/ pc[r] \in {"proposed", "executing"} /\ to \in {"replaying", "executing", "executed"}
  PROVE  GatewayInv'
<1>1. pc'[r] = to /\ \A q \in Requests : q # r => pc'[q] = pc[q]
  BY DEF TypeOK
<1>2. Logged' = Logged /\ Holders' = Holders /\ Writers' = Writers /\ Committed' = Committed
  BY <1>1 DEF Logged, Holders, Writers, Committed
<1>3. UNCHANGED <<audit, ledger, effects, proposals, breaker>>
  BY DEF dbVars
<1>4. RowsInv'
  BY <1>2, <1>3 DEF GatewayInv, RowsInv, Linked
<1>5. ChainInv'
  BY <1>3 DEF GatewayInv, ChainInv, Chain
<1>6. KeysInv'
  BY <1>1, <1>2, <1>3 DEF GatewayInv, KeysInv
<1>7. EffectsInv'
  BY <1>1, <1>2, <1>3 DEF GatewayInv, EffectsInv, Executions
<1> QED  BY <1>4, <1>5, <1>6, <1>7 DEF GatewayInv

\* record_audit(): numbered after a committed row, not yet holding its slot.
LEMMA ProposeStep ==
  ASSUME TypeOK, GatewayInv, NEW r \in Requests, Propose(r)
  PROVE  GatewayInv'
<1>1. pc[r] = "loaded" /\ pc'[r] = "proposing"
      /\ \A q \in Requests : q # r => pc'[q] = pc[q]
  BY DEF TypeOK, Propose, Step
<1>2. Logged' = Logged /\ Holders' = Holders /\ Writers' = Writers \cup {r}
      /\ Committed' = Committed /\ r \notin Writers
  BY <1>1 DEF Logged, Holders, Writers, Committed
<1>3. UNCHANGED <<audit, ledger, effects, proposals, breaker>>
  BY DEF Propose, dbVars
<1>4. Holders \subseteq Requests \ {r} /\ Logged \subseteq Requests \ {r}
      /\ Writers \subseteq Requests \ {r}
  BY <1>2 DEF Logged, Holders, Writers
<1>5. \A q \in Writers \cup Holders \cup Logged : row'[q] = row[q]
  BY <1>4, RowTyped
<1>6. RowsInv'
  <2>1. \A q \in Writers' : row'[q] \in Row /\ row'[q].corr = CorrelationOf[q] /\ row'[q].by = q
    BY <1>2, <1>5, RowTyped DEF GatewayInv, RowsInv
  <2>2. audit' = {row'[q] : q \in Logged'}
    BY <1>2, <1>3, <1>5 DEF GatewayInv, RowsInv
  <2>3. \A p, q \in Holders' : SameSlot(row'[p], row'[q]) => p = q
    BY <1>2, <1>5 DEF GatewayInv, RowsInv
  <2>4. \A q \in Writers : Linked(row[q])'
    BY <1>3, <1>5 DEF GatewayInv, RowsInv, Linked
  <2>5. Linked(row[r])'
    BY <1>3, RowTyped DEF Linked
  <2>6. \A q \in Writers' : Linked(row[q])'
    BY <1>2, <2>4, <2>5
  <2> QED  BY <2>1, <2>2, <2>3, <2>6 DEF RowsInv
<1>7. ChainInv'
  BY <1>3 DEF GatewayInv, ChainInv, Chain
<1>8. KeysInv'
  BY <1>1, <1>2, <1>3 DEF GatewayInv, KeysInv
<1>9. EffectsInv'
  BY <1>1, <1>2, <1>3 DEF GatewayInv, EffectsInv, Executions
<1> QED  BY <1>6, <1>7, <1>8, <1>9 DEF GatewayInv

\* The unique constraint: the slot is nobody's when the row is inserted.
LEMMA InsertStep ==
  ASSUME TypeOK, GatewayInv, NEW r \in Requests, InsertRow(r)
  PROVE  GatewayInv'
<1>1. pc[r] = "proposing" /\ pc'[r] = "proposed"
      /\ \A q \in Requests : q # r => pc'[q] = pc[q]
  BY DEF TypeOK, InsertRow, Step
<1>2. Logged' = Logged /\ Holders' = Holders \cup {r} /\ Writers' = Writers
      /\ Committed' = Committed
  BY <1>1 DEF Logged, Holders, Writers, Committed
<1>3. UNCHANGED <<audit, ledger, effects, proposals, breaker, row>>
  BY DEF InsertRow, dbVars
<1>4. \A q \in Holders : q # r => ~SameSlot(row[q], row[r])
  <2>1. \A q \in Logged : row[q] \in audit
    BY DEF GatewayInv, RowsInv
  <2>2. \A e \in audit : ~SameSlot(e, row[r])
    BY DEF InsertRow
  <2>3. \A q \in Requests \ {r} : pc[q] \in Open \ {"loaded", "proposing"} =>
          ~SameSlot(row[q], row[r])
    BY DEF InsertRow, RowIsHeld
  <2> QED  BY <2>1, <2>2, <2>3 DEF Holders, Logged
<1>5. RowsInv'
  <2>1. \A p, q \in Holders' : SameSlot(row[p], row[q]) => p = q
    BY <1>2, <1>4 DEF GatewayInv, RowsInv, SameSlot
  <2> QED  BY <1>2, <1>3, <2>1 DEF GatewayInv, RowsInv, Linked
<1>6. ChainInv'
  BY <1>3 DEF GatewayInv, ChainInv, Chain
<1>7. KeysInv'
  BY <1>1, <1>2, <1>3 DEF GatewayInv, KeysInv
<1>8. EffectsInv'
  BY <1>1, <1>2, <1>3 DEF GatewayInv, EffectsInv, Executions
<1> QED  BY <1>5, <1>6, <1>7, <1>8 DEF GatewayInv

\* The key of the ledger: it is inserted by one session, which finds it free.
LEMMA RememberStep ==
  ASSUME TypeOK, GatewayInv, NEW r \in Requests, Remember(r)
  PROVE  GatewayInv'
<1>1. pc[r] = "executed" /\ pc'[r] = "remembered"
      /\ \A q \in Requests : q # r => pc'[q] = pc[q]
  BY DEF TypeOK, Remember, Step
<1>2. Logged' = Logged /\ Holders' = Holders /\ Writers' = Writers /\ Committed' = Committed
  BY <1>1 DEF Logged, Holders, Writers, Committed
<1>3. UNCHANGED <<audit, ledger, effects, proposals, breaker, row>>
  BY DEF Remember, dbVars
<1>4. /\ KeyOf[r] # None => ledger[KeyOf[r]] = None
      /\ \A q \in Requests \ {r} :
           pc[q] = "remembered" /\ KeyOf[q] = KeyOf[r] => KeyOf[r] = None
  BY DEF Remember, KeyIsTaken, KeyIsHeld
<1>5. RowsInv'
  BY <1>2, <1>3 DEF GatewayInv, RowsInv, Linked
<1>6. ChainInv'
  BY <1>3 DEF GatewayInv, ChainInv, Chain
<1>7. KeysInv'
  BY <1>1, <1>2, <1>3, <1>4 DEF GatewayInv, KeysInv
<1>8. EffectsInv'
  BY <1>1, <1>2, <1>3 DEF GatewayInv, EffectsInv, Executions
<1> QED  BY <1>5, <1>6, <1>7, <1>8 DEF GatewayInv

\* A rollback returns slot and key and leaves no trace.
LEMMA AbortStep ==
  ASSUME TypeOK, GatewayInv, NEW r \in Requests, pc[r] \in Open,
         NEW how \in {"refused", "lost"}, Abort(r, how)
  PROVE  GatewayInv'
<1>1. pc'[r] = how /\ \A q \in Requests : q # r => pc'[q] = pc[q] /\ row'[q] = row[q]
  BY DEF TypeOK, Abort
<1>2. /\ Logged' = Logged /\ Holders' = Holders \ {r} /\ Writers' = Writers \ {r}
      /\ Committed' = Committed /\ r \notin Logged
      /\ Logged \subseteq Requests /\ Holders \subseteq Requests /\ Writers \subseteq Requests
  BY <1>1 DEF Logged, Holders, Writers, Committed
<1>3. UNCHANGED <<audit, ledger, effects, proposals, breaker>>
  BY DEF Abort, dbVars
<1>4. \A q \in Logged \cup Holders' \cup Writers' : row'[q] = row[q]
  BY <1>1, <1>2
<1>5. RowsInv'
  <2>1. \A q \in Writers' : row'[q] \in Row /\ row'[q].corr = CorrelationOf[q] /\ row'[q].by = q
    BY <1>2, <1>4 DEF GatewayInv, RowsInv
  <2>2. audit' = {row'[q] : q \in Logged'}
    BY <1>2, <1>3, <1>4 DEF GatewayInv, RowsInv
  <2>3. \A p, q \in Holders' : SameSlot(row'[p], row'[q]) => p = q
    BY <1>2, <1>4 DEF GatewayInv, RowsInv
  <2>4. \A q \in Writers' : Linked(row[q])'
    BY <1>2, <1>3, <1>4 DEF GatewayInv, RowsInv, Linked
  <2> QED  BY <2>1, <2>2, <2>3, <2>4 DEF RowsInv
<1>6. ChainInv'
  BY <1>3 DEF GatewayInv, ChainInv, Chain
<1>7. KeysInv'
  BY <1>1, <1>2, <1>3 DEF GatewayInv, KeysInv
<1>8. EffectsInv'
  BY <1>1, <1>2, <1>3 DEF GatewayInv, EffectsInv, Executions
<1> QED  BY <1>5, <1>6, <1>7, <1>8 DEF GatewayInv

\* A committed row takes the next number of its chain: its slot was free, and the
\* row before it is committed.
LEMMA ChainGrows ==
  ASSUME TypeOK, GatewayInv, NEW r \in Holders, r \notin Logged, audit' = audit \cup {row[r]}
  PROVE  ChainInv'
<1>1. /\ row[r] \in Row /\ Linked(row[r]) /\ r \in Writers
      /\ \A e \in audit : ~SameSlot(e, row[r])
  <2>1. r \in Writers /\ Logged \subseteq Holders
    BY DEF Writers, Holders
  <2> QED  BY <2>1 DEF GatewayInv, RowsInv, SameSlot
<1>2. row[r].seq \in Nat \ {0} /\ \A e \in audit : e.seq \in Nat \ {0}
  BY <1>1 DEF TypeOK, Row
<1> SUFFICES ASSUME NEW c \in Correlations
             PROVE  /\ IsFiniteSet(Chain(c)')
                    /\ {e.seq : e \in Chain(c)'} = 1 .. Cardinality(Chain(c)')
  BY DEF ChainInv
<1>3. IsFiniteSet(Chain(c)) /\ {e.seq : e \in Chain(c)} = 1 .. Cardinality(Chain(c))
  BY DEF GatewayInv, ChainInv
<1>4. CASE row[r].corr # c
  <2>1. Chain(c)' = Chain(c)
    BY <1>4 DEF Chain
  <2> QED  BY <1>3, <2>1
<1>5. CASE row[r].corr = c
  <2> DEFINE n == Cardinality(Chain(c))
  <2>1. Chain(c)' = Chain(c) \cup {row[r]}
    BY <1>5 DEF Chain
  <2>2. \A e \in Chain(c) : e \in audit /\ e.seq # row[r].seq
    BY <1>1, <1>5 DEF Chain, SameSlot
  <2>3. row[r] \notin Chain(c)
    BY <2>2
  <2>4. n \in Nat /\ IsFiniteSet(Chain(c)') /\ Cardinality(Chain(c)') = n + 1
    BY <1>3, <2>1, <2>3, FS_CardinalityType, FS_AddElement
  <2>5. row[r].seq = n + 1
    <3>1. row[r].seq \notin 1 .. n
      BY <1>3, <2>2
    <3>2. row[r].seq = 1 \/ row[r].seq - 1 \in 1 .. n
      <4>1. CASE row[r].seq # 1
        <5>1. PICK f \in audit : f.corr = c /\ f.seq = row[r].seq - 1
          BY <1>1, <1>5, <4>1 DEF Linked
        <5>2. f \in Chain(c)
          BY <5>1 DEF Chain
        <5> QED  BY <1>3, <5>1, <5>2
      <4> QED  BY <4>1
    <3> HIDE DEF n
    <3> QED  BY <1>2, <2>4, <3>1, <3>2
  <2>6. {e.seq : e \in Chain(c)'} = {e.seq : e \in Chain(c)} \cup {n + 1}
    BY <2>1, <2>5
  <2>7. 1 .. n + 1 = (1 .. n) \cup {n + 1}
    BY <2>4
  <2> QED  BY <1>3, <2>4, <2>6, <2>7
<1> QED  BY <1>4, <1>5

\* The end of a request, and what its commit shares: rows, chain and slots.
LEMMA CommitRows ==
  ASSUME TypeOK, GatewayInv, NEW r \in Requests,
         NEW to \in {"committed", "replayed"}, pc[r] \in {"remembered", "replaying"},
         pc' = [pc EXCEPT ![r] = to], audit' = audit \cup {row[r]}, row' = row
  PROVE  RowsInv' /\ ChainInv'
<1>1. pc'[r] = to /\ \A q \in Requests : q # r => pc'[q] = pc[q]
  BY DEF TypeOK
<1>2. Logged' = Logged \cup {r} /\ Holders' = Holders /\ Writers' = Writers
      /\ r \in Holders /\ r \notin Logged
  BY <1>1 DEF Logged, Holders, Writers
<1>3. ChainInv'
  BY <1>2, ChainGrows
<1>4. RowsInv'
  <2>1. audit' = {row'[q] : q \in Logged'}
    BY <1>2 DEF GatewayInv, RowsInv
  <2>2. \A q \in Writers' : Linked(row[q])'
    BY <1>2 DEF GatewayInv, RowsInv, Linked
  <2> QED  BY <1>2, <2>1, <2>2 DEF GatewayInv, RowsInv
<1> QED  BY <1>3, <1>4

LEMMA CommitStep ==
  ASSUME TypeOK, GatewayInv, NEW r \in Requests, Commit(r)
  PROVE  GatewayInv'
<1>1. /\ pc[r] = "remembered" /\ pc' = [pc EXCEPT ![r] = "committed"]
      /\ audit' = audit \cup {row[r]} /\ row' = row
  BY DEF Commit, Step
<1>2. pc'[r] = "committed" /\ \A q \in Requests : q # r => pc'[q] = pc[q]
  BY <1>1 DEF TypeOK
<1>3. Committed' = Committed \cup {r} /\ r \notin Committed
  BY <1>1, <1>2 DEF Committed
<1>4. RowsInv' /\ ChainInv'
  BY <1>1, CommitRows
<1>5. KeysInv'
  <2>1. /\ KeyOf[r] # None => KeyOf[r] \in Keys /\ ledger[KeyOf[r]] = None
        /\ ledger' = IF KeyOf[r] = None THEN ledger ELSE [ledger EXCEPT ![KeyOf[r]] = r]
        /\ DOMAIN ledger = Keys
    <3>1. KeyOf[r] # None => KeyOf[r] \in Keys
      BY GatewayAssumption
    <3>2. KeyOf[r] # None => ledger[KeyOf[r]] = None
      BY <1>1 DEF GatewayInv, KeysInv
    <3> QED  BY <3>1, <3>2 DEF Commit, TypeOK
  <2>2. CASE KeyOf[r] = None
    BY <1>1, <1>2, <1>3, <2>1, <2>2 DEF GatewayInv, KeysInv
  <2>3. CASE KeyOf[r] # None
    <3>1. /\ ledger'[KeyOf[r]] = r
          /\ \A k \in Keys : k # KeyOf[r] => ledger'[k] = ledger[k]
      BY <2>1, <2>3
    <3>2. \A q \in Requests : q # r /\ KeyOf[q] # None => KeyOf[q] \in Keys
      BY GatewayAssumption
    <3>3. \A q \in Committed : KeyOf[q] # KeyOf[r]
      BY <2>1, <2>3, GatewayAssumption DEF GatewayInv, KeysInv, Committed
    <3>4. \A q \in Requests : q # r /\ pc[q] = "remembered" => KeyOf[q] # KeyOf[r]
      BY <1>1, <2>3 DEF GatewayInv, KeysInv
    <3>5. \A k \in Keys : ledger'[k] # None => ledger'[k] \in Committed' /\ KeyOf[ledger'[k]] = k
      BY <1>3, <3>1 DEF GatewayInv, KeysInv
    <3>6. \A q \in Committed' : KeyOf[q] # None => ledger'[KeyOf[q]] = q
      BY <1>3, <3>1, <3>2, <3>3 DEF GatewayInv, KeysInv, Committed
    <3>7. \A q \in Requests : pc'[q] = "remembered" /\ KeyOf[q] # None => ledger'[KeyOf[q]] = None
      BY <1>2, <3>1, <3>2, <3>4 DEF GatewayInv, KeysInv
    <3>8. \A p, q \in Requests :
            pc'[p] = "remembered" /\ pc'[q] = "remembered" /\ KeyOf[p] = KeyOf[q]
              /\ KeyOf[q] # None => p = q
      BY <1>2 DEF GatewayInv, KeysInv
    <3> QED  BY <3>5, <3>6, <3>7, <3>8 DEF KeysInv
  <2> QED  BY <2>2, <2>3
<1>6. EffectsInv'
  <2>1. /\ effects \in Seq(Requests) /\ effects' = Append(effects, r)
        /\ DOMAIN effects = 1 .. Len(effects) /\ Len(effects) \in Nat
    BY LenProperties DEF TypeOK, Commit
  <2>2. /\ DOMAIN effects' = 1 .. Len(effects) + 1 /\ effects'[Len(effects) + 1] = r
        /\ \A i \in DOMAIN effects : effects'[i] = effects[i]
    BY <2>1, AppendProperties, LenProperties
  <2>3. \A i \in DOMAIN effects : effects[i] \in Executions /\ effects[i] # r
    <3>1. \A i \in DOMAIN effects : effects[i] \in Executions
      BY DEF Executions
    <3>2. r \notin Executions
      BY <1>3 DEF GatewayInv, EffectsInv
    <3> QED  BY <3>1, <3>2
  <2>4. \A i \in DOMAIN effects' : i \in DOMAIN effects \/ i = Len(effects) + 1
    BY <2>1, <2>2
  <2>5. Executions' = Executions \cup {r}
    <3>1. Executions' = {effects'[i] : i \in DOMAIN effects'}
      BY DEF Executions
    <3>2. DOMAIN effects' = DOMAIN effects \cup {Len(effects) + 1}
      BY <2>1, <2>2
    <3> QED  BY <2>2, <3>1, <3>2 DEF Executions
  <2>6. \A i, j \in DOMAIN effects' : effects'[i] = effects'[j] => i = j
    BY <2>2, <2>3, <2>4 DEF GatewayInv, EffectsInv
  <2>7. \A q \in Requests :
          proposals'[q] = IF pc'[q] = "committed" THEN "executed"
                          ELSE IF pc'[q] = "replayed" THEN "proposed" ELSE "none"
    BY <1>2 DEF GatewayInv, EffectsInv, TypeOK, Commit
  <2>8. breaker' = Recovered
    BY DEF Commit
  <2>9. Executions' = Committed'
    BY <1>3, <2>5 DEF GatewayInv, EffectsInv
  <2> QED  BY <2>6, <2>7, <2>8, <2>9 DEF EffectsInv
<1> QED  BY <1>4, <1>5, <1>6 DEF GatewayInv

LEMMA ReplayStep ==
  ASSUME TypeOK, GatewayInv, NEW r \in Requests, CommitReplay(r)
  PROVE  GatewayInv'
<1>1. /\ pc[r] = "replaying" /\ pc' = [pc EXCEPT ![r] = "replayed"]
      /\ audit' = audit \cup {row[r]} /\ row' = row
      /\ UNCHANGED <<effects, ledger, breaker>>
      /\ proposals' = [proposals EXCEPT ![r] = "proposed"]
  BY DEF CommitReplay, Step
<1>2. pc'[r] = "replayed" /\ \A q \in Requests : q # r => pc'[q] = pc[q]
  BY <1>1 DEF TypeOK
<1>3. Committed' = Committed
  BY <1>1, <1>2 DEF Committed
<1>4. RowsInv' /\ ChainInv'
  BY <1>1, CommitRows
<1>5. KeysInv'
  BY <1>1, <1>2, <1>3 DEF GatewayInv, KeysInv
<1>6. EffectsInv'
  BY <1>1, <1>2, <1>3 DEF GatewayInv, EffectsInv, Executions, TypeOK
<1> QED  BY <1>4, <1>5, <1>6 DEF GatewayInv

IInv == TypeOK /\ GatewayInv

LEMMA Inductive == IInv /\ [Next]_vars => IInv'
<1> SUFFICES ASSUME TypeOK, GatewayInv, [Next]_vars PROVE TypeOK' /\ GatewayInv'
  BY DEF IInv
<1>1. ASSUME NEW r \in Requests, Load(r) PROVE TypeOK' /\ GatewayInv'
  <2>1. seen' \in [Requests -> Nat]
    BY <1>1, GatewayAssumption DEF Load, TypeOK
  <2>2. TypeOK'
    BY <1>1, <2>1 DEF Load, TypeOK, dbVars, Step
  <2> QED  BY <1>1, <2>2, QuietStep DEF Load, Step
<1>2. ASSUME NEW r \in Requests, Propose(r) PROVE TypeOK' /\ GatewayInv'
  <2>1. TypeOK'
    BY <1>2, RowTyped DEF TypeOK, Propose, Step, dbVars
  <2> QED  BY <1>2, <2>1, ProposeStep
<1>3. ASSUME NEW r \in Requests, InsertRow(r) PROVE TypeOK' /\ GatewayInv'
  BY <1>3, InsertStep DEF InsertRow, Step, TypeOK, dbVars
<1>4. ASSUME NEW r \in Requests, pc[r] \in Open, NEW how \in {"refused", "lost"}, Abort(r, how)
      PROVE  TypeOK' /\ GatewayInv'
  BY <1>4, AbortTyped, AbortStep
<1>5. ASSUME NEW r \in Requests, Lookup(r) \/ HandlerSucceeds(r) PROVE TypeOK' /\ GatewayInv'
  <2>1. PICK to \in {"replaying", "executing", "executed"} :
          /\ pc' = [pc EXCEPT ![r] = to] /\ pc[r] \in {"proposed", "executing"}
          /\ UNCHANGED <<dbVars, seen, row>>
    BY <1>5 DEF Lookup, HandlerSucceeds, Step
  <2>2. TypeOK'
    BY <2>1 DEF TypeOK, dbVars
  <2> QED  BY <2>1, <2>2, QuietStep
<1>6. ASSUME NEW r \in Requests, Remember(r) PROVE TypeOK' /\ GatewayInv'
  BY <1>6, RememberStep DEF Remember, Step, TypeOK, dbVars
<1>7. ASSUME NEW r \in Requests, Commit(r) \/ CommitReplay(r) PROVE TypeOK' /\ GatewayInv'
  <2>1. r \in Writers
    BY <1>7 DEF Commit, CommitReplay, Step, Writers, Holders
  <2>2. row[r] \in Row
    BY <2>1 DEF GatewayInv, RowsInv
  <2> QED  BY <1>7, <2>2, CommitTyped, CommitStep, ReplayStep
<1>8. CASE UNCHANGED vars
  <2>1. TypeOK'
    BY <1>8 DEF vars, dbVars, TypeOK
  <2>2. UNCHANGED <<Logged, Holders, Writers, Committed, Executions>>
    BY <1>8 DEF vars, dbVars, Logged, Holders, Writers, Committed, Executions
  <2>3. UNCHANGED <<audit, row, pc, ledger, effects, proposals, breaker>>
    BY <1>8 DEF vars, dbVars
  <2>4. RowsInv'
    BY <2>2, <2>3 DEF GatewayInv, RowsInv, Linked
  <2>5. ChainInv'
    BY <2>3 DEF GatewayInv, ChainInv, Chain
  <2>6. KeysInv' /\ EffectsInv'
    BY <2>2, <2>3 DEF GatewayInv, KeysInv, EffectsInv
  <2> QED  BY <2>1, <2>4, <2>5, <2>6 DEF GatewayInv
<1> QED
  BY <1>1, <1>2, <1>3, <1>4, <1>5, <1>6, <1>7, <1>8
  DEF Next, Progress, RowCollides, Deny, HandlerFails, KeyCollides, Crash

LEMMA Invariant == Spec => []IInv
<1>1. Init => IInv
  <2> SUFFICES ASSUME Init PROVE IInv
    OBVIOUS
  <2>1. /\ Logged = {} /\ Holders = {} /\ Writers = {} /\ Committed = {} /\ audit = {}
        /\ effects = <<>> /\ DOMAIN effects = {}
    BY DEF Init, Logged, Holders, Writers, Committed
  <2>2. TypeOK
    <3>1. effects \in Seq(Requests) /\ breaker \in [state : {"closed", "open"}, failures : Nat]
      BY EmptySeq DEF Init, Recovered
    <3> QED  BY <3>1 DEF Init, TypeOK, ProposalStatus
  <2>3. RowsInv
    BY <2>1 DEF RowsInv
  <2>4. ChainInv
    <3>1. \A c \in Correlations : Chain(c) = {}
      BY <2>1 DEF Chain
    <3> QED  BY <3>1, FS_EmptySet DEF ChainInv
  <2>5. KeysInv
    BY <2>1 DEF KeysInv, Init
  <2>6. EffectsInv
    BY <2>1 DEF EffectsInv, Init, Executions
  <2> QED  BY <2>2, <2>3, <2>4, <2>5, <2>6 DEF IInv, GatewayInv
<1> QED  BY <1>1, Inductive, PTL DEF Spec

-----------------------------------------------------------------------------
(* What the gateway promises.                                              *)

\* Committed rows and sessions stay what they can be.
THEOREM TypeCorrect == Spec => []TypeOK
BY Invariant, PTL DEF IInv

\* Of any number of requests that share a key, in any interleaving with crashes and
\* rollbacks, at most one takes effect, and the ledger remembers that one.
THEOREM OnceOnly == Spec => []OnceOnlyEffect
<1>1. IInv => OnceOnlyEffect
  <2> SUFFICES ASSUME TypeOK, KeysInv, EffectsInv PROVE OnceOnlyEffect
    BY DEF IInv, GatewayInv
  <2>1. \A i \in DOMAIN effects : effects[i] \in Committed
    BY DEF EffectsInv, Executions
  <2>2. ASSUME NEW i \in DOMAIN effects, NEW j \in DOMAIN effects,
               KeyOf[effects[i]] # None, KeyOf[effects[i]] = KeyOf[effects[j]]
        PROVE  i = j
    <3>1. effects[i] = ledger[KeyOf[effects[i]]] /\ effects[j] = ledger[KeyOf[effects[j]]]
      BY <2>1, <2>2 DEF KeysInv
    <3> QED  BY <2>2, <3>1 DEF EffectsInv
  <2>3. ASSUME NEW k \in Keys, ledger[k] # None
        PROVE  KeyOf[ledger[k]] = k /\ \E i \in DOMAIN effects : effects[i] = ledger[k]
    <3>1. KeyOf[ledger[k]] = k /\ ledger[k] \in Executions
      BY <2>3 DEF KeysInv, EffectsInv
    <3> QED  BY <3>1 DEF Executions
  <2> QED  BY <2>2, <2>3 DEF OnceOnlyEffect
<1> QED  BY <1>1, Invariant, PTL

\* However sessions interleave, what is committed of each chain is numbered without
\* a gap and chained row to row: verify_audit_chain() never fails.
THEOREM AuditVerifies == Spec => []AuditChainVerifies
<1>1. IInv => AuditChainVerifies
  <2> SUFFICES ASSUME GatewayInv, NEW c \in Correlations, NEW e \in Chain(c)
               PROVE  IF e.seq = 1 THEN e.prev = None
                      ELSE \E f \in Chain(c) : f.seq = e.seq - 1 /\ f.by = e.prev
    BY DEF IInv, GatewayInv, ChainInv, AuditChainVerifies
  <2>1. e \in audit /\ e.corr = c
    BY DEF Chain
  <2>2. PICK r \in Logged : e = row[r]
    BY <2>1 DEF GatewayInv, RowsInv
  <2>3. Linked(e)
    BY <2>2 DEF GatewayInv, RowsInv, Writers, Holders
  <2> QED  BY <2>1, <2>3 DEF Linked, Chain
<1> QED  BY <1>1, Invariant, PTL

\* Whatever fails, wherever, an effect comes with its proposal and its audit row, a
\* lost session leaves no trace and only replays are left unreconciled.
THEOREM AllOrNothing == Spec => []NothingHalfDone
<1>1. IInv => NothingHalfDone
  <2> SUFFICES ASSUME TypeOK, GatewayInv PROVE NothingHalfDone
    BY DEF IInv
  <2>1. ASSUME NEW r \in Requests
        PROVE  (\E e \in audit : e.by = r) <=> r \in Logged
    <3>1. \A q \in Logged : row[q] \in audit /\ row[q].by = q
      BY DEF GatewayInv, RowsInv, Writers, Holders
    <3>2. \A e \in audit : \E q \in Logged : e = row[q]
      BY DEF GatewayInv, RowsInv
    <3> QED  BY <3>1, <3>2
  <2>2. /\ Executions = Committed
        /\ \A r \in Requests :
             proposals[r] = IF pc[r] = "committed" THEN "executed"
                            ELSE IF pc[r] = "replayed" THEN "proposed" ELSE "none"
    BY DEF GatewayInv, EffectsInv
  <2>3. Unreconciled = {r \in Requests : pc[r] = "replayed"}
    BY <2>2 DEF Unreconciled, Committed
  <2> QED  BY <2>1, <2>2, <2>3 DEF NothingHalfDone, Logged, Committed
<1> QED  BY <1>1, Invariant, PTL

=============================================================================
