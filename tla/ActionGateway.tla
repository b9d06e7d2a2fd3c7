---------------------------- MODULE ActionGateway ----------------------------
(***************************************************************************)
(* Concurrent requests through the Agent Action Gateway: backend/app/      *)
(* gateway/gateway.py, idempotency.py and circuit.py, record_audit() of    *)
(* workflow/audit.py, and the session discipline of db.py and api/routes.  *)
(* py: the route loads the incident, the gateway proposes, checks, runs    *)
(* the handler and remembers, and the route commits only after all of it;  *)
(* any exception rolls the whole session back.                             *)
(*                                                                         *)
(* A step is one statement against the shared database.  Statements read   *)
(* what is committed at that moment; an insert that meets an uncommitted   *)
(* row with the same unique key waits for that row's session to end.  The  *)
(* other checks of the pipeline are one nondeterministic denial.  The      *)
(* requests are those whose handler moves the incident, so that its row    *)
(* and its version are written.                                            *)
(***************************************************************************)
EXTENDS Naturals, Sequences, FiniteSets

CONSTANTS
  Requests,       \* requests that are ever made; a retry is a request too
  Keys,           \* idempotency keys
  KeyOf,          \* [Requests -> Keys \cup {None}]
  Correlations,   \* correlation ids: one audit chain each
  CorrelationOf,  \* [Requests -> Correlations]
  None

ASSUME GatewayAssumption ==
  /\ KeyOf \in [Requests -> Keys \cup {None}]
  /\ CorrelationOf \in [Requests -> Correlations]
  /\ None \notin Requests \cup Keys

VARIABLES
  \* ---- committed rows
  version,       \* Incident.version, per correlation
  effects,       \* requests whose handler's writes are committed, in order
  ledger,        \* IdempotencyRecord: per key the request it remembers
  audit,         \* AuditEvent rows (the first of each request)
  proposals,     \* ActionProposal.status of each request
  breaker,       \* CircuitBreakerState of the tool
  \* ---- one session per request
  pc,            \* how far the request has come
  seen,          \* the version of the incident its session has loaded
  row            \* the audit row its session writes

dbVars == <<version, effects, ledger, audit, proposals, breaker>>
vars == <<dbVars, pc, seen, row>>

Row == [corr : Correlations, seq : Nat \ {0}, by : Requests, prev : Requests \cup {None}]
ProposalStatus == {"none", "proposed", "executed"}
Open == {"loaded", "proposing", "proposed", "replaying", "executing", "executed", "remembered"}
Ended == {"replayed", "committed", "refused", "lost"}

TypeOK ==
  /\ version \in [Correlations -> Nat]
  /\ effects \in Seq(Requests)
  /\ ledger \in [Keys -> Requests \cup {None}]
  /\ audit \in SUBSET Row
  /\ proposals \in [Requests -> ProposalStatus]
  /\ breaker \in [state : {"closed", "open"}, failures : Nat]
  /\ pc \in [Requests -> {"idle"} \cup Open \cup Ended]
  /\ seen \in [Requests -> Nat]
  /\ row \in [Requests -> Row \cup {None}]

\* circuit.on_success(), and a breaker that is read for the first time.
Recovered == [state |-> "closed", failures |-> 0]

Init ==
  /\ version = [c \in Correlations |-> 0]
  /\ effects = <<>>
  /\ ledger = [k \in Keys |-> None]
  /\ audit = {}
  /\ proposals = [r \in Requests |-> "none"]
  /\ breaker = Recovered
  /\ pc = [r \in Requests |-> "idle"]
  /\ seen = [r \in Requests |-> 0]
  /\ row = [r \in Requests |-> None]

-----------------------------------------------------------------------------
Step(r, from, to) == pc[r] = from /\ pc' = [pc EXCEPT ![r] = to]

Chain(c) == {e \in audit : e.corr = c}

\* The route loads the incident: session.get() caches it for the whole session.
Load(r) ==
  /\ Step(r, "idle", "loaded")
  /\ seen' = [seen EXCEPT ![r] = version[CorrelationOf[r]]]
  /\ UNCHANGED <<dbVars, row>>

\* record_audit(): the next sequence number, chained to the last committed row.
LastRow(c) == {e \in Chain(c) : \A f \in Chain(c) : f.seq <= e.seq}

Propose(r) ==
  /\ Step(r, "loaded", "proposing")
  /\ LET c == CorrelationOf[r]
     IN  row' = [row EXCEPT ![r] =
           IF LastRow(c) = {}
           THEN [corr |-> c, seq |-> 1, by |-> r, prev |-> None]
           ELSE LET last == CHOOSE e \in LastRow(c) : TRUE
                IN  [corr |-> c, seq |-> last.seq + 1, by |-> r, prev |-> last.by]]
  /\ UNCHANGED <<dbVars, seen>>

\* Mutant: AuditEvent without its unique constraint.
SameSlot_Never(e, f) == FALSE

\* The unique constraint uq_audit_correlation_seq on the row's flush.
SameSlot(e, f) == e.corr = f.corr /\ e.seq = f.seq

\* Mutant: the slot is locked when its number is read, not when it is written.
RowIsHeld_Early(r) ==
  \E q \in Requests \ {r} : pc[q] \in Open \ {"loaded"} /\ SameSlot(row[q], row[r])

RowIsHeld(r) ==
  \E q \in Requests \ {r} :
    /\ pc[q] \in Open \ {"loaded", "proposing"}
    /\ SameSlot(row[q], row[r])

InsertRow(r) ==
  /\ Step(r, "proposing", "proposed")
  /\ ~RowIsHeld(r)
  /\ ~\E e \in audit : SameSlot(e, row[r])
  /\ UNCHANGED <<dbVars, seen, row>>

\* Any exception: the session is closed without a commit and rolls back.  The
\* request was refused by the gateway, or its session was lost.
Abort(r, how) ==
  /\ pc' = [pc EXCEPT ![r] = how]
  /\ row' = [row EXCEPT ![r] = None]
  /\ UNCHANGED <<dbVars, seen>>

RowCollides(r) ==
  /\ pc[r] = "proposing" /\ ~RowIsHeld(r)
  /\ \E e \in audit : SameSlot(e, row[r])
  /\ Abort(r, "lost")

\* Stages 2-7 and the circuit breaker: _deny() writes its audit row and raises, in
\* one go, so that the row is rolled back with the rest.
Deny(r) ==
  /\ pc[r] = "proposed"
  /\ Abort(r, "refused")

\* Stage 9, circuit.allow().  The cooldown of an open breaker never comes up: the
\* failures that would open it are rolled back with the request that failed.
BreakerAllows == breaker.state = "closed"

\* Stage 8, idempotency.lookup(): a remembered key replays its result.
Lookup(r) ==
  /\ IF KeyOf[r] # None /\ ledger[KeyOf[r]] # None
     THEN Step(r, "proposed", "replaying")
     ELSE BreakerAllows /\ Step(r, "proposed", "executing")
  /\ UNCHANGED <<dbVars, seen, row>>

\* Stages 10-11: the handler in a savepoint.
HandlerSucceeds(r) ==
  /\ Step(r, "executing", "executed")
  /\ UNCHANGED <<dbVars, seen, row>>

\* circuit.on_failure() writes the breaker row, and the failed attempt its audit row,
\* in the session that the raised GatewayError then rolls back.
HandlerFails(r) ==
  /\ pc[r] = "executing"
  /\ Abort(r, "refused")

\* Stage 13, idempotency.remember(): the key is the ledger's primary key.
KeyIsHeld(r) ==
  \E q \in Requests \ {r} : pc[q] = "remembered" /\ KeyOf[q] = KeyOf[r] /\ KeyOf[r] # None

\* Mutant: a ledger whose key is not unique.
KeyIsTaken_Never(r) == FALSE

KeyIsTaken(r) == KeyOf[r] # None /\ ledger[KeyOf[r]] # None

\* Mutant: what the handler wrote is committed with the key it is remembered under.
Remember_Commits(r) ==
  /\ ~KeyIsHeld(r) /\ ~KeyIsTaken(r)
  /\ Step(r, "executed", "remembered")
  /\ effects' = Append(effects, r)
  /\ UNCHANGED <<version, ledger, audit, proposals, breaker, seen, row>>

Remember(r) ==
  /\ ~KeyIsHeld(r) /\ ~KeyIsTaken(r)
  /\ Step(r, "executed", "remembered")
  /\ UNCHANGED <<dbVars, seen, row>>

KeyCollides(r) ==
  /\ pc[r] = "executed" /\ ~KeyIsHeld(r) /\ KeyIsTaken(r)
  /\ Abort(r, "lost")

\* session.commit() of the route after an executed call.  The incident row is
\* updated from the loaded object: UPDATE ... SET version = seen + 1.
Commit(r) ==
  /\ Step(r, "remembered", "committed")
  /\ version' = [version EXCEPT ![CorrelationOf[r]] = seen[r] + 1]
  /\ effects' = Append(effects, r)
  /\ ledger' = IF KeyOf[r] = None THEN ledger ELSE [ledger EXCEPT ![KeyOf[r]] = r]
  /\ audit' = audit \cup {row[r]}
  /\ proposals' = [proposals EXCEPT ![r] = "executed"]
  /\ breaker' = Recovered
  /\ UNCHANGED <<seen, row>>

\* The same after a replay: only the proposal and its audit row are new.
CommitReplay(r) ==
  /\ Step(r, "replaying", "replayed")
  /\ audit' = audit \cup {row[r]}
  /\ proposals' = [proposals EXCEPT ![r] = "proposed"]
  /\ UNCHANGED <<version, effects, ledger, breaker, seen, row>>

\* The process dies, or the connection is lost, before the commit.
Crash(r) ==
  /\ pc[r] \in Open
  /\ Abort(r, "lost")

Progress(r) ==
  \/ Propose(r) \/ InsertRow(r) \/ RowCollides(r) \/ Lookup(r)
  \/ HandlerSucceeds(r) \/ Remember(r) \/ KeyCollides(r)
  \/ Commit(r) \/ CommitReplay(r)

Next ==
  \E r \in Requests :
    Load(r) \/ Progress(r) \/ Deny(r) \/ HandlerFails(r) \/ Crash(r)

\* A request that has been started is run by its worker thread.
Fairness == \A r \in Requests : WF_vars(Progress(r))

Spec == Init /\ [][Next]_vars /\ Fairness

-----------------------------------------------------------------------------
\* Duplicate clicks, client retries and retries after a lost response share an
\* idempotency key: of all of them, in any interleaving, at most one takes effect,
\* and it is the one the ledger answers the others with (gateway.py stages 8, 13).
OnceOnlyEffect ==
  /\ \A i, j \in DOMAIN effects :
       KeyOf[effects[i]] # None /\ KeyOf[effects[i]] = KeyOf[effects[j]] => i = j
  /\ \A k \in Keys : ledger[k] # None =>
       KeyOf[ledger[k]] = k /\ \E i \in DOMAIN effects : effects[i] = ledger[k]

\* verify_audit_chain() succeeds on every chain at any time: however requests
\* interleave, committed rows are numbered 1..n and each is chained to the one
\* before it (audit.py; the unique constraint of AuditEvent).
AuditChainVerifies ==
  \A c \in Correlations :
    /\ {e.seq : e \in Chain(c)} = 1 .. Cardinality(Chain(c))
    /\ \A e \in Chain(c) :
         IF e.seq = 1 THEN e.prev = None
         ELSE \E f \in Chain(c) : f.seq = e.seq - 1 /\ f.by = e.prev

\* The executions that are committed: every one belongs to a proposal.
Executions == {effects[i] : i \in DOMAIN effects}

\* _reconcile() of services/provenance.py, once the incident is terminal: the
\* proposals that claim an execution nobody recorded, those that were left where
\* they were proposed, and the executions without a proposal.
Unreconciled ==
  {r \in Requests : proposals[r] = "executed" /\ r \notin Executions}
    \cup {r \in Requests : proposals[r] = "proposed"}
    \cup {r \in Executions : proposals[r] = "none"}

\* What is committed of a request is all of it or none of it, wherever a crash or a
\* collision with another session falls: an effect comes with its executed proposal
\* and its audit row, a lost session leaves no trace, and neither a replay nor a
\* refusal leaves an effect.  So what the provenance of a closed incident cannot
\* reconcile is its replays, which stay "proposed", and nothing else.  What a
\* refusal leaves besides is not claimed: the gateway promises an audit row and a
\* count for the breaker (gateway.py:6-8), and the rollback keeps neither.
NothingHalfDone ==
  /\ \A r \in Requests :
       LET logged == \E e \in audit : e.by = r
       IN  /\ r \in Executions <=> proposals[r] = "executed"
           /\ r \in Executions <=> pc[r] = "committed"
           /\ r \in Executions => logged
           /\ pc[r] = "lost" => ~logged /\ proposals[r] = "none"
           /\ pc[r] = "replayed" => logged
  /\ Unreconciled = {r \in Requests : pc[r] = "replayed"}

\* Sessions that wait for each other's audit slot and ledger key never wait in a
\* circle: every request that was started is answered or fails.
EveryRequestEnds == \A r \in Requests : pc[r] = "loaded" ~> pc[r] \in Ended

-----------------------------------------------------------------------------
\* docs/INCIDENT_RESPONSE.md: optimistic locking, no lost updates.  Every
\* committed effect on an incident is counted in its version.
NoLostUpdate ==
  \A c \in Correlations :
    version[c] = Cardinality({i \in DOMAIN effects : CorrelationOf[effects[i]] = c})

=============================================================================
