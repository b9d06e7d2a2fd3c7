----------------------------- MODULE OutboxRelay -----------------------------
(***************************************************************************)
(* The transactional outbox: publish_outbox() and drain_outbox() of        *)
(* backend/app/workflow/audit.py, run by the observability middleware of   *)
(* backend/app/main.py after every successful mutating request.            *)
(*                                                                         *)
(* A request writes an event in its own transaction and commits or rolls   *)
(* back.  A drain reads a batch of committed pending rows, hands each to   *)
(* the sink, and commits what it noted about them only if the sink took at *)
(* least one ("if drain_outbox(...): s.commit()").  The drain runs on the  *)
(* event loop of the one server process, so two drains never overlap; the  *)
(* requests, in their own threads, do overlap with it.  Events are numbered*)
(* in the order of available_at.                                           *)
(***************************************************************************)
EXTENDS Naturals, FiniteSets

CONSTANTS
  N,            \* events ever written
  Poison,       \* events the sink raises on every time
  Limit,        \* drain_outbox's limit, 200 in the code
  MaxAttempts,  \* MAX_OUTBOX_ATTEMPTS, 5 in the code
  MaxCrashes    \* bound: crashes of the server while it drains

Events == 1..N

ASSUME OutboxAssumption ==
  /\ N \in Nat
  /\ Poison \subseteq Events
  /\ Limit \in Nat \ {0}
  /\ MaxAttempts \in Nat \ {0}
  /\ MaxCrashes \in Nat

VARIABLES
  status,     \* OutboxEvent.status; "unwritten", "open" and "undone" before a commit
  attempts,   \* OutboxEvent.attempts
  batch,      \* the events the running drain has still to hand over, oldest first
  noted,      \* what the drain's session holds of the rows it has handled
  delivered,  \* how often the sink has accepted each event
  crashes

rows == <<status, attempts>>
vars == <<rows, batch, noted, delivered, crashes>>

Committed == {"pending", "published", "failed"}
NoBatch == {}
Nothing == [e \in {} |-> "pending"]

TypeOK ==
  /\ status \in [Events -> {"unwritten", "open", "undone"} \cup Committed]
  /\ attempts \in [Events -> 0..MaxAttempts]
  /\ batch \subseteq Events /\ Cardinality(batch) <= Limit
  /\ DOMAIN noted \subseteq Events /\ \A e \in DOMAIN noted : noted[e] \in Committed
  /\ delivered \in [Events -> Nat]
  /\ crashes \in 0..MaxCrashes

Init ==
  /\ status = [e \in Events |-> "unwritten"]
  /\ attempts = [e \in Events |-> 0]
  /\ batch = NoBatch
  /\ noted = Nothing
  /\ delivered = [e \in Events |-> 0]
  /\ crashes = 0

-----------------------------------------------------------------------------
(* Requests.                                                               *)

\* publish_outbox(): the row is in the request's transaction.
Publish(e) ==
  /\ status[e] = "unwritten"
  /\ \A d \in 1..(e - 1) : status[d] # "unwritten"
  /\ status' = [status EXCEPT ![e] = "open"]
  /\ UNCHANGED <<attempts, batch, noted, delivered, crashes>>

\* The route commits, or raises and loses the row with everything else.
EndRequest(e, how) ==
  /\ status[e] = "open"
  /\ status' = [status EXCEPT ![e] = how]
  /\ UNCHANGED <<attempts, batch, noted, delivered, crashes>>

-----------------------------------------------------------------------------
(* The relay.                                                              *)

\* Mutant: the relay sees rows that are not committed.
Pending_DirtyRead == {e \in Events : status[e] \in {"open", "pending"}}

Pending == {e \in Events : status[e] = "pending"}

\* Mutant: LIMIT off by one.
Oldest_OneFewer(S) == {e \in S : Cardinality({d \in S : d <= e}) < Limit}

\* The first Limit pending rows, oldest first.
Oldest(S) == {e \in S : Cardinality({d \in S : d <= e}) <= Limit}

Idle == batch = NoBatch /\ noted = Nothing

StartDrain ==
  /\ Idle /\ Pending # {}
  /\ batch' = Oldest(Pending)
  /\ UNCHANGED <<rows, noted, delivered, crashes>>

Note(e, s) ==
  /\ e \in batch /\ \A d \in batch : e <= d
  /\ noted' = [d \in DOMAIN noted \cup {e} |-> IF d = e THEN s ELSE noted[d]]
  /\ batch' = batch \ {e}
  /\ UNCHANGED <<rows, crashes>>

SinkAccepts(e) ==
  /\ e \notin Poison
  /\ Note(e, "published")
  /\ delivered' = [delivered EXCEPT ![e] = @ + 1]

\* A retry is classified by the attempts the row had plus this one.
SinkRaises(e) ==
  /\ Note(e, IF attempts[e] + 1 >= MaxAttempts THEN "failed" ELSE "pending")
  /\ UNCHANGED delivered

Handled == batch = NoBatch /\ noted # Nothing

\* Mutant: the drain is committed only when all of it was published.
Progressed_All == \A e \in DOMAIN noted : noted[e] = "published"

Progressed == \E e \in DOMAIN noted : noted[e] = "published"

CommitDrain ==
  /\ Handled /\ Progressed
  /\ status' = [e \in Events |-> IF e \in DOMAIN noted THEN noted[e] ELSE status[e]]
  /\ attempts' = [e \in Events |-> IF e \in DOMAIN noted THEN attempts[e] + 1 ELSE attempts[e]]
  /\ noted' = Nothing
  /\ UNCHANGED <<batch, delivered, crashes>>

\* drain_outbox returned 0: the session closes without a commit.
DropDrain ==
  /\ Handled /\ ~Progressed
  /\ noted' = Nothing
  /\ UNCHANGED <<rows, batch, delivered, crashes>>

\* The process dies, or the commit fails and the middleware swallows it.
Crash ==
  /\ ~Idle /\ crashes < MaxCrashes
  /\ crashes' = crashes + 1
  /\ batch' = NoBatch /\ noted' = Nothing
  /\ UNCHANGED <<rows, delivered>>

HandOver == \E e \in Events : SinkAccepts(e) \/ SinkRaises(e)
FinishDrain == CommitDrain \/ DropDrain

Next ==
  \/ \E e \in Events : Publish(e) \/ EndRequest(e, "pending") \/ EndRequest(e, "undone")
  \/ StartDrain \/ HandOver \/ FinishDrain \/ Crash

\* A drain that is reached runs to its end.  That one starts at all needs
\* mutating requests to keep arriving, the only thing that starts a drain; and
\* a sink that is asked again and again accepts an event it does not reject.
Fairness ==
  /\ WF_vars(StartDrain) /\ WF_vars(HandOver) /\ WF_vars(FinishDrain)
  /\ \A e \in Events : SF_vars(SinkAccepts(e))

Spec == Init /\ [][Next]_vars /\ Fairness

-----------------------------------------------------------------------------
(* What it must do.                                                        *)

\* Nobody hears of a decision that was rolled back, an event is marked published
\* only after the sink took it, and it is given up only after every attempt:
\* whatever the order of requests, drains and crashes (audit.py:4-6, 175).
OutboxTellsTheTruth == \A e \in Events :
  /\ delivered[e] > 0 => status[e] \in Committed
  /\ status[e] = "published" => delivered[e] > 0
  /\ status[e] = "failed" => attempts[e] = MaxAttempts

\* The sink hears an event once, and once more at most for each crash: all a relay
\* without an acknowledgement from the broker can promise.  It is less than the
\* "exactly once" of audit.py:174, which holds only where nothing crashes.
DuplicatesCostACrash == \A e \in Events : delivered[e] <= 1 + crashes

\* The rejected events that still wait fill a whole batch.
QueueIsBlocked == Cardinality(Pending \cap Poison) >= Limit

\* Events the sink rejects are parked and do not block the queue (audit.py:176-178):
\* every committed event it accepts gets out, unless a whole batch of rejected
\* events stays at the head of the queue for ever, for a drain that publishes
\* nothing is not committed and counts no attempt.
HealthyEventsGetOut ==
  <>[]~QueueIsBlocked =>
    \A e \in Events \ Poison : status[e] = "pending" ~> status[e] \in {"published", "failed"}

=============================================================================
