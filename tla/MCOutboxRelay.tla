---------------------------- MODULE MCOutboxRelay ----------------------------
(***************************************************************************)
(* Four events and batches of two: a batch is full while an event waits    *)
(* behind it, and may be full of rejected events, which then stay at the   *)
(* head of the queue, together or with an accepted one between them.  Two  *)
(* attempts before an event is given up and two crashes.                   *)
(***************************************************************************)
EXTENDS OutboxRelay

mc_N == 4
mc_Poison == {1, 3}      \* as many as a batch
=============================================================================
