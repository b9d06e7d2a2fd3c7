--------------------------- MODULE MCShadowStream ---------------------------
(***************************************************************************)
(* ShadowStream on windows of three cycles.  The plant publishes a relapse *)
(* at the time of a sample, a recovery with a rising precursor and a noisy *)
(* envelope, a window during which the product changes, or two incidents   *)
(* in one stream.                                                          *)
(***************************************************************************)
EXTENDS ShadowStream

Envelope(key, cid, t) ==
  [ key |-> key, cid |-> cid, source |-> t, ingested |-> t, system |-> "replay",
    mapping |-> "0.1", quality |-> "OK" ]

Sample(cid, metric, unit, t, value) ==
  [type |-> "telemetry_observation", metric |-> metric, unit |-> unit, value |-> value]
    @@ Envelope(<<cid, metric, t>>, cid, t)
Vibration(cid, t, value) == Sample(cid, "vibration_rms", "mm/s", t, value)
PrecursorAt(cid, t, value) == Sample(cid, "bearing_precursor", "", t, value)
Fault(cid, t, code) ==
  [type |-> "machine_event", code |-> code] @@ Envelope(<<cid, "event", t>>, cid, t)
Health(cid, t, status) ==
  [type |-> "sensor_health", status |-> status] @@ Envelope(<<cid, "health", t>>, cid, t)
Order(cid, t, product) ==
  [type |-> "production_order_context", product |-> product]
    @@ Envelope(<<cid, "order", t>>, cid, t)
Decision(cid, t, decision) ==
  [type |-> "recovery_decision_publication", decision |-> decision]
    @@ Envelope(<<cid, "decision", t>>, cid, t)

Healthy(cid) == {Vibration(cid, 2, 31), Vibration(cid, 4, 32), Vibration(cid, 6, 30)}

\* A relapse at a sample, published as failed.
Relapse ==
  {Vibration("A", 2, 31), Vibration("A", 4, 74), Vibration("A", 6, 30),
   Fault("A", 4, "F27"), Health("A", 1, "trusted"), Decision("A", 8, "failed")}

\* A rising precursor; one sample in another unit, suspect, from a drifting
\* clock and under a newer mapping.
Noise ==
  {Vibration("A", 2, 31), Vibration("A", 6, 30), Health("A", 1, "trusted"),
   PrecursorAt("A", 2, 10), PrecursorAt("A", 6, 40),
   [Vibration("A", 4, 32) EXCEPT !.unit = "in/s", !.quality = "SUSPECT",
                                 !.ingested = 9, !.mapping = "0.2"]}

\* The order changes to another product while the window runs.
Changeover ==
  Healthy("A") \cup {Order("A", 1, "standard"), Order("A", 5, "wide"),
                     Health("A", 1, "trusted")}

\* Two incidents in one stream, the fault of one at a sample time of the other.
Interleaved ==
  {Vibration("A", 2, 31), Vibration("A", 4, 32), Fault("A", 4, "F27"),
   Vibration("B", 3, 31), Vibration("B", 4, 30), Health("B", 1, "trusted")}

MCBundles == {Relapse, Noise, Changeover, Interleaved}

MCConditions ==
  { [signal |-> "vibration_rms", op |-> "lte", bound |-> 40],
    [signal |-> "fault_f27", op |-> "not_recur", code |-> "F27"],
    [signal |-> "stable_cycles", op |-> "count_gte", bound |-> 3] }
MCPlausible == [vibration |-> <<0, 500>>]
MCExpectedUnit == ("vibration_rms" :> "mm/s") @@ ("bearing_precursor" :> "")
MCNormalContext ==
  [ product |-> "standard", speed_pct |-> 95, load |-> "nominal", material_lot |-> "lot",
    machine_mode |-> "AUTO", shift |-> "A", ambient_c |-> 24, sensor_health |-> "ok" ]
=============================================================================
