---------------------------- MODULE MCTelemetry -----------------------------
(* Instances of Telemetry for TLC: retention that keeps each coarser tier     *)
(* longer, and one that keeps nothing but the newest events.                  *)
EXTENDS Telemetry

SomeKeeps == {[raw |-> 2, minute |-> 3, hour |-> 5, day |-> 12],
              [raw |-> 1, minute |-> 0, hour |-> 0, day |-> 0]}
=============================================================================
