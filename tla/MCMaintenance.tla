--------------------------- MODULE MCMaintenance ----------------------------
(* The background goroutines that work on the store: the maintenance runner   *)
(* with the refresh of sources, and the recorder of traffic events with the   *)
(* jobs on its tables. They share no variable here, so a behaviour moves one  *)
(* of them, its part, and the other stays as it starts.                       *)
EXTENDS Scheduler, MCTelemetry

VARIABLE part

maintenanceVars == <<part, schedulerVars, telemetryVars>>

MaintenanceInit ==
  /\ part \in {"runner", "telemetry"}
  /\ SchedulerInit /\ TelemetryInit
  /\ part # "runner" => present = {}
  /\ part # "telemetry" => keep = CHOOSE k \in Keeps : TRUE

MaintenanceNext ==
  \/ part = "runner" /\ SchedulerNext /\ UNCHANGED <<part, telemetryVars>>
  \/ part = "telemetry" /\ TelemetryNext /\ UNCHANGED <<part, schedulerVars>>

MaintenanceSpec ==
  /\ MaintenanceInit /\ [][MaintenanceNext]_maintenanceVars
  /\ part = "runner" => SchedulerFairness
  /\ part = "telemetry" => TelemetryFairness

-----------------------------------------------------------------------------
(* Every source that stays due is refreshed, and a stop of the recorder ends. *)
NothingWaitsForEver == NoSourceStarves /\ StopEnds
=============================================================================
