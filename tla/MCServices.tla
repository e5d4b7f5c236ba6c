----------------------------- MODULE MCServices -----------------------------
(* Services of the process beside the path of a request: the bus with the     *)
(* dispatcher of alerts, and the caches in memory and on disk. They share no  *)
(* variable here but the caches their clock, so a behaviour moves one of      *)
(* them, its part, and the others stay as they start.                         *)
EXTENDS Alerts, Caches, DiskCache

SomeHosts == [k \in Keys |-> IF k = 3 THEN "b" ELSE "a"]

VARIABLE part

servicesVars == <<part, alertVars, cacheVars, diskVars>>

ServicesInit ==
  /\ part \in {"alerts", "caches", "disk"}
  /\ AlertsInit /\ CachesInit /\ DiskInit

ServicesNext ==
  \/ /\ part = "alerts" /\ AlertsNext
     /\ UNCHANGED <<part, cacheVars, diskVars>>
  \/ /\ part = "caches" /\ CachesNext
     /\ UNCHANGED <<part, alertVars, indexVars, fileVars, put, puts, last, strays>>
  \/ /\ part = "disk" /\ DiskNext
     /\ UNCHANGED <<part, alertVars, responses, dns, lookups>>

ServicesSpec ==
  /\ ServicesInit /\ [][ServicesNext]_servicesVars
  /\ part = "alerts" => AlertsFairness

-----------------------------------------------------------------------------
(* The caches in memory count what they hold, and the one on disk is sound.   *)
CachesSound == CountsExact /\ DiskSound
=============================================================================
