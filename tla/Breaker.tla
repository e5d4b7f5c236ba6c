------------------------------ MODULE Breaker -------------------------------
(***************************************************************************)
(* What a circuit breaker promises of every endpoint (pkg/health/health.go): *)
(* once open, a circuit stays open for the whole cooldown whatever is        *)
(* reported meanwhile; it closes from half-open, or straight from open where  *)
(* one success is enough; and a failure opens it for OpenDuration, less the   *)
(* lag between the clock and the report.                                     *)
(***************************************************************************)
EXTENDS Integers

CONSTANTS Endpoints, SuccessThreshold, OpenDuration, MaxLag

VARIABLES
  circuit,    \* endpoint -> closed, open or half_open
  left        \* endpoint -> ticks of cooldown still to go

Init ==
  /\ circuit = [e \in Endpoints |-> "closed"]
  /\ left = [e \in Endpoints |-> -MaxLag]

Cooled(e) == left[e] <= 0

Open(e) ==
  /\ circuit[e] = "open" => Cooled(e)
  /\ circuit'[e] = "open"
  /\ left'[e] \in OpenDuration - MaxLag .. OpenDuration

HalfOpen(e) ==
  /\ circuit[e] = "open" /\ Cooled(e)
  /\ circuit'[e] = "half_open"
  /\ left'[e] = left[e]

Close(e) ==
  /\ \/ circuit[e] = "half_open"
     \/ circuit[e] = "open" /\ Cooled(e) /\ SuccessThreshold = 1
  /\ circuit'[e] = "closed"
  /\ left'[e] = -MaxLag

\* Time passes, or nothing happens.
Wait(e) ==
  /\ left'[e] \in {left[e], left[e] - 1}
  /\ circuit'[e] = circuit[e]

Next == \A e \in Endpoints : Open(e) \/ HalfOpen(e) \/ Close(e) \/ Wait(e)

Spec == Init /\ [][Next]_<<circuit, left>>
=============================================================================
