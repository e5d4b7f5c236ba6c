------------------------------- MODULE Health -------------------------------
(***************************************************************************)
(* Endpoint health: the circuit breakers of internal/health/manager.go and   *)
(* the attempts that claim and report endpoints (the Acquire and Observe     *)
(* closures of internal/app/gateway.go for one hop and for a chain, and       *)
(* checkEndpoint of internal/app/health.go).  Every call of the manager is    *)
(* one locked step, and a chain makes one call for each hop.                  *)
(*                                                                          *)
(* Times are kept relative to the present: left is OpenUntil minus now.  A    *)
(* caller reads the clock before it takes the lock, so a call happens lag     *)
(* ticks after the time it uses.                                             *)
(***************************************************************************)
EXTENDS Integers, Sequences, FiniteSets

CONSTANTS
  Endpoints,          \* proxy endpoint ids
  Attempts,           \* slots for concurrent attempts
  Routes,             \* sequences of distinct endpoints: one hop, or a chain
  FailureThreshold,   \* Config.FailureThreshold
  SuccessThreshold,   \* Config.SuccessThreshold
  OpenDuration,       \* Config.OpenDuration
  MaxLag              \* longest wait between the clock and the lock (bound)

ASSUME HealthAssumption ==
  /\ Routes \subseteq Seq(Endpoints)
  /\ \A rt \in Routes :
       /\ Len(rt) >= 1
       /\ \A i, j \in 1 .. Len(rt) : rt[i] = rt[j] => i = j
  /\ FailureThreshold \in Nat \ {0}
  /\ SuccessThreshold \in Nat \ {0}
  /\ OpenDuration \in Nat \ {0}
  /\ MaxLag \in Nat

VARIABLES
  states,     \* Manager.states: endpoint -> its snapshot
  probes,     \* Manager.probes: endpoints with a half-open attempt in flight
  attempt     \* attempt slot -> its program counter, route and position

vars == <<states, probes, attempt>>

Lowest(m, n) == IF m <= n THEN m ELSE n
Highest(m, n) == IF m >= n THEN m ELSE n

\* The snapshot of an endpoint nobody has observed; the manager makes it when it
\* first needs it.  Counters stop at their thresholds, where all that is asked of
\* them is decided, and an old OpenUntil at -MaxLag, where it is past for every lag.
Unseen == [state |-> "unknown", circuit |-> "closed",
           failures |-> 0, successes |-> 0, left |-> -MaxLag]

\* What is still to report of each hop; release also stands for no report.
Silence == [e \in Endpoints |-> "release"]

\* A slot no attempt uses.
Idle == [pc |-> "idle", hops |-> <<>>, held |-> {}, probing |-> {},
         verdict |-> Silence, age |-> 0]

Init ==
  /\ states = [e \in Endpoints |-> Unseen]
  /\ probes = {}
  /\ attempt = [a \in Attempts |-> Idle]

-----------------------------------------------------------------------------
(* The state machine of one endpoint.                                       *)

\* A time lag ticks ago is before OpenUntil.
Before(s, lag) == s.left + lag > 0

HalfOpened(s) == [s EXCEPT !.circuit = "half_open", !.state = "half_open", !.successes = 0]

BugAfterCooldown(s, lag) ==                 \* leaves the success count alone
  IF s.circuit = "open" /\ ~Before(s, lag)
    THEN [s EXCEPT !.circuit = "half_open"]
    ELSE s

\* afterCooldown.
AfterCooldown(s, lag) ==
  IF s.circuit = "open" /\ ~Before(s, lag) THEN HalfOpened(s) ELSE s

\* Snapshot.Eligible.
Eligible(s, lag) ==
  s.circuit = "closed" \/ (s.circuit = "half_open" /\ ~Before(s, lag))

BugQuarantined(s, lag) ==                   \* a late failure is quarantined longer
  [s EXCEPT !.state = "quarantined", !.circuit = "open", !.left = OpenDuration + lag]

Quarantined(s, lag) ==
  [s EXCEPT !.state = "quarantined", !.circuit = "open", !.left = OpenDuration - lag]

Failed(s, lag) ==
  LET n == Lowest(s.failures + 1, FailureThreshold)
      c == [s EXCEPT !.failures = n, !.successes = 0]
  IN  IF n >= FailureThreshold \/ s.circuit = "half_open"
        THEN Quarantined(c, lag)
        ELSE [c EXCEPT !.state = "degraded"]

Succeeded(s) ==
  LET n == Lowest(s.successes + 1, SuccessThreshold)
      c == [s EXCEPT !.failures = 0, !.successes = n]
  IN  IF s.circuit = "half_open" /\ n >= SuccessThreshold
        THEN [c EXCEPT !.state = "healthy", !.circuit = "closed", !.left = -MaxLag]
        ELSE IF s.state \in {"unknown", "degraded"}
               THEN [c EXCEPT !.state = "healthy"]
               ELSE c

BugObserved(s, lag, verdict) ==             \* a late report ends the cooldown
  LET c == IF s.circuit = "open" THEN HalfOpened(s) ELSE s
  IN  IF verdict = "failure" THEN Failed(c, lag) ELSE Succeeded(c)

\* What Observe makes of a snapshot.  A report during the cooldown is dropped.
Observed(s, lag, verdict) ==
  IF s.circuit = "open" /\ Before(s, lag)
    THEN s
    ELSE LET c == AfterCooldown(s, lag)
         IN  IF verdict = "failure" THEN Failed(c, lag) ELSE Succeeded(c)

-----------------------------------------------------------------------------
(* One attempt: claim every hop, dial, report every hop.                     *)

\* The caller read the clock after its last step.
Lags(a) == 0 .. attempt[a].age

\* Acquire admits: the endpoint is eligible and nobody probes it.
Admits(e, s, lag) == Eligible(s, lag) /\ e \notin probes

All(hops, v) == [e \in Endpoints |-> IF e \in hops THEN v ELSE "release"]

\* What an attempt may report of its hops: one hop always; a chain the same for
\* every hop once the origin answered, else the hop that failed if one did.
Outcomes(hops) ==
  {All(hops, "success"), All(hops, "failure")} \cup
    (IF Cardinality(hops) = 1 THEN {}
     ELSE {Silence} \cup {All({e}, "failure") : e \in hops})

\* A route, or a health check, starts to claim its endpoints.
Start(a, rt) ==
  /\ attempt[a].pc = "idle"
  /\ attempt' = [attempt EXCEPT ![a] = [Idle EXCEPT !.pc = "claim", !.hops = rt]]
  /\ UNCHANGED <<states, probes>>

\* Acquire of the next hop succeeds.
Claim(a) ==
  LET q == attempt[a]  e == Head(q.hops) IN
  /\ q.pc = "claim"
  /\ \E lag \in Lags(a) :
       LET s == AfterCooldown(states[e], lag)
           probe == IF s.circuit = "half_open" THEN {e} ELSE {}
       IN
       /\ Admits(e, s, lag)
       /\ states' = [states EXCEPT ![e] = s]
       /\ probes' = probes \cup probe
       /\ attempt' = [attempt EXCEPT ![a] =
            [q EXCEPT !.pc = IF Len(q.hops) = 1 THEN "flight" ELSE "claim",
                      !.hops = Tail(q.hops), !.held = q.held \cup {e},
                      !.probing = q.probing \cup probe, !.age = 0]]

BugRefuse(a) ==                             \* the claimed hops are forgotten
  LET e == Head(attempt[a].hops) IN
  /\ attempt[a].pc = "claim"
  /\ \E lag \in Lags(a) :
       LET s == AfterCooldown(states[e], lag) IN
       /\ ~Admits(e, s, lag)
       /\ states' = [states EXCEPT ![e] = s]
  /\ attempt' = [attempt EXCEPT ![a] = Idle]
  /\ UNCHANGED probes

BugWait(a) ==                               \* a chain keeps its hops and tries again
  LET q == attempt[a]  e == Head(q.hops) IN
  /\ q.pc = "claim"
  /\ \E lag \in Lags(a) :
       LET s == AfterCooldown(states[e], lag) IN
       /\ ~Admits(e, s, lag)
       /\ states' = [states EXCEPT ![e] = s]
  /\ attempt' = [attempt EXCEPT ![a].age = 0]
  /\ UNCHANGED probes

\* The attempt has these hops left to report; with none it has ended.
Settling(a, hops, verdict) ==
  attempt' = [attempt EXCEPT ![a] =
    IF hops = {} THEN Idle
    ELSE [Idle EXCEPT !.pc = "settle", !.held = hops, !.verdict = verdict,
                      !.probing = attempt[a].probing \cap hops]]

\* Acquire of the next hop is refused: a chain releases the hops it claimed.
Refuse(a) ==
  LET q == attempt[a]  e == Head(q.hops) IN
  /\ q.pc = "claim"
  /\ \E lag \in Lags(a) :
       LET s == AfterCooldown(states[e], lag) IN
       /\ ~Admits(e, s, lag)
       /\ states' = [states EXCEPT ![e] = s]
  /\ Settling(a, q.held, Silence)
  /\ UNCHANGED probes

\* The dial or the exchange ends.
Land(a) ==
  LET q == attempt[a] IN
  /\ q.pc = "flight"
  /\ \E v \in Outcomes(q.held) : Settling(a, q.held, v)
  /\ UNCHANGED <<states, probes>>

\* Observe or Release of one hop; either frees the endpoint's probe, whoever
\* holds it.  The hops are distinct, so their order does not matter.
Settle(a) ==
  LET q == attempt[a] IN
  /\ q.pc = "settle"
  /\ \E e \in q.held, lag \in Lags(a) :
       /\ states' = [states EXCEPT
            ![e] = IF q.verdict[e] = "release" THEN @ ELSE Observed(@, lag, q.verdict[e])]
       /\ probes' = probes \ {e}
       /\ Settling(a, q.held \ {e}, [q.verdict EXCEPT ![e] = "release"])

-----------------------------------------------------------------------------
\* Get, Eligible and EligibleSnapshot, from selectors, sessions and the Admin API.
Look(e) ==
  /\ \E lag \in 0 .. MaxLag : states' = [states EXCEPT ![e] = AfterCooldown(@, lag)]
  /\ UNCHANGED <<probes, attempt>>

Tick ==
  /\ states' = [e \in Endpoints |-> [states[e] EXCEPT !.left = Highest(@ - 1, -MaxLag)]]
  /\ attempt' = [a \in Attempts |->
       IF attempt[a].pc = "idle" THEN Idle
       ELSE [attempt[a] EXCEPT !.age = Lowest(@ + 1, MaxLag)]]
  /\ UNCHANGED probes

Progress(a) == Claim(a) \/ Refuse(a) \/ Land(a) \/ Settle(a)

Next ==
  \/ \E a \in Attempts :
       \/ \E rt \in Routes : Start(a, rt)
       \/ Progress(a)
  \/ \E e \in Endpoints : Look(e)
  \/ Tick

\* Time passes, and every attempt ends: dials and exchanges have deadlines.
Spec ==
  /\ Init /\ [][Next]_vars
  /\ WF_vars(Tick)
  /\ \A a \in Attempts : WF_vars(Progress(a))

-----------------------------------------------------------------------------
(* Properties.                                                              *)

Snapshot ==
  [state : {"unknown", "healthy", "degraded", "quarantined", "half_open"},
   circuit : {"closed", "open", "half_open"}, failures : 0 .. FailureThreshold,
   successes : 0 .. SuccessThreshold, left : -MaxLag .. OpenDuration]

Attempt ==
  [pc : {"idle", "claim", "flight", "settle"}, hops : Seq(Endpoints),
   held : SUBSET Endpoints, probing : SUBSET Endpoints,
   verdict : [Endpoints -> {"success", "failure", "release"}], age : 0 .. MaxLag]

\* Every variable has its shape, an attempt that claims has a hop to claim, an
\* idle slot holds nothing and no attempt probes what it does not hold.
TypeOK ==
  /\ states \in [Endpoints -> Snapshot]
  /\ probes \subseteq Endpoints
  /\ attempt \in [Attempts -> Attempt]
  /\ \A a \in Attempts :
       /\ attempt[a].pc = "idle" => attempt[a].held = {}
       /\ attempt[a].pc = "claim" => attempt[a].hops # <<>>
       /\ attempt[a].probing \subseteq attempt[a].held

PhaseKept(s) ==
  /\ s.circuit = "closed"    => /\ s.state \in {"unknown", "healthy", "degraded"}
                                /\ s.failures < FailureThreshold
  /\ s.circuit = "half_open" => s.state = "half_open" /\ s.successes < SuccessThreshold
  /\ s.circuit = "open"      => s.state = "quarantined" /\ s.successes = 0

\* The reported state and the circuit that routes agree, and the counters of the
\* last phase do not leak into the next: a closed circuit is short of the failure
\* threshold, a half-open one of the success threshold, an open one starts anew;
\* and a probe mark never outlives the half-open phase that made it.
Coherent ==
  \A e \in Endpoints :
    /\ PhaseKept(states[e])
    /\ e \in probes => states[e].circuit = "half_open"

\* Behind every probe mark is an attempt that was admitted as a probe and has not
\* reported yet: no refused, failed or late attempt leaves a mark that would keep
\* the endpoint out of every later route (Manager.probes).
ProbesBacked ==
  \A e \in probes : \E a \in Attempts : e \in attempt[a].probing

\* No endpoint is locked out: again and again Acquire would admit it.
Admissible(e) ==
  /\ e \notin probes
  /\ states[e].circuit # "closed" => states[e].left <= 0

NeverLockedOut == \A e \in Endpoints : []<>Admissible(e)

\* Every endpoint keeps the promise of a circuit breaker, late reports included.
Promise == INSTANCE Breaker WITH
  circuit <- [e \in Endpoints |-> states[e].circuit],
  left    <- [e \in Endpoints |-> states[e].left]

BreaksCircuits == Promise!Spec

\* PROGRESS.md: "only one recovery attempt can use a quarantined endpoint after
\* cooldown".
OneProbe ==
  \A e \in Endpoints : \A a, b \in Attempts :
    e \in attempt[a].probing /\ e \in attempt[b].probing => a = b
=============================================================================
