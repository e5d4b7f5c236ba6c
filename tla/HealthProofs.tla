---------------------------- MODULE HealthProofs ----------------------------
(***************************************************************************)
(* Theorems about Health: types, the coherence of circuits and counters, that *)
(* every probe mark is backed by a live attempt, and that every endpoint      *)
(* implements the abstract circuit breaker.                                   *)
(***************************************************************************)
EXTENDS Health, SequenceTheorems, TLAPS

USE HealthAssumption

-----------------------------------------------------------------------------
(* Types.                                                                   *)

Report == {"success", "failure", "release"}

\* Silence and the idle slot have the shape of an attempt.
LEMMA IdleType == Silence \in [Endpoints -> Report] /\ Idle \in Attempt
BY DEF Silence, Idle, Attempt, Report

\* afterCooldown keeps a snapshot a snapshot.
LEMMA CooldownType ==
  ASSUME NEW s \in Snapshot, NEW lag
  PROVE  AfterCooldown(s, lag) \in Snapshot
<1>1. 0 \in 0 .. SuccessThreshold
  OBVIOUS
<1>2. HalfOpened(s) \in Snapshot
  BY <1>1 DEF HalfOpened, Snapshot
<1> QED BY <1>2 DEF AfterCooldown

\* So do the two kinds of report.
LEMMA FailedType ==
  ASSUME NEW s \in Snapshot, NEW lag \in 0 .. MaxLag
  PROVE  Failed(s, lag) \in Snapshot
<1> DEFINE n == Lowest(s.failures + 1, FailureThreshold)
           c == [s EXCEPT !.failures = n, !.successes = 0]
<1>1. n \in 0 .. FailureThreshold
  BY DEF Lowest, Snapshot
<1>2. 0 \in 0 .. SuccessThreshold
  OBVIOUS
<1>3. c \in Snapshot
  <2> HIDE DEF n
  <2> QED BY <1>1, <1>2 DEF Snapshot
<1>4. OpenDuration - lag \in -MaxLag .. OpenDuration
  OBVIOUS
<1>5. Quarantined(c, lag) \in Snapshot
  <2> HIDE DEF c
  <2> QED BY <1>3, <1>4 DEF Quarantined, Snapshot
<1>6. [c EXCEPT !.state = "degraded"] \in Snapshot
  <2> HIDE DEF c
  <2> QED BY <1>3 DEF Snapshot
<1> QED BY <1>5, <1>6 DEF Failed

LEMMA SucceededType ==
  ASSUME NEW s \in Snapshot
  PROVE  Succeeded(s) \in Snapshot
<1> DEFINE n == Lowest(s.successes + 1, SuccessThreshold)
           c == [s EXCEPT !.failures = 0, !.successes = n]
<1>1. n \in 0 .. SuccessThreshold
  BY DEF Lowest, Snapshot
<1>2. 0 \in 0 .. FailureThreshold
  OBVIOUS
<1>3. c \in Snapshot
  <2> HIDE DEF n
  <2> QED BY <1>1, <1>2 DEF Snapshot
<1>4. -MaxLag \in -MaxLag .. OpenDuration
  OBVIOUS
<1>5. /\ [c EXCEPT !.state = "healthy", !.circuit = "closed", !.left = -MaxLag] \in Snapshot
      /\ [c EXCEPT !.state = "healthy"] \in Snapshot
  <2> HIDE DEF c
  <2> QED BY <1>3, <1>4 DEF Snapshot
<1> QED BY <1>3, <1>5 DEF Succeeded

LEMMA ObservedType ==
  ASSUME NEW s \in Snapshot, NEW lag \in 0 .. MaxLag, NEW v
  PROVE  Observed(s, lag, v) \in Snapshot
<1>1. AfterCooldown(s, lag) \in Snapshot
  BY CooldownType
<1> QED BY <1>1, FailedType, SucceededType DEF Observed

\* The verdicts Land chooses from are functions of the endpoints.
LEMMA OutcomeType ==
  ASSUME NEW hops \in SUBSET Endpoints, NEW v \in Outcomes(hops)
  PROVE  v \in [Endpoints -> Report]
BY IdleType DEF Outcomes, All, Report

\* The next state of an attempt that settles.
LEMMA SettlingType ==
  ASSUME TypeOK, NEW a \in Attempts, NEW hops \in SUBSET Endpoints,
         NEW v \in [Endpoints -> Report], Settling(a, hops, v)
  PROVE  /\ attempt' \in [Attempts -> Attempt]
         /\ attempt'[a].pc # "claim"
         /\ attempt'[a].pc = "idle" => hops = {}
         /\ attempt'[a].held = hops
         /\ attempt'[a].probing = attempt[a].probing \cap hops
         /\ \A b \in Attempts \ {a} : attempt'[b] = attempt[b]
<1> DEFINE q == [Idle EXCEPT !.pc = "settle", !.held = hops, !.verdict = v,
                             !.probing = attempt[a].probing \cap hops]
<1>1. attempt[a] \in Attempt
  BY DEF TypeOK
<1>2. attempt[a].probing \cap hops \in SUBSET Endpoints
  OBVIOUS
<1>3. /\ q.pc = "settle" /\ q.held = hops
      /\ q.probing = attempt[a].probing \cap hops
  BY DEF Idle
<1>5. q \in Attempt
  BY <1>2, IdleType DEF Attempt, Report
<1>6. attempt' = [attempt EXCEPT ![a] = IF hops = {} THEN Idle ELSE q]
  BY DEF Settling
<1>7. attempt'[a] = IF hops = {} THEN Idle ELSE q
  BY <1>6 DEF TypeOK
<1>8. /\ attempt' \in [Attempts -> Attempt]
      /\ \A b \in Attempts \ {a} : attempt'[b] = attempt[b]
  BY <1>5, <1>6, IdleType DEF TypeOK
<1> QED BY <1>3, <1>7, <1>8 DEF Idle

\* The shapes hold at first.
LEMMA InitType == Init => TypeOK
<1> SUFFICES ASSUME Init PROVE TypeOK
  OBVIOUS
<1>1. -MaxLag \in -MaxLag .. OpenDuration
  OBVIOUS
<1>2. Unseen \in Snapshot
  BY <1>1 DEF Unseen, Snapshot
<1>3. Idle.pc = "idle" /\ Idle.held = {} /\ Idle.probing = {}
  BY DEF Idle
<1> QED BY <1>2, <1>3, IdleType DEF Init, TypeOK

\* What Claim does to an attempt.
LEMMA ClaimType ==
  ASSUME TypeOK, NEW a \in Attempts, Claim(a)
  PROVE  LET e == Head(attempt[a].hops) IN
         /\ e \in Endpoints
         /\ \E lag \in 0 .. MaxLag :
              LET s == AfterCooldown(states[e], lag) IN
              /\ Admits(e, s, lag)
              /\ states' = [states EXCEPT ![e] = s]
              /\ probes' = probes \cup (IF s.circuit = "half_open" THEN {e} ELSE {})
              /\ attempt' \in [Attempts -> Attempt]
              /\ attempt'[a].pc # "idle"
              /\ attempt'[a].pc = "claim" => attempt'[a].hops # <<>>
              /\ attempt'[a].held = attempt[a].held \cup {e}
              /\ attempt'[a].probing =
                   attempt[a].probing \cup (IF s.circuit = "half_open" THEN {e} ELSE {})
              /\ \A b \in Attempts \ {a} : attempt'[b] = attempt[b]
<1> DEFINE q == attempt[a]
           e == Head(q.hops)
<1>1. q \in Attempt /\ q.pc = "claim" /\ q.hops # <<>>
  BY DEF TypeOK, Claim
<1>2. q.hops \in Seq(Endpoints)
  BY <1>1 DEF Attempt
<1>3. e \in Endpoints /\ Tail(q.hops) \in Seq(Endpoints) /\ (Len(q.hops) # 1 => Tail(q.hops) # <<>>)
  <2>1. /\ e \in Endpoints /\ Tail(q.hops) \in Seq(Endpoints)
        /\ Len(Tail(q.hops)) = Len(q.hops) - 1
    BY <1>1, <1>2, HeadTailProperties
  <2>2. Len(q.hops) \in Nat
    BY <1>2
  <2>3. Len(Tail(q.hops)) = 0 => Len(q.hops) = 1
    BY <2>1, <2>2
  <2>4. Tail(q.hops) = <<>> => Len(Tail(q.hops)) = 0
    BY EmptySeq
  <2> QED BY <2>1, <2>3, <2>4
<1>4. PICK lag \in Lags(a) :
        LET s == AfterCooldown(states[e], lag)
            probe == IF s.circuit = "half_open" THEN {e} ELSE {}
        IN
        /\ Admits(e, s, lag)
        /\ states' = [states EXCEPT ![e] = s]
        /\ probes' = probes \cup probe
        /\ attempt' = [attempt EXCEPT ![a] =
             [q EXCEPT !.pc = IF Len(q.hops) = 1 THEN "flight" ELSE "claim",
                       !.hops = Tail(q.hops), !.held = q.held \cup {e},
                       !.probing = q.probing \cup probe, !.age = 0]]
  BY DEF Claim
<1>5. lag \in 0 .. MaxLag
  BY <1>1 DEF Lags, Attempt
<1> DEFINE s == AfterCooldown(states[e], lag)
           probe == IF s.circuit = "half_open" THEN {e} ELSE {}
           pc == IF Len(q.hops) = 1 THEN "flight" ELSE "claim"
           r == [q EXCEPT !.pc = pc, !.hops = Tail(q.hops), !.held = q.held \cup {e},
                          !.probing = q.probing \cup probe, !.age = 0]
<1>6. pc \in {"claim", "flight"} /\ (pc = "claim" => Len(q.hops) # 1)
  OBVIOUS
<1>7. q.held \cup {e} \in SUBSET Endpoints /\ q.probing \cup probe \in SUBSET Endpoints
  BY <1>1, <1>3 DEF Attempt
<1>8. 0 \in 0 .. MaxLag
  OBVIOUS
<1>9. /\ r \in Attempt
      /\ r.pc = pc /\ r.hops = Tail(q.hops)
      /\ r.held = q.held \cup {e} /\ r.probing = q.probing \cup probe
  <2> HIDE DEF pc, probe
  <2> QED BY <1>1, <1>3, <1>6, <1>7, <1>8 DEF Attempt
<1>10. attempt' = [attempt EXCEPT ![a] = r]
  BY <1>4
<1>11. /\ attempt'[a] = r /\ attempt' \in [Attempts -> Attempt]
       /\ \A b \in Attempts \ {a} : attempt'[b] = attempt[b]
  <2> HIDE DEF r
  <2> QED BY <1>9, <1>10 DEF TypeOK
<1>12. /\ Admits(e, s, lag)
       /\ states' = [states EXCEPT ![e] = s]
       /\ probes' = probes \cup probe
  BY <1>4
<1> HIDE DEF r, pc
<1> QED BY <1>3, <1>5, <1>6, <1>9, <1>11, <1>12

\* An attempt's lags are within the bound.
LEMMA LagType ==
  ASSUME TypeOK, NEW a \in Attempts, NEW lag \in Lags(a)
  PROVE  lag \in 0 .. MaxLag
<1>1. attempt[a] \in Attempt
  BY DEF TypeOK
<1> QED BY <1>1 DEF Lags, Attempt

\* What Refuse, Land and Settle do to an attempt.
LEMMA SettleType ==
  ASSUME TypeOK, NEW a \in Attempts, Refuse(a) \/ Land(a) \/ Settle(a)
  PROVE  \E hops \in SUBSET attempt[a].held :
           /\ attempt' \in [Attempts -> Attempt]
           /\ attempt'[a].pc # "claim"
           /\ attempt'[a].pc = "idle" => hops = {}
           /\ attempt'[a].held = hops
           /\ attempt'[a].probing = attempt[a].probing \cap hops
           /\ \A b \in Attempts \ {a} : attempt'[b] = attempt[b]
           /\ \A e \in attempt[a].held \ hops : e \notin probes'
<1>1. attempt[a] \in Attempt
  BY DEF TypeOK
<1>2. attempt[a].held \in SUBSET Endpoints
  BY <1>1 DEF Attempt
<1>3. CASE Refuse(a)
  <2>1. Settling(a, attempt[a].held, Silence)
    BY <1>3 DEF Refuse
  <2> QED BY <2>1, <1>2, SettlingType, IdleType
<1>4. CASE Land(a)
  <2>1. PICK v \in Outcomes(attempt[a].held) : Settling(a, attempt[a].held, v)
    BY <1>4 DEF Land
  <2>2. v \in [Endpoints -> Report]
    BY <1>2, OutcomeType
  <2> QED BY <2>1, <2>2, <1>2, SettlingType
<1>5. CASE Settle(a)
  <2>1. PICK e \in attempt[a].held :
          /\ probes' = probes \ {e}
          /\ Settling(a, attempt[a].held \ {e}, [attempt[a].verdict EXCEPT ![e] = "release"])
    BY <1>5 DEF Settle
  <2>2. [attempt[a].verdict EXCEPT ![e] = "release"] \in [Endpoints -> Report]
    BY <1>1, <1>2 DEF Attempt, Report
  <2>3. attempt[a].held \ {e} \in SUBSET Endpoints
    BY <1>2
  <2> DEFINE hops == attempt[a].held \ {e}
  <2>4. \A f \in attempt[a].held \ hops : f \notin probes'
    BY <2>1
  <2>5. /\ attempt' \in [Attempts -> Attempt]
        /\ attempt'[a].pc # "claim"
        /\ attempt'[a].pc = "idle" => hops = {}
        /\ attempt'[a].held = hops
        /\ attempt'[a].probing = attempt[a].probing \cap hops
        /\ \A b \in Attempts \ {a} : attempt'[b] = attempt[b]
    BY <2>1, <2>2, <2>3, SettlingType
  <2>6. hops \in SUBSET attempt[a].held
    OBVIOUS
  <2> HIDE DEF hops
  <2> QED BY <2>4, <2>5, <2>6
<1> QED BY <1>3, <1>4, <1>5

\* What the steps of attempts, readers and the clock may do to a snapshot.
Reported(s, t) ==
  \/ t = s
  \/ \E lag \in 0 .. MaxLag :
       \/ t = AfterCooldown(s, lag)
       \/ \E v \in {"success", "failure"} : t = Observed(s, lag, v)

LEMMA SnapshotStep ==
  ASSUME TypeOK, NEW a \in Attempts, Progress(a)
  PROVE  /\ states' \in [Endpoints -> Snapshot]
         /\ \A e \in Endpoints : Reported(states[e], states'[e])
<1>1. attempt[a] \in Attempt /\ states \in [Endpoints -> Snapshot]
  BY DEF TypeOK
<1>2. CASE Claim(a)
  <2> DEFINE e == Head(attempt[a].hops)
  <2>1. PICK lag \in 0 .. MaxLag :
          e \in Endpoints /\ states' = [states EXCEPT ![e] = AfterCooldown(states[e], lag)]
    BY <1>2, ClaimType
  <2>2. AfterCooldown(states[e], lag) \in Snapshot
    BY <1>1, <2>1, CooldownType
  <2> QED BY <1>1, <2>1, <2>2 DEF Reported
<1>3. CASE Refuse(a)
  <2> DEFINE e == Head(attempt[a].hops)
  <2>1. PICK lag \in Lags(a) : states' = [states EXCEPT ![e] = AfterCooldown(states[e], lag)]
    BY <1>3 DEF Refuse
  <2>2. lag \in 0 .. MaxLag
    BY LagType
  <2>3. e \in Endpoints
    <3>1. attempt[a].hops \in Seq(Endpoints) /\ attempt[a].hops # <<>>
      BY <1>1, <1>3 DEF Attempt, TypeOK, Refuse
    <3> QED BY <3>1, HeadTailProperties
  <2>4. AfterCooldown(states[e], lag) \in Snapshot
    BY <1>1, <2>2, <2>3, CooldownType
  <2> QED BY <1>1, <2>1, <2>2, <2>3, <2>4 DEF Reported
<1>4. CASE Land(a)
  BY <1>1, <1>4 DEF Land, Reported
<1>5. CASE Settle(a)
  <2>1. PICK e \in attempt[a].held, lag \in Lags(a) :
          states' = [states EXCEPT
            ![e] = IF attempt[a].verdict[e] = "release" THEN @
                   ELSE Observed(@, lag, attempt[a].verdict[e])]
    BY <1>5 DEF Settle
  <2>2. e \in Endpoints /\ lag \in 0 .. MaxLag
    BY <1>1, LagType DEF Attempt
  <2> DEFINE v == attempt[a].verdict[e]
             t == IF v = "release" THEN states[e] ELSE Observed(states[e], lag, v)
  <2>3. v \in Report
    BY <1>1, <2>2 DEF Attempt, Report
  <2>4. t \in Snapshot
    BY <1>1, <2>2, ObservedType
  <2>5. Reported(states[e], t)
    BY <2>2, <2>3 DEF Reported, Report
  <2>6. states' = [states EXCEPT ![e] = t]
    BY <2>1
  <2> HIDE DEF t
  <2> QED BY <1>1, <2>2, <2>4, <2>5, <2>6 DEF Reported
<1> QED BY <1>2, <1>3, <1>4, <1>5 DEF Progress

\* The clock keeps snapshots snapshots and changes only what is left of them.
LEMMA TickStep ==
  ASSUME TypeOK, Tick
  PROVE  /\ states' \in [Endpoints -> Snapshot]
         /\ \A e \in Endpoints :
              states'[e] = [states[e] EXCEPT !.left = Highest(states[e].left - 1, -MaxLag)]
<1>1. \A e \in Endpoints :
        /\ states[e] \in Snapshot
        /\ states'[e] = [states[e] EXCEPT !.left = Highest(states[e].left - 1, -MaxLag)]
  BY DEF TypeOK, Tick
<1>2. ASSUME NEW e \in Endpoints PROVE states'[e] \in Snapshot
  <2> DEFINE l == Highest(states[e].left - 1, -MaxLag)
  <2>1. states[e].left \in -MaxLag .. OpenDuration
    BY <1>1 DEF Snapshot
  <2>2. l \in -MaxLag .. OpenDuration
    BY <2>1 DEF Highest
  <2>3. states[e] \in Snapshot /\ states'[e] = [states[e] EXCEPT !.left = l]
    BY <1>1
  <2> HIDE DEF l
  <2> QED BY <2>2, <2>3 DEF Snapshot
<1> QED BY <1>1, <1>2 DEF Tick

\* What the clock does to an attempt.
LEMMA TickAttempts ==
  ASSUME TypeOK, Tick
  PROVE  /\ attempt' \in [Attempts -> Attempt]
         /\ \A a \in Attempts :
              /\ attempt'[a].pc = attempt[a].pc
              /\ attempt[a].pc = "idle" => attempt'[a].held = {} /\ attempt'[a].probing = {}
              /\ attempt[a].pc # "idle" => /\ attempt'[a].held = attempt[a].held
                                           /\ attempt'[a].probing = attempt[a].probing
                                           /\ attempt'[a].hops = attempt[a].hops
<1>1. ASSUME NEW a \in Attempts
      PROVE  /\ attempt'[a] \in Attempt
             /\ attempt'[a].pc = attempt[a].pc
             /\ attempt[a].pc = "idle" => attempt'[a].held = {} /\ attempt'[a].probing = {}
             /\ attempt[a].pc # "idle" => /\ attempt'[a].held = attempt[a].held
                                          /\ attempt'[a].probing = attempt[a].probing
                                          /\ attempt'[a].hops = attempt[a].hops
  <2>1. attempt[a] \in Attempt
    BY DEF TypeOK
  <2>2. CASE attempt[a].pc = "idle"
    <3>1. attempt'[a] = Idle
      BY <2>2 DEF Tick
    <3> QED BY <3>1, <2>2, IdleType DEF Idle
  <2>3. CASE attempt[a].pc # "idle"
    <3> DEFINE n == Lowest(attempt[a].age + 1, MaxLag)
    <3>1. attempt'[a] = [attempt[a] EXCEPT !.age = n]
      BY <2>3 DEF Tick
    <3>2. n \in 0 .. MaxLag
      BY <2>1 DEF Attempt, Lowest
    <3> HIDE DEF n
    <3> QED BY <2>1, <2>3, <3>1, <3>2 DEF Attempt
  <2> QED BY <2>2, <2>3
<1> QED BY <1>1 DEF Tick

\* Every step keeps the shapes.
LEMMA StepType == TypeOK /\ [Next]_vars => TypeOK'
<1> SUFFICES ASSUME TypeOK, [Next]_vars PROVE TypeOK'
  OBVIOUS
<1>1. ASSUME NEW a \in Attempts, NEW rt \in Routes, Start(a, rt)
      PROVE  TypeOK'
  <2> DEFINE r == [Idle EXCEPT !.pc = "claim", !.hops = rt]
  <2>1. rt \in Seq(Endpoints) /\ Len(rt) >= 1
    OBVIOUS
  <2>2. rt # <<>>
    BY <2>1, EmptySeq
  <2>3. /\ r \in Attempt /\ r.pc = "claim" /\ r.hops = rt
        /\ r.held = {} /\ r.probing = {}
    BY <2>1, IdleType DEF Attempt, Idle
  <2>4. attempt' = [attempt EXCEPT ![a] = r] /\ states' = states /\ probes' = probes
    BY <1>1 DEF Start
  <2> HIDE DEF r
  <2> QED BY <2>2, <2>3, <2>4 DEF TypeOK
<1>2. ASSUME NEW a \in Attempts, Progress(a)
      PROVE  TypeOK'
  <2>1. states' \in [Endpoints -> Snapshot]
    BY <1>2, SnapshotStep
  <2>2. CASE Claim(a)
    <3> DEFINE e == Head(attempt[a].hops)
    <3>1. PICK p \in SUBSET {e} :
            /\ e \in Endpoints
            /\ probes' = probes \cup p
            /\ attempt' \in [Attempts -> Attempt]
            /\ attempt'[a].pc # "idle"
            /\ attempt'[a].pc = "claim" => attempt'[a].hops # <<>>
            /\ attempt'[a].held = attempt[a].held \cup {e}
            /\ attempt'[a].probing = attempt[a].probing \cup p
            /\ \A b \in Attempts \ {a} : attempt'[b] = attempt[b]
      BY <2>2, ClaimType
    <3> HIDE DEF e
    <3> QED BY <2>1, <3>1 DEF TypeOK
  <2>3. CASE Refuse(a) \/ Land(a) \/ Settle(a)
    <3>1. probes' \subseteq Endpoints
      BY <2>3 DEF TypeOK, Refuse, Land, Settle
    <3>2. PICK hops \in SUBSET attempt[a].held :
            /\ attempt' \in [Attempts -> Attempt]
            /\ attempt'[a].pc # "claim"
            /\ attempt'[a].pc = "idle" => hops = {}
            /\ attempt'[a].held = hops
            /\ attempt'[a].probing = attempt[a].probing \cap hops
            /\ \A b \in Attempts \ {a} : attempt'[b] = attempt[b]
      BY <2>3, SettleType
    <3> QED BY <2>1, <3>1, <3>2 DEF TypeOK
  <2> QED BY <1>2, <2>2, <2>3 DEF Progress
<1>3. ASSUME NEW e \in Endpoints, Look(e)
      PROVE  TypeOK'
  <2>1. PICK lag \in 0 .. MaxLag : states' = [states EXCEPT ![e] = AfterCooldown(@, lag)]
    BY <1>3 DEF Look
  <2>2. AfterCooldown(states[e], lag) \in Snapshot
    BY CooldownType DEF TypeOK
  <2> QED BY <1>3, <2>1, <2>2 DEF TypeOK, Look
<1>4. CASE Tick
  <2>1. probes' = probes
    BY <1>4 DEF Tick
  <2> QED BY <1>4, <2>1, TickStep, TickAttempts DEF TypeOK
<1>5. CASE UNCHANGED vars
  BY <1>5 DEF TypeOK, vars
<1> QED BY <1>1, <1>2, <1>3, <1>4, <1>5 DEF Next

\* Every variable keeps its shape, whatever the thresholds, the routes and the
\* number of attempts.
THEOREM TypeCorrect == Spec => []TypeOK
<1>1. Init => TypeOK
  BY InitType
<1>2. TypeOK /\ [Next]_vars => TypeOK'
  BY StepType
<1> QED BY <1>1, <1>2, PTL DEF Spec

-----------------------------------------------------------------------------
(* Coherence of circuits, states and counters.                              *)

\* afterCooldown enters the half-open phase with no success to its credit.
LEMMA PhaseCooldown ==
  ASSUME NEW s \in Snapshot, PhaseKept(s), NEW lag
  PROVE  PhaseKept(AfterCooldown(s, lag))
<1>1. HalfOpened(s).circuit = "half_open" /\ HalfOpened(s).state = "half_open"
      /\ HalfOpened(s).successes = 0
  BY DEF HalfOpened, Snapshot
<1> QED BY <1>1 DEF AfterCooldown, PhaseKept

\* What a failure leaves: an open circuit, or a closed one short of the threshold.
LEMMA FailedFields ==
  ASSUME NEW s \in Snapshot, NEW lag
  PROVE  LET n == Lowest(s.failures + 1, FailureThreshold)
             t == Failed(s, lag) IN
         \/ /\ n >= FailureThreshold \/ s.circuit = "half_open"
            /\ t.circuit = "open" /\ t.state = "quarantined" /\ t.successes = 0
            /\ t.left = OpenDuration - lag
         \/ /\ ~(n >= FailureThreshold) /\ s.circuit # "half_open"
            /\ t.circuit = s.circuit /\ t.state = "degraded" /\ t.failures = n
            /\ t.left = s.left
<1> DEFINE n == Lowest(s.failures + 1, FailureThreshold)
           c == [s EXCEPT !.failures = n, !.successes = 0]
<1>1. /\ c.circuit = s.circuit /\ c.left = s.left /\ c.failures = n /\ c.successes = 0
      /\ DOMAIN c = DOMAIN s
      /\ "state" \in DOMAIN c /\ "circuit" \in DOMAIN c /\ "left" \in DOMAIN c
  <2> HIDE DEF n
  <2> QED BY DEF Snapshot
<1>2. CASE n >= FailureThreshold \/ s.circuit = "half_open"
  <2>1. Failed(s, lag) = [c EXCEPT !.state = "quarantined", !.circuit = "open",
                                   !.left = OpenDuration - lag]
    BY <1>2 DEF Failed, Quarantined
  <2>2. /\ Failed(s, lag).circuit = "open" /\ Failed(s, lag).state = "quarantined"
        /\ Failed(s, lag).successes = 0 /\ Failed(s, lag).left = OpenDuration - lag
    <3> HIDE DEF c
    <3> QED BY <1>1, <2>1
  <2> QED BY <1>2, <2>2
<1>3. CASE ~(n >= FailureThreshold \/ s.circuit = "half_open")
  <2>1. Failed(s, lag) = [c EXCEPT !.state = "degraded"]
    BY <1>3 DEF Failed
  <2>2. /\ Failed(s, lag).circuit = s.circuit /\ Failed(s, lag).state = "degraded"
        /\ Failed(s, lag).failures = n /\ Failed(s, lag).left = s.left
    <3> HIDE DEF c, n
    <3> QED BY <1>1, <2>1
  <2> QED BY <1>3, <2>2
<1> QED BY <1>2, <1>3

\* What a success leaves: a circuit closed from half-open, or the same circuit.
LEMMA SucceededFields ==
  ASSUME NEW s \in Snapshot
  PROVE  LET n == Lowest(s.successes + 1, SuccessThreshold)
             t == Succeeded(s) IN
         /\ t.failures = 0 /\ t.successes = n
         /\ \/ /\ s.circuit = "half_open" /\ n >= SuccessThreshold
               /\ t.circuit = "closed" /\ t.state = "healthy" /\ t.left = -MaxLag
            \/ /\ ~(s.circuit = "half_open" /\ n >= SuccessThreshold)
               /\ t.circuit = s.circuit /\ t.left = s.left
               /\ t.state = IF s.state \in {"unknown", "degraded"} THEN "healthy" ELSE s.state
<1> DEFINE n == Lowest(s.successes + 1, SuccessThreshold)
           c == [s EXCEPT !.failures = 0, !.successes = n]
<1>1. /\ c.circuit = s.circuit /\ c.left = s.left /\ c.failures = 0 /\ c.successes = n
      /\ c.state = s.state
      /\ "state" \in DOMAIN c /\ "circuit" \in DOMAIN c /\ "left" \in DOMAIN c
  <2> HIDE DEF n
  <2> QED BY DEF Snapshot
<1>2. CASE s.circuit = "half_open" /\ n >= SuccessThreshold
  <2>1. Succeeded(s) = [c EXCEPT !.state = "healthy", !.circuit = "closed", !.left = -MaxLag]
    BY <1>2 DEF Succeeded
  <2>2. /\ Succeeded(s).failures = 0 /\ Succeeded(s).successes = n
        /\ Succeeded(s).circuit = "closed" /\ Succeeded(s).state = "healthy"
        /\ Succeeded(s).left = -MaxLag
    <3> HIDE DEF c, n
    <3> QED BY <1>1, <2>1
  <2> QED BY <1>2, <2>2
<1>3. CASE ~(s.circuit = "half_open" /\ n >= SuccessThreshold)
  <2>1. Succeeded(s) = IF s.state \in {"unknown", "degraded"}
                         THEN [c EXCEPT !.state = "healthy"] ELSE c
    BY <1>3 DEF Succeeded
  <2>2. /\ Succeeded(s).failures = 0 /\ Succeeded(s).successes = n
        /\ Succeeded(s).circuit = s.circuit /\ Succeeded(s).left = s.left
        /\ Succeeded(s).state = IF s.state \in {"unknown", "degraded"}
                                  THEN "healthy" ELSE s.state
    <3> HIDE DEF c, n
    <3> QED BY <1>1, <2>1
  <2> QED BY <1>3, <2>2
<1> QED BY <1>2, <1>3

\* A report, dropped or applied, leaves the phase intact.
LEMMA PhaseObserved ==
  ASSUME NEW s \in Snapshot, PhaseKept(s), NEW lag \in 0 .. MaxLag, NEW v
  PROVE  PhaseKept(Observed(s, lag, v))
<1> DEFINE c == AfterCooldown(s, lag)
<1>1. c \in Snapshot /\ PhaseKept(c)
  BY CooldownType, PhaseCooldown
<1>2. CASE s.circuit = "open" /\ Before(s, lag)
  BY <1>2 DEF Observed
<1>3. CASE ~(s.circuit = "open" /\ Before(s, lag))
  <2>1. c.circuit # "open"
    BY <1>3 DEF AfterCooldown, HalfOpened, Snapshot
  <2>2. c.circuit \in {"closed", "half_open"}
    BY <1>1, <2>1 DEF Snapshot
  <2>3. 0 < FailureThreshold /\ 0 < SuccessThreshold
    OBVIOUS
  <2>4. Lowest(c.failures + 1, FailureThreshold) \in Nat
        /\ Lowest(c.successes + 1, SuccessThreshold) \in Nat
    BY <1>1 DEF Snapshot, Lowest
  <2>5. PhaseKept(Failed(c, lag))
    <3> HIDE DEF c
    <3> QED BY <1>1, <2>2, <2>4, FailedFields DEF PhaseKept
  <2>6. PhaseKept(Succeeded(c))
    <3> HIDE DEF c
    <3> QED BY <1>1, <2>2, <2>3, <2>4, SucceededFields DEF PhaseKept
  <2> QED BY <1>3, <2>5, <2>6 DEF Observed
<1> QED BY <1>2, <1>3

LEMMA PhaseReported ==
  ASSUME NEW s \in Snapshot, PhaseKept(s), NEW t, Reported(s, t)
  PROVE  PhaseKept(t)
BY PhaseCooldown, PhaseObserved DEF Reported

\* A half-open circuit is left alone by afterCooldown.
LEMMA HalfOpenStays ==
  ASSUME NEW s, NEW lag, s.circuit = "half_open"
  PROVE  AfterCooldown(s, lag) = s
BY DEF AfterCooldown

\* The coherence of Coherent, and that probing needs a half-open circuit, survive
\* every step.
LEMMA StepCoherent == TypeOK /\ Coherent /\ [Next]_vars => Coherent'
<1> SUFFICES ASSUME TypeOK, Coherent, [Next]_vars PROVE Coherent'
  OBVIOUS
<1>1. \A e \in Endpoints : states[e] \in Snapshot /\ PhaseKept(states[e])
  BY DEF TypeOK, Coherent
<1>2. ASSUME NEW a \in Attempts, NEW rt \in Routes, Start(a, rt)
      PROVE  Coherent'
  BY <1>2 DEF Start, Coherent
<1>3. ASSUME NEW a \in Attempts, Progress(a)
      PROVE  Coherent'
  <2>1. \A e \in Endpoints : PhaseKept(states'[e])
    BY <1>1, <1>3, SnapshotStep, PhaseReported
  <2>2. CASE Claim(a)
    <3> DEFINE e == Head(attempt[a].hops)
    <3>1. PICK lag \in 0 .. MaxLag :
            /\ e \in Endpoints
            /\ states' = [states EXCEPT ![e] = AfterCooldown(states[e], lag)]
            /\ probes' = probes \cup
                 (IF AfterCooldown(states[e], lag).circuit = "half_open" THEN {e} ELSE {})
      BY <2>2, ClaimType
    <3>2. ASSUME NEW f \in Endpoints, f \in probes'
          PROVE  states'[f].circuit = "half_open"
      <4>1. CASE f = e
        BY <1>1, <3>1, <3>2, <4>1, HalfOpenStays DEF TypeOK, Coherent
      <4>2. CASE f # e
        BY <3>1, <3>2, <4>2 DEF TypeOK, Coherent
      <4> QED BY <4>1, <4>2
    <3> QED BY <2>1, <3>2 DEF Coherent
  <2>3. CASE Refuse(a)
    <3>1. PICK lag \in Lags(a) :
            states' = [states EXCEPT ![Head(attempt[a].hops)] =
                         AfterCooldown(states[Head(attempt[a].hops)], lag)]
      BY <2>3 DEF Refuse
    <3>2. \A f \in probes : states'[f].circuit = "half_open"
      BY <3>1, HalfOpenStays DEF TypeOK, Coherent
    <3> QED BY <2>1, <2>3, <3>2 DEF Coherent, Refuse
  <2>4. CASE Land(a)
    BY <2>4 DEF Land, Coherent
  <2>5. CASE Settle(a)
    <3>1. PICK e \in attempt[a].held, lag \in Lags(a) :
            /\ states' = [states EXCEPT
                 ![e] = IF attempt[a].verdict[e] = "release" THEN @
                        ELSE Observed(@, lag, attempt[a].verdict[e])]
            /\ probes' = probes \ {e}
      BY <2>5 DEF Settle
    <3>2. \A f \in Endpoints \ {e} : states'[f] = states[f]
      BY <3>1 DEF TypeOK
    <3> QED BY <2>1, <3>1, <3>2 DEF Coherent
  <2> QED BY <1>3, <2>2, <2>3, <2>4, <2>5 DEF Progress
<1>4. ASSUME NEW e \in Endpoints, Look(e)
      PROVE  Coherent'
  <2>1. PICK lag \in 0 .. MaxLag : states' = [states EXCEPT ![e] = AfterCooldown(states[e], lag)]
    BY <1>4 DEF Look
  <2>2. \A f \in Endpoints : PhaseKept(states'[f])
    BY <1>1, <2>1, PhaseCooldown DEF TypeOK
  <2>3. \A f \in probes : states'[f].circuit = "half_open"
    BY <2>1, HalfOpenStays DEF TypeOK, Coherent
  <2> QED BY <1>4, <2>2, <2>3 DEF Coherent, Look
<1>5. CASE Tick
  <2>1. ASSUME NEW e \in Endpoints
        PROVE  /\ states'[e].state = states[e].state
               /\ states'[e].circuit = states[e].circuit
               /\ states'[e].failures = states[e].failures
               /\ states'[e].successes = states[e].successes
    BY <1>1, <1>5, TickStep DEF Snapshot
  <2>2. probes' = probes
    BY <1>5 DEF Tick
  <2> QED BY <2>1, <2>2 DEF Coherent, PhaseKept
<1>6. CASE UNCHANGED vars
  BY <1>6 DEF Coherent, vars
<1> QED BY <1>2, <1>3, <1>4, <1>5, <1>6 DEF Next

\* The reported state, the circuit and the counters agree for any thresholds, and
\* a probe mark belongs to a half-open circuit.
THEOREM Coherence == Spec => []Coherent
<1>1. Init => Coherent
  BY DEF Init, Coherent, PhaseKept, Unseen
<1>2. TypeOK /\ Coherent /\ [Next]_vars => Coherent'
  BY StepCoherent
<1> QED BY <1>1, <1>2, TypeCorrect, PTL DEF Spec

-----------------------------------------------------------------------------
(* Probe marks.                                                             *)

\* A step that frees a hop of an attempt frees its mark, and one that marks an
\* endpoint makes the attempt its prober.
LEMMA StepBacked == TypeOK /\ ProbesBacked /\ [Next]_vars => ProbesBacked'
<1> SUFFICES ASSUME TypeOK, ProbesBacked, [Next]_vars, NEW e \in probes'
             PROVE  \E b \in Attempts : e \in attempt'[b].probing
  BY DEF ProbesBacked
<1>1. ASSUME e \in probes
      PROVE  \E b \in Attempts : /\ e \in attempt[b].probing /\ e \in attempt[b].held
                                 /\ attempt[b].pc # "idle"
  BY <1>1 DEF ProbesBacked, TypeOK
<1>2. ASSUME NEW a \in Attempts, NEW rt \in Routes, Start(a, rt)
      PROVE  \E b \in Attempts : e \in attempt'[b].probing
  <2>1. e \in probes /\ \A b \in Attempts \ {a} : attempt'[b] = attempt[b]
    BY <1>2 DEF Start, TypeOK
  <2> QED BY <1>1, <1>2, <2>1 DEF Start
<1>3. ASSUME NEW a \in Attempts, Claim(a)
      PROVE  \E b \in Attempts : e \in attempt'[b].probing
  <2>1. PICK p \in SUBSET {Head(attempt[a].hops)} :
          /\ probes' = probes \cup p
          /\ attempt'[a].probing = attempt[a].probing \cup p
          /\ \A b \in Attempts \ {a} : attempt'[b] = attempt[b]
    BY <1>3, ClaimType
  <2>2. CASE e \in p
    BY <2>1, <2>2
  <2>3. CASE e \in probes
    BY <1>1, <2>1, <2>3
  <2> QED BY <2>1, <2>2, <2>3
<1>4. ASSUME NEW a \in Attempts, Refuse(a) \/ Land(a) \/ Settle(a)
      PROVE  \E b \in Attempts : e \in attempt'[b].probing
  <2>1. e \in probes
    BY <1>4 DEF Refuse, Land, Settle
  <2>2. PICK hops \in SUBSET attempt[a].held :
          /\ attempt'[a].probing = attempt[a].probing \cap hops
          /\ \A b \in Attempts \ {a} : attempt'[b] = attempt[b]
          /\ \A f \in attempt[a].held \ hops : f \notin probes'
    BY <1>4, SettleType
  <2> QED BY <1>1, <2>1, <2>2
<1>5. ASSUME NEW f \in Endpoints, Look(f)
      PROVE  \E b \in Attempts : e \in attempt'[b].probing
  BY <1>1, <1>5 DEF Look
<1>6. CASE Tick
  <2>1. e \in probes
    BY <1>6 DEF Tick
  <2> QED BY <1>1, <1>6, <2>1, TickAttempts
<1>7. CASE UNCHANGED vars
  BY <1>1, <1>7 DEF vars
<1> QED BY <1>2, <1>3, <1>4, <1>5, <1>6, <1>7 DEF Next, Progress

\* However attempts overlap, every mark has a live attempt that will clear it.
THEOREM ProbesAreBacked == Spec => []ProbesBacked
<1>1. Init => ProbesBacked
  BY DEF Init, ProbesBacked
<1>2. TypeOK /\ ProbesBacked /\ [Next]_vars => ProbesBacked'
  BY StepBacked
<1> QED BY <1>1, <1>2, TypeCorrect, PTL DEF Spec

-----------------------------------------------------------------------------
(* The manager implements the abstract circuit breaker.                      *)

\* The moves of Breaker between two snapshots of one endpoint.
Moves(s, t) ==
  \/ /\ s.circuit = "open" => s.left <= 0
     /\ t.circuit = "open" /\ t.left \in OpenDuration - MaxLag .. OpenDuration
  \/ s.circuit = "open" /\ s.left <= 0 /\ t.circuit = "half_open" /\ t.left = s.left
  \/ /\ \/ s.circuit = "half_open"
        \/ s.circuit = "open" /\ s.left <= 0 /\ SuccessThreshold = 1
     /\ t.circuit = "closed" /\ t.left = -MaxLag
  \/ t.circuit = s.circuit /\ t.left \in {s.left, s.left - 1}

\* Past the cooldown at an earlier time is past it now.
LEMMA CooledNow ==
  ASSUME NEW s \in Snapshot, NEW lag \in 0 .. MaxLag, ~Before(s, lag)
  PROVE  s.left <= 0
<1>1. s.left \in Int /\ lag \in Nat
  BY DEF Snapshot
<1> QED BY <1>1 DEF Before

LEMMA ReportedMoves ==
  ASSUME NEW s \in Snapshot, NEW t, Reported(s, t)
  PROVE  Moves(s, t)
<1>1. CASE t = s
  BY <1>1 DEF Moves
<1> DEFINE h == HalfOpened(s)
<1>2. /\ h \in Snapshot /\ h.circuit = "half_open" /\ h.left = s.left /\ h.successes = 0
  <2>1. 0 \in 0 .. SuccessThreshold
    OBVIOUS
  <2> QED BY <2>1 DEF HalfOpened, Snapshot
<1>3. ASSUME NEW lag \in 0 .. MaxLag, t = AfterCooldown(s, lag)
      PROVE  Moves(s, t)
  BY <1>2, <1>3, CooledNow DEF AfterCooldown, Moves
<1>4. ASSUME NEW lag \in 0 .. MaxLag, NEW v, t = Observed(s, lag, v)
      PROVE  Moves(s, t)
  <2>1. OpenDuration - lag \in OpenDuration - MaxLag .. OpenDuration
    OBVIOUS
  <2>2. CASE s.circuit = "open" /\ Before(s, lag)
    BY <1>4, <2>2 DEF Observed, Moves
  <2>3. CASE s.circuit = "open" /\ ~Before(s, lag)
    <3>1. s.left <= 0
      BY <2>3, CooledNow
    <3>2. t = Failed(h, lag) \/ t = Succeeded(h)
      BY <1>4, <2>3 DEF Observed, AfterCooldown
    <3>3. CASE t = Failed(h, lag)
      <4> HIDE DEF h
      <4>1. t.circuit = "open" /\ t.left = OpenDuration - lag
        BY <1>2, <3>3, FailedFields
      <4> QED BY <2>1, <3>1, <4>1 DEF Moves
    <3>4. CASE t = Succeeded(h)
      <4> HIDE DEF h
      <4>1. Lowest(h.successes + 1, SuccessThreshold) >= SuccessThreshold
              => SuccessThreshold = 1
        BY <1>2 DEF Lowest
      <4>2. \/ SuccessThreshold = 1 /\ t.circuit = "closed" /\ t.left = -MaxLag
            \/ t.circuit = "half_open" /\ t.left = s.left
        BY <1>2, <3>4, <4>1, SucceededFields
      <4> QED BY <2>3, <3>1, <4>2 DEF Moves
    <3> QED BY <3>2, <3>3, <3>4
  <2>4. CASE s.circuit # "open"
    <3>1. t = Failed(s, lag) \/ t = Succeeded(s)
      BY <1>4, <2>4 DEF Observed, AfterCooldown
    <3>2. CASE t = Failed(s, lag)
      <4>1. \/ t.circuit = "open" /\ t.left = OpenDuration - lag
            \/ t.circuit = s.circuit /\ t.left = s.left
        BY <3>2, FailedFields
      <4> QED BY <2>1, <2>4, <4>1 DEF Moves
    <3>3. CASE t = Succeeded(s)
      <4>1. \/ s.circuit = "half_open" /\ t.circuit = "closed" /\ t.left = -MaxLag
            \/ t.circuit = s.circuit /\ t.left = s.left
        BY <3>3, SucceededFields
      <4> QED BY <2>4, <4>1 DEF Moves
    <3> QED BY <3>1, <3>2, <3>3
  <2> QED BY <2>2, <2>3, <2>4
<1> QED BY <1>1, <1>3, <1>4 DEF Reported

\* Every step moves every endpoint as the breaker may.
LEMMA StepMoves ==
  ASSUME TypeOK, [Next]_vars
  PROVE  \A e \in Endpoints : Moves(states[e], states'[e])
<1>1. \A e \in Endpoints : states[e] \in Snapshot
  BY DEF TypeOK
<1>2. ASSUME states' = states
      PROVE  \A e \in Endpoints : Moves(states[e], states'[e])
  BY <1>2 DEF Moves
<1>3. ASSUME NEW a \in Attempts, Progress(a)
      PROVE  \A e \in Endpoints : Moves(states[e], states'[e])
  BY <1>1, <1>3, SnapshotStep, ReportedMoves
<1>4. ASSUME NEW f \in Endpoints, Look(f)
      PROVE  \A e \in Endpoints : Moves(states[e], states'[e])
  <2>1. PICK lag \in 0 .. MaxLag : states' = [states EXCEPT ![f] = AfterCooldown(states[f], lag)]
    BY <1>4 DEF Look
  <2>2. \A e \in Endpoints : Reported(states[e], states'[e])
    BY <2>1 DEF Reported, TypeOK
  <2> QED BY <1>1, <2>2, ReportedMoves
<1>5. ASSUME Tick, NEW e \in Endpoints
      PROVE  Moves(states[e], states'[e])
  <2> DEFINE l == Highest(states[e].left - 1, -MaxLag)
  <2>1. states[e].left \in -MaxLag .. OpenDuration
    BY <1>1 DEF Snapshot
  <2>2. l \in {states[e].left, states[e].left - 1}
    BY <2>1 DEF Highest
  <2>3. states'[e] = [states[e] EXCEPT !.left = l]
    BY <1>5, TickStep
  <2> HIDE DEF l
  <2>4. states'[e].circuit = states[e].circuit /\ states'[e].left = l
    BY <1>1, <2>3 DEF Snapshot
  <2> QED BY <2>2, <2>4 DEF Moves
<1> QED BY <1>2, <1>3, <1>4, <1>5 DEF Next, Start, vars

\* Whatever attempts, chains and late reports do, every endpoint behaves as the
\* abstract circuit breaker.
THEOREM BreakerImplemented == Spec => BreaksCircuits
<1>1. Init => Promise!Init
  BY DEF Init, Promise!Init, Unseen
<1>2. TypeOK /\ [Next]_vars => [Promise!Next]_<<[e \in Endpoints |-> states[e].circuit],
                                               [e \in Endpoints |-> states[e].left]>>
  <2> SUFFICES ASSUME TypeOK, [Next]_vars PROVE Promise!Next
    OBVIOUS
  <2>1. \A e \in Endpoints : Moves(states[e], states'[e])
    BY StepMoves
  <2> QED BY <2>1 DEF Moves, Promise!Next, Promise!Open, Promise!HalfOpen, Promise!Close,
               Promise!Wait, Promise!Cooled
<1> QED BY <1>1, <1>2, TypeCorrect, PTL DEF Spec, BreaksCircuits, Promise!Spec
=============================================================================
