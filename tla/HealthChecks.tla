---------------------------- MODULE HealthChecks ----------------------------
(* Active health checks: the scheduled pass over every enabled endpoint and   *)
(* the operator's check of a proxy or of a pool. One check of an endpoint     *)
(* runs at a time; starts are paced, over all and for each pool. Timers are   *)
(* relative to the present. What a check tells the circuit breakers is in     *)
(* module Health; here a check may be refused there, or run.                  *)
EXTENDS Naturals, FiniteSets

CONSTANTS CheckEndpoints, CheckPools,
          Bundles,               \* the snapshots: enabled endpoints, pool members
          Checkers,              \* concurrent passes and operator calls
          GlobalPace, PoolPace   \* least time between two starts

ASSUME ChecksAssumption ==
  /\ GlobalPace \in Nat \ {0} /\ PoolPace \in Nat \ {0}
  /\ Bundles \subseteq [enabled : SUBSET CheckEndpoints,
                         members : [CheckPools -> SUBSET CheckEndpoints]]

VARIABLES bundle,       \* the current snapshot
          checks,       \* healthControl.checks
          checker,      \* the calls of CheckProxy, CheckPool and Run
          nextGlobal, nextPools,     \* time left until the next start
          sinceStart, sinceMember    \* observed: time since the last start, over all
                                     \* and of a check that was for the pool

rates     == <<nextGlobal, nextPools>>
observed  == <<sinceStart, sinceMember>>
checkVars == <<bundle, checks, checker, rates, observed>>

(* checking holds the endpoint that is marked in checks, if one is. *)
NotChecking == [step |-> "none", todo |-> {}, checking |-> {}, pools |-> {}]

(* endpointPools *)
EndpointPools(e) == {p \in CheckPools : e \in bundle.members[p]}

ChecksInit ==
  /\ bundle \in Bundles
  /\ checks = {}
  /\ checker = [c \in Checkers |-> NotChecking]
  /\ nextGlobal = 0 /\ nextPools = [p \in CheckPools |-> 0]
  /\ sinceStart = GlobalPace /\ sinceMember = [p \in CheckPools |-> PoolPace]

(* A call plans its checks from the snapshot of that moment: an endpoint with *)
(* the pools its start counts for. CheckPool names its own pool alone.        *)
Ask(c, plan) ==
  /\ checker[c] = NotChecking
  /\ checker' = [checker EXCEPT ![c] = [NotChecking EXCEPT !.step = "next", !.todo = plan]]
  /\ UNCHANGED <<bundle, checks, rates, observed>>

CheckProxy(c, e) == e \in bundle.enabled /\ Ask(c, {<<e, EndpointPools(e)>>})

CheckPool(c, p) == Ask(c, {<<e, {p}>> : e \in bundle.members[p] \cap bundle.enabled})

RunChecks(c) == Ask(c, {<<e, EndpointPools(e)>> : e \in bundle.enabled})

(* checkEndpoint: the endpoint is marked, unless it is already being checked. *)
(* Mutant: a mark is never looked at. *)
BugEnter(c, task) ==
  /\ checker[c].step = "next" /\ task \in checker[c].todo
  /\ checks' = checks \cup {task[1]}
  /\ checker' = [checker EXCEPT ![c] = [step |-> "waiting", todo |-> @.todo \ {task},
                                        checking |-> {task[1]}, pools |-> task[2]]]
  /\ UNCHANGED <<bundle, rates, observed>>

Enter(c, task) ==
  /\ checker[c].step = "next" /\ task \in checker[c].todo
  /\ IF task[1] \in checks
     THEN checker' = [checker EXCEPT ![c].todo = @ \ {task}] /\ UNCHANGED checks
     ELSE /\ checks' = checks \cup {task[1]}
          /\ checker' = [checker EXCEPT ![c] = [step |-> "waiting", todo |-> @.todo \ {task},
                                                checking |-> {task[1]}, pools |-> task[2]]]
  /\ UNCHANGED <<bundle, rates, observed>>

(* reserveRate admits a start and takes its places, all of them or none. The  *)
(* caller reads the clock just before the lock (waitRate); that is one step   *)
(* here, so what a call may wait for the lock is left out of every pace.      *)
(* Mutant: the pools are not asked. *)
BugAdmitted(pools) == nextGlobal = 0

Admitted(pools) == nextGlobal = 0 /\ \A p \in pools : nextPools[p] = 0

ReserveRate(c) ==
  LET pools == checker[c].pools
  IN  /\ checker[c].step = "waiting" /\ Admitted(pools)
      /\ nextGlobal' = GlobalPace
      /\ nextPools' = [p \in CheckPools |-> IF p \in pools THEN PoolPace ELSE nextPools[p]]
      /\ sinceStart' = 0
      /\ sinceMember' = [p \in CheckPools |-> IF p \in pools THEN 0 ELSE sinceMember[p]]
      /\ checker' = [checker EXCEPT ![c].step = "started"]
      /\ UNCHANGED <<bundle, checks>>

(* The mark goes with the end of the check: it is refused by the breaker,     *)
(* succeeds, fails or times out, and the call goes on with the next one.      *)
Finish(c) ==
  /\ checker[c].step = "started"
  /\ checks' = checks \ checker[c].checking
  /\ checker' = [checker EXCEPT ![c] = [NotChecking EXCEPT !.step = "next", !.todo = checker[c].todo]]
  /\ UNCHANGED <<bundle, rates, observed>>

(* The call ends when nothing is left, or with its context while it waits.    *)
Return(c) ==
  /\ checker[c].step \in {"next", "waiting"}
  /\ checks' = checks \ checker[c].checking
  /\ checker' = [checker EXCEPT ![c] = NotChecking]
  /\ UNCHANGED <<bundle, rates, observed>>

ActivateBundle(b) ==
  /\ b # bundle /\ bundle' = b
  /\ UNCHANGED <<checks, checker, rates, observed>>

Later(t)     == IF t = 0 THEN 0 ELSE t - 1
Older(t, up) == IF t < up THEN t + 1 ELSE t

CheckTick ==
  /\ nextGlobal' = Later(nextGlobal)
  /\ nextPools' = [p \in CheckPools |-> Later(nextPools[p])]
  /\ sinceStart' = Older(sinceStart, GlobalPace)
  /\ sinceMember' = [p \in CheckPools |-> Older(sinceMember[p], PoolPace)]
  /\ UNCHANGED <<bundle, checks, checker>>

ChecksNext ==
  \/ \E c \in Checkers :
       \/ \E e \in CheckEndpoints : CheckProxy(c, e)
       \/ \E p \in CheckPools : CheckPool(c, p)
       \/ RunChecks(c)
       \/ \E task \in checker[c].todo : Enter(c, task)
       \/ ReserveRate(c)
       \/ Finish(c)
       \/ Return(c)
  \/ \E b \in Bundles : ActivateBundle(b)
  \/ CheckTick

ChecksSpec == ChecksInit /\ [][ChecksNext]_checkVars

-----------------------------------------------------------------------------
(* A mark of an endpoint belongs to one call that runs: none is left behind,  *)
(* or the endpoint would never be checked again, and none is shared.          *)
MarksAreCalls ==
  /\ checks = UNION {checker[c].checking : c \in Checkers}
  /\ \A c, d \in Checkers : c # d => checker[c].checking \cap checker[d].checking = {}

Starts(c) == checker[c].step = "waiting" /\ checker'[c].step = "started"

(* Two starts are a pace apart, over all and of those that count for one      *)
(* pool, whichever calls they belong to and in whatever order they wait.      *)
Paced ==
  [][\A c \in Checkers : Starts(c) =>
       /\ sinceStart >= GlobalPace
       /\ \A p \in checker[c].pools : sinceMember[p] >= PoolPace]_checkVars

(* What the documentation promises: starts are paced "for endpoints in the    *)
(* same pool". A check of one pool does not count for the others of its       *)
(* endpoint, so this does not hold.                                           *)
MembersPaced ==
  [][\A c \in Checkers : Starts(c) =>
       \A p \in CheckPools :
         checker[c].checking \subseteq bundle.members[p] => sinceMember[p] >= PoolPace]_checkVars
=============================================================================
