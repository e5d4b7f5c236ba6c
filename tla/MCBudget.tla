------------------------------ MODULE MCBudget ------------------------------
(* Instances of Budget for TLC: the configurations an operator may give each  *)
(* budget and the YAML section the first start imports.                       *)
EXTENDS Budget, TLC

CONSTANTS b1, b2, s1, s2

Cfg(l, w, n, who) == [limit |-> l, window |-> w, length |-> n, scope |-> who]

\* A guard on every stream that changes between a lifetime and a calendar window
\* with different limits, and one that only the operator creates: streams that
\* were routed before and after hold leases in different sets of scopes.
SafetyOptions  == b1 :> {Cfg(1, "lifetime", 1, Streams), Cfg(2, "calendar", 2, Streams)}
              @@ b2 :> {Cfg(2, "lifetime", 1, Streams)}
SafetyImported == b1 :> Cfg(2, "calendar", 2, Streams)

\* One rolling guard.
RollingOptions  == b1 :> {Cfg(2, "rolling", 2, Streams)}
RollingImported == b1 :> Cfg(2, "rolling", 2, Streams)

Symmetric == Permutations(Streams)
=============================================================================
