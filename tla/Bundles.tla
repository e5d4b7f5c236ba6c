------------------------------ MODULE Bundles -------------------------------
(* What one activated revision consists of, and when the configuration check  *)
(* accepts it (pkg/config Config.Validate): a bundle is a set of endpoints    *)
(* and three tables, pools, chains and policies, each a function from the ids *)
(* that exist to their documents.                                             *)
(*   pool:   [endpoints, fallbacks, sticky]    chain: a sequence of pools     *)
(*   policy: [pools, chains], what its actions name                           *)
EXTENDS FiniteSets, Sequences, Naturals

(* The pools reached from S over fallbacks: those in every set that holds S   *)
(* and the fallbacks of its pools; an id without a row has none.              *)
Reached(table, S) ==
  LET ids == S \cup DOMAIN table \cup UNION {table[p].fallbacks : p \in DOMAIN table}
      Closed(C) == \A p \in C \cap DOMAIN table : table[p].fallbacks \subseteq C
  IN  {q \in ids : \A C \in SUBSET ids : S \subseteq C /\ Closed(C) => q \in C}

HasCycle(table) ==
  \E p \in DOMAIN table : p \in Reached(table, table[p].fallbacks)

(* All endpoints a hop may use, those of its fallbacks included. *)
HopEndpoints(table, p) ==
  UNION {table[q].endpoints : q \in Reached(table, {p}) \cap DOMAIN table}

(* Two to eight distinct pools. *)
WellFormedChain(hops) ==
  /\ Len(hops) \in 2..8
  /\ \A i, j \in DOMAIN hops : i # j => hops[i] # hops[j]

(* Hops keep no sessions and share no endpoint. *)
ChainFits(table, hops) ==
  /\ WellFormedChain(hops)
  /\ \A i \in DOMAIN hops : hops[i] \in DOMAIN table /\ ~table[hops[i]].sticky
  /\ \A i, j \in DOMAIN hops :
       i # j => HopEndpoints(table, hops[i]) \cap HopEndpoints(table, hops[j]) = {}

PoolRefs(b) ==
  \A p \in DOMAIN b.pools : /\ b.pools[p].endpoints \subseteq b.endpoints
                            /\ b.pools[p].fallbacks \subseteq DOMAIN b.pools

PolicyRefs(b) ==
  \A q \in DOMAIN b.policies : /\ b.policies[q].pools \subseteq DOMAIN b.pools
                               /\ b.policies[q].chains \subseteq DOMAIN b.chains

ChainsFit(b) == \A c \in DOMAIN b.chains : ChainFits(b.pools, b.chains[c])

(* The listeners name policies; the rest of the file does not change. *)
Compiles(b, listenerPolicies) ==
  /\ PoolRefs(b)
  /\ ~HasCycle(b.pools)
  /\ ChainsFit(b)
  /\ PolicyRefs(b)
  /\ listenerPolicies \subseteq DOMAIN b.policies
=============================================================================
