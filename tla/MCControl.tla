----------------------------- MODULE MCControl ------------------------------
(* The control plane: the inventory, the active revision, the sources, the    *)
(* health checks and what a policy document decides. They share no variable   *)
(* here, so a behaviour moves one of them, its part, and the others stay as   *)
(* they start.                                                                *)
(*   Inventory: two pools that may be each other's fallback and the two hops  *)
(* of one chain, one policy that uses a pool or the chain, its shadow and one *)
(* budget. It is two parts: in one no request is compared, in the other,      *)
(* "shadows", no budget and no client exists.                                 *)
EXTENDS Inventory, Runtime, Sources, HealthChecks, Evaluation, TLC

CONSTANTS e1, e2, p1, p2, c1, q1, w1, w2, b1, a1

Pool(E, F) == [endpoints |-> E, fallbacks |-> F, sticky |-> FALSE]
SomePools  == {Pool({e1}, {}), Pool({}, {}), Pool({}, {p1}), Pool({}, {p2})}
Hops       == {<<p1, p2>>}
Uses       == {[pools |-> {p1}, chains |-> {}], [pools |-> {}, chains |-> {c1}]}
Symmetric  == Permutations(Shadows) \cup Permutations(Documents)

SomeBundles == {[enabled |-> {e1, e2}, members |-> (p1 :> {e1} @@ p2 :> {e1, e2})],
                [enabled |-> {e2}, members |-> (p1 :> {e1, e2} @@ p2 :> {e2})]}

(* Rules of every form of condition, one of two forms at once and one too     *)
(* deep among them.                                                           *)
Tree(field, every, some, not) ==
  [field |-> field, want |-> IF field = "" THEN {} ELSE {1}, all |-> every, any |-> some, not |-> not]
Host    == Tree("host", <<>>, <<>>, <<>>)
Path    == Tree("path", <<>>, <<>>, <<>>)
Always  == Tree("", <<>>, <<>>, <<>>)
NotPath == Tree("", <<>>, <<>>, <<Path>>)
Deep    == Tree("", <<>>, <<Tree("", <<NotPath, Host>>, <<>>, <<>>)>>, <<>>)
Sampled == {Host, NotPath, Tree("", <<Path, Host>>, <<>>, <<>>), Tree("", <<>>, <<Host, NotPath>>, <<>>),
            Tree("", <<>>, <<Host>>, <<Path>>), Deep}
SomeConditions == Sampled \cup {Path, Always} \cup Children(Deep)
SomeHeights == [c \in SomeConditions |->
  Cardinality({n \in 1 .. 3 :
    \/ n = 1 /\ Children(c) # {}
    \/ n = 2 /\ \E d \in Children(c) : Children(d) # {}
    \/ n = 3 /\ \E d \in Children(c) : \E e \in Children(d) : Children(e) # {}})]
RuleOf(condition, priority, enabled, stop, actions) ==
  [condition |-> condition, priority |-> priority, enabled |-> enabled,
   stop |-> stop, actions |-> actions]
SomeRules ==
  {RuleOf(c, p, TRUE, stop, acts) :
     c \in Sampled, p \in {0, 1}, stop \in BOOLEAN,
     acts \in {<<"cache">>, <<"rewrite", "proxy", "throttle">>, <<"block">>}}
  \cup {RuleOf(Always, 1, enabled, TRUE, <<"direct">>) : enabled \in BOOLEAN}

VARIABLE part

controlVars == <<part, inventoryVars, runtimeVars, sourceVars, checkVars, evaluationVars>>

ControlInit ==
  /\ part \in {"inventory", "shadows", "runtime", "sources", "checks", "evaluation"}
  /\ InventoryInit /\ RuntimeInit /\ SourcesInit /\ ChecksInit /\ EvaluationInit
  /\ part # "runtime" => current.bundle.chain = NoChain
  /\ part # "checks" => bundle = CHOOSE b \in Bundles : TRUE
  /\ part # "evaluation" => sight.host = CHOOSE v \in Values : TRUE

ControlNext ==
  \/ /\ InventoryNext
     /\ \/ part = "inventory" /\ evaluations' = {}
        \/ part = "shadows" /\ UNCHANGED <<clients, budgets>>
     /\ UNCHANGED <<part, runtimeVars, sourceVars, checkVars, evaluationVars>>
  \/ /\ part = "runtime" /\ RuntimeNext
     /\ UNCHANGED <<part, inventoryVars, sourceVars, checkVars, evaluationVars>>
  \/ /\ part = "sources" /\ SourcesNext
     /\ UNCHANGED <<part, inventoryVars, runtimeVars, checkVars, evaluationVars>>
  \/ /\ part = "checks" /\ ChecksNext
     /\ UNCHANGED <<part, inventoryVars, runtimeVars, sourceVars, evaluationVars>>
  \/ /\ part = "evaluation" /\ EvaluationNext
     /\ UNCHANGED <<part, inventoryVars, runtimeVars, sourceVars, checkVars>>

ControlSpec == ControlInit /\ [][ControlNext]_controlVars
=============================================================================
