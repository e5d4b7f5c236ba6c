----------------------------- MODULE Inventory ------------------------------
(* The saved inventory and the handlers of the admin API that change it.      *)
(* Every table is a function from the ids that have a row to their documents. *)
(* Most handlers hold Server.routingMu from their checks to their write; the  *)
(* ones that do not (creating, changing and importing proxies and clients)    *)
(* may run in between. `job` is the holder of the mutex: what it has checked  *)
(* and is about to write. One statement at a time reaches SQLite, which has a *)
(* single connection. A request whose revision is stale changes nothing, so   *)
(* only requests that match are modelled (module Sources follows revisions).  *)
(*                                                                            *)
(* The shadow manager keeps the saved shadow policies in memory with what it  *)
(* has counted for them; an evaluation runs without its lock.                 *)
EXTENDS Bundles, Functions

CONSTANTS Endpoints, Pools, Chains, Policies, Shadows, Budgets, Clients,
          PoolDocs,        \* the pool documents requests carry
          ChainDocs,       \* sequences of pools
          PolicyDocs,      \* records of pools and chains
          MaxShadows,      \* maxShadowConfigs, 64
          MaxGeneration    \* bound on shadow generations

ASSUME DocsAssumption ==
  /\ PoolDocs \subseteq
       [endpoints : SUBSET Endpoints, fallbacks : SUBSET Pools, sticky : BOOLEAN]
  /\ ChainDocs \subseteq Seq(Pools)
  /\ PolicyDocs \subseteq [pools : SUBSET Pools, chains : SUBSET Chains]
  /\ MaxShadows \in Nat /\ MaxGeneration \in Nat /\ MaxShadows <= MaxGeneration

VARIABLES endpoints, clients,      \* sets: their documents refer to nothing
          pools, chains, policies, shadows, budgets,
          job,                     \* what the holder of routingMu does
          compared,                \* Manager.states: [doc, generation, samples]
          next,                    \* Manager.next
          evaluations              \* candidates an Observe has still to evaluate

tables  == <<endpoints, clients, pools, chains, policies, budgets>>
memory  == <<compared, next, evaluations>>
inventoryVars    == <<tables, shadows, job, memory>>

Free       == [act |-> "free"]
ShadowDocs == [active : Policies, policy : PolicyDocs, enabled : BOOLEAN]
Scopes     == ({"pool"} \X Pools) \cup ({"proxy"} \X Endpoints)
                \cup ({"client"} \X Clients)

InventoryInit ==
  /\ endpoints = {} /\ clients = {}
  /\ pools = <<>> /\ chains = <<>> /\ policies = <<>>
  /\ shadows = <<>> /\ budgets = <<>>
  /\ job = Free
  /\ compared = <<>> /\ next = 0 /\ evaluations = {}

With(table, id, doc) == [x \in DOMAIN table \cup {id} |-> IF x = id THEN doc ELSE table[x]]
Without(table, id)   == Restrict(table, DOMAIN table \ {id})

(* INSERT ... ON CONFLICT DO NOTHING, or UPDATE ... WHERE id and revision. *)
Lands(table) == job.new <=> job.id \notin DOMAIN table

-----------------------------------------------------------------------------
(* Requests that take routingMu and pass their checks. *)

Checked(act, table, id, doc, new) ==
  /\ job = Free
  /\ job' = [act |-> act, table |-> table, id |-> id, doc |-> doc, new |-> new]
  /\ UNCHANGED <<tables, shadows, memory>>

Removal(table, id) == Checked("delete", table, id, <<>>, FALSE)

(* Mutant: the cycle is looked for before the candidate is put in. *)
BugValidatePool(p, doc) ==
  /\ p \notin doc.fallbacks
  /\ doc.endpoints \subseteq endpoints
  /\ doc.fallbacks \subseteq DOMAIN pools
  /\ ~HasCycle(pools)

ValidatePool(p, doc) ==
  /\ p \notin doc.fallbacks
  /\ doc.endpoints \subseteq endpoints
  /\ doc.fallbacks \subseteq DOMAIN pools
  /\ ~HasCycle(With(pools, p, doc))

CreatePool(p, doc) == ValidatePool(p, doc) /\ Checked("put", "pools", p, doc, TRUE)
UpdatePool(p, doc) == ValidatePool(p, doc) /\ Checked("put", "pools", p, doc, FALSE)

PolicyUsesPool(p) == \E q \in DOMAIN policies : p \in policies[q].pools
PoolIsFallback(p) == \E other \in DOMAIN pools \ {p} : p \in pools[other].fallbacks
ChainUsesPool(p)  == \E c \in DOMAIN chains : p \in {chains[c][i] : i \in DOMAIN chains[c]}
References(scope) == \E b \in DOMAIN budgets : budgets[b] = scope

(* Mutant: chains are forgotten. *)
BugDeletePool(p) ==
  /\ ~PolicyUsesPool(p) /\ ~PoolIsFallback(p)
  /\ ~References(<<"pool", p>>)
  /\ Removal("pools", p)

DeletePool(p) ==
  /\ ~PolicyUsesPool(p) /\ ~PoolIsFallback(p) /\ ~ChainUsesPool(p)
  /\ ~References(<<"pool", p>>)
  /\ Removal("pools", p)

ValidateChain(doc) == ChainFits(pools, doc)

CreateChain(c, doc) == ValidateChain(doc) /\ Checked("put", "chains", c, doc, TRUE)
UpdateChain(c, doc) == ValidateChain(doc) /\ Checked("put", "chains", c, doc, FALSE)

PolicyUsesChain(c) == \E q \in DOMAIN policies : c \in policies[q].chains

DeleteChain(c) == ~PolicyUsesChain(c) /\ Removal("chains", c)

ValidatePolicyReferences(doc) ==
  doc.pools \subseteq DOMAIN pools /\ doc.chains \subseteq DOMAIN chains

CreatePolicy(q, doc) ==
  ValidatePolicyReferences(doc) /\ Checked("put", "policies", q, doc, TRUE)
UpdatePolicy(q, doc) ==
  ValidatePolicyReferences(doc) /\ Checked("put", "policies", q, doc, FALSE)

ShadowUsesPolicy(q) == \E w \in DOMAIN shadows : shadows[w].active = q

DeletePolicy(q) == ~ShadowUsesPolicy(q) /\ Removal("policies", q)

ValidateShadow(doc) ==
  doc.active \in DOMAIN policies /\ ValidatePolicyReferences(doc.policy)

(* Mutant: no limit on creation. *)
BugCreateShadow(w, doc) ==
  ValidateShadow(doc) /\ Checked("put", "shadows", w, doc, TRUE)

CreateShadow(w, doc) ==
  /\ ValidateShadow(doc)
  /\ Cardinality(DOMAIN shadows) < MaxShadows
  /\ Checked("put", "shadows", w, doc, TRUE)
UpdateShadow(w, doc) == ValidateShadow(doc) /\ Checked("put", "shadows", w, doc, FALSE)
DeleteShadow(w)      == Removal("shadows", w)

ValidateBudget(scope) ==
  scope[2] \in CASE scope[1] = "pool"   -> DOMAIN pools
                 [] scope[1] = "proxy"  -> endpoints
                 [] scope[1] = "client" -> clients

CreateBudget(b, scope) ==
  ValidateBudget(scope) /\ Checked("put", "budgets", b, scope, TRUE)
UpdateBudget(b, scope) ==
  ValidateBudget(scope) /\ Checked("put", "budgets", b, scope, FALSE)
DeleteBudget(b) == Removal("budgets", b)

PoolUsesEndpoint(e) == \E p \in DOMAIN pools : e \in pools[p].endpoints

DeleteProxy(e) ==
  ~PoolUsesEndpoint(e) /\ ~References(<<"proxy", e>>) /\ Removal("endpoints", e)

DeleteClient(a) == ~References(<<"client", a>>) /\ Removal("clients", a)

-----------------------------------------------------------------------------
(* The write the job was checked for, and the return that frees routingMu. *)

Writes(act, table) == job.act = act /\ job.table = table /\ job' = Free

Written(table) == IF Lands(table) THEN With(table, job.id, job.doc) ELSE table

PutPool == /\ Writes("put", "pools")
           /\ pools' = Written(pools)
           /\ UNCHANGED <<endpoints, clients, chains, policies, budgets, shadows, memory>>

RemovePool == /\ Writes("delete", "pools")
              /\ pools' = Without(pools, job.id)
              /\ UNCHANGED <<endpoints, clients, chains, policies, budgets, shadows, memory>>

PutChain == /\ Writes("put", "chains")
            /\ chains' = Written(chains)
            /\ UNCHANGED <<endpoints, clients, pools, policies, budgets, shadows, memory>>

RemoveChain == /\ Writes("delete", "chains")
               /\ chains' = Without(chains, job.id)
               /\ UNCHANGED <<endpoints, clients, pools, policies, budgets, shadows, memory>>

PutPolicy == /\ Writes("put", "policies")
             /\ policies' = Written(policies)
             /\ UNCHANGED <<endpoints, clients, pools, chains, budgets, shadows, memory>>

RemovePolicy == /\ Writes("delete", "policies")
                /\ policies' = Without(policies, job.id)
                /\ UNCHANGED <<endpoints, clients, pools, chains, budgets, shadows, memory>>

PutConfig == /\ Writes("put", "budgets")
             /\ budgets' = Written(budgets)
             /\ UNCHANGED <<endpoints, clients, pools, chains, policies, shadows, memory>>

DeleteConfig == /\ Writes("delete", "budgets")
                /\ budgets' = Without(budgets, job.id)
                /\ UNCHANGED <<endpoints, clients, pools, chains, policies, shadows, memory>>

Delete == /\ Writes("delete", "endpoints")
          /\ endpoints' = endpoints \ {job.id}
          /\ UNCHANGED <<clients, pools, chains, policies, budgets, shadows, memory>>

RemoveClient == /\ Writes("delete", "clients")
                /\ clients' = clients \ {job.id}
                /\ UNCHANGED <<endpoints, pools, chains, policies, budgets, shadows, memory>>

(* The store refuses or the request is cancelled: nothing was written. *)
StoreFails ==
  /\ job.act \in {"put", "delete"}
  /\ job' = Free
  /\ UNCHANGED <<tables, shadows, memory>>

(* A shadow goes to the table first and, still under the mutex, to memory. *)
PutShadow ==
  /\ job.act = "put" /\ job.table = "shadows"
  /\ shadows' = Written(shadows)
  /\ job' = IF Lands(shadows) THEN [job EXCEPT !.act = "upsert"] ELSE Free
  /\ UNCHANGED <<tables, memory>>

(* Mutant: memory keeps the deleted shadow. *)
BugRemoveShadow ==
  /\ job.act = "delete" /\ job.table = "shadows"
  /\ shadows' = Without(shadows, job.id)
  /\ job' = Free
  /\ UNCHANGED <<tables, memory>>

RemoveShadow ==
  /\ job.act = "delete" /\ job.table = "shadows"
  /\ shadows' = Without(shadows, job.id)
  /\ job' = IF job.id \in DOMAIN shadows THEN [job EXCEPT !.act = "forget"] ELSE Free
  /\ UNCHANGED <<tables, memory>>

-----------------------------------------------------------------------------
(* Handlers without the mutex. *)

CreateProxy(e) ==
  /\ endpoints' = endpoints \cup {e}
  /\ UNCHANGED <<clients, pools, chains, policies, budgets, shadows, job, memory>>

(* One transaction for all lines: every endpoint of the file, or none. *)
ImportProxies(S) ==
  /\ endpoints' = endpoints \cup S
  /\ UNCHANGED <<clients, pools, chains, policies, budgets, shadows, job, memory>>

CreateClient(a) ==
  /\ clients' = clients \cup {a}
  /\ UNCHANGED <<endpoints, pools, chains, policies, budgets, shadows, job, memory>>

-----------------------------------------------------------------------------
(* The shadow manager. *)

NewState(doc, generation) == [doc |-> doc, generation |-> generation, samples |-> {}]

(* What is counted stays valid while neither policy changes. *)
SameComparison(old, new) == old.active = new.active /\ old.policy = new.policy

Upsert ==
  /\ job.act = "upsert"
  /\ job' = Free
  /\ IF job.id \in DOMAIN compared /\ SameComparison(compared[job.id].doc, job.doc)
     THEN /\ compared' = [compared EXCEPT ![job.id].doc = job.doc]
          /\ next' = next
     ELSE /\ compared' = With(compared, job.id, NewState(job.doc, next + 1))
          /\ next' = next + 1
  /\ UNCHANGED <<tables, shadows, evaluations>>

Forget ==
  /\ job.act = "forget"
  /\ job' = Free
  /\ compared' = Without(compared, job.id)
  /\ UNCHANGED <<tables, shadows, next, evaluations>>

(* A request that policy q decided: its candidates, read under the lock. *)
Observe(q) ==
  /\ evaluations' = evaluations \cup
       {[id |-> w, doc |-> compared[w].doc, generation |-> compared[w].generation] :
          w \in {v \in DOMAIN compared : compared[v].doc.enabled
                                          /\ compared[v].doc.active = q}}
  /\ UNCHANGED <<tables, shadows, job, compared, next>>

(* The evaluation of one candidate has ended. *)
(* Mutant: the generation is not compared. *)
BugRecord(c) ==
  /\ evaluations' = evaluations \ {c}
  /\ compared' = IF c.id \in DOMAIN compared
                 THEN [compared EXCEPT ![c.id].samples =
                         @ \cup {<<c.doc.active, c.doc.policy>>}]
                 ELSE compared
  /\ UNCHANGED <<tables, shadows, job, next>>

Record(c) ==
  /\ evaluations' = evaluations \ {c}
  /\ compared' = IF /\ c.id \in DOMAIN compared
                    /\ compared[c.id].generation = c.generation
                 THEN [compared EXCEPT ![c.id].samples =
                         @ \cup {<<c.doc.active, c.doc.policy>>}]
                 ELSE compared
  /\ UNCHANGED <<tables, shadows, job, next>>

(* The process ends at any step; the next one loads the table. *)
(* Mutant: generations start over while states keep theirs. *)
BugRestart ==
  /\ job' = Free
  /\ evaluations' = {}
  /\ compared' = [w \in DOMAIN shadows |-> NewState(shadows[w], 1)]
  /\ next' = 0
  /\ UNCHANGED <<tables, shadows>>

Restart ==
  /\ job' = Free
  /\ evaluations' = {}
  /\ Cardinality(DOMAIN shadows) <= MaxShadows
  /\ \E order \in [DOMAIN shadows -> 1..Cardinality(DOMAIN shadows)] :
       /\ \A v, w \in DOMAIN shadows : v # w => order[v] # order[w]
       /\ compared' = [w \in DOMAIN shadows |-> NewState(shadows[w], order[w])]
  /\ next' = Cardinality(DOMAIN shadows)
  /\ UNCHANGED <<tables, shadows>>

-----------------------------------------------------------------------------
Request ==
  \/ \E p \in Pools : \/ \E doc \in PoolDocs : CreatePool(p, doc) \/ UpdatePool(p, doc)
                      \/ DeletePool(p)
  \/ \E c \in Chains : \/ \E doc \in ChainDocs : CreateChain(c, doc) \/ UpdateChain(c, doc)
                       \/ DeleteChain(c)
  \/ \E q \in Policies : \/ \E doc \in PolicyDocs : CreatePolicy(q, doc) \/ UpdatePolicy(q, doc)
                         \/ DeletePolicy(q)
  \/ \E w \in Shadows : \/ \E doc \in ShadowDocs : /\ next < MaxGeneration
                                                   /\ CreateShadow(w, doc) \/ UpdateShadow(w, doc)
                        \/ DeleteShadow(w)
  \/ \E b \in Budgets : \/ \E s \in Scopes : CreateBudget(b, s) \/ UpdateBudget(b, s)
                        \/ DeleteBudget(b)
  \/ \E e \in Endpoints : DeleteProxy(e)
  \/ \E a \in Clients : DeleteClient(a)

Write ==
  \/ PutPool \/ RemovePool \/ PutChain \/ RemoveChain \/ PutPolicy \/ RemovePolicy
  \/ PutConfig \/ DeleteConfig \/ Delete \/ RemoveClient \/ PutShadow \/ RemoveShadow
  \/ StoreFails

InventoryNext ==
  \/ Request
  \/ Write
  \/ \E e \in Endpoints : CreateProxy(e)
  \/ \E S \in SUBSET Endpoints : ImportProxies(S)
  \/ \E a \in Clients : CreateClient(a)
  \/ Upsert
  \/ Forget
  \/ \E q \in Policies : Observe(q)
  \/ \E c \in evaluations : Record(c)
  \/ Restart

InventorySpec == InventoryInit /\ [][InventoryNext]_inventoryVars

-----------------------------------------------------------------------------
Saved == [endpoints |-> endpoints, pools |-> pools, chains |-> chains,
          policies |-> policies]

InventoryTypeOK ==
  /\ endpoints \subseteq Endpoints /\ clients \subseteq Clients
  /\ DOMAIN pools \subseteq Pools /\ Range(pools) \subseteq PoolDocs
  /\ DOMAIN chains \subseteq Chains /\ Range(chains) \subseteq ChainDocs
  /\ DOMAIN policies \subseteq Policies /\ Range(policies) \subseteq PolicyDocs
  /\ DOMAIN shadows \subseteq Shadows /\ Range(shadows) \subseteq ShadowDocs
  /\ DOMAIN budgets \subseteq Budgets /\ Range(budgets) \subseteq Scopes
  /\ job.act \in {"free", "put", "delete", "upsert", "forget"}
  /\ next \in 0..MaxGeneration
  /\ \A w \in DOMAIN compared : /\ compared[w].doc \in ShadowDocs
                                /\ compared[w].generation \in 1..next

(* What a saved record names is saved as well, whichever handlers interleave, *)
(* fail or are cut off: endpoints and fallbacks of pools, hops of chains,     *)
(* pools and chains of policies, the active policy of a shadow and the scope  *)
(* of a budget. A shadow's own draft policy is exempt: no deletion looks at   *)
(* what it names.                                                             *)
RefsSound ==
  /\ PoolRefs(Saved) /\ PolicyRefs(Saved)
  /\ \A c \in DOMAIN chains : Range(chains[c]) \subseteq DOMAIN pools
  /\ \A w \in DOMAIN shadows : shadows[w].active \in DOMAIN policies
  /\ \A b \in DOMAIN budgets :
       budgets[b] \in ({"pool"} \X DOMAIN pools) \cup ({"proxy"} \X endpoints)
                        \cup ({"client"} \X clients)

(* The checks of the handlers add up to the check of an activation but for    *)
(* one point: a pool may change under a saved chain. What is saved compiles   *)
(* whenever its chains still fit.                                             *)
Activatable == ChainsFit(Saved) => Compiles(Saved, DOMAIN policies)

(* Outside a handler the shadow manager evaluates exactly what is saved.      *)
ShadowsRemembered ==
  job = Free => /\ DOMAIN compared = DOMAIN shadows
                /\ \A w \in DOMAIN shadows : compared[w].doc = shadows[w]

(* Every sample of a comparison was made with the two policies it now shows,  *)
(* although evaluations end after updates, deletions and new creations.       *)
SamplesOfConfig ==
  \A w \in DOMAIN compared :
    compared[w].samples \subseteq {<<compared[w].doc.active, compared[w].doc.policy>>}

(* The table never holds more shadows than the next start loads.              *)
RestartLoads == Cardinality(DOMAIN shadows) <= MaxShadows

(* The inventory: what a saved record names is saved, what is saved compiles  *)
(* and is loaded by the next start, and the shadows compared are those saved. *)
InventorySound ==
  /\ InventoryTypeOK
  /\ RefsSound /\ Activatable /\ RestartLoads
  /\ ShadowsRemembered /\ SamplesOfConfig
=============================================================================
