--------------------------- MODULE ControlProofs ----------------------------
(* Theorems about what decides and what is configured beside the requests,    *)
(* for every number of retained revisions, every set of ids, documents,       *)
(* callers, sources, endpoints, pools, calls, conditions and rules and every  *)
(* bound: the inventory, the runtime, the refreshes of sources, the health    *)
(* checks and what a policy document decides, which share no variable.        *)
EXTENDS Inventory, Runtime, Sources, HealthChecks, Evaluation, DataTheorems,
        FiniteSetTheorems, SequenceTheorems, TLAPS

-----------------------------------------------------------------------------
(* The inventory. What a handler has checked stays true until it writes, for  *)
(* it holds the mutex and the handlers without it only add rows (JobChecked). *)
(* So a write of what was checked keeps the references, and the graph of      *)
(* fallbacks has no cycle.                                                    *)

(* Facts about tables.                                                        *)

LEMMA WithoutFacts ==
  ASSUME NEW table, NEW id
  PROVE  /\ DOMAIN Without(table, id) = DOMAIN table \ {id}
         /\ \A x \in DOMAIN table \ {id} : Without(table, id)[x] = table[x]
BY DEF Without, Restrict

(* With fewer rows no pool is reached that was not reached before.            *)
LEMMA FewerReached ==
  ASSUME NEW table, NEW D \in SUBSET DOMAIN table, NEW S,
         NEW fewer, DOMAIN fewer = D, \A p \in D : fewer[p] = table[p]
  PROVE  Reached(fewer, S) \subseteq Reached(table, S)
<1> DEFINE all  == S \cup DOMAIN table \cup UNION {table[p].fallbacks : p \in DOMAIN table}
           some == S \cup DOMAIN fewer \cup UNION {fewer[p].fallbacks : p \in DOMAIN fewer}
<1>1. some \subseteq all OBVIOUS
<1>2. SUFFICES ASSUME NEW q \in Reached(fewer, S), NEW C \in SUBSET all, S \subseteq C,
                      \A p \in C \cap DOMAIN table : table[p].fallbacks \subseteq C
               PROVE  q \in C
  BY <1>1 DEF Reached
<1>3. C \cap some \in SUBSET some /\ S \subseteq C \cap some OBVIOUS
<1>4. \A p \in (C \cap some) \cap DOMAIN fewer : fewer[p].fallbacks \subseteq C \cap some
  BY <1>2
<1>5. q \in C \cap some BY <1>2, <1>3, <1>4 DEF Reached
<1>6. QED BY <1>5

LEMMA FewerCycles ==
  ASSUME NEW table, NEW id, HasCycle(Without(table, id))
  PROVE  HasCycle(table)
<1>1. PICK p \in DOMAIN Without(table, id) :
        p \in Reached(Without(table, id), Without(table, id)[p].fallbacks)
  BY DEF HasCycle
<1>2. p \in DOMAIN table /\ Without(table, id)[p] = table[p] BY <1>1, WithoutFacts
<1>3. Reached(Without(table, id), table[p].fallbacks) \subseteq Reached(table, table[p].fallbacks)
  <2>1. /\ DOMAIN Without(table, id) \in SUBSET DOMAIN table
        /\ \A x \in DOMAIN Without(table, id) : Without(table, id)[x] = table[x]
    BY WithoutFacts
  <2>2. QED BY <2>1, FewerReached
<1>4. QED BY <1>1, <1>2, <1>3 DEF HasCycle

-----------------------------------------------------------------------------
(* The inductive invariant.                                                   *)

TablesTyped ==
  /\ endpoints \subseteq Endpoints /\ clients \subseteq Clients
  /\ DOMAIN pools \subseteq Pools /\ \A p \in DOMAIN pools : pools[p] \in PoolDocs
  /\ DOMAIN chains \subseteq Chains /\ \A c \in DOMAIN chains : chains[c] \in ChainDocs
  /\ DOMAIN policies \subseteq Policies /\ \A q \in DOMAIN policies : policies[q] \in PolicyDocs
  /\ DOMAIN shadows \subseteq Shadows /\ \A w \in DOMAIN shadows : shadows[w] \in ShadowDocs
  /\ DOMAIN budgets \subseteq Budgets /\ \A b \in DOMAIN budgets : budgets[b] \in Scopes

HopsOf(doc)  == {doc[i] : i \in DOMAIN doc}
ScopesSaved  == ({"pool"} \X DOMAIN pools) \cup ({"proxy"} \X endpoints)
                  \cup ({"client"} \X clients)

(* RefsSound, field by field.                                                 *)
PoolsRefer    == \A p \in DOMAIN pools : /\ pools[p].endpoints \subseteq endpoints
                                         /\ pools[p].fallbacks \subseteq DOMAIN pools
PoliciesRefer == \A q \in DOMAIN policies : ValidatePolicyReferences(policies[q])
ChainsRefer   == \A c \in DOMAIN chains : HopsOf(chains[c]) \subseteq DOMAIN pools
ShadowsRefer  == \A w \in DOMAIN shadows : shadows[w].active \in DOMAIN policies
BudgetsRefer  == \A b \in DOMAIN budgets : budgets[b] \in ScopesSaved
TablesRefer   == PoolsRefer /\ PoliciesRefer /\ ChainsRefer /\ ShadowsRefer /\ BudgetsRefer

(* What the holder of the mutex may be about to do.                           *)
Put(table, Ids, Docs) ==
  [act : {"put"}, table : {table}, id : Ids, doc : Docs, new : BOOLEAN]

ShadowWrite == [act : {"put", "upsert"}, table : {"shadows"}, id : Shadows, doc : ShadowDocs,
                new : BOOLEAN]

Remove(table, Ids) ==
  [act : {"delete"}, table : {table}, id : Ids, doc : {<<>>}, new : BOOLEAN]

ShadowRemoval == [act : {"delete", "forget"}, table : {"shadows"}, id : Shadows, doc : {<<>>},
                  new : BOOLEAN]

(* What it has checked, which holds until it writes.                          *)
PutChecked ==
  \/ job \in Put("pools", Pools, PoolDocs) /\ ValidatePool(job.id, job.doc)
  \/ job \in Put("chains", Chains, ChainDocs) /\ HopsOf(job.doc) \subseteq DOMAIN pools
  \/ job \in Put("policies", Policies, PolicyDocs) /\ ValidatePolicyReferences(job.doc)
  \/ job \in Put("budgets", Budgets, Scopes) /\ job.doc \in ScopesSaved
  \/ /\ job \in ShadowWrite /\ ValidateShadow(job.doc) /\ next < MaxGeneration
     /\ job.act = "put" /\ job.new => Cardinality(DOMAIN shadows) < MaxShadows
     /\ job.act = "upsert" => job.id \in DOMAIN shadows /\ shadows[job.id] = job.doc

RemovalChecked ==
  \/ /\ job \in Remove("pools", Pools)
     /\ ~PolicyUsesPool(job.id) /\ ~PoolIsFallback(job.id) /\ ~ChainUsesPool(job.id)
     /\ ~References(<<"pool", job.id>>)
  \/ job \in Remove("chains", Chains) /\ ~PolicyUsesChain(job.id)
  \/ job \in Remove("policies", Policies) /\ ~ShadowUsesPolicy(job.id)
  \/ job \in Remove("budgets", Budgets)
  \/ /\ job \in Remove("endpoints", Endpoints)
     /\ ~PoolUsesEndpoint(job.id) /\ ~References(<<"proxy", job.id>>)
  \/ job \in Remove("clients", Clients) /\ ~References(<<"client", job.id>>)
  \/ job \in ShadowRemoval /\ (job.act = "forget" => job.id \notin DOMAIN shadows)

JobChecked == job = Free \/ PutChecked \/ RemovalChecked

(* The shadow whose row is written and which memory has still to follow.      *)
Pending == IF job.act \in {"upsert", "forget"} THEN {job.id} ELSE {}

Compared == [doc : ShadowDocs, generation : 1 .. next,
             samples : SUBSET (Policies \X PolicyDocs)]

(* Memory follows the table but for what is pending. A candidate that is      *)
(* being evaluated compares what its generation compares, if that is still    *)
(* the one of its shadow.                                                     *)
MemoryFollows ==
  /\ next \in 0 .. MaxGeneration
  /\ \A w \in DOMAIN compared : compared[w] \in Compared
  /\ DOMAIN compared \ Pending = DOMAIN shadows \ Pending
  /\ \A w \in DOMAIN shadows \ Pending : compared[w].doc = shadows[w]
  /\ IsFiniteSet(DOMAIN shadows) /\ RestartLoads

CandidatesCurrent ==
  \A c \in evaluations :
    /\ c \in [id : Shadows, doc : ShadowDocs, generation : 1 .. next]
    /\ c.id \in DOMAIN compared /\ compared[c.id].generation = c.generation =>
         SameComparison(compared[c.id].doc, c.doc)

InventoryInv ==
  /\ TablesTyped /\ TablesRefer /\ ~HasCycle(pools)
  /\ JobChecked /\ MemoryFollows /\ CandidatesCurrent /\ SamplesOfConfig

-----------------------------------------------------------------------------
(* Requests: a check that passes is what JobChecked keeps.                    *)

LEMMA CheckedKeeps ==
  ASSUME InventoryInv, NEW act \in {"put", "delete"}, NEW table, NEW id, NEW doc, NEW new,
         Checked(act, table, id, doc, new), JobChecked'
  PROVE  InventoryInv'
<1>1. /\ job = Free /\ UNCHANGED <<endpoints, clients, pools, chains, policies, budgets,
                                  shadows, compared, next, evaluations>>
      /\ job' = [act |-> act, table |-> table, id |-> id, doc |-> doc, new |-> new]
  BY DEF Checked, tables, memory
<1>2. Pending = {} /\ Pending' = {} BY <1>1 DEF Pending, Free
<1>3. TablesTyped' /\ TablesRefer' /\ ~HasCycle(pools)'
  BY <1>1 DEF InventoryInv, TablesTyped, TablesRefer, PoolsRefer, PoliciesRefer, ChainsRefer,
              ShadowsRefer, BudgetsRefer, ScopesSaved, ValidatePolicyReferences
<1>4. MemoryFollows' BY <1>1, <1>2 DEF InventoryInv, MemoryFollows, Compared, RestartLoads
<1>5. CandidatesCurrent' /\ SamplesOfConfig'
  BY <1>1 DEF InventoryInv, CandidatesCurrent, SamplesOfConfig
<1>6. QED BY <1>3, <1>4, <1>5 DEF InventoryInv

LEMMA PoolRequests ==
  ASSUME InventoryInv, NEW p \in Pools,
         DeletePool(p) \/ \E doc \in PoolDocs : CreatePool(p, doc) \/ UpdatePool(p, doc)
  PROVE  InventoryInv'
<1>1. ASSUME NEW doc \in PoolDocs, NEW new \in BOOLEAN, ValidatePool(p, doc),
             Checked("put", "pools", p, doc, new)
      PROVE  InventoryInv'
  <2>1. /\ job' = [act |-> "put", table |-> "pools", id |-> p, doc |-> doc, new |-> new]
        /\ UNCHANGED <<endpoints, pools>>
    BY <1>1 DEF Checked, tables
  <2>2. job' \in Put("pools", Pools, PoolDocs) /\ job'.id = p /\ job'.doc = doc
    BY <2>1 DEF Put
  <2>3. ValidatePool(job.id, job.doc)'
    BY <1>1, <2>1, <2>2 DEF ValidatePool
  <2>4. JobChecked' BY <2>2, <2>3 DEF JobChecked, PutChecked
  <2>5. QED BY <1>1, <2>4, CheckedKeeps
<1>2. ASSUME DeletePool(p) PROVE InventoryInv'
  <2>1. /\ job' = [act |-> "delete", table |-> "pools", id |-> p, doc |-> <<>>, new |-> FALSE]
        /\ UNCHANGED <<pools, chains, policies, budgets>>
        /\ Checked("delete", "pools", p, <<>>, FALSE)
    BY <1>2 DEF DeletePool, Removal, Checked, tables
  <2>2. job' \in Remove("pools", Pools) /\ job'.id = p BY <2>1 DEF Remove
  <2>3. /\ ~PolicyUsesPool(job.id)' /\ ~PoolIsFallback(job.id)' /\ ~ChainUsesPool(job.id)'
        /\ ~References(<<"pool", job.id>>)'
    BY <1>2, <2>1, <2>2 DEF DeletePool, PolicyUsesPool, PoolIsFallback, ChainUsesPool, References
  <2>4. JobChecked' BY <2>2, <2>3 DEF JobChecked, RemovalChecked
  <2>5. QED BY <2>1, <2>4, CheckedKeeps
<1>3. QED BY <1>1, <1>2 DEF CreatePool, UpdatePool

LEMMA ChainRequests ==
  ASSUME InventoryInv, NEW c \in Chains,
         DeleteChain(c) \/ \E doc \in ChainDocs : CreateChain(c, doc) \/ UpdateChain(c, doc)
  PROVE  InventoryInv'
<1>1. ASSUME NEW doc \in ChainDocs, NEW new \in BOOLEAN, ValidateChain(doc),
             Checked("put", "chains", c, doc, new)
      PROVE  InventoryInv'
  <2>1. /\ job' = [act |-> "put", table |-> "chains", id |-> c, doc |-> doc, new |-> new]
        /\ pools' = pools
    BY <1>1 DEF Checked, tables
  <2>2. job' \in Put("chains", Chains, ChainDocs) /\ job'.doc = doc BY <2>1 DEF Put
  <2>3. HopsOf(doc) \subseteq DOMAIN pools BY <1>1 DEF ValidateChain, ChainFits, HopsOf
  <2>4. JobChecked' BY <2>1, <2>2, <2>3 DEF JobChecked, PutChecked
  <2>5. QED BY <1>1, <2>4, CheckedKeeps
<1>2. ASSUME DeleteChain(c) PROVE InventoryInv'
  <2>1. /\ job' = [act |-> "delete", table |-> "chains", id |-> c, doc |-> <<>>, new |-> FALSE]
        /\ policies' = policies /\ Checked("delete", "chains", c, <<>>, FALSE)
    BY <1>2 DEF DeleteChain, Removal, Checked, tables
  <2>2. job' \in Remove("chains", Chains) /\ job'.id = c BY <2>1 DEF Remove
  <2>3. ~PolicyUsesChain(job.id)' BY <1>2, <2>1, <2>2 DEF DeleteChain, PolicyUsesChain
  <2>4. JobChecked' BY <2>2, <2>3 DEF JobChecked, RemovalChecked
  <2>5. QED BY <2>1, <2>4, CheckedKeeps
<1>3. QED BY <1>1, <1>2 DEF CreateChain, UpdateChain

LEMMA PolicyRequests ==
  ASSUME InventoryInv, NEW q \in Policies,
         DeletePolicy(q) \/ \E doc \in PolicyDocs : CreatePolicy(q, doc) \/ UpdatePolicy(q, doc)
  PROVE  InventoryInv'
<1>1. ASSUME NEW doc \in PolicyDocs, NEW new \in BOOLEAN, ValidatePolicyReferences(doc),
             Checked("put", "policies", q, doc, new)
      PROVE  InventoryInv'
  <2>1. /\ job' = [act |-> "put", table |-> "policies", id |-> q, doc |-> doc, new |-> new]
        /\ UNCHANGED <<pools, chains>>
    BY <1>1 DEF Checked, tables
  <2>2. job' \in Put("policies", Policies, PolicyDocs) /\ job'.doc = doc BY <2>1 DEF Put
  <2>3. ValidatePolicyReferences(job.doc)' BY <1>1, <2>1, <2>2 DEF ValidatePolicyReferences
  <2>4. JobChecked' BY <2>2, <2>3 DEF JobChecked, PutChecked
  <2>5. QED BY <1>1, <2>4, CheckedKeeps
<1>2. ASSUME DeletePolicy(q) PROVE InventoryInv'
  <2>1. /\ job' = [act |-> "delete", table |-> "policies", id |-> q, doc |-> <<>>, new |-> FALSE]
        /\ shadows' = shadows /\ Checked("delete", "policies", q, <<>>, FALSE)
    BY <1>2 DEF DeletePolicy, Removal, Checked
  <2>2. job' \in Remove("policies", Policies) /\ job'.id = q BY <2>1 DEF Remove
  <2>3. ~ShadowUsesPolicy(job.id)' BY <1>2, <2>1, <2>2 DEF DeletePolicy, ShadowUsesPolicy
  <2>4. JobChecked' BY <2>2, <2>3 DEF JobChecked, RemovalChecked
  <2>5. QED BY <2>1, <2>4, CheckedKeeps
<1>3. QED BY <1>1, <1>2 DEF CreatePolicy, UpdatePolicy

LEMMA ShadowRequests ==
  ASSUME InventoryInv, NEW w \in Shadows,
         \/ DeleteShadow(w)
         \/ \E doc \in ShadowDocs : /\ next < MaxGeneration
                                    /\ CreateShadow(w, doc) \/ UpdateShadow(w, doc)
  PROVE  InventoryInv'
<1>1. ASSUME NEW doc \in ShadowDocs, NEW new \in BOOLEAN, ValidateShadow(doc), next < MaxGeneration,
             new => Cardinality(DOMAIN shadows) < MaxShadows,
             Checked("put", "shadows", w, doc, new)
      PROVE  InventoryInv'
  <2>1. /\ job' = [act |-> "put", table |-> "shadows", id |-> w, doc |-> doc, new |-> new]
        /\ UNCHANGED <<pools, chains, policies, shadows, next>>
    BY <1>1 DEF Checked, tables, memory
  <2>2. job' \in ShadowWrite /\ job'.doc = doc /\ job'.new = new /\ job'.act = "put"
    BY <2>1 DEF ShadowWrite
  <2>3. ValidateShadow(job.doc)'
    BY <1>1, <2>1, <2>2 DEF ValidateShadow, ValidatePolicyReferences
  <2>4. next' < MaxGeneration /\ (job'.new => Cardinality(DOMAIN shadows') < MaxShadows)
    BY <1>1, <2>1, <2>2
  <2>5. JobChecked' BY <2>2, <2>3, <2>4 DEF JobChecked, PutChecked
  <2>6. QED BY <1>1, <2>5, CheckedKeeps
<1>2. ASSUME DeleteShadow(w) PROVE InventoryInv'
  <2>1. /\ job' = [act |-> "delete", table |-> "shadows", id |-> w, doc |-> <<>>, new |-> FALSE]
        /\ Checked("delete", "shadows", w, <<>>, FALSE)
    BY <1>2 DEF DeleteShadow, Removal, Checked
  <2>2. job' \in ShadowRemoval /\ job'.act = "delete" BY <2>1 DEF ShadowRemoval
  <2>3. JobChecked' BY <2>2 DEF JobChecked, RemovalChecked
  <2>4. QED BY <2>1, <2>3, CheckedKeeps
<1>3. QED BY <1>1, <1>2 DEF CreateShadow, UpdateShadow

LEMMA ScopeFacts ==
  ASSUME NEW scope \in Scopes, ValidateBudget(scope)
  PROVE  scope \in ScopesSaved
<1>1. CASE scope \in {"pool"} \X Pools
  <2>1. scope = <<"pool", scope[2]>> BY <1>1
  <2>2. scope[2] \in DOMAIN pools BY <2>1 DEF ValidateBudget
  <2>3. QED BY <2>1, <2>2 DEF ScopesSaved
<1>2. CASE scope \in {"proxy"} \X Endpoints
  <2>1. scope = <<"proxy", scope[2]>> BY <1>2
  <2>2. scope[2] \in endpoints BY <2>1 DEF ValidateBudget
  <2>3. QED BY <2>1, <2>2 DEF ScopesSaved
<1>3. CASE scope \in {"client"} \X Clients
  <2>1. scope = <<"client", scope[2]>> BY <1>3
  <2>2. scope[2] \in clients BY <2>1 DEF ValidateBudget
  <2>3. QED BY <2>1, <2>2 DEF ScopesSaved
<1>4. QED BY <1>1, <1>2, <1>3 DEF Scopes

LEMMA OtherRequests ==
  ASSUME InventoryInv,
         \/ \E b \in Budgets : \/ \E s \in Scopes : CreateBudget(b, s) \/ UpdateBudget(b, s)
                               \/ DeleteBudget(b)
         \/ \E e \in Endpoints : DeleteProxy(e)
         \/ \E a \in Clients : DeleteClient(a)
  PROVE  InventoryInv'
<1>1. ASSUME NEW b \in Budgets, NEW s \in Scopes, NEW new \in BOOLEAN, ValidateBudget(s),
             Checked("put", "budgets", b, s, new)
      PROVE  InventoryInv'
  <2>1. /\ job' = [act |-> "put", table |-> "budgets", id |-> b, doc |-> s, new |-> new]
        /\ UNCHANGED <<pools, endpoints, clients>>
    BY <1>1 DEF Checked, tables
  <2>2. job' \in Put("budgets", Budgets, Scopes) /\ job'.doc = s BY <2>1 DEF Put
  <2>3. job'.doc \in ScopesSaved' BY <1>1, <2>1, <2>2, ScopeFacts DEF ScopesSaved
  <2>4. JobChecked' BY <2>2, <2>3 DEF JobChecked, PutChecked
  <2>5. QED BY <1>1, <2>4, CheckedKeeps
<1>2. ASSUME NEW b \in Budgets, DeleteBudget(b) PROVE InventoryInv'
  <2>1. /\ job' = [act |-> "delete", table |-> "budgets", id |-> b, doc |-> <<>>, new |-> FALSE]
        /\ Checked("delete", "budgets", b, <<>>, FALSE)
    BY <1>2 DEF DeleteBudget, Removal, Checked
  <2>2. job' \in Remove("budgets", Budgets) BY <2>1 DEF Remove
  <2>3. JobChecked' BY <2>2 DEF JobChecked, RemovalChecked
  <2>4. QED BY <2>1, <2>3, CheckedKeeps
<1>3. ASSUME NEW e \in Endpoints, DeleteProxy(e) PROVE InventoryInv'
  <2>1. /\ job' = [act |-> "delete", table |-> "endpoints", id |-> e, doc |-> <<>>, new |-> FALSE]
        /\ UNCHANGED <<pools, budgets>> /\ Checked("delete", "endpoints", e, <<>>, FALSE)
    BY <1>3 DEF DeleteProxy, Removal, Checked, tables
  <2>2. job' \in Remove("endpoints", Endpoints) /\ job'.id = e BY <2>1 DEF Remove
  <2>3. ~PoolUsesEndpoint(job.id)' /\ ~References(<<"proxy", job.id>>)'
    BY <1>3, <2>1, <2>2 DEF DeleteProxy, PoolUsesEndpoint, References
  <2>4. JobChecked' BY <2>2, <2>3 DEF JobChecked, RemovalChecked
  <2>5. QED BY <2>1, <2>4, CheckedKeeps
<1>4. ASSUME NEW a \in Clients, DeleteClient(a) PROVE InventoryInv'
  <2>1. /\ job' = [act |-> "delete", table |-> "clients", id |-> a, doc |-> <<>>, new |-> FALSE]
        /\ budgets' = budgets /\ Checked("delete", "clients", a, <<>>, FALSE)
    BY <1>4 DEF DeleteClient, Removal, Checked, tables
  <2>2. job' \in Remove("clients", Clients) /\ job'.id = a BY <2>1 DEF Remove
  <2>3. ~References(<<"client", job.id>>)' BY <1>4, <2>1, <2>2 DEF DeleteClient, References
  <2>4. JobChecked' BY <2>2, <2>3 DEF JobChecked, RemovalChecked
  <2>5. QED BY <2>1, <2>4, CheckedKeeps
<1>5. QED BY <1>1, <1>2, <1>3, <1>4 DEF CreateBudget, UpdateBudget

LEMMA RequestKeeps == InventoryInv /\ Request => InventoryInv'
BY PoolRequests, ChainRequests, PolicyRequests, ShadowRequests, OtherRequests DEF Request

-----------------------------------------------------------------------------
(* Handlers without the mutex only add rows, which no check forbids.          *)

LEMMA AdditionKeeps ==
  ASSUME InventoryInv, endpoints \subseteq endpoints', endpoints' \subseteq Endpoints,
         clients \subseteq clients', clients' \subseteq Clients,
         UNCHANGED <<pools, chains, policies, budgets, shadows, job, compared, next, evaluations>>
  PROVE  InventoryInv'
<1>1. TablesTyped' BY DEF InventoryInv, TablesTyped
<1>2. ScopesSaved \subseteq ScopesSaved' BY DEF ScopesSaved
<1>3. TablesRefer'
  BY <1>2 DEF InventoryInv, TablesRefer, PoolsRefer, PoliciesRefer, ChainsRefer, ShadowsRefer,
              BudgetsRefer, ValidatePolicyReferences
<1>4. PutChecked => PutChecked'
  <2>1. \A p, doc : ValidatePool(p, doc) => ValidatePool(p, doc)' BY DEF ValidatePool
  <2>2. \A doc : ValidatePolicyReferences(doc) => ValidatePolicyReferences(doc)'
    BY DEF ValidatePolicyReferences
  <2>3. \A doc : ValidateShadow(doc) => ValidateShadow(doc)' BY <2>2 DEF ValidateShadow
  <2>4. QED BY <1>2, <2>1, <2>2, <2>3 DEF PutChecked
<1>5. RemovalChecked => RemovalChecked'
  BY DEF RemovalChecked, PolicyUsesPool, PoolIsFallback, ChainUsesPool, References,
         PolicyUsesChain, ShadowUsesPolicy, PoolUsesEndpoint
<1>6. JobChecked' BY <1>4, <1>5 DEF InventoryInv, JobChecked
<1>7. MemoryFollows' /\ CandidatesCurrent' /\ SamplesOfConfig' /\ ~HasCycle(pools)'
  BY DEF InventoryInv, MemoryFollows, CandidatesCurrent, SamplesOfConfig, Pending, Compared, RestartLoads
<1>8. QED BY <1>1, <1>3, <1>6, <1>7 DEF InventoryInv

-----------------------------------------------------------------------------
(* Writes. What the table and the act of a job tell of the check it passed.   *)

LEMMA JobFacts ==
  ASSUME InventoryInv
  PROVE  /\ job.act = "put" => PutChecked
         /\ job.act = "delete" => RemovalChecked
         /\ job.act = "upsert" =>
              /\ job \in ShadowWrite /\ job.id \in DOMAIN shadows
              /\ shadows[job.id] = job.doc /\ next < MaxGeneration
         /\ job.act = "forget" => job \in ShadowRemoval /\ job.id \notin DOMAIN shadows
BY DEF InventoryInv, JobChecked, PutChecked, RemovalChecked, Free, Put, ShadowWrite, Remove, ShadowRemoval

LEMMA PutRowFacts ==
  ASSUME PutChecked, job.act = "put"
  PROVE  /\ job.table = "pools" =>
              job.id \in Pools /\ job.doc \in PoolDocs /\ ValidatePool(job.id, job.doc)
         /\ job.table = "chains" =>
              job.id \in Chains /\ job.doc \in ChainDocs /\ HopsOf(job.doc) \subseteq DOMAIN pools
         /\ job.table = "policies" =>
              /\ job.id \in Policies /\ job.doc \in PolicyDocs
              /\ ValidatePolicyReferences(job.doc)
         /\ job.table = "budgets" =>
              job.id \in Budgets /\ job.doc \in Scopes /\ job.doc \in ScopesSaved
         /\ job.table = "shadows" =>
              /\ job \in ShadowWrite /\ ValidateShadow(job.doc) /\ next < MaxGeneration
              /\ job.new => Cardinality(DOMAIN shadows) < MaxShadows
BY DEF PutChecked, Put, ShadowWrite

LEMMA RemoveFacts ==
  ASSUME RemovalChecked, job.act = "delete"
  PROVE  /\ job.table = "pools" =>
              /\ ~PolicyUsesPool(job.id) /\ ~PoolIsFallback(job.id) /\ ~ChainUsesPool(job.id)
              /\ ~References(<<"pool", job.id>>)
         /\ job.table = "chains" => ~PolicyUsesChain(job.id)
         /\ job.table = "policies" => ~ShadowUsesPolicy(job.id)
         /\ job.table = "endpoints" => ~PoolUsesEndpoint(job.id) /\ ~References(<<"proxy", job.id>>)
         /\ job.table = "clients" => ~References(<<"client", job.id>>)
         /\ job.table = "shadows" => job \in ShadowRemoval
BY DEF RemovalChecked, Remove, ShadowRemoval

LEMMA WriteKeeps ==
  ASSUME InventoryInv, job.act \in {"put", "delete"}, job' = Free,
         UNCHANGED <<shadows, compared, next, evaluations>>,
         TablesTyped', TablesRefer', ~HasCycle(pools)'
  PROVE  InventoryInv'
<1>1. Pending = {} /\ Pending' = {} BY DEF Pending, Free
<1>2. MemoryFollows' /\ CandidatesCurrent' /\ SamplesOfConfig'
  BY <1>1 DEF InventoryInv, MemoryFollows, CandidatesCurrent, SamplesOfConfig, Compared, RestartLoads
<1>3. QED BY <1>2 DEF InventoryInv, JobChecked

LEMMA WrittenFacts ==
  ASSUME NEW table
  PROVE  \/ Written(table) = table
         \/ Written(table) = With(table, job.id, job.doc)
BY DEF Written

LEMMA PutPoolKeeps == InventoryInv /\ PutPool => InventoryInv'
<1>1. SUFFICES ASSUME InventoryInv, PutPool PROVE InventoryInv' OBVIOUS
<1>2. /\ job.act = "put" /\ job.table = "pools" /\ job' = Free /\ pools' = Written(pools)
      /\ UNCHANGED <<endpoints, clients, chains, policies, budgets, shadows, compared, next,
                     evaluations>>
  BY <1>1 DEF PutPool, Writes, memory
<1>3. job.id \in Pools /\ job.doc \in PoolDocs /\ ValidatePool(job.id, job.doc)
  BY <1>1, <1>2, JobFacts, PutRowFacts
<1>4. \/ pools' = pools
      \/ /\ DOMAIN pools' = DOMAIN pools \cup {job.id} /\ pools'[job.id] = job.doc
         /\ \A p \in DOMAIN pools \ {job.id} : pools'[p] = pools[p]
         /\ ~HasCycle(pools')
  <2>1. /\ DOMAIN With(pools, job.id, job.doc) = DOMAIN pools \cup {job.id}
        /\ With(pools, job.id, job.doc)[job.id] = job.doc
        /\ \A x \in DOMAIN pools \ {job.id} : With(pools, job.id, job.doc)[x] = pools[x]
    BY DEF With
  <2>2. ~HasCycle(With(pools, job.id, job.doc)) BY <1>3 DEF ValidatePool
  <2>3. QED BY <1>2, <2>1, <2>2, WrittenFacts
<1>5. TablesTyped' BY <1>1, <1>2, <1>3, <1>4 DEF InventoryInv, TablesTyped
<1>6. DOMAIN pools \subseteq DOMAIN pools' BY <1>4
<1>7. PoolsRefer'
  BY <1>1, <1>2, <1>3, <1>4, <1>6 DEF InventoryInv, TablesRefer, PoolsRefer, ValidatePool
<1>8. PoliciesRefer' /\ ChainsRefer' /\ ShadowsRefer' /\ BudgetsRefer'
  BY <1>1, <1>2, <1>6
     DEF InventoryInv, TablesRefer, PoliciesRefer, ChainsRefer, ShadowsRefer, BudgetsRefer,
         ValidatePolicyReferences, ScopesSaved
<1>9. ~HasCycle(pools)' BY <1>1, <1>4 DEF InventoryInv
<1>10. QED BY <1>1, <1>2, <1>5, <1>7, <1>8, <1>9, WriteKeeps DEF TablesRefer

LEMMA RemovePoolKeeps == InventoryInv /\ RemovePool => InventoryInv'
<1>1. SUFFICES ASSUME InventoryInv, RemovePool PROVE InventoryInv' OBVIOUS
<1>2. /\ job.act = "delete" /\ job.table = "pools" /\ job' = Free
      /\ pools' = Without(pools, job.id)
      /\ UNCHANGED <<endpoints, clients, chains, policies, budgets, shadows, compared, next,
                     evaluations>>
  BY <1>1 DEF RemovePool, Writes, memory
<1>3. /\ ~PolicyUsesPool(job.id) /\ ~PoolIsFallback(job.id) /\ ~ChainUsesPool(job.id)
      /\ ~References(<<"pool", job.id>>)
  BY <1>1, <1>2, JobFacts, RemoveFacts
<1>4. /\ DOMAIN pools' = DOMAIN pools \ {job.id}
      /\ \A p \in DOMAIN pools' : pools'[p] = pools[p]
  <2>1. /\ DOMAIN Without(pools, job.id) = DOMAIN pools \ {job.id}
        /\ \A x \in DOMAIN pools \ {job.id} : Without(pools, job.id)[x] = pools[x]
    BY WithoutFacts
  <2>2. QED BY <1>2, <2>1
<1>5. TablesTyped' BY <1>1, <1>2, <1>4 DEF InventoryInv, TablesTyped
<1>6. PoolsRefer'
  BY <1>1, <1>2, <1>3, <1>4 DEF InventoryInv, TablesRefer, PoolsRefer, PoolIsFallback
<1>7. PoliciesRefer'
  BY <1>1, <1>2, <1>3, <1>4
     DEF InventoryInv, TablesRefer, PoliciesRefer, ValidatePolicyReferences, PolicyUsesPool
<1>8. ChainsRefer'
  BY <1>1, <1>2, <1>3, <1>4 DEF InventoryInv, TablesRefer, ChainsRefer, ChainUsesPool, HopsOf
<1>9. BudgetsRefer'
  <2>1. SUFFICES ASSUME NEW b \in DOMAIN budgets PROVE budgets[b] \in ScopesSaved'
    BY <1>2 DEF BudgetsRefer
  <2>2. budgets[b] \in ScopesSaved /\ budgets[b] # <<"pool", job.id>>
    BY <1>1, <1>3, <2>1 DEF InventoryInv, TablesRefer, BudgetsRefer, References
  <2>3. QED BY <1>2, <1>4, <2>2 DEF ScopesSaved
<1>10. ShadowsRefer' BY <1>1, <1>2 DEF InventoryInv, TablesRefer, ShadowsRefer
<1>11. ~HasCycle(pools)' BY <1>1, <1>2, FewerCycles DEF InventoryInv
<1>12. QED
  BY <1>1, <1>2, <1>5, <1>6, <1>7, <1>8, <1>9, <1>10, <1>11, WriteKeeps DEF TablesRefer

LEMMA PutChainKeeps == InventoryInv /\ PutChain => InventoryInv'
<1>1. SUFFICES ASSUME InventoryInv, PutChain PROVE InventoryInv' OBVIOUS
<1>2. /\ job.act = "put" /\ job.table = "chains" /\ job' = Free /\ chains' = Written(chains)
      /\ UNCHANGED <<endpoints, clients, pools, policies, budgets, shadows, compared, next,
                     evaluations>>
  BY <1>1 DEF PutChain, Writes, memory
<1>3. job.id \in Chains /\ job.doc \in ChainDocs /\ HopsOf(job.doc) \subseteq DOMAIN pools
  BY <1>1, <1>2, JobFacts, PutRowFacts
<1>4. \/ chains' = chains
      \/ /\ DOMAIN chains' = DOMAIN chains \cup {job.id} /\ chains'[job.id] = job.doc
         /\ \A c \in DOMAIN chains \ {job.id} : chains'[c] = chains[c]
  <2>1. /\ DOMAIN With(chains, job.id, job.doc) = DOMAIN chains \cup {job.id}
        /\ With(chains, job.id, job.doc)[job.id] = job.doc
        /\ \A x \in DOMAIN chains \ {job.id} : With(chains, job.id, job.doc)[x] = chains[x]
    BY DEF With
  <2>2. QED BY <1>2, <2>1, WrittenFacts
<1>5. TablesTyped' BY <1>1, <1>2, <1>3, <1>4 DEF InventoryInv, TablesTyped
<1>6. TablesRefer' /\ ~HasCycle(pools)'
  BY <1>1, <1>2, <1>3, <1>4
     DEF InventoryInv, TablesRefer, PoolsRefer, PoliciesRefer, ChainsRefer, ShadowsRefer, BudgetsRefer,
         ValidatePolicyReferences, ScopesSaved
<1>7. QED BY <1>1, <1>2, <1>5, <1>6, WriteKeeps

LEMMA RemoveChainKeeps == InventoryInv /\ RemoveChain => InventoryInv'
<1>1. SUFFICES ASSUME InventoryInv, RemoveChain PROVE InventoryInv' OBVIOUS
<1>2. /\ job.act = "delete" /\ job.table = "chains" /\ job' = Free
      /\ chains' = Without(chains, job.id)
      /\ UNCHANGED <<endpoints, clients, pools, policies, budgets, shadows, compared, next,
                     evaluations>>
  BY <1>1 DEF RemoveChain, Writes, memory
<1>3. ~PolicyUsesChain(job.id) BY <1>1, <1>2, JobFacts, RemoveFacts
<1>4. /\ DOMAIN chains' = DOMAIN chains \ {job.id}
      /\ \A c \in DOMAIN chains' : chains'[c] = chains[c]
  <2>1. /\ DOMAIN Without(chains, job.id) = DOMAIN chains \ {job.id}
        /\ \A x \in DOMAIN chains \ {job.id} : Without(chains, job.id)[x] = chains[x]
    BY WithoutFacts
  <2>2. QED BY <1>2, <2>1
<1>5. TablesTyped' BY <1>1, <1>2, <1>4 DEF InventoryInv, TablesTyped
<1>6. PoliciesRefer'
  BY <1>1, <1>2, <1>3, <1>4
     DEF InventoryInv, TablesRefer, PoliciesRefer, ValidatePolicyReferences, PolicyUsesChain
<1>7. PoolsRefer' /\ ChainsRefer' /\ ShadowsRefer' /\ BudgetsRefer' /\ ~HasCycle(pools)'
  BY <1>1, <1>2, <1>4
     DEF InventoryInv, TablesRefer, PoolsRefer, ChainsRefer, ShadowsRefer, BudgetsRefer, ScopesSaved
<1>8. QED BY <1>1, <1>2, <1>5, <1>6, <1>7, WriteKeeps DEF TablesRefer

LEMMA PutPolicyKeeps == InventoryInv /\ PutPolicy => InventoryInv'
<1>1. SUFFICES ASSUME InventoryInv, PutPolicy PROVE InventoryInv' OBVIOUS
<1>2. /\ job.act = "put" /\ job.table = "policies" /\ job' = Free
      /\ policies' = Written(policies)
      /\ UNCHANGED <<endpoints, clients, pools, chains, budgets, shadows, compared, next,
                     evaluations>>
  BY <1>1 DEF PutPolicy, Writes, memory
<1>3. job.id \in Policies /\ job.doc \in PolicyDocs /\ ValidatePolicyReferences(job.doc)
  BY <1>1, <1>2, JobFacts, PutRowFacts
<1>4. \/ policies' = policies
      \/ /\ DOMAIN policies' = DOMAIN policies \cup {job.id} /\ policies'[job.id] = job.doc
         /\ \A q \in DOMAIN policies \ {job.id} : policies'[q] = policies[q]
  <2>1. /\ DOMAIN With(policies, job.id, job.doc) = DOMAIN policies \cup {job.id}
        /\ With(policies, job.id, job.doc)[job.id] = job.doc
        /\ \A x \in DOMAIN policies \ {job.id} : With(policies, job.id, job.doc)[x] = policies[x]
    BY DEF With
  <2>2. QED BY <1>2, <2>1, WrittenFacts
<1>5. TablesTyped' BY <1>1, <1>2, <1>3, <1>4 DEF InventoryInv, TablesTyped
<1>6. PoliciesRefer'
  BY <1>1, <1>2, <1>3, <1>4
     DEF InventoryInv, TablesRefer, PoliciesRefer, ValidatePolicyReferences
<1>7. PoolsRefer' /\ ChainsRefer' /\ ShadowsRefer' /\ BudgetsRefer' /\ ~HasCycle(pools)'
  BY <1>1, <1>2, <1>4
     DEF InventoryInv, TablesRefer, PoolsRefer, ChainsRefer, ShadowsRefer, BudgetsRefer, ScopesSaved
<1>8. QED BY <1>1, <1>2, <1>5, <1>6, <1>7, WriteKeeps DEF TablesRefer

LEMMA RemovePolicyKeeps == InventoryInv /\ RemovePolicy => InventoryInv'
<1>1. SUFFICES ASSUME InventoryInv, RemovePolicy PROVE InventoryInv' OBVIOUS
<1>2. /\ job.act = "delete" /\ job.table = "policies" /\ job' = Free
      /\ policies' = Without(policies, job.id)
      /\ UNCHANGED <<endpoints, clients, pools, chains, budgets, shadows, compared, next,
                     evaluations>>
  BY <1>1 DEF RemovePolicy, Writes, memory
<1>3. ~ShadowUsesPolicy(job.id) BY <1>1, <1>2, JobFacts, RemoveFacts
<1>4. /\ DOMAIN policies' = DOMAIN policies \ {job.id}
      /\ \A q \in DOMAIN policies' : policies'[q] = policies[q]
  <2>1. /\ DOMAIN Without(policies, job.id) = DOMAIN policies \ {job.id}
        /\ \A x \in DOMAIN policies \ {job.id} : Without(policies, job.id)[x] = policies[x]
    BY WithoutFacts
  <2>2. QED BY <1>2, <2>1
<1>5. TablesTyped' BY <1>1, <1>2, <1>4 DEF InventoryInv, TablesTyped
<1>6. ShadowsRefer'
  BY <1>1, <1>2, <1>3, <1>4 DEF InventoryInv, TablesRefer, ShadowsRefer, ShadowUsesPolicy
<1>7. PoolsRefer' /\ PoliciesRefer' /\ ChainsRefer' /\ BudgetsRefer' /\ ~HasCycle(pools)'
  BY <1>1, <1>2, <1>4
     DEF InventoryInv, TablesRefer, PoolsRefer, PoliciesRefer, ChainsRefer, BudgetsRefer, ScopesSaved,
         ValidatePolicyReferences
<1>8. QED BY <1>1, <1>2, <1>5, <1>6, <1>7, WriteKeeps DEF TablesRefer

LEMMA PutConfigKeeps == InventoryInv /\ PutConfig => InventoryInv'
<1>1. SUFFICES ASSUME InventoryInv, PutConfig PROVE InventoryInv' OBVIOUS
<1>2. /\ job.act = "put" /\ job.table = "budgets" /\ job' = Free /\ budgets' = Written(budgets)
      /\ UNCHANGED <<endpoints, clients, pools, chains, policies, shadows, compared, next,
                     evaluations>>
  BY <1>1 DEF PutConfig, Writes, memory
<1>3. job.id \in Budgets /\ job.doc \in Scopes /\ job.doc \in ScopesSaved
  BY <1>1, <1>2, JobFacts, PutRowFacts
<1>4. \/ budgets' = budgets
      \/ /\ DOMAIN budgets' = DOMAIN budgets \cup {job.id} /\ budgets'[job.id] = job.doc
         /\ \A b \in DOMAIN budgets \ {job.id} : budgets'[b] = budgets[b]
  <2>1. /\ DOMAIN With(budgets, job.id, job.doc) = DOMAIN budgets \cup {job.id}
        /\ With(budgets, job.id, job.doc)[job.id] = job.doc
        /\ \A x \in DOMAIN budgets \ {job.id} : With(budgets, job.id, job.doc)[x] = budgets[x]
    BY DEF With
  <2>2. QED BY <1>2, <2>1, WrittenFacts
<1>5. TablesTyped' BY <1>1, <1>2, <1>3, <1>4 DEF InventoryInv, TablesTyped
<1>6. BudgetsRefer'
  <2>1. ScopesSaved' = ScopesSaved BY <1>2 DEF ScopesSaved
  <2>2. QED BY <1>1, <1>3, <1>4, <2>1 DEF InventoryInv, TablesRefer, BudgetsRefer
<1>7. PoolsRefer' /\ PoliciesRefer' /\ ChainsRefer' /\ ShadowsRefer' /\ ~HasCycle(pools)'
  BY <1>1, <1>2
     DEF InventoryInv, TablesRefer, PoolsRefer, PoliciesRefer, ChainsRefer, ShadowsRefer,
         ValidatePolicyReferences
<1>8. QED BY <1>1, <1>2, <1>5, <1>6, <1>7, WriteKeeps DEF TablesRefer

LEMMA DeleteConfigKeeps == InventoryInv /\ DeleteConfig => InventoryInv'
<1>1. SUFFICES ASSUME InventoryInv, DeleteConfig PROVE InventoryInv' OBVIOUS
<1>2. /\ job.act = "delete" /\ job' = Free /\ budgets' = Without(budgets, job.id)
      /\ UNCHANGED <<endpoints, clients, pools, chains, policies, shadows, compared, next,
                     evaluations>>
  BY <1>1 DEF DeleteConfig, Writes, memory
<1>3. /\ DOMAIN budgets' = DOMAIN budgets \ {job.id}
      /\ \A b \in DOMAIN budgets' : budgets'[b] = budgets[b]
  <2>1. /\ DOMAIN Without(budgets, job.id) = DOMAIN budgets \ {job.id}
        /\ \A x \in DOMAIN budgets \ {job.id} : Without(budgets, job.id)[x] = budgets[x]
    BY WithoutFacts
  <2>2. QED BY <1>2, <2>1
<1>4. TablesTyped' BY <1>1, <1>2, <1>3 DEF InventoryInv, TablesTyped
<1>5. BudgetsRefer'
  <2>1. ScopesSaved' = ScopesSaved BY <1>2 DEF ScopesSaved
  <2>2. QED BY <1>1, <1>3, <2>1 DEF InventoryInv, TablesRefer, BudgetsRefer
<1>6. PoolsRefer' /\ PoliciesRefer' /\ ChainsRefer' /\ ShadowsRefer' /\ ~HasCycle(pools)'
  BY <1>1, <1>2
     DEF InventoryInv, TablesRefer, PoolsRefer, PoliciesRefer, ChainsRefer, ShadowsRefer,
         ValidatePolicyReferences
<1>7. QED BY <1>1, <1>2, <1>4, <1>5, <1>6, WriteKeeps DEF TablesRefer

(* An endpoint or a client goes when no pool and no budget names it.          *)
LEMMA RemoveKeeps == InventoryInv /\ (Delete \/ RemoveClient) => InventoryInv'
<1>1. SUFFICES ASSUME InventoryInv, Delete \/ RemoveClient PROVE InventoryInv' OBVIOUS
<1>2. /\ job.act = "delete" /\ job' = Free
      /\ UNCHANGED <<pools, chains, policies, budgets, shadows, compared, next, evaluations>>
      /\ endpoints' \subseteq endpoints /\ clients' \subseteq clients
  BY <1>1 DEF Delete, RemoveClient, Writes, memory
<1>3. TablesTyped' BY <1>1, <1>2 DEF InventoryInv, TablesTyped
<1>4. PoolsRefer' /\ BudgetsRefer'
  <2>1. CASE Delete
    <3>1. ~PoolUsesEndpoint(job.id) /\ ~References(<<"proxy", job.id>>)
      BY <1>1, <1>2, <2>1, JobFacts, RemoveFacts DEF Delete, Writes
    <3>2. endpoints' = endpoints \ {job.id} /\ clients' = clients BY <2>1 DEF Delete
    <3>3. PoolsRefer'
      BY <1>1, <1>2, <3>1, <3>2 DEF InventoryInv, TablesRefer, PoolsRefer, PoolUsesEndpoint
    <3>4. BudgetsRefer'
      <4>1. SUFFICES ASSUME NEW b \in DOMAIN budgets PROVE budgets[b] \in ScopesSaved'
        BY <1>2 DEF BudgetsRefer
      <4>2. budgets[b] \in ScopesSaved /\ budgets[b] # <<"proxy", job.id>>
        BY <1>1, <3>1, <4>1 DEF InventoryInv, TablesRefer, BudgetsRefer, References
      <4>3. QED BY <1>2, <3>2, <4>2 DEF ScopesSaved
    <3>5. QED BY <3>3, <3>4
  <2>2. CASE RemoveClient
    <3>1. ~References(<<"client", job.id>>)
      BY <1>1, <1>2, <2>2, JobFacts, RemoveFacts DEF RemoveClient, Writes
    <3>2. clients' = clients \ {job.id} /\ endpoints' = endpoints BY <2>2 DEF RemoveClient
    <3>3. PoolsRefer' BY <1>1, <1>2, <3>2 DEF InventoryInv, TablesRefer, PoolsRefer
    <3>4. BudgetsRefer'
      <4>1. SUFFICES ASSUME NEW b \in DOMAIN budgets PROVE budgets[b] \in ScopesSaved'
        BY <1>2 DEF BudgetsRefer
      <4>2. budgets[b] \in ScopesSaved /\ budgets[b] # <<"client", job.id>>
        BY <1>1, <3>1, <4>1 DEF InventoryInv, TablesRefer, BudgetsRefer, References
      <4>3. QED BY <1>2, <3>2, <4>2 DEF ScopesSaved
    <3>5. QED BY <3>3, <3>4
  <2>3. QED BY <1>1, <2>1, <2>2
<1>5. PoliciesRefer' /\ ChainsRefer' /\ ShadowsRefer' /\ ~HasCycle(pools)'
  BY <1>1, <1>2
     DEF InventoryInv, TablesRefer, PoliciesRefer, ChainsRefer, ShadowsRefer, ValidatePolicyReferences
<1>6. QED BY <1>1, <1>2, <1>3, <1>4, <1>5, WriteKeeps DEF TablesRefer

LEMMA StoreFailsKeeps == InventoryInv /\ StoreFails => InventoryInv'
<1>1. SUFFICES ASSUME InventoryInv, StoreFails PROVE InventoryInv' OBVIOUS
<1>2. /\ job.act \in {"put", "delete"} /\ job' = Free
      /\ UNCHANGED <<endpoints, clients, pools, chains, policies, budgets, shadows, compared,
                     next, evaluations>>
  BY <1>1 DEF StoreFails, tables, memory
<1>3. TablesTyped' /\ TablesRefer' /\ ~HasCycle(pools)'
  BY <1>1, <1>2
     DEF InventoryInv, TablesTyped, TablesRefer, PoolsRefer, PoliciesRefer, ChainsRefer, ShadowsRefer,
         BudgetsRefer, ScopesSaved, ValidatePolicyReferences
<1>4. QED BY <1>1, <1>2, <1>3, WriteKeeps

-----------------------------------------------------------------------------
(* Shadows: the row, then memory.                                             *)

(* Nothing but shadows and the memory of them is looked at by these steps.    *)
LEMMA ShadowsOnly ==
  ASSUME InventoryInv, UNCHANGED tables, DOMAIN shadows' \subseteq Shadows,
         \A w \in DOMAIN shadows' :
           shadows'[w] \in ShadowDocs /\ shadows'[w].active \in DOMAIN policies
  PROVE  TablesTyped' /\ TablesRefer' /\ ~HasCycle(pools)'
<1>1. UNCHANGED <<endpoints, clients, pools, chains, policies, budgets>> BY DEF tables
<1>2. TablesTyped' BY <1>1 DEF InventoryInv, TablesTyped
<1>3. ShadowsRefer' BY <1>1 DEF ShadowsRefer
<1>4. PoolsRefer' /\ PoliciesRefer' /\ ChainsRefer' /\ BudgetsRefer' /\ ~HasCycle(pools)'
  BY <1>1
     DEF InventoryInv, TablesRefer, PoolsRefer, PoliciesRefer, ChainsRefer, BudgetsRefer, ScopesSaved,
         ValidatePolicyReferences
<1>5. QED BY <1>2, <1>3, <1>4 DEF TablesRefer

LEMMA PutShadowKeeps == InventoryInv /\ PutShadow => InventoryInv'
<1>1. SUFFICES ASSUME InventoryInv, PutShadow PROVE InventoryInv' OBVIOUS
<1>2. /\ job.act = "put" /\ job.table = "shadows" /\ shadows' = Written(shadows)
      /\ job' = IF Lands(shadows) THEN [job EXCEPT !.act = "upsert"] ELSE Free
      /\ UNCHANGED <<tables, compared, next, evaluations>>
  BY <1>1 DEF PutShadow, memory
<1>3. /\ job \in ShadowWrite /\ ValidateShadow(job.doc) /\ next < MaxGeneration
      /\ job.new => Cardinality(DOMAIN shadows) < MaxShadows
  BY <1>1, <1>2, JobFacts, PutRowFacts
<1>4. job.id \in Shadows /\ job.doc \in ShadowDocs BY <1>3 DEF ShadowWrite
<1>5. Pending = {} BY <1>2 DEF Pending
<1>6. UNCHANGED <<pools, chains, policies>> BY <1>2 DEF tables
<1>7. CandidatesCurrent' /\ SamplesOfConfig'
  BY <1>1, <1>2 DEF InventoryInv, CandidatesCurrent, SamplesOfConfig
<1>8. CASE Lands(shadows)
  <2>1. /\ shadows' = With(shadows, job.id, job.doc) /\ job' = [job EXCEPT !.act = "upsert"]
        /\ job.new <=> job.id \notin DOMAIN shadows
    BY <1>2, <1>8 DEF Written, Lands
  <2>2. /\ DOMAIN shadows' = DOMAIN shadows \cup {job.id} /\ shadows'[job.id] = job.doc
        /\ \A x \in DOMAIN shadows \ {job.id} : shadows'[x] = shadows[x]
    BY <2>1 DEF With
  <2>3. /\ job' \in ShadowWrite /\ job'.act = "upsert" /\ job'.id = job.id /\ job'.doc = job.doc
    BY <1>3, <2>1 DEF ShadowWrite
  <2>4. TablesTyped' /\ TablesRefer' /\ ~HasCycle(pools)'
    BY <1>1, <1>2, <1>3, <1>4, <2>2, ShadowsOnly
       DEF InventoryInv, TablesTyped, TablesRefer, ShadowsRefer, ValidateShadow
  <2>5. JobChecked'
    <3>1. ValidateShadow(job.doc)'
      BY <1>3, <1>6, <2>3 DEF ValidateShadow, ValidatePolicyReferences
    <3>2. job'.id \in DOMAIN shadows' /\ shadows'[job'.id] = job'.doc BY <2>2, <2>3
    <3>3. next' < MaxGeneration /\ job'.act # "put" BY <1>2, <1>3, <2>3
    <3>4. QED BY <2>3, <3>1, <3>2, <3>3 DEF JobChecked, PutChecked
  <2>6. Pending' = {job.id} BY <2>3 DEF Pending
  <2>7. IsFiniteSet(DOMAIN shadows') /\ RestartLoads'
    <3>1. IsFiniteSet(DOMAIN shadows) /\ Cardinality(DOMAIN shadows) <= MaxShadows
      BY <1>1 DEF InventoryInv, MemoryFollows, RestartLoads
    <3>2. /\ IsFiniteSet(DOMAIN shadows')
          /\ Cardinality(DOMAIN shadows') =
               IF job.id \in DOMAIN shadows THEN Cardinality(DOMAIN shadows)
               ELSE Cardinality(DOMAIN shadows) + 1
      BY <2>2, <3>1, FS_AddElement
    <3>3. Cardinality(DOMAIN shadows) \in Nat BY <3>1, FS_CardinalityType
    <3>4. QED BY <1>3, <2>1, <3>1, <3>2, <3>3, DocsAssumption DEF RestartLoads
  <2>8. MemoryFollows'
    BY <1>1, <1>2, <1>5, <2>2, <2>6, <2>7 DEF InventoryInv, MemoryFollows, Compared
  <2>9. QED BY <1>7, <2>4, <2>5, <2>8 DEF InventoryInv
<1>9. CASE ~Lands(shadows)
  <2>1. shadows' = shadows /\ job' = Free BY <1>2, <1>9 DEF Written
  <2>2. TablesTyped' /\ TablesRefer' /\ ~HasCycle(pools)'
    BY <1>1, <1>2, <2>1, ShadowsOnly DEF InventoryInv, TablesTyped, TablesRefer, ShadowsRefer
  <2>3. QED BY <1>1, <1>2, <2>1, <2>2, WriteKeeps
<1>10. QED BY <1>8, <1>9

LEMMA RemoveShadowKeeps == InventoryInv /\ RemoveShadow => InventoryInv'
<1>1. SUFFICES ASSUME InventoryInv, RemoveShadow PROVE InventoryInv' OBVIOUS
<1>2. /\ job.act = "delete" /\ job.table = "shadows" /\ shadows' = Without(shadows, job.id)
      /\ job' = IF job.id \in DOMAIN shadows THEN [job EXCEPT !.act = "forget"] ELSE Free
      /\ UNCHANGED <<tables, compared, next, evaluations>>
  BY <1>1 DEF RemoveShadow, memory
<1>3. job \in ShadowRemoval BY <1>1, <1>2, JobFacts, RemoveFacts
<1>4. /\ DOMAIN shadows' = DOMAIN shadows \ {job.id}
      /\ \A x \in DOMAIN shadows' : shadows'[x] = shadows[x]
  <2>1. /\ DOMAIN Without(shadows, job.id) = DOMAIN shadows \ {job.id}
        /\ \A x \in DOMAIN shadows \ {job.id} : Without(shadows, job.id)[x] = shadows[x]
    BY WithoutFacts
  <2>2. QED BY <1>2, <2>1
<1>5. Pending = {} BY <1>2 DEF Pending
<1>6. TablesTyped' /\ TablesRefer' /\ ~HasCycle(pools)'
  BY <1>1, <1>2, <1>4, ShadowsOnly DEF InventoryInv, TablesTyped, TablesRefer, ShadowsRefer
<1>7. CandidatesCurrent' /\ SamplesOfConfig'
  BY <1>1, <1>2 DEF InventoryInv, CandidatesCurrent, SamplesOfConfig
<1>8. JobChecked' /\ (Pending' = {job.id} \/ (Pending' = {} /\ job.id \notin DOMAIN shadows))
  <2>1. CASE job.id \in DOMAIN shadows
    <3>1. job' \in ShadowRemoval /\ job'.act = "forget" /\ job'.id = job.id
      BY <1>2, <1>3, <2>1 DEF ShadowRemoval
    <3>2. job'.id \notin DOMAIN shadows' BY <1>4, <3>1
    <3>3. QED BY <3>1, <3>2 DEF JobChecked, RemovalChecked, Pending
  <2>2. CASE job.id \notin DOMAIN shadows
    BY <1>2, <2>2 DEF JobChecked, Pending, Free
  <2>3. QED BY <2>1, <2>2
<1>9. IsFiniteSet(DOMAIN shadows') /\ RestartLoads'
  <2>1. IsFiniteSet(DOMAIN shadows) /\ Cardinality(DOMAIN shadows) <= MaxShadows
    BY <1>1 DEF InventoryInv, MemoryFollows, RestartLoads
  <2>2. IsFiniteSet(DOMAIN shadows') /\ Cardinality(DOMAIN shadows') <= Cardinality(DOMAIN shadows)
    BY <1>4, <2>1, FS_Subset
  <2>3. Cardinality(DOMAIN shadows) \in Nat /\ Cardinality(DOMAIN shadows') \in Nat
    BY <2>1, <2>2, FS_CardinalityType
  <2>4. QED BY <2>1, <2>2, <2>3, DocsAssumption DEF RestartLoads
<1>10. MemoryFollows'
  BY <1>1, <1>2, <1>4, <1>5, <1>8, <1>9 DEF InventoryInv, MemoryFollows, Compared
<1>11. QED BY <1>6, <1>7, <1>8, <1>10 DEF InventoryInv

(* A state of the shadow manager whose document, or whose samples, change.    *)
LEMMA StateFacts ==
  ASSUME next \in Nat, NEW s \in Compared, NEW doc \in ShadowDocs
  PROVE  /\ [s EXCEPT !.doc = doc] \in Compared /\ [s EXCEPT !.doc = doc].doc = doc
         /\ [s EXCEPT !.doc = doc].generation = s.generation
         /\ [s EXCEPT !.doc = doc].samples = s.samples
BY DEF Compared

LEMMA SampleFacts ==
  ASSUME next \in Nat, NEW s \in Compared, NEW samples \in SUBSET (Policies \X PolicyDocs)
  PROVE  /\ [s EXCEPT !.samples = samples] \in Compared
         /\ [s EXCEPT !.samples = samples].doc = s.doc
         /\ [s EXCEPT !.samples = samples].generation = s.generation
         /\ [s EXCEPT !.samples = samples].samples = samples
BY DEF Compared

LEMMA UpsertKeeps == InventoryInv /\ Upsert => InventoryInv'
<1>1. SUFFICES ASSUME InventoryInv, Upsert PROVE InventoryInv' OBVIOUS
<1> DEFINE id == job.id
           doc == job.doc
           kept == id \in DOMAIN compared /\ SameComparison(compared[id].doc, doc)
           again == [compared[id] EXCEPT !.doc = doc]
           fresh == NewState(doc, next + 1)
<1>2. /\ job.act = "upsert" /\ job' = Free /\ UNCHANGED <<tables, shadows, evaluations>>
      /\ kept => compared' = [compared EXCEPT ![id] = again] /\ next' = next
      /\ ~kept => compared' = With(compared, id, fresh) /\ next' = next + 1
  BY <1>1 DEF Upsert
<1>3. /\ id \in Shadows /\ doc \in ShadowDocs /\ id \in DOMAIN shadows
      /\ shadows[id] = doc /\ next < MaxGeneration
  BY <1>1, <1>2, JobFacts DEF ShadowWrite
<1>4. next \in Nat /\ next' \in 0 .. MaxGeneration /\ next <= next'
  BY <1>1, <1>2, <1>3, DocsAssumption DEF InventoryInv, MemoryFollows
<1>5. Pending = {id} /\ Pending' = {} BY <1>2 DEF Pending, Free
<1>6. Compared \subseteq Compared' BY <1>4 DEF Compared
<1>7. /\ id \in DOMAIN compared' /\ DOMAIN compared' = DOMAIN compared \cup {id}
      /\ \A w \in DOMAIN compared \ {id} : compared'[w] = compared[w]
      /\ compared'[id] = IF kept THEN again ELSE fresh
  <2>1. CASE kept BY <1>2, <2>1
  <2>2. CASE ~kept
    <3>1. compared' = [x \in DOMAIN compared \cup {id} |-> IF x = id THEN fresh ELSE compared[x]]
      BY <1>2, <2>2 DEF With
    <3>2. QED BY <2>2, <3>1
  <2>3. QED BY <2>1, <2>2
<1>8. kept => /\ again \in Compared' /\ again.doc = doc
              /\ again.generation = compared[id].generation
              /\ again.samples = compared[id].samples
  <2>1. SUFFICES ASSUME kept PROVE /\ again \in Compared' /\ again.doc = doc
                                  /\ again.generation = compared[id].generation
                                  /\ again.samples = compared[id].samples
    OBVIOUS
  <2>2. compared[id] \in Compared BY <1>1, <2>1 DEF InventoryInv, MemoryFollows
  <2>3. QED BY <1>3, <1>4, <1>6, <2>2, StateFacts
<1>9. ~kept => /\ fresh \in Compared' /\ fresh.doc = doc
               /\ fresh.generation = next + 1 /\ fresh.samples = {}
  BY <1>2, <1>3, <1>4, DocsAssumption DEF NewState, Compared
<1> HIDE DEF again, fresh
<1>10. compared'[id] \in Compared' /\ compared'[id].doc = doc
  BY <1>7, <1>8, <1>9
<1>11. MemoryFollows'
  <2>1. \A w \in DOMAIN compared' : compared'[w] \in Compared'
    BY <1>1, <1>6, <1>7, <1>10 DEF InventoryInv, MemoryFollows
  <2>2. /\ DOMAIN compared \ {id} = DOMAIN shadows \ {id}
        /\ \A w \in DOMAIN shadows \ {id} : compared[w].doc = shadows[w]
    BY <1>1, <1>5 DEF InventoryInv, MemoryFollows
  <2>3. DOMAIN compared' = DOMAIN shadows BY <1>3, <1>7, <2>2
  <2>4. \A w \in DOMAIN shadows : compared'[w].doc = shadows[w]
    BY <1>3, <1>7, <1>10, <2>2
  <2>5. IsFiniteSet(DOMAIN shadows') /\ RestartLoads'
    BY <1>1, <1>2 DEF InventoryInv, MemoryFollows, RestartLoads
  <2>6. QED BY <1>2, <1>4, <1>5, <2>1, <2>3, <2>4, <2>5 DEF MemoryFollows
<1>12. CandidatesCurrent'
  <2>1. SUFFICES ASSUME NEW c \in evaluations
                 PROVE  /\ c \in [id : Shadows, doc : ShadowDocs, generation : 1 .. next']
                        /\ c.id \in DOMAIN compared' /\ compared'[c.id].generation = c.generation =>
                             SameComparison(compared'[c.id].doc, c.doc)
    BY <1>2 DEF CandidatesCurrent
  <2>2. /\ c \in [id : Shadows, doc : ShadowDocs, generation : 1 .. next]
        /\ c.id \in DOMAIN compared /\ compared[c.id].generation = c.generation =>
             SameComparison(compared[c.id].doc, c.doc)
    BY <1>1, <2>1 DEF InventoryInv, CandidatesCurrent
  <2>3. c \in [id : Shadows, doc : ShadowDocs, generation : 1 .. next'] BY <1>4, <2>2
  <2>4. ASSUME c.id \in DOMAIN compared', compared'[c.id].generation = c.generation
        PROVE  SameComparison(compared'[c.id].doc, c.doc)
    <3>1. CASE c.id # id BY <1>7, <2>2, <2>4, <3>1
    <3>2. CASE c.id = id /\ kept
      BY <1>7, <1>8, <2>2, <2>4, <3>2 DEF SameComparison
    <3>3. CASE c.id = id /\ ~kept
      <4>1. c.generation \in 1 .. next /\ c.generation = next + 1
        BY <1>7, <1>9, <2>2, <2>4, <3>3
      <4>2. QED BY <1>4, <4>1
    <3>4. QED BY <3>1, <3>2, <3>3
  <2>5. QED BY <2>3, <2>4
<1>13. SamplesOfConfig'
  <2>1. ASSUME kept PROVE again.samples \subseteq {<<doc.active, doc.policy>>}
    BY <1>1, <1>8, <2>1 DEF InventoryInv, SamplesOfConfig, SameComparison
  <2>2. compared'[id].samples \subseteq {<<compared'[id].doc.active, compared'[id].doc.policy>>}
    BY <1>7, <1>9, <1>10, <2>1
  <2>3. QED BY <1>1, <1>7, <2>2 DEF InventoryInv, SamplesOfConfig
<1>14. TablesTyped' /\ TablesRefer' /\ ~HasCycle(pools)'
  BY <1>1, <1>2, ShadowsOnly DEF InventoryInv, TablesTyped, TablesRefer, ShadowsRefer
<1>15. JobChecked' BY <1>2 DEF JobChecked
<1>16. QED BY <1>11, <1>12, <1>13, <1>14, <1>15 DEF InventoryInv

LEMMA ForgetKeeps == InventoryInv /\ Forget => InventoryInv'
<1>1. SUFFICES ASSUME InventoryInv, Forget PROVE InventoryInv' OBVIOUS
<1>2. /\ job.act = "forget" /\ job' = Free /\ compared' = Without(compared, job.id)
      /\ UNCHANGED <<tables, shadows, next, evaluations>>
  BY <1>1 DEF Forget
<1>3. job.id \notin DOMAIN shadows BY <1>1, <1>2, JobFacts
<1>4. /\ DOMAIN compared' = DOMAIN compared \ {job.id}
      /\ \A x \in DOMAIN compared' : compared'[x] = compared[x]
  <2>1. /\ DOMAIN Without(compared, job.id) = DOMAIN compared \ {job.id}
        /\ \A x \in DOMAIN compared \ {job.id} : Without(compared, job.id)[x] = compared[x]
    BY WithoutFacts
  <2>2. QED BY <1>2, <2>1
<1>5. Pending = {job.id} /\ Pending' = {} BY <1>2 DEF Pending, Free
<1>6. MemoryFollows'
  BY <1>1, <1>2, <1>3, <1>4, <1>5 DEF InventoryInv, MemoryFollows, Compared, RestartLoads
<1>7. CandidatesCurrent' /\ SamplesOfConfig'
  BY <1>1, <1>2, <1>4 DEF InventoryInv, CandidatesCurrent, SamplesOfConfig
<1>8. TablesTyped' /\ TablesRefer' /\ ~HasCycle(pools)'
  BY <1>1, <1>2, ShadowsOnly DEF InventoryInv, TablesTyped, TablesRefer, ShadowsRefer
<1>9. JobChecked' BY <1>2 DEF JobChecked
<1>10. QED BY <1>6, <1>7, <1>8, <1>9 DEF InventoryInv

(* A step of the shadow manager beside the handlers.                          *)
LEMMA BesideHandlers ==
  ASSUME InventoryInv, UNCHANGED <<tables, shadows, job, next>>
  PROVE  TablesTyped' /\ TablesRefer' /\ ~HasCycle(pools)' /\ JobChecked' /\ Pending' = Pending
<1>1. UNCHANGED <<endpoints, clients, pools, chains, policies, budgets, shadows, job, next>>
  BY DEF tables
<1>2. TablesTyped' /\ TablesRefer' /\ ~HasCycle(pools)'
  BY <1>1, ShadowsOnly DEF tables, InventoryInv, TablesTyped, TablesRefer, ShadowsRefer
<1>3. PutChecked => PutChecked'
  BY <1>1 DEF PutChecked, ValidatePool, ValidatePolicyReferences, ValidateShadow, ScopesSaved
<1>4. RemovalChecked => RemovalChecked'
  BY <1>1 DEF RemovalChecked, PolicyUsesPool, PoolIsFallback, ChainUsesPool, References,
              PolicyUsesChain, ShadowUsesPolicy, PoolUsesEndpoint
<1>5. JobChecked' BY <1>1, <1>3, <1>4 DEF InventoryInv, JobChecked
<1>6. QED BY <1>1, <1>2, <1>5 DEF Pending

LEMMA ObserveKeeps ==
  ASSUME InventoryInv, NEW q \in Policies, Observe(q)
  PROVE  InventoryInv'
<1>1. /\ UNCHANGED <<tables, shadows, job, compared, next>>
      /\ evaluations' = evaluations \cup
           {[id |-> w, doc |-> compared[w].doc, generation |-> compared[w].generation] :
              w \in {v \in DOMAIN compared : compared[v].doc.enabled
                                              /\ compared[v].doc.active = q}}
  BY DEF Observe
<1>2. DOMAIN compared \subseteq Shadows
  <2>1. DOMAIN shadows \subseteq Shadows /\ DOMAIN compared \ Pending \subseteq DOMAIN shadows
    BY DEF InventoryInv, TablesTyped, MemoryFollows
  <2>2. Pending \subseteq Shadows
    BY JobFacts DEF Pending, ShadowWrite, ShadowRemoval
  <2>3. QED BY <2>1, <2>2
<1>3. CandidatesCurrent'
  <2>1. SUFFICES ASSUME NEW c \in evaluations'
                 PROVE  /\ c \in [id : Shadows, doc : ShadowDocs, generation : 1 .. next]
                        /\ c.id \in DOMAIN compared /\ compared[c.id].generation = c.generation =>
                             SameComparison(compared[c.id].doc, c.doc)
    BY <1>1 DEF CandidatesCurrent
  <2>2. CASE c \in evaluations BY <2>2 DEF InventoryInv, CandidatesCurrent
  <2>3. CASE c \notin evaluations
    <3>1. PICK w \in DOMAIN compared :
            c = [id |-> w, doc |-> compared[w].doc, generation |-> compared[w].generation]
      BY <1>1, <2>3
    <3>2. compared[w].doc \in ShadowDocs /\ compared[w].generation \in 1 .. next
      BY DEF InventoryInv, MemoryFollows, Compared
    <3>3. QED BY <1>2, <3>1, <3>2 DEF SameComparison
  <2>4. QED BY <2>2, <2>3
<1>4. MemoryFollows' /\ SamplesOfConfig'
  BY <1>1, BesideHandlers DEF InventoryInv, MemoryFollows, SamplesOfConfig, Compared, RestartLoads
<1>5. QED BY <1>1, <1>3, <1>4, BesideHandlers DEF InventoryInv

LEMMA RecordKeeps ==
  ASSUME InventoryInv, NEW c \in evaluations, Record(c)
  PROVE  InventoryInv'
<1> DEFINE counted == c.id \in DOMAIN compared /\ compared[c.id].generation = c.generation
           sample  == <<c.doc.active, c.doc.policy>>
           samples == compared[c.id].samples \cup {sample}
           state   == [compared[c.id] EXCEPT !.samples = samples]
<1>1. /\ UNCHANGED <<tables, shadows, job, next>> /\ evaluations' = evaluations \ {c}
      /\ counted => compared' = [compared EXCEPT ![c.id] = state]
      /\ ~counted => compared' = compared
  BY DEF Record
<1>2. c \in [id : Shadows, doc : ShadowDocs, generation : 1 .. next] /\ next \in Nat
  BY DocsAssumption DEF InventoryInv, CandidatesCurrent, MemoryFollows
<1>3. ASSUME counted
      PROVE  /\ state \in Compared /\ state.doc = compared[c.id].doc
             /\ state.generation = compared[c.id].generation
             /\ state.samples \subseteq {<<state.doc.active, state.doc.policy>>}
  <2>1. compared[c.id] \in Compared BY <1>3 DEF InventoryInv, MemoryFollows
  <2>2. SameComparison(compared[c.id].doc, c.doc) BY <1>3 DEF InventoryInv, CandidatesCurrent
  <2>3. sample \in Policies \X PolicyDocs BY <1>2 DEF ShadowDocs
  <2>4. samples \in SUBSET (Policies \X PolicyDocs) BY <2>1, <2>3 DEF Compared
  <2>5. samples \subseteq {<<compared[c.id].doc.active, compared[c.id].doc.policy>>}
    BY <1>3, <2>2 DEF InventoryInv, SamplesOfConfig, SameComparison
  <2>6. state = [compared[c.id] EXCEPT !.samples = samples] BY DEF state
  <2> HIDE DEF samples
  <2>7. /\ state \in Compared /\ state.doc = compared[c.id].doc
        /\ state.generation = compared[c.id].generation /\ state.samples = samples
    BY <1>2, <2>1, <2>4, <2>6, SampleFacts
  <2>8. QED BY <2>5, <2>7
<1> HIDE DEF state
<1>4. /\ DOMAIN compared' = DOMAIN compared
      /\ \A w \in DOMAIN compared : /\ compared'[w] \in Compared
                                     /\ compared'[w].doc = compared[w].doc
                                     /\ compared'[w].generation = compared[w].generation
  <2>1. CASE counted
    <3>1. \A w \in DOMAIN compared : compared'[w] = IF w = c.id THEN state ELSE compared[w]
      BY <1>1, <2>1
    <3>2. \A w \in DOMAIN compared : compared[w] \in Compared BY DEF InventoryInv, MemoryFollows
    <3>3. DOMAIN compared' = DOMAIN compared BY <1>1, <2>1
    <3>4. QED BY <1>3, <2>1, <3>1, <3>2, <3>3
  <2>2. CASE ~counted BY <1>1, <2>2 DEF InventoryInv, MemoryFollows
  <2>3. QED BY <2>1, <2>2
<1>5. SamplesOfConfig'
  <2>1. CASE counted
    <3>1. \A w \in DOMAIN compared : compared'[w] = IF w = c.id THEN state ELSE compared[w]
      BY <1>1, <2>1
    <3>2. QED BY <1>3, <1>4, <2>1, <3>1 DEF InventoryInv, SamplesOfConfig
  <2>2. CASE ~counted BY <1>1, <2>2 DEF InventoryInv, SamplesOfConfig
  <2>3. QED BY <2>1, <2>2
<1>6. MemoryFollows'
  <2>1. Compared' = Compared BY <1>1 DEF Compared
  <2>2. Pending' = Pending BY <1>1, BesideHandlers
  <2>3. \A w \in DOMAIN shadows \ Pending : compared'[w].doc = shadows[w]
    BY <1>4 DEF InventoryInv, MemoryFollows
  <2>4. QED BY <1>1, <1>4, <2>1, <2>2, <2>3 DEF InventoryInv, MemoryFollows, RestartLoads
<1>7. CandidatesCurrent' BY <1>1, <1>4 DEF InventoryInv, CandidatesCurrent
<1>8. QED BY <1>1, <1>5, <1>6, <1>7, BesideHandlers DEF InventoryInv

LEMMA RestartKeeps == InventoryInv /\ Restart => InventoryInv'
<1>1. SUFFICES ASSUME InventoryInv, Restart PROVE InventoryInv' OBVIOUS
<1>2. PICK order \in [DOMAIN shadows -> 1 .. Cardinality(DOMAIN shadows)] :
        compared' = [w \in DOMAIN shadows |-> NewState(shadows[w], order[w])]
  BY <1>1 DEF Restart
<1>3. /\ job' = Free /\ evaluations' = {} /\ next' = Cardinality(DOMAIN shadows)
      /\ UNCHANGED <<tables, shadows>>
  BY <1>1 DEF Restart
<1>4. TablesTyped' /\ TablesRefer' /\ ~HasCycle(pools)'
  BY <1>1, <1>3, ShadowsOnly DEF InventoryInv, TablesTyped, TablesRefer, ShadowsRefer
<1>5. JobChecked' /\ Pending' = {} BY <1>3 DEF JobChecked, Pending, Free
<1>6. next' \in 0 .. MaxGeneration
  <2>1. IsFiniteSet(DOMAIN shadows) /\ Cardinality(DOMAIN shadows) <= MaxShadows
    BY <1>1 DEF InventoryInv, MemoryFollows, RestartLoads
  <2>2. QED BY <1>3, <2>1, FS_CardinalityType, DocsAssumption
<1>7. \A w \in DOMAIN shadows :
        /\ compared'[w] \in Compared' /\ compared'[w].doc = shadows[w]
        /\ compared'[w].samples = {}
  BY <1>1, <1>2, <1>3 DEF NewState, Compared, InventoryInv, TablesTyped
<1>8. DOMAIN compared' = DOMAIN shadows BY <1>2
<1>9. MemoryFollows'
  BY <1>1, <1>3, <1>5, <1>6, <1>7, <1>8 DEF InventoryInv, MemoryFollows, RestartLoads
<1>10. CandidatesCurrent' BY <1>3 DEF CandidatesCurrent
<1>11. SamplesOfConfig' BY <1>7, <1>8 DEF SamplesOfConfig
<1>12. QED BY <1>4, <1>5, <1>9, <1>10, <1>11 DEF InventoryInv

-----------------------------------------------------------------------------
(* The theorem.                                                               *)

LEMMA InventoryStart == InventoryInit => InventoryInv
<1>1. SUFFICES ASSUME InventoryInit PROVE InventoryInv OBVIOUS
<1>2. DOMAIN <<>> = {} OBVIOUS
<1>3. /\ endpoints = {} /\ clients = {} /\ evaluations = {} /\ next = 0 /\ job = Free
      /\ DOMAIN pools = {} /\ DOMAIN chains = {} /\ DOMAIN policies = {}
      /\ DOMAIN shadows = {} /\ DOMAIN budgets = {} /\ DOMAIN compared = {}
  BY <1>1, <1>2 DEF InventoryInit
<1>4. IsFiniteSet({}) /\ Cardinality({}) = 0 BY FS_EmptySet
<1>5. MemoryFollows BY <1>3, <1>4, DocsAssumption DEF MemoryFollows, RestartLoads
<1>6. ~HasCycle(pools) BY <1>3 DEF HasCycle
<1>7. QED
  BY <1>3, <1>5, <1>6
     DEF InventoryInv, TablesTyped, TablesRefer, PoolsRefer, PoliciesRefer, ChainsRefer, ShadowsRefer,
         BudgetsRefer, JobChecked, CandidatesCurrent, SamplesOfConfig

LEMMA InventoryStep == InventoryInv /\ [InventoryNext]_inventoryVars => InventoryInv'
<1>1. SUFFICES ASSUME InventoryInv, [InventoryNext]_inventoryVars PROVE InventoryInv' OBVIOUS
<1>2. CASE Write
  BY <1>1, <1>2, PutPoolKeeps, RemovePoolKeeps, PutChainKeeps, RemoveChainKeeps, PutPolicyKeeps,
     RemovePolicyKeeps, PutConfigKeeps, DeleteConfigKeeps, RemoveKeeps, PutShadowKeeps,
     RemoveShadowKeeps, StoreFailsKeeps DEF Write
<1>3. ASSUME NEW e \in Endpoints, CreateProxy(e) PROVE InventoryInv'
  BY <1>1, <1>3, AdditionKeeps DEF CreateProxy, memory, InventoryInv, TablesTyped
<1>4. ASSUME NEW S \in SUBSET Endpoints, ImportProxies(S) PROVE InventoryInv'
  BY <1>1, <1>4, AdditionKeeps DEF ImportProxies, memory, InventoryInv, TablesTyped
<1>5. ASSUME NEW a \in Clients, CreateClient(a) PROVE InventoryInv'
  BY <1>1, <1>5, AdditionKeeps DEF CreateClient, memory, InventoryInv, TablesTyped
<1>6. CASE UNCHANGED inventoryVars
  BY <1>1, <1>6, AdditionKeeps DEF inventoryVars, tables, memory, InventoryInv, TablesTyped
<1>7. QED
  BY <1>1, <1>2, <1>3, <1>4, <1>5, <1>6, RequestKeeps, UpsertKeeps, ForgetKeeps, ObserveKeeps,
     RecordKeeps, RestartKeeps DEF InventoryNext

LEMMA RefersIsSound == TablesRefer => RefsSound
<1>1. SUFFICES ASSUME TablesRefer PROVE RefsSound OBVIOUS
<1>2. PoolRefs(Saved) /\ PolicyRefs(Saved)
  BY <1>1 DEF PoolRefs, PolicyRefs, Saved, TablesRefer, PoolsRefer, PoliciesRefer,
              ValidatePolicyReferences
<1>3. QED
  BY <1>1, <1>2 DEF RefsSound, TablesRefer, ChainsRefer, ShadowsRefer, BudgetsRefer, ScopesSaved,
                    HopsOf, Range

(* What a saved record names is saved, what is saved compiles and is loaded   *)
(* by the next start, and the shadows compared are those saved, each with     *)
(* samples of the two policies it shows: whichever handlers interleave, fail  *)
(* or are cut off, and whenever evaluations end.                              *)
THEOREM InventoryIsSound == InventorySpec => []InventorySound
<1>1. InventorySpec => []InventoryInv
  BY InventoryStart, InventoryStep, PTL DEF InventorySpec
<1>2. InventoryInv => InventorySound
  <2>1. SUFFICES ASSUME InventoryInv PROVE InventorySound OBVIOUS
  <2>2. RefsSound BY <2>1, RefersIsSound DEF InventoryInv
  <2>3. Activatable
    BY <2>1, <2>2 DEF Activatable, Compiles, Saved, RefsSound, InventoryInv
  <2>4. InventoryTypeOK
    <3>1. job.act \in {"free", "put", "delete", "upsert", "forget"}
      BY <2>1 DEF InventoryInv, JobChecked, PutChecked, RemovalChecked, Free, Put, ShadowWrite, Remove,
                  ShadowRemoval
    <3>2. \A w \in DOMAIN compared : /\ compared[w].doc \in ShadowDocs
                                     /\ compared[w].generation \in 1 .. next
      BY <2>1 DEF InventoryInv, MemoryFollows, Compared
    <3>3. QED
      BY <2>1, <3>1, <3>2 DEF InventoryTypeOK, InventoryInv, TablesTyped, MemoryFollows, Range
  <2>5. RestartLoads /\ SamplesOfConfig BY <2>1 DEF InventoryInv, MemoryFollows
  <2>6. ShadowsRemembered
    BY <2>1 DEF ShadowsRemembered, InventoryInv, MemoryFollows, Pending, Free
  <2>7. QED BY <2>2, <2>3, <2>4, <2>5, <2>6 DEF InventorySound
<1>3. QED BY <1>1, <1>2, PTL

-----------------------------------------------------------------------------
(* The runtime.                                                               *)

(* The table: every retained bundle was compiled.                             *)
StoreOK ==
  /\ currentRow \in 0 .. MaxRevision
  /\ snapshots \in [DOMAIN snapshots -> Fitting]
  /\ DOMAIN snapshots \subseteq 1 .. currentRow
  /\ currentRow > 0 => currentRow \in DOMAIN snapshots

(* Memory: the current revision and the ones retained before it, which are    *)
(* those of the table while the table still has them.                         *)
MemoryOK ==
  /\ current \in [revision : 0 .. MaxRevision, bundle : Fitting]
  /\ history \in [DOMAIN history -> Fitting]
  /\ current.revision \in DOMAIN history /\ history[current.revision] = current.bundle
  /\ \A n \in DOMAIN history :
       n \in Nat /\ n > current.revision - Retained /\ n <= current.revision
  /\ \A n \in DOMAIN history \ {0} :
       n > currentRow - Retained => n \in DOMAIN snapshots /\ history[n] = snapshots[n]

(* The two differ only in the last step of an activation.                     *)
ActivationOK ==
  /\ \/ activation = NoActivation
     \/ activation \in [step : {"compiled", "stored"}, bundle : Fitting, expected : 0 .. MaxRevision]
  /\ IF activation.step = "stored"
     THEN /\ currentRow = activation.expected + 1 /\ currentRow = current.revision + 1
          /\ snapshots[currentRow] = activation.bundle
     ELSE currentRow = current.revision

RevisionsInv == StoreOK /\ MemoryOK /\ ActivationOK

(* A call between its two halves: what it was evaluated under is what its     *)
(* revision names in memory, and is there unless too many have followed.      *)
Call ==
  {Waiting, [at |-> "denied"]}
  \cup [at : {"evaluated"}, revision : 0 .. MaxRevision, bundle : Fitting]
  \cup [at : {"routed"}, bundle : Fitting, routed : Fitting]

CallsOK ==
  /\ calls \in [Callers -> Call]
  /\ RoutedAsEvaluated
  /\ \A r \in Callers : calls[r].at = "evaluated" =>
       /\ calls[r].revision <= current.revision
       /\ calls[r].revision \in DOMAIN history => history[calls[r].revision] = calls[r].bundle
       /\ calls[r].revision > current.revision - Retained => calls[r].revision \in DOMAIN history

(* An undisturbed test, and its result, are about the document that had their *)
(* revision; while the test has not begun, that document is current.          *)
Test == [step : {"read", "tested"}, revision : 1 .. MaxChainRevision, of : SavedChains,
         disturbed : BOOLEAN]

AboutSaved(t) ==
  t.disturbed \/ (t.revision <= saved.revision /\ (t.revision = saved.revision => t.of = saved.chain))

SavedOK == saved \in [revision : 0 .. MaxChainRevision, chain : SavedChains, fits : BOOLEAN]

TestingOK ==
  /\ chainTest \in Test \cup {NoTest} /\ chainHealth \in Test \cup {Untested}
  /\ chainTest # NoTest => AboutSaved(chainTest)
  /\ chainTest.step = "read" => chainTest.disturbed \/ chainTest.of = current.bundle.chain
  /\ chainHealth # Untested => AboutSaved(chainHealth)

RuntimeInv == SavedOK /\ RevisionsInv /\ CallsOK /\ TestingOK

-----------------------------------------------------------------------------
(* Activation.                                                                *)

LEMMA FittingFacts == Fitting \subseteq Snapshot /\ \A b \in Snapshot : b.fits => b \in Fitting
BY DEF Fitting

(* Of a revision the store keeps those a number of retained ones back.        *)
LEMMA Kept ==
  ASSUME StoreOK, NEW n, n = currentRow + 1
  PROVE  /\ Keep(n) \subseteq 1 .. n /\ n \in Keep(n)
         /\ Keep(n) \ {n} = {m \in DOMAIN snapshots : m > n - Retained}
<1>1. n \notin DOMAIN snapshots /\ n \in Nat BY DEF StoreOK
<1>2. QED BY <1>1 DEF StoreOK, Keep

LEMMA CompileOK ==
  ASSUME RevisionsInv, NEW b \in Snapshot, NEW n \in 0 .. MaxRevision, Compile(b, n)
  PROVE  RevisionsInv'
<1>1. b \in Fitting BY FittingFacts DEF Compile
<1>2. activation' \in [step : {"compiled", "stored"}, bundle : Fitting, expected : 0 .. MaxRevision]
  BY <1>1 DEF Compile
<1>3. activation'.step = "compiled" /\ activation.step # "stored"
  BY DEF Compile, NoActivation
<1>4. UNCHANGED <<stored, runtime>> BY DEF Compile
<1>5. QED
  BY <1>2, <1>3, <1>4 DEF RevisionsInv, StoreOK, MemoryOK, ActivationOK, stored, runtime

LEMMA StoreActivatesOK ==
  ASSUME RevisionsInv, StoreActivates
  PROVE  RevisionsInv'
<1> DEFINE n == currentRow + 1
<1>1. /\ currentRow' = n /\ UNCHANGED runtime
      /\ snapshots' = [m \in Keep(n) |-> IF m = n THEN activation.bundle ELSE snapshots[m]]
      /\ activation' = [activation EXCEPT !.step = "stored"]
      /\ activation.step = "compiled" /\ activation.expected = currentRow /\ currentRow < MaxRevision
  BY DEF StoreActivates
<1>2. currentRow \in Nat /\ MaxRevision \in Nat /\ Retained \in Nat /\ Retained > 1
  BY RuntimeAssumption DEF RevisionsInv, StoreOK
<1>3. activation \in [step : {"compiled", "stored"}, bundle : Fitting, expected : 0 .. MaxRevision]
  BY <1>1 DEF RevisionsInv, ActivationOK, NoActivation
<1>4. currentRow = current.revision BY <1>1 DEF RevisionsInv, ActivationOK
<1>5. /\ Keep(n) \subseteq 1 .. n /\ n \in Keep(n)
      /\ Keep(n) \ {n} = {m \in DOMAIN snapshots : m > n - Retained}
  BY Kept DEF RevisionsInv
<1>6. \A m \in Keep(n) : snapshots'[m] \in Fitting
  BY <1>1, <1>3, <1>5 DEF RevisionsInv, StoreOK
<1>7. StoreOK'
  <2>1. DOMAIN snapshots' = Keep(n) BY <1>1
  <2>2. snapshots' \in [Keep(n) -> Fitting] BY <1>1, <1>6
  <2>3. n \in 0 .. MaxRevision BY <1>1, <1>2
  <2>4. QED BY <1>1, <1>5, <2>1, <2>2, <2>3 DEF StoreOK
<1>8. MemoryOK'
  <2>1. UNCHANGED <<current, history>> BY <1>1 DEF runtime
  <2>2. ASSUME NEW m \in DOMAIN history \ {0}, m > n - Retained
        PROVE  m \in DOMAIN snapshots' /\ history[m] = snapshots'[m]
    <3>1. m \in Nat /\ m <= currentRow BY <1>4 DEF RevisionsInv, MemoryOK
    <3>2. m > currentRow - Retained /\ m # n BY <1>2, <2>2, <3>1
    <3>3. m \in DOMAIN snapshots /\ history[m] = snapshots[m]
      BY <3>2 DEF RevisionsInv, MemoryOK
    <3>4. m \in Keep(n) BY <1>5, <2>2, <3>2, <3>3
    <3>5. QED BY <1>1, <3>2, <3>3, <3>4
  <2>3. QED BY <1>1, <2>1, <2>2 DEF RevisionsInv, MemoryOK
<1>9. ActivationOK'
  <2>1. activation' \in [step : {"compiled", "stored"}, bundle : Fitting, expected : 0 .. MaxRevision]
    BY <1>1, <1>3
  <2>2. activation'.step = "stored" /\ activation'.bundle = activation.bundle
        /\ activation'.expected = currentRow
    BY <1>1, <1>3
  <2>3. snapshots'[n] = activation.bundle BY <1>1, <1>5
  <2>4. QED BY <1>1, <1>4, <2>1, <2>2, <2>3 DEF ActivationOK, runtime
<1>10. QED BY <1>7, <1>8, <1>9 DEF RevisionsInv

LEMMA PublishOK ==
  ASSUME RevisionsInv, Publish
  PROVE  /\ RevisionsInv'
         /\ current' = [revision |-> current.revision + 1, bundle |-> activation.bundle]
         /\ activation.bundle \in Fitting
<1> DEFINE n == activation.expected + 1
<1>1. /\ current' = [revision |-> n, bundle |-> activation.bundle]
      /\ history' = [m \in Younger(n) \cup {n} |-> IF m = n THEN activation.bundle ELSE history[m]]
      /\ activation' = NoActivation /\ UNCHANGED stored
  BY DEF Publish
<1>2. /\ n = currentRow /\ n = current.revision + 1 /\ snapshots[n] = activation.bundle
      /\ activation.bundle \in Fitting
  BY DEF Publish, RevisionsInv, ActivationOK, NoActivation
<1>3. /\ current.revision \in Nat /\ n \in 1 .. MaxRevision
      /\ Retained \in Nat /\ Retained > 1
  BY <1>2, RuntimeAssumption DEF RevisionsInv, StoreOK, MemoryOK
<1>4. n \in DOMAIN snapshots BY <1>2, <1>3 DEF RevisionsInv, StoreOK
<1>5. \A m \in Younger(n) : /\ m \in DOMAIN history /\ m \in Nat
                            /\ m > n - Retained /\ m < n
  BY <1>2, <1>3 DEF Younger, RevisionsInv, MemoryOK
<1>6. DOMAIN history' = Younger(n) \cup {n} BY <1>1
<1>7. MemoryOK'
  <2>1. \A m \in DOMAIN history' : history'[m] \in Fitting
    BY <1>1, <1>2, <1>5, <1>6 DEF RevisionsInv, MemoryOK
  <2>2. history' \in [DOMAIN history' -> Fitting] BY <1>1, <1>6, <2>1
  <2>3. n \in DOMAIN history' /\ history'[n] = activation.bundle BY <1>1, <1>6
  <2>4. \A m \in DOMAIN history' : m \in Nat /\ m > n - Retained /\ m <= n
    BY <1>3, <1>5, <1>6
  <2>5. ASSUME NEW m \in DOMAIN history' \ {0}
        PROVE  m \in DOMAIN snapshots /\ history'[m] = snapshots[m]
    <3>1. CASE m = n BY <1>1, <1>2, <1>4, <3>1
    <3>2. CASE m # n
      <4>1. m \in Younger(n) BY <1>6, <3>2
      <4>2. m > currentRow - Retained /\ m \in DOMAIN history BY <1>2, <1>5, <4>1
      <4>3. QED BY <1>1, <3>2, <4>1, <4>2 DEF RevisionsInv, MemoryOK
    <3>3. QED BY <3>1, <3>2
  <2>6. current' \in [revision : 0 .. MaxRevision, bundle : Fitting] BY <1>1, <1>2, <1>3
  <2>7. current'.revision = n /\ current'.bundle = activation.bundle BY <1>1
  <2>8. QED BY <1>1, <2>2, <2>3, <2>4, <2>5, <2>6, <2>7 DEF MemoryOK, stored
<1>8. StoreOK' BY <1>1 DEF RevisionsInv, StoreOK, stored
<1>9. ActivationOK' BY <1>1, <1>2 DEF ActivationOK, NoActivation, stored
<1>10. QED BY <1>1, <1>2, <1>7, <1>8, <1>9 DEF RevisionsInv

(* A restart publishes what the table has: what ran already, or the revision  *)
(* whose activation it cut off.                                               *)
LEMMA RestartOK ==
  ASSUME RevisionsInv, RuntimeRestart
  PROVE  /\ RevisionsInv'
         /\ \/ current' = current
            \/ \E b \in Fitting : current' = [revision |-> current.revision + 1, bundle |-> b]
<1>1. /\ activation' = NoActivation /\ UNCHANGED stored
      /\ current' = IF currentRow = 0 THEN [revision |-> 0, bundle |-> current.bundle]
                    ELSE [revision |-> currentRow, bundle |-> snapshots[currentRow]]
      /\ history' = [n \in {current'.revision} |-> current'.bundle]
  BY DEF RuntimeRestart
<1>2. /\ currentRow \in Nat /\ currentRow <= MaxRevision /\ MaxRevision \in Nat
      /\ Retained \in Nat /\ Retained > 1
  BY RuntimeAssumption DEF RevisionsInv, StoreOK
<1>3. current = [revision |-> current.revision, bundle |-> current.bundle] /\ current.bundle \in Fitting
  BY DEF RevisionsInv, MemoryOK
<1>4. currentRow > 0 => currentRow \in DOMAIN snapshots /\ snapshots[currentRow] \in Fitting
  BY DEF RevisionsInv, StoreOK
<1>5. /\ current'.revision = currentRow
      /\ current' \in [revision : 0 .. MaxRevision, bundle : Fitting]
      /\ currentRow > 0 => current'.bundle = snapshots[currentRow]
  BY <1>1, <1>2, <1>3, <1>4
<1>6. DOMAIN history' = {currentRow} /\ history'[currentRow] = current'.bundle
  BY <1>1, <1>5
<1>7. MemoryOK'
  <2>1. history' \in [DOMAIN history' -> Fitting] BY <1>1, <1>5, <1>6
  <2>2. QED BY <1>1, <1>2, <1>4, <1>5, <1>6, <2>1 DEF MemoryOK, stored
<1>8. StoreOK' BY <1>1 DEF RevisionsInv, StoreOK, stored
<1>9. ActivationOK' BY <1>1, <1>5 DEF ActivationOK, NoActivation, stored
<1>10. current' = current \/ \E b \in Fitting : current' = [revision |-> current.revision + 1, bundle |-> b]
  <2>1. CASE activation.step = "stored"
    <3>1. currentRow = current.revision + 1 BY <2>1 DEF RevisionsInv, ActivationOK
    <3>2. currentRow > 0 BY <1>2, <3>1 DEF RevisionsInv, MemoryOK
    <3>3. QED BY <1>1, <1>4, <3>1, <3>2
  <2>2. CASE activation.step # "stored"
    <3>1. currentRow = current.revision BY <2>2 DEF RevisionsInv, ActivationOK
    <3>2. CASE currentRow = 0 BY <1>1, <1>3, <3>1, <3>2
    <3>3. CASE currentRow # 0
      <4>1. currentRow \in DOMAIN history \ {0} /\ currentRow > currentRow - Retained
        BY <1>2, <3>1, <3>3 DEF RevisionsInv, MemoryOK
      <4>2. current.bundle = snapshots[currentRow]
        BY <3>1, <4>1 DEF RevisionsInv, MemoryOK
      <4>3. QED BY <1>1, <1>3, <3>1, <3>3, <4>2
    <3>4. QED BY <3>2, <3>3
  <2>3. QED BY <2>1, <2>2
<1>11. QED BY <1>7, <1>8, <1>9, <1>10 DEF RevisionsInv

-----------------------------------------------------------------------------
(* What each kind of step does to the revisions: it leaves them alone, or is  *)
(* one of the steps above.                                                    *)
RevisionsStay == UNCHANGED <<stored, activation, runtime>>

LEMMA NextMoves ==
  ASSUME SavedOK, RevisionsInv, [RuntimeNext]_runtimeVars
  PROVE  \/ RevisionsStay
         \/ \E b \in Snapshot, n \in 0 .. MaxRevision : Compile(b, n)
         \/ StoreActivates \/ StoreRefuses \/ Publish \/ RuntimeRestart
<1>1. ASSUME NEW n \in 0 .. MaxRevision, ActivateRuntime(n)
      PROVE  \E b \in Snapshot : Compile(b, n)
  <2>1. SavedBundle \in Snapshot BY DEF SavedBundle, Snapshot, SavedOK
  <2>2. QED BY <1>1, <2>1 DEF ActivateRuntime
<1>2. ASSUME NEW n \in 0 .. MaxRevision, NEW target \in 0 .. MaxRevision, RollbackRuntime(n, target)
      PROVE  \E b \in Snapshot : Compile(b, n)
  <2>1. snapshots[target] \in Snapshot
    BY <1>2, FittingFacts DEF RollbackRuntime, RevisionsInv, StoreOK
  <2>2. QED BY <1>2, <2>1 DEF RollbackRuntime
<1>3. ASSUME \/ \E doc \in Documents : SaveChain(doc)
             \/ DropChain \/ EditOthers \/ StartChainTest \/ TestChain \/ ReportChainTest
             \/ UNCHANGED runtimeVars
      PROVE  RevisionsStay
  BY <1>3 DEF SaveChain, DropChain, EditOthers, StartChainTest, TestChain, ReportChainTest,
              runtimeVars, RevisionsStay
<1>4. ASSUME NEW r \in Callers, Evaluate(r) \/ Route(r) \/ End(r)
      PROVE  RevisionsStay
  BY <1>4 DEF Evaluate, Route, End, RevisionsStay
<1>5. QED BY <1>1, <1>2, <1>3, <1>4 DEF RuntimeNext

LEMMA StepRevisions ==
  ASSUME SavedOK, RevisionsInv, [RuntimeNext]_runtimeVars
  PROVE  RevisionsInv'
<1>1. CASE RevisionsStay
  BY <1>1 DEF RevisionsStay, RevisionsInv, StoreOK, MemoryOK, ActivationOK, stored, runtime
<1>2. CASE StoreRefuses
  <2>1. currentRow = current.revision BY <1>2 DEF StoreRefuses, RevisionsInv, ActivationOK
  <2>2. activation' = NoActivation /\ UNCHANGED <<stored, runtime>> BY <1>2 DEF StoreRefuses
  <2>3. QED BY <2>1, <2>2 DEF RevisionsInv, StoreOK, MemoryOK, ActivationOK, NoActivation, stored, runtime
<1>3. QED BY <1>1, <1>2, NextMoves, CompileOK, StoreActivatesOK, PublishOK, RestartOK

(* The revision that runs stays or advances by one.                           *)
LEMMA StepAdvances ==
  ASSUME SavedOK, RevisionsInv, [RuntimeNext]_runtimeVars
  PROVE  [Promised!Advance]_current
<1>1. CASE RevisionsStay \/ StoreActivates \/ StoreRefuses
  BY <1>1 DEF RevisionsStay, StoreActivates, StoreRefuses, runtime
<1>2. ASSUME NEW b \in Snapshot, NEW n \in 0 .. MaxRevision, Compile(b, n)
      PROVE  current' = current
  BY <1>2 DEF Compile, runtime
<1>3. QED BY <1>1, <1>2, NextMoves, PublishOK, RestartOK DEF Promised!Advance

-----------------------------------------------------------------------------
(* Requests.                                                                  *)

(* What the change of the revisions leaves to a call that waits for its route. *)
LEMMA CallsKept ==
  ASSUME MemoryOK, CallsOK, NEW r \in Callers, calls[r].at = "evaluated", Publish,
         current'.revision = current.revision + 1
  PROVE  /\ calls[r].revision <= current'.revision
         /\ calls[r].revision \in DOMAIN history' => history'[calls[r].revision] = calls[r].bundle
         /\ calls[r].revision > current'.revision - Retained => calls[r].revision \in DOMAIN history'
<1> DEFINE n == activation.expected + 1
           k == calls[r].revision
<1>1. /\ current'.revision = n
      /\ history' = [m \in Younger(n) \cup {n} |-> IF m = n THEN activation.bundle ELSE history[m]]
  BY DEF Publish
<1>2. current.revision \in Nat /\ Retained \in Nat BY RuntimeAssumption DEF MemoryOK
<1>3. k \in Nat /\ k <= current.revision
  BY DEF CallsOK, Call, Waiting
<1>4. k # n /\ k <= n BY <1>1, <1>2, <1>3
<1>5. DOMAIN history' = Younger(n) \cup {n} BY <1>1
<1>6. k \in DOMAIN history' => k \in DOMAIN history /\ history'[k] = history[k]
  BY <1>1, <1>4, <1>5 DEF Younger
<1>7. k > n - Retained => k \in DOMAIN history'
  <2>1. SUFFICES ASSUME k > n - Retained PROVE k \in DOMAIN history' OBVIOUS
  <2>2. k > current.revision - Retained BY <1>1, <1>2, <1>3, <2>1
  <2>3. k \in DOMAIN history BY <2>2 DEF CallsOK
  <2>4. QED BY <1>5, <2>1, <2>3 DEF Younger
<1>8. QED BY <1>1, <1>4, <1>6, <1>7 DEF CallsOK

LEMMA StepCalls ==
  ASSUME SavedOK, RevisionsInv, CallsOK, [RuntimeNext]_runtimeVars
  PROVE  CallsOK'
<1>1. ASSUME UNCHANGED <<calls, runtime>> PROVE CallsOK'
  BY <1>1 DEF CallsOK, RoutedAsEvaluated, runtime
<1>2. CASE Publish
  <2>1. calls' = calls /\ current'.revision = current.revision + 1
    BY <1>2, PublishOK DEF Publish
  <2>2. RoutedAsEvaluated' BY <2>1 DEF CallsOK, RoutedAsEvaluated
  <2>3. calls' \in [Callers -> Call] BY <2>1 DEF CallsOK
  <2>4. ASSUME NEW r \in Callers, calls'[r].at = "evaluated"
        PROVE  /\ calls'[r].revision <= current'.revision
               /\ calls'[r].revision \in DOMAIN history' => history'[calls'[r].revision] = calls'[r].bundle
               /\ calls'[r].revision > current'.revision - Retained => calls'[r].revision \in DOMAIN history'
    BY <1>2, <2>1, <2>4, CallsKept DEF RevisionsInv
  <2>5. QED BY <2>2, <2>3, <2>4 DEF CallsOK
<1>3. CASE RuntimeRestart
  <2>1. calls' = [r \in Callers |-> Waiting] BY <1>3 DEF RuntimeRestart
  <2>2. QED BY <2>1 DEF CallsOK, Call, RoutedAsEvaluated, Waiting
<1>4. ASSUME NEW r \in Callers, Evaluate(r) PROVE CallsOK'
  <2> DEFINE c == [at |-> "evaluated", revision |-> current.revision, bundle |-> current.bundle]
  <2>1. calls' = [calls EXCEPT ![r] = c] /\ UNCHANGED runtime BY <1>4 DEF Evaluate
  <2>2. c \in Call BY DEF Call, RevisionsInv, MemoryOK
  <2>3. \A s \in Callers : calls'[s] = IF s = r THEN c ELSE calls[s]
    BY <2>1 DEF CallsOK
  <2>4. /\ c.revision <= current.revision /\ c.revision \in DOMAIN history
        /\ history[c.revision] = c.bundle
    BY DEF RevisionsInv, MemoryOK
  <2>5. calls' \in [Callers -> Call] BY <2>1, <2>2 DEF CallsOK
  <2>6. UNCHANGED <<current, history>> BY <2>1 DEF runtime
  <2>7. c.at = "evaluated" OBVIOUS
  <2> HIDE DEF c
  <2>8. QED BY <2>3, <2>4, <2>5, <2>6, <2>7 DEF CallsOK, RoutedAsEvaluated
<1>5. ASSUME NEW r \in Callers, Route(r) PROVE CallsOK'
  <2> DEFINE c == calls[r]
             d == IF c.revision \in DOMAIN history
                  THEN [at |-> "routed", bundle |-> c.bundle, routed |-> history[c.revision]]
                  ELSE [at |-> "denied"]
  <2>1. calls' = [calls EXCEPT ![r] = d] /\ UNCHANGED runtime /\ c.at = "evaluated"
    BY <1>5 DEF Route
  <2>2. c.bundle \in Fitting BY <2>1 DEF CallsOK, Call, Waiting
  <2>3. /\ c.revision \in DOMAIN history => history[c.revision] = c.bundle
    BY <2>1 DEF CallsOK
  <2>4. d \in Call /\ d.at # "evaluated" /\ (d.at = "routed" => d.routed = d.bundle)
    BY <2>2, <2>3 DEF Call
  <2>5. \A s \in Callers : calls'[s] = IF s = r THEN d ELSE calls[s]
    BY <2>1 DEF CallsOK
  <2>6. calls' \in [Callers -> Call] BY <2>1, <2>4 DEF CallsOK
  <2>7. UNCHANGED <<current, history>> BY <2>1 DEF runtime
  <2> HIDE DEF d
  <2>8. QED BY <2>4, <2>5, <2>6, <2>7 DEF CallsOK, RoutedAsEvaluated
<1>6. ASSUME NEW r \in Callers, End(r) PROVE CallsOK'
  <2>1. calls' = [calls EXCEPT ![r] = Waiting] /\ UNCHANGED <<current, history>>
    BY <1>6 DEF End, runtime
  <2>2. \A s \in Callers : calls'[s] = IF s = r THEN Waiting ELSE calls[s]
    BY <2>1 DEF CallsOK
  <2>3. Waiting \in Call /\ Waiting.at = "none" BY DEF Call, Waiting
  <2>4. calls' \in [Callers -> Call] BY <2>1, <2>3 DEF CallsOK
  <2>5. QED BY <2>1, <2>2, <2>3, <2>4 DEF CallsOK, RoutedAsEvaluated
<1>7. ASSUME \/ \E doc \in Documents : SaveChain(doc)
             \/ DropChain \/ EditOthers \/ StartChainTest \/ TestChain \/ ReportChainTest
             \/ StoreActivates \/ StoreRefuses \/ UNCHANGED runtimeVars
             \/ \E n \in 0 .. MaxRevision : ActivateRuntime(n)
             \/ \E n, target \in 0 .. MaxRevision : RollbackRuntime(n, target)
      PROVE  UNCHANGED <<calls, runtime>>
  BY <1>7 DEF SaveChain, DropChain, EditOthers, StartChainTest, TestChain, ReportChainTest,
              StoreActivates, StoreRefuses, ActivateRuntime, RollbackRuntime, Compile, runtimeVars
<1>8. QED BY <1>1, <1>2, <1>3, <1>4, <1>5, <1>6, <1>7 DEF RuntimeNext

-----------------------------------------------------------------------------
(* The test of the chain.                                                     *)

LEMMA StepSaved ==
  ASSUME SavedOK, [RuntimeNext]_runtimeVars
  PROVE  SavedOK'
<1>1. CASE UNCHANGED saved BY <1>1 DEF SavedOK
<1>2. ASSUME NEW doc \in Documents, SaveChain(doc) PROVE SavedOK'
  <2>1. /\ saved' = [revision |-> saved.revision + 1, chain |-> doc, fits |-> saved.fits]
        /\ saved.revision < MaxChainRevision
    BY <1>2 DEF SaveChain, SavedOK
  <2>2. saved.revision + 1 \in 0 .. MaxChainRevision BY <2>1, RuntimeAssumption DEF SavedOK
  <2>3. QED BY <2>1, <2>2 DEF SavedOK, SavedChains
<1>3. CASE DropChain
  <2>1. saved' = [revision |-> 0, chain |-> NoChain, fits |-> saved.fits]
    BY <1>3 DEF DropChain, SavedOK
  <2>2. QED BY <2>1, RuntimeAssumption DEF SavedOK, SavedChains
<1>4. CASE EditOthers BY <1>4 DEF EditOthers, SavedOK
<1>5. ASSUME NEW r \in Callers, Evaluate(r) \/ Route(r) \/ End(r) PROVE UNCHANGED saved
  BY <1>5 DEF Evaluate, Route, End
<1>6. ASSUME \/ StartChainTest \/ TestChain \/ ReportChainTest
             \/ StoreActivates \/ StoreRefuses \/ Publish \/ RuntimeRestart \/ UNCHANGED runtimeVars
             \/ \E n \in 0 .. MaxRevision : ActivateRuntime(n)
             \/ \E n, target \in 0 .. MaxRevision : RollbackRuntime(n, target)
      PROVE  UNCHANGED saved
  BY <1>6 DEF StartChainTest, TestChain, ReportChainTest, StoreActivates, StoreRefuses, Publish,
              RuntimeRestart, ActivateRuntime, RollbackRuntime, Compile, runtimeVars
<1>7. QED BY <1>1, <1>2, <1>3, <1>4, <1>5, <1>6 DEF RuntimeNext

(* What disturbs a test is remembered by it.                                  *)
LEMMA DisturbedOK ==
  ASSUME chainTest \in Test \cup {NoTest}
  PROVE  /\ Disturbed \in Test \cup {NoTest}
         /\ Disturbed # NoTest => Disturbed.disturbed
BY DEF Disturbed, Test, NoTest

LEMMA StepTesting ==
  ASSUME SavedOK, RevisionsInv, TestingOK, [RuntimeNext]_runtimeVars
  PROVE  TestingOK'
<1>1. ASSUME UNCHANGED <<testing, current>>, saved'.revision = saved.revision, saved'.chain = saved.chain
      PROVE  TestingOK'
  BY <1>1 DEF TestingOK, AboutSaved, testing
<1>2. ASSUME NEW doc \in Documents, SaveChain(doc) PROVE TestingOK'
  <2>1. UNCHANGED <<chainTest, chainHealth, current>> /\ saved'.revision = saved.revision + 1
    BY <1>2 DEF SaveChain, SavedOK, testing, runtime
  <2>2. saved.revision \in Nat BY RuntimeAssumption DEF SavedOK
  <2>3. ASSUME NEW t \in Test, AboutSaved(t) PROVE AboutSaved(t)'
    <3>1. t.revision \in Nat BY DEF Test
    <3>2. QED BY <2>1, <2>2, <2>3, <3>1 DEF AboutSaved
  <2>4. QED BY <2>1, <2>3 DEF TestingOK
<1>3. CASE DropChain
  <2>1. chainTest' = Disturbed /\ chainHealth' = Untested /\ UNCHANGED current
    BY <1>3 DEF DropChain, runtime
  <2>2. QED BY <2>1, DisturbedOK DEF TestingOK, AboutSaved, NoTest
<1>4. CASE Publish
  <2>1. chainTest' = Disturbed /\ chainHealth' = chainHealth /\ saved' = saved
    BY <1>4 DEF Publish
  <2>2. QED BY <2>1, DisturbedOK DEF TestingOK, AboutSaved, NoTest
<1>5. CASE RuntimeRestart
  BY <1>5 DEF RuntimeRestart, TestingOK, NoTest
<1>6. CASE StartChainTest
  <2> DEFINE t == [step |-> "read", revision |-> saved.revision, of |-> saved.chain, disturbed |-> FALSE]
  <2>1. /\ chainTest' = t /\ UNCHANGED <<chainHealth, saved, current>>
        /\ saved.revision > 0 /\ current.bundle.chain = saved.chain
    BY <1>6 DEF StartChainTest, ChainActive, runtime
  <2>2. t \in Test BY <2>1, RuntimeAssumption DEF Test, SavedOK
  <2>3. /\ t.revision = saved.revision /\ t.of = saved.chain OBVIOUS
  <2> HIDE DEF t
  <2>4. saved.revision \in Nat BY RuntimeAssumption DEF SavedOK
  <2>5. QED BY <2>1, <2>2, <2>3, <2>4 DEF TestingOK, AboutSaved
<1>7. CASE TestChain
  <2> DEFINE t == [step |-> "tested", revision |-> chainTest.revision,
                   of |-> current.bundle.chain, disturbed |-> chainTest.disturbed]
  <2>1. chainTest' = t /\ UNCHANGED <<chainHealth, saved, current>> /\ chainTest.step = "read"
    BY <1>7 DEF TestChain, runtime
  <2>2. chainTest \in Test BY <2>1 DEF TestingOK, NoTest
  <2>3. current.bundle.chain \in SavedChains
    BY FittingFacts DEF RevisionsInv, MemoryOK, Snapshot
  <2>4. t \in Test BY <2>2, <2>3 DEF Test
  <2>5. /\ t.step = "tested" /\ t.revision = chainTest.revision
        /\ t.of = current.bundle.chain /\ t.disturbed = chainTest.disturbed
    OBVIOUS
  <2> HIDE DEF t
  <2>6. chainTest # NoTest BY <2>1 DEF NoTest
  <2>7. chainTest.disturbed \/ chainTest.of = t.of BY <2>1, <2>5 DEF TestingOK
  <2>8. AboutSaved(t) BY <2>5, <2>6, <2>7 DEF TestingOK, AboutSaved
  <2>9. QED BY <2>1, <2>4, <2>5, <2>8 DEF TestingOK, AboutSaved
<1>8. CASE ReportChainTest
  <2>1. chainTest # NoTest BY <1>8 DEF ReportChainTest, NoTest
  <2>2. chainHealth' = chainTest /\ chainTest' = NoTest /\ saved' = saved
    BY <1>8 DEF ReportChainTest
  <2>3. QED BY <2>1, <2>2 DEF TestingOK, AboutSaved, NoTest
<1>9. ASSUME NEW r \in Callers, Evaluate(r) \/ Route(r) \/ End(r) PROVE TestingOK'
  BY <1>1, <1>9 DEF Evaluate, Route, End, runtime
<1>10. CASE \/ EditOthers \/ StoreActivates \/ StoreRefuses \/ UNCHANGED runtimeVars
            \/ \E n \in 0 .. MaxRevision : ActivateRuntime(n)
            \/ \E n, target \in 0 .. MaxRevision : RollbackRuntime(n, target)
  <2>1. UNCHANGED <<testing, current>> /\ saved'.revision = saved.revision /\ saved'.chain = saved.chain
    BY <1>10 DEF EditOthers, StoreActivates, StoreRefuses, ActivateRuntime, RollbackRuntime, Compile,
                 runtimeVars, runtime, SavedOK
  <2>2. QED BY <1>1, <2>1
<1>11. QED BY <1>2, <1>3, <1>4, <1>5, <1>6, <1>7, <1>8, <1>9, <1>10 DEF RuntimeNext

-----------------------------------------------------------------------------
LEMMA InitInv == RuntimeInit => RuntimeInv
<1>1. SUFFICES ASSUME RuntimeInit PROVE RuntimeInv OBVIOUS
<1>2. PICK b \in Fitting : /\ saved = [revision |-> 0, chain |-> NoChain, fits |-> TRUE]
                           /\ current = [revision |-> 0, bundle |-> b]
                           /\ history = [n \in {0} |-> b]
  BY <1>1 DEF RuntimeInit
<1>3. /\ snapshots = [n \in {} |-> NoChain] /\ currentRow = 0 /\ activation = NoActivation
      /\ calls = [r \in Callers |-> Waiting] /\ chainTest = NoTest /\ chainHealth = Untested
  BY <1>1 DEF RuntimeInit
<1>4. SavedOK BY <1>2, RuntimeAssumption DEF SavedOK, SavedChains
<1>5. StoreOK
  <2>1. DOMAIN snapshots = {} BY <1>3
  <2>2. snapshots \in [{} -> Fitting] BY <1>3
  <2>3. QED BY <1>3, <2>1, <2>2, RuntimeAssumption DEF StoreOK
<1>6. MemoryOK
  <2>1. DOMAIN history = {0} /\ history[0] = b BY <1>2
  <2>2. history \in [DOMAIN history -> Fitting] BY <1>2, <2>1
  <2>3. current \in [revision : 0 .. MaxRevision, bundle : Fitting] BY <1>2, RuntimeAssumption
  <2>4. QED BY <1>2, <2>1, <2>2, <2>3, RuntimeAssumption DEF MemoryOK
<1>7. ActivationOK BY <1>2, <1>3 DEF ActivationOK, NoActivation
<1>8. CallsOK BY <1>3 DEF CallsOK, Call, RoutedAsEvaluated, Waiting
<1>9. TestingOK BY <1>3 DEF TestingOK, NoTest, Untested
<1>10. QED BY <1>4, <1>5, <1>6, <1>7, <1>8, <1>9 DEF RuntimeInv, RevisionsInv

LEMMA Invariance == RuntimeSpec => []RuntimeInv
<1>1. RuntimeInv /\ [RuntimeNext]_runtimeVars => RuntimeInv'
  BY StepSaved, StepRevisions, StepCalls, StepTesting DEF RuntimeInv
<1>2. QED BY <1>1, InitInv, PTL DEF RuntimeSpec

-----------------------------------------------------------------------------
(* Memory and table agree on the revisions, through activations, rollbacks,   *)
(* refusals and restarts; every call is routed as it was evaluated; and the   *)
(* health shown of a chain is its own.                                        *)
THEOREM RevisionsKept == RuntimeSpec => []RevisionsAgree
<1>1. ASSUME RuntimeInv PROVE RevisionsAgree
  <2>1. /\ currentRow \in Nat /\ currentRow <= MaxRevision /\ MaxRevision \in Nat
        /\ Retained \in Nat /\ Retained > 1 /\ current.revision \in Nat
        /\ current.revision <= MaxRevision
    BY <1>1, RuntimeAssumption DEF RuntimeInv, RevisionsInv, StoreOK, MemoryOK
  <2>2. RuntimeTypeOK
    <3>1. current \in [revision : 0 .. MaxRevision, bundle : Snapshot]
      BY <1>1, FittingFacts DEF RuntimeInv, RevisionsInv, MemoryOK
    <3>2. DOMAIN snapshots \subseteq 1 .. MaxRevision /\ DOMAIN history \subseteq 0 .. MaxRevision
      BY <1>1, <2>1 DEF RuntimeInv, RevisionsInv, StoreOK, MemoryOK
    <3>3. activation.step \in {"none", "compiled", "stored"}
      BY <1>1 DEF RuntimeInv, RevisionsInv, ActivationOK, NoActivation
    <3>4. \A r \in Callers : calls[r].at \in {"none", "evaluated", "routed", "denied"}
      BY <1>1 DEF RuntimeInv, CallsOK, Call, Waiting
    <3>5. QED
      BY <1>1, <3>1, <3>2, <3>3, <3>4 DEF RuntimeInv, SavedOK, RevisionsInv, StoreOK, RuntimeTypeOK
  <2>3. current.revision # currentRow =>
          activation.step = "stored" /\ currentRow = current.revision + 1
    BY <1>1 DEF RuntimeInv, RevisionsInv, ActivationOK
  <2>4. ASSUME current.revision > 0
        PROVE  current.revision \in DOMAIN snapshots /\ current.bundle = snapshots[current.revision]
    <3>1. current.revision > currentRow - Retained BY <2>1, <2>3
    <3>2. QED BY <1>1, <2>1, <2>4, <3>1 DEF RuntimeInv, RevisionsInv, MemoryOK
  <2>5. HistoryIsStored
    <3>1. SUFFICES ASSUME activation.step # "stored", NEW n \in DOMAIN history \ {0}
                   PROVE  n \in DOMAIN snapshots /\ history[n] = snapshots[n]
      BY DEF HistoryIsStored
    <3>2. currentRow = current.revision BY <1>1, <3>1 DEF RuntimeInv, RevisionsInv, ActivationOK
    <3>3. QED BY <1>1, <3>1, <3>2 DEF RuntimeInv, RevisionsInv, MemoryOK
  <2>6. HealthOfThisChain
    BY <1>1 DEF RuntimeInv, TestingOK, AboutSaved, HealthOfThisChain, HealthShown, ChainActive, Untested
  <2>7. QED BY <1>1, <2>2, <2>3, <2>4, <2>5, <2>6
            DEF RevisionsAgree, PublishedIsStored, RuntimeInv, CallsOK
<1>2. QED BY <1>1, Invariance, PTL

(* The running revision advances one at a time, each time to a bundle the     *)
(* configuration check accepts: Runtime implements Revisions. And a request   *)
(* is denied for its age only after as many activations as are retained.      *)
THEOREM RevisionsFollow == RuntimeSpec => RevisionsAdvance
<1>1. RuntimeInit => Promised!FirstRevision
  BY DEF RuntimeInit, Promised!FirstRevision
<1>2. RuntimeInv /\ [RuntimeNext]_runtimeVars => [Promised!Advance]_current
  BY StepAdvances DEF RuntimeInv
<1>3. ASSUME RuntimeInv, [RuntimeNext]_runtimeVars, NEW r \in Callers,
             calls[r].at = "evaluated", calls'[r].at = "denied"
      PROVE  current.revision - calls[r].revision >= Retained
  <2>1. ASSUME NEW s \in Callers, Evaluate(s) \/ Route(s) \/ End(s)
        PROVE  calls[r].revision \notin DOMAIN history
    <3>1. CASE s # r
      BY <1>3, <2>1, <3>1 DEF Evaluate, Route, End, RuntimeInv, CallsOK
    <3>2. CASE s = r /\ Route(r)
      BY <1>3, <3>2 DEF Route, RuntimeInv, CallsOK
    <3>3. QED BY <1>3, <2>1, <3>1, <3>2 DEF Evaluate, End
  <2>2. ~RuntimeRestart BY <1>3 DEF RuntimeRestart, Waiting
  <2>3. ASSUME \/ \E doc \in Documents : SaveChain(doc)
               \/ DropChain \/ EditOthers \/ StartChainTest \/ TestChain \/ ReportChainTest
               \/ StoreActivates \/ StoreRefuses \/ Publish \/ UNCHANGED runtimeVars
               \/ \E n \in 0 .. MaxRevision : ActivateRuntime(n)
               \/ \E n, target \in 0 .. MaxRevision : RollbackRuntime(n, target)
        PROVE  calls' = calls
    BY <2>3 DEF SaveChain, DropChain, EditOthers, StartChainTest, TestChain, ReportChainTest,
                StoreActivates, StoreRefuses, Publish, ActivateRuntime, RollbackRuntime, Compile,
                runtimeVars
  <2>4. calls[r].revision \notin DOMAIN history
    BY <1>3, <2>1, <2>2, <2>3 DEF RuntimeNext
  <2>5. ~(calls[r].revision > current.revision - Retained)
    BY <1>3, <2>4 DEF RuntimeInv, CallsOK
  <2>6. calls[r].revision \in Nat /\ current.revision \in Nat /\ Retained \in Nat
    BY <1>3, RuntimeAssumption DEF RuntimeInv, CallsOK, Call, Waiting, RevisionsInv, MemoryOK
  <2>7. QED BY <2>5, <2>6
<1>4. RuntimeInv /\ [RuntimeNext]_runtimeVars =>
        [\A r \in Callers :
           calls[r].at = "evaluated" /\ calls'[r].at = "denied" =>
             current.revision - calls[r].revision >= Retained]_runtimeVars
  BY <1>3
<1>5. QED
  BY <1>1, <1>2, <1>4, Invariance, PTL
     DEF RuntimeSpec, RevisionsAdvance, AdvancesByOne, DeniedOnlyWhenOld, Promised!RevisionsSpec

-----------------------------------------------------------------------------
(* Sources.                                                                   *)

Begun    == [step : {"begun"}, id : SourceIds, revision : 1 .. MaxSourceRevision, at : 1 .. MaxNow]
Fetching == [step : {"fetching"}, id : SourceIds, renewed : BOOLEAN, read : Sources,
             at : 1 .. MaxNow]
Ending   == [step : {"ending"}, id : SourceIds]
Refreshing == Begun \cup Fetching \cup Ending
Editing  == [step : {"read"}, id : SourceIds, expected : 1 .. MaxSourceRevision,
             renewed : BOOLEAN, source : Sources]

SourcesTyped ==
  /\ sources \in [SourceIds -> Sources \cup {NoSource}]
  /\ owner \in [Identities -> SourceIds \cup {Operator, NoEndpoint}]
  /\ active \subseteq SourceIds
  /\ refresh \in [Refreshers -> Refreshing \cup {NotRefreshing}]
  /\ edit \in Editing \cup {NotEditing}
  /\ now \in 1 .. MaxNow

AskedOK == \A w \in Refreshers : refresh[w].step = "begun" => refresh[w].at <= now

(* While the source is the one that was read, its revision is not below what  *)
(* was read, and at that revision it still says what was read.                *)
FetchesOK ==
  \A w \in Refreshers : refresh[w].step = "fetching" =>
    LET f == refresh[w]
    IN  /\ f.at <= now /\ f.read.enabled
        /\ ~f.renewed =>
             /\ sources[f.id] # NoSource
             /\ f.read.revision <= sources[f.id].revision
             /\ f.read.revision = sources[f.id].revision =>
                  f.read.doc = sources[f.id].doc /\ f.read.enabled = sources[f.id].enabled

(* The same of an edit and the time of the last refresh; the revision the     *)
(* operator has seen is not above the one that was read.                      *)
EditOK ==
  edit # NotEditing /\ ~edit.renewed =>
    /\ sources[edit.id] # NoSource
    /\ edit.expected <= edit.source.revision
    /\ edit.source.revision <= sources[edit.id].revision
    /\ edit.source.revision = sources[edit.id].revision =>
         edit.source.refreshed = sources[edit.id].refreshed

MarksOK == OneFetchEach /\ MarksAreRefreshes

SourcesInv == SourcesTyped /\ MarksOK /\ AskedOK /\ FetchesOK /\ EditOK

LEMMA SourceFacts ==
  /\ NoSource \notin Sources
  /\ NotRefreshing \notin Refreshing /\ NotRefreshing.step = "none"
  /\ NotEditing \notin Editing /\ NotEditing.step = "none"
  /\ \A f \in Begun : f.step = "begun" /\ f \in Refreshing
  /\ \A f \in Fetching : f.step = "fetching" /\ f \in Refreshing
  /\ \A f \in Ending : f.step = "ending" /\ f \in Refreshing
  /\ \A f \in Refreshing : f.id \in SourceIds
  /\ \A x \in Editing : x.step # "none"
<1>1. Sources \subseteq [revision : Nat, doc : SourceDocs, enabled : BOOLEAN, refreshed : Nat]
  BY SourcesAssumption DEF Sources
<1>2. \A f \in Refreshing : f.step # "none" /\ f.id \in SourceIds
  BY DEF Refreshing, Begun, Fetching, Ending
<1>3. NotRefreshing.step = "none" /\ NotEditing.step = "none" BY DEF NotRefreshing, NotEditing
<1>4. \A x \in Editing : x.step # "none" BY DEF Editing
<1>5. /\ \A f \in Begun : f.step = "begun" /\ f \in Refreshing
      /\ \A f \in Fetching : f.step = "fetching" /\ f \in Refreshing
      /\ \A f \in Ending : f.step = "ending" /\ f \in Refreshing
  BY DEF Refreshing, Begun, Fetching, Ending
<1>6. QED BY <1>1, <1>2, <1>3, <1>4, <1>5, SourcesAssumption

(* The step of a call says what it holds.                                     *)
LEMMA CallFacts ==
  ASSUME SourcesInv, NEW w \in Refreshers
  PROVE  /\ refresh[w].step = "begun" => refresh[w] \in Begun
         /\ refresh[w].step = "fetching" => refresh[w] \in Fetching
         /\ refresh[w].step = "ending" => refresh[w] \in Ending
         /\ refresh[w] # NotRefreshing => refresh[w] \in Refreshing /\ refresh[w].id \in SourceIds
         /\ refresh[w].step # "none" <=> refresh[w] # NotRefreshing
<1>1. refresh[w] \in Refreshing \cup {NotRefreshing} BY DEF SourcesInv, SourcesTyped
<1>2. QED BY <1>1, SourceFacts DEF Refreshing

(* The marks are right after a step that begins no call and ends none.        *)
LEMMA MarksStay ==
  ASSUME SourcesInv, active' = active,
         \A v \in Refreshers :
           \/ refresh'[v] = refresh[v]
           \/ /\ refresh[v] # NotRefreshing /\ refresh'[v] # NotRefreshing
              /\ refresh'[v].id = refresh[v].id
  PROVE  MarksOK'
<1>1. Running' = Running /\ \A v \in Running : refresh'[v].id = refresh[v].id /\ v \in Refreshers
  BY DEF Running
<1>2. \A v, w \in Running : refresh[v].id = refresh[w].id => v = w
  BY DEF SourcesInv, MarksOK, OneFetchEach
<1>3. active = {refresh[v].id : v \in Running} BY DEF SourcesInv, MarksOK, MarksAreRefreshes
<1>4. OneFetchEach' BY <1>1, <1>2 DEF OneFetchEach
<1>5. MarksAreRefreshes' BY <1>1, <1>3 DEF MarksAreRefreshes
<1>6. QED BY <1>4, <1>5 DEF MarksOK

(* A call that returns keeps its mark until it ends.                          *)
LEMMA ReturnedRefresh ==
  ASSUME SourcesInv, NEW w \in Refreshers, refresh[w].step \in {"begun", "fetching"},
         Returning(w), active' = active
  PROVE  /\ MarksOK' /\ refresh' \in [Refreshers -> Refreshing \cup {NotRefreshing}]
         /\ refresh'[w].step = "ending"
         /\ \A v \in Refreshers : refresh'[v] = refresh[v] \/ refresh'[v].step = "ending"
<1> DEFINE f == [step |-> "ending", id |-> refresh[w].id]
<1>1. refresh[w] # NotRefreshing /\ refresh[w].id \in SourceIds
  BY CallFacts, SourceFacts
<1>2. f \in Ending /\ f.id = refresh[w].id BY <1>1 DEF Ending
<1>3. refresh' = [refresh EXCEPT ![w] = f] BY DEF Returning
<1> HIDE DEF f
<1>4. /\ refresh'[w] = f /\ \A v \in Refreshers \ {w} : refresh'[v] = refresh[v]
      /\ refresh' \in [Refreshers -> Refreshing \cup {NotRefreshing}]
  BY <1>2, <1>3, SourceFacts DEF SourcesInv, SourcesTyped
<1>5. f # NotRefreshing /\ f.step = "ending" BY <1>2, SourceFacts
<1>6. MarksOK' BY <1>1, <1>2, <1>4, <1>5, MarksStay
<1>7. QED BY <1>4, <1>5, <1>6

(* PutSource changes one record, which it leaves one revision ahead.          *)
LEMMA PutFacts ==
  ASSUME SourcesTyped, NEW s \in SourceIds, NEW source \in Sources,
         NEW expected \in 1 .. MaxSourceRevision, PutSource(s, source, expected)
  PROVE  /\ sources' \in [SourceIds -> Sources \cup {NoSource}]
         /\ sources[s] \in Sources /\ sources[s].revision = expected
         /\ sources'[s] \in Sources /\ sources'[s].revision = expected + 1
         /\ sources'[s].doc = source.doc /\ sources'[s].enabled = source.enabled
         /\ sources'[s].refreshed = source.refreshed
         /\ \A t \in SourceIds \ {s} : sources'[t] = sources[t]
<1> DEFINE put == [source EXCEPT !.revision = expected + 1]
<1>1. expected + 1 \in 1 .. MaxSourceRevision
  BY SourcesAssumption DEF PutSource
<1>2. put \in Sources BY <1>1 DEF Sources
<1>3. /\ put.revision = expected + 1 /\ put.doc = source.doc
      /\ put.enabled = source.enabled /\ put.refreshed = source.refreshed
  BY DEF Sources
<1>4. sources' = [sources EXCEPT ![s] = put] BY DEF PutSource
<1> HIDE DEF put
<1>5. sources[s] \in Sources /\ sources[s].revision = expected
  BY DEF PutSource, Matches, SourcesTyped
<1>6. QED BY <1>2, <1>3, <1>4, <1>5 DEF SourcesTyped

(* So a write keeps what is known of the fetches and edits that go on.        *)
LEMMA PutKeeps ==
  ASSUME SourcesInv, NEW s \in SourceIds, NEW source \in Sources,
         NEW expected \in 1 .. MaxSourceRevision, PutSource(s, source, expected),
         now' = now,
         edit' = edit \/ edit' = NotEditing,
         \A w \in Refreshers : refresh'[w] = refresh[w] \/ refresh'[w].step = "ending"
  PROVE  AskedOK' /\ FetchesOK' /\ EditOK'
<1>1. /\ sources[s] \in Sources /\ sources[s].revision = expected
      /\ sources'[s] \in Sources /\ sources'[s].revision = expected + 1
      /\ \A t \in SourceIds \ {s} : sources'[t] = sources[t]
  BY PutFacts DEF SourcesInv
<1>2. FetchesOK'
  <2>1. SUFFICES ASSUME NEW w \in Refreshers, refresh'[w].step = "fetching"
                 PROVE  LET f == refresh'[w]
                        IN  /\ f.at <= now' /\ f.read.enabled
                            /\ ~f.renewed =>
                                 /\ sources'[f.id] # NoSource
                                 /\ f.read.revision <= sources'[f.id].revision
                                 /\ f.read.revision = sources'[f.id].revision =>
                                      /\ f.read.doc = sources'[f.id].doc
                                      /\ f.read.enabled = sources'[f.id].enabled
    BY DEF FetchesOK
  <2>2. refresh'[w] = refresh[w] /\ refresh[w] \in Fetching
    BY <2>1, CallFacts
  <2>a. PICK f : f = refresh[w] OBVIOUS
  <2>3. /\ f.at <= now /\ f.read.enabled
        /\ ~f.renewed =>
             /\ sources[f.id] # NoSource
             /\ f.read.revision <= sources[f.id].revision
             /\ f.read.revision = sources[f.id].revision =>
                  f.read.doc = sources[f.id].doc /\ f.read.enabled = sources[f.id].enabled
    BY <2>a, <2>1, <2>2 DEF SourcesInv, FetchesOK
  <2>4. f.id \in SourceIds /\ f.read.revision \in Nat
    BY <2>a, <2>2 DEF Fetching, Sources
  <2>5. CASE f.id = s
    <3>1. expected \in Nat BY SourcesAssumption
    <3>2. ASSUME ~f.renewed PROVE f.read.revision < sources'[s].revision
      <4>1. f.read.revision <= sources[s].revision BY <2>3, <2>5, <3>2, Zenon
      <4>2. QED BY <1>1, <2>4, <3>1, <4>1
    <3>3. sources'[s] # NoSource BY <1>1, SourceFacts
    <3>4. sources'[s].revision \in Nat BY <1>1, <3>1
    <3>5. ~f.renewed => f.read.revision <= sources'[s].revision
                          /\ f.read.revision # sources'[s].revision
      BY <2>4, <3>2, <3>4
    <3>6. QED BY <2>a, <2>2, <2>3, <2>5, <3>3, <3>5
  <2>6. CASE f.id # s
    BY <2>a, <1>1, <2>3, <2>4, <2>6, <2>2
  <2>7. QED BY <2>5, <2>6
<1>3. EditOK'
  <2>1. SUFFICES ASSUME edit' = edit, edit # NotEditing, ~edit.renewed
                 PROVE  /\ sources'[edit.id] # NoSource
                        /\ edit.expected <= edit.source.revision
                        /\ edit.source.revision <= sources'[edit.id].revision
                        /\ edit.source.revision = sources'[edit.id].revision =>
                             edit.source.refreshed = sources'[edit.id].refreshed
    BY DEF EditOK
  <2>2. edit \in Editing BY <2>1 DEF SourcesInv, SourcesTyped
  <2>3. edit.id \in SourceIds /\ edit.source.revision \in Nat
    BY <2>2 DEF Editing, Sources
  <2>4. CASE edit.id = s
    BY <1>1, <2>1, <2>3, <2>4, SourceFacts DEF SourcesInv, EditOK
  <2>5. CASE edit.id # s
    BY <1>1, <2>1, <2>3, <2>5 DEF SourcesInv, EditOK
  <2>6. QED BY <2>4, <2>5
<1>4. AskedOK' BY DEF SourcesInv, AskedOK
<1>5. QED BY <1>2, <1>3, <1>4

LEMMA SourcesStart == SourcesInit => SourcesInv
<1>1. SUFFICES ASSUME SourcesInit PROVE SourcesInv OBVIOUS
<1>2. SourcesTyped
  BY <1>1, SourcesAssumption DEF SourcesInit, SourcesTyped
<1>3. FetchesOK /\ EditOK BY <1>1, SourceFacts DEF SourcesInit, FetchesOK, EditOK
<1>4. MarksOK
  <2>1. Running = {} /\ active = {} BY <1>1 DEF SourcesInit, Running
  <2>2. QED BY <2>1 DEF MarksOK, OneFetchEach, MarksAreRefreshes
<1>5. AskedOK BY <1>1, SourceFacts DEF SourcesInit, AskedOK
<1>6. QED BY <1>2, <1>3, <1>4, <1>5 DEF SourcesInv

(* The fields of a fetch and of an edit stay when its source is deleted.      *)
LEMMA RenewedFetch ==
  ASSUME NEW f \in Fetching, NEW g, g = [f EXCEPT !.renewed = TRUE]
  PROVE  /\ g \in Fetching /\ g.step = "fetching" /\ g.id = f.id /\ g.read = f.read
         /\ g.at = f.at /\ g.renewed = TRUE
BY DEF Fetching

LEMMA RenewedEdit ==
  ASSUME NEW f \in Editing, NEW g, g = [f EXCEPT !.renewed = TRUE]
  PROVE  g \in Editing /\ g.id = f.id /\ g.source = f.source /\ g.renewed = TRUE
BY DEF Editing

LEMMA CreateKeeps ==
  ASSUME SourcesInv, NEW s \in SourceIds, NEW doc \in SourceDocs, CreateSource(s, doc)
  PROVE  SourcesInv'
<1> DEFINE new == [revision |-> 1, doc |-> doc, enabled |-> TRUE, refreshed |-> 0]
<1>1. new \in Sources BY SourcesAssumption DEF Sources
<1>2. /\ sources[s] = NoSource /\ sources' = [sources EXCEPT ![s] = new]
      /\ UNCHANGED <<owner, active, refresh, edit, now>>
  BY DEF CreateSource
<1> HIDE DEF new
<1>3. SourcesTyped' BY <1>1, <1>2 DEF SourcesInv, SourcesTyped
<1>4. \A t \in SourceIds : sources[t] # NoSource => sources'[t] = sources[t]
  BY <1>2 DEF SourcesInv, SourcesTyped
<1>5. FetchesOK'
  <2>1. SUFFICES ASSUME NEW w \in Refreshers, refresh[w].step = "fetching", ~refresh[w].renewed
                 PROVE  sources'[refresh[w].id] = sources[refresh[w].id]
    BY <1>2 DEF SourcesInv, FetchesOK
  <2>2. refresh[w].id \in SourceIds /\ sources[refresh[w].id] # NoSource
    BY <2>1, CallFacts DEF SourcesInv, FetchesOK, Fetching
  <2>3. QED BY <1>4, <2>2
<1>6. EditOK'
  <2>1. SUFFICES ASSUME edit # NotEditing, ~edit.renewed
                 PROVE  sources'[edit.id] = sources[edit.id]
    BY <1>2 DEF SourcesInv, EditOK
  <2>2. edit.id \in SourceIds /\ sources[edit.id] # NoSource
    BY <2>1 DEF SourcesInv, SourcesTyped, EditOK, Editing
  <2>3. QED BY <1>4, <2>2
<1>7. MarksOK' BY <1>2, MarksStay
<1>8. QED BY <1>2, <1>3, <1>5, <1>6, <1>7 DEF SourcesInv, AskedOK

LEMMA DeleteKeeps ==
  ASSUME SourcesInv, NEW s \in SourceIds, DeleteSource(s)
  PROVE  SourcesInv'
<1>1. /\ sources' = [sources EXCEPT ![s] = NoSource]
      /\ refresh' = [w \in Refreshers |-> IF refresh[w].step = "fetching" /\ refresh[w].id = s
                       THEN [refresh[w] EXCEPT !.renewed = TRUE] ELSE refresh[w]]
      /\ edit' = IF edit.step # "none" /\ edit.id = s THEN [edit EXCEPT !.renewed = TRUE] ELSE edit
      /\ UNCHANGED <<owner, active, now>>
  BY DEF DeleteSource
<1>2. ASSUME NEW w \in Refreshers
      PROVE  \/ refresh'[w] = refresh[w] /\ refresh[w].step # "fetching"
             \/ /\ refresh'[w] \in Fetching /\ refresh[w] \in Fetching
                /\ refresh'[w].id = refresh[w].id /\ refresh'[w].read = refresh[w].read
                /\ refresh'[w].at = refresh[w].at
                /\ \/ refresh'[w].renewed = TRUE
                   \/ refresh'[w] = refresh[w] /\ refresh[w].id # s
  <2>1. CASE refresh[w].step # "fetching" BY <1>1, <2>1
  <2>2. CASE refresh[w].step = "fetching" /\ refresh[w].id = s
    <3>1. refresh'[w] = [refresh[w] EXCEPT !.renewed = TRUE] /\ refresh[w] \in Fetching
      BY <1>1, <2>2, CallFacts
    <3>2. /\ refresh'[w] \in Fetching /\ refresh'[w].id = refresh[w].id
          /\ refresh'[w].read = refresh[w].read /\ refresh'[w].at = refresh[w].at
          /\ refresh'[w].renewed = TRUE
      BY <3>1, RenewedFetch
    <3>3. QED BY <3>1, <3>2
  <2>3. CASE refresh[w].step = "fetching" /\ refresh[w].id # s
    BY <1>1, <2>3, CallFacts
  <2>4. QED BY <2>1, <2>2, <2>3
<1>3. \/ edit' = NotEditing /\ edit = NotEditing
      \/ edit' \in Editing /\ (edit'.renewed = TRUE \/ (edit' = edit /\ edit.id # s))
  <2>1. CASE edit = NotEditing BY <1>1, <2>1, SourceFacts
  <2>2. CASE edit \in Editing /\ edit.id = s
    <3>1. edit' = [edit EXCEPT !.renewed = TRUE] BY <1>1, <2>2, SourceFacts
    <3>2. edit' \in Editing /\ edit'.renewed = TRUE BY <2>2, <3>1, RenewedEdit
    <3>3. QED BY <3>2
  <2>3. CASE edit \in Editing /\ edit.id # s BY <1>1, <2>3
  <2>4. QED BY <2>1, <2>2, <2>3 DEF SourcesInv, SourcesTyped
<1>4. \A t \in SourceIds \ {s} : sources'[t] = sources[t]
  BY <1>1 DEF SourcesInv, SourcesTyped
<1>5. SourcesTyped'
  <2>1. refresh' \in [Refreshers -> Refreshing \cup {NotRefreshing}]
    <3>1. DOMAIN refresh' = Refreshers /\ refresh' = [w \in Refreshers |-> refresh'[w]]
      BY <1>1
    <3>2. \A w \in Refreshers : refresh[w] \in Refreshing \cup {NotRefreshing}
      BY DEF SourcesInv, SourcesTyped
    <3>3. \A w \in Refreshers : refresh'[w] \in Refreshing \cup {NotRefreshing}
      BY <1>2, <3>2, SourceFacts
    <3>4. QED BY <3>1, <3>3
  <2>2. QED BY <1>1, <1>3, <2>1 DEF SourcesInv, SourcesTyped
<1>6. FetchesOK'
  <2>1. SUFFICES ASSUME NEW w \in Refreshers, refresh'[w].step = "fetching"
                 PROVE  LET f == refresh'[w]
                        IN  /\ f.at <= now' /\ f.read.enabled
                            /\ ~f.renewed =>
                                 /\ sources'[f.id] # NoSource
                                 /\ f.read.revision <= sources'[f.id].revision
                                 /\ f.read.revision = sources'[f.id].revision =>
                                      /\ f.read.doc = sources'[f.id].doc
                                      /\ f.read.enabled = sources'[f.id].enabled
    BY DEF FetchesOK
  <2>2. refresh[w].step = "fetching" BY <1>2, <2>1, SourceFacts
  <2>3. refresh'[w].at <= now' /\ refresh'[w].read.enabled
    BY <1>1, <1>2, <2>1, <2>2 DEF SourcesInv, FetchesOK
  <2>4. ASSUME ~refresh'[w].renewed
        PROVE  refresh'[w] = refresh[w] /\ sources'[refresh[w].id] = sources[refresh[w].id]
    <3>1. refresh'[w] = refresh[w] /\ refresh[w].id # s /\ refresh[w] \in Fetching
      BY <1>2, <2>1, <2>4, SourceFacts
    <3>2. QED BY <1>4, <3>1 DEF Fetching
  <2>5. QED BY <2>2, <2>3, <2>4 DEF SourcesInv, FetchesOK
<1>7. EditOK'
  <2>1. SUFFICES ASSUME edit' # NotEditing, ~edit'.renewed
                 PROVE  edit' = edit /\ sources'[edit.id] = sources[edit.id]
    BY <1>3, SourceFacts DEF SourcesInv, EditOK
  <2>2. edit' = edit /\ edit.id # s /\ edit \in Editing BY <1>3, <2>1
  <2>3. QED BY <1>4, <2>2 DEF Editing
<1>8. MarksOK'
  <2>1. ASSUME NEW v \in Refreshers
        PROVE  \/ refresh'[v] = refresh[v]
               \/ /\ refresh[v] # NotRefreshing /\ refresh'[v] # NotRefreshing
                  /\ refresh'[v].id = refresh[v].id
    BY <1>2, SourceFacts
  <2>2. QED BY <1>1, <2>1, MarksStay
<1>9. AskedOK'
  <2>1. ASSUME NEW v \in Refreshers, refresh'[v].step = "begun" PROVE refresh'[v] = refresh[v]
    BY <1>2, <2>1, SourceFacts
  <2>2. QED BY <1>1, <2>1 DEF SourcesInv, AskedOK
<1>10. QED BY <1>5, <1>6, <1>7, <1>8, <1>9 DEF SourcesInv

LEMMA ReadForUpdateKeeps ==
  ASSUME SourcesInv, NEW s \in SourceIds, NEW doc \in SourceDocs, NEW enabled \in BOOLEAN,
         NEW seen \in 1 .. MaxSourceRevision, ReadForUpdate(s, doc, enabled, seen)
  PROVE  SourcesInv'
<1> DEFINE source == [sources[s] EXCEPT !.doc = doc, !.enabled = enabled]
<1>1. /\ sources[s] # NoSource /\ seen <= sources[s].revision
      /\ edit' = [step |-> "read", id |-> s, expected |-> seen, renewed |-> FALSE,
                  source |-> source]
      /\ UNCHANGED <<sources, owner, active, refresh, now>>
  BY DEF ReadForUpdate
<1>2. sources[s] \in Sources BY <1>1 DEF SourcesInv, SourcesTyped
<1>3. /\ source \in Sources /\ source.revision = sources[s].revision
      /\ source.refreshed = sources[s].refreshed
  BY <1>2 DEF Sources
<1> HIDE DEF source
<1>4. /\ edit' \in Editing /\ edit'.id = s /\ edit'.expected = seen /\ edit'.source = source
  BY <1>1, <1>3 DEF Editing
<1>5. EditOK'
  <2>1. sources[s].revision \in Nat BY <1>2, SourcesAssumption DEF Sources
  <2>2. QED BY <1>1, <1>3, <1>4, <2>1 DEF EditOK
<1>6. MarksOK' BY <1>1, MarksStay
<1>7. QED BY <1>1, <1>4, <1>5, <1>6 DEF SourcesInv, SourcesTyped, AskedOK, FetchesOK

LEMMA UpdateKeeps == SourcesInv /\ UpdateSource => SourcesInv'
<1>1. SUFFICES ASSUME SourcesInv, UpdateSource PROVE SourcesInv' OBVIOUS
<1>2. edit \in Editing
  BY <1>1, SourceFacts DEF UpdateSource, SourcesInv, SourcesTyped
<1>3. /\ edit.id \in SourceIds /\ edit.source \in Sources
      /\ edit.expected \in 1 .. MaxSourceRevision
  BY <1>2 DEF Editing
<1>4. /\ PutSource(edit.id, edit.source, edit.expected) /\ edit' = NotEditing
      /\ UNCHANGED <<owner, active, refresh, now>>
  BY <1>1 DEF UpdateSource
<1>5. sources' \in [SourceIds -> Sources \cup {NoSource}]
  BY <1>1, <1>3, <1>4, PutFacts DEF SourcesInv
<1>6. AskedOK' /\ FetchesOK' /\ EditOK' BY <1>1, <1>3, <1>4, PutKeeps
<1>7. MarksOK' BY <1>1, <1>4, MarksStay
<1>8. QED BY <1>1, <1>4, <1>5, <1>6, <1>7 DEF SourcesInv, SourcesTyped

LEMMA BeginKeeps ==
  ASSUME SourcesInv, NEW w \in Refreshers, NEW s \in SourceIds,
         NEW revision \in 1 .. MaxSourceRevision, Begin(w, s, revision)
  PROVE  SourcesInv'
<1> DEFINE f == Asked(s, revision)
<1>1. /\ refresh[w] = NotRefreshing /\ s \notin active /\ active' = active \cup {s}
      /\ refresh' = [refresh EXCEPT ![w] = f]
      /\ UNCHANGED <<sources, owner, edit, now>>
  BY DEF Begin
<1>2. now \in 1 .. MaxNow BY DEF SourcesInv, SourcesTyped
<1>3. f \in Begun /\ f.id = s /\ f.at = now /\ f.step = "begun"
  BY <1>2 DEF Asked, Begun
<1> HIDE DEF f
<1>4. f # NotRefreshing /\ f \in Refreshing BY <1>3, SourceFacts
<1>5. /\ refresh'[w] = f /\ \A v \in Refreshers \ {w} : refresh'[v] = refresh[v]
      /\ refresh' \in [Refreshers -> Refreshing \cup {NotRefreshing}]
  BY <1>1, <1>4 DEF SourcesInv, SourcesTyped
<1>6. SourcesTyped' BY <1>1, <1>5 DEF SourcesInv, SourcesTyped
<1>7. FetchesOK' BY <1>1, <1>3, <1>5 DEF SourcesInv, FetchesOK
<1>8. AskedOK'
  <2>1. f.at <= now' BY <1>1, <1>2, <1>3, SourcesAssumption
  <2>2. QED BY <1>1, <1>3, <1>5, <2>1 DEF SourcesInv, AskedOK
<1>9. MarksOK'
  <2>1. Running' = Running \cup {w} /\ w \notin Running BY <1>1, <1>4, <1>5 DEF Running
  <2>2. \A v \in Running : refresh'[v].id = refresh[v].id BY <1>5, <2>1 DEF Running
  <2>3. active = {refresh[v].id : v \in Running} BY DEF SourcesInv, MarksOK, MarksAreRefreshes
  <2>4. \A v \in Running : refresh'[v].id # s BY <1>1, <2>2, <2>3
  <2>5. \A u, v \in Running : refresh[u].id = refresh[v].id => u = v
    BY DEF SourcesInv, MarksOK, OneFetchEach
  <2>6. refresh'[w].id = s BY <1>3, <1>5
  <2>7. OneFetchEach' BY <2>1, <2>2, <2>4, <2>5, <2>6 DEF OneFetchEach
  <2>8. MarksAreRefreshes' BY <1>1, <2>1, <2>2, <2>3, <2>6 DEF MarksAreRefreshes
  <2>9. QED BY <2>7, <2>8 DEF MarksOK
<1>10. QED BY <1>1, <1>6, <1>7, <1>8, <1>9 DEF SourcesInv, EditOK

LEMMA ReadSourceKeeps ==
  ASSUME SourcesInv, NEW w \in Refreshers, ReadSource(w)
  PROVE  SourcesInv'
<1> DEFINE s == refresh[w].id
           f == [step |-> "fetching", id |-> s, renewed |-> FALSE, read |-> sources[s],
                 at |-> refresh[w].at]
<1>1. /\ refresh[w].step = "begun" /\ sources[s] # NoSource /\ sources[s].enabled
      /\ refresh' = [refresh EXCEPT ![w] = f]
      /\ UNCHANGED <<sources, owner, active, edit, now>>
  BY DEF ReadSource, Matches
<1>2. /\ refresh[w] \in Begun /\ refresh[w] # NotRefreshing /\ s \in SourceIds
      /\ refresh[w].at \in 1 .. MaxNow /\ refresh[w].at <= now
  BY <1>1, CallFacts, SourceFacts DEF Begun, SourcesInv, AskedOK
<1> HIDE DEF s
<1>3. sources[s] \in Sources BY <1>1, <1>2 DEF SourcesInv, SourcesTyped
<1>4. /\ f \in Fetching /\ f.step = "fetching" /\ f.id = s /\ f.read = sources[s]
      /\ f.at = refresh[w].at
  BY <1>2, <1>3 DEF Fetching
<1> HIDE DEF f
<1>5. f # NotRefreshing /\ f \in Refreshing BY <1>4, SourceFacts
<1>6. /\ refresh'[w] = f /\ \A v \in Refreshers \ {w} : refresh'[v] = refresh[v]
      /\ refresh' \in [Refreshers -> Refreshing \cup {NotRefreshing}]
  BY <1>1, <1>5 DEF SourcesInv, SourcesTyped
<1>7. SourcesTyped' BY <1>1, <1>6 DEF SourcesInv, SourcesTyped
<1>8. FetchesOK'
  <2>1. f.at <= now /\ f.read.enabled /\ sources[f.id] # NoSource BY <1>1, <1>2, <1>4
  <2>2. f.read.revision <= sources[f.id].revision
    BY <1>3, <1>4, SourcesAssumption DEF Sources
  <2>3. f.read = sources[f.id] BY <1>4
  <2>4. QED BY <1>1, <1>6, <2>1, <2>2, <2>3 DEF SourcesInv, FetchesOK
<1>9. MarksOK'
  <2>1. f.id = refresh[w].id BY <1>4 DEF s
  <2>2. QED BY <1>1, <1>2, <1>5, <1>6, <2>1, MarksStay
<1>10. AskedOK' BY <1>1, <1>4, <1>6 DEF SourcesInv, AskedOK
<1>11. QED BY <1>1, <1>7, <1>8, <1>9, <1>10 DEF SourcesInv, EditOK

(* What a fetch that runs holds.                                              *)
LEMMA FetchFacts ==
  ASSUME SourcesInv, NEW w \in Refreshers, refresh[w].step = "fetching"
  PROVE  /\ refresh[w] \in Fetching /\ refresh[w] # NotRefreshing
         /\ refresh[w].id \in SourceIds
         /\ refresh[w].read \in Sources /\ refresh[w].read.revision \in 1 .. MaxSourceRevision
         /\ refresh[w].at \in 0 .. MaxNow
         /\ Failed(w) \in Sources
         /\ Failed(w).doc = refresh[w].read.doc /\ Failed(w).enabled = refresh[w].read.enabled
<1>1. refresh[w] \in Fetching /\ refresh[w] # NotRefreshing
  BY CallFacts
<1>2. /\ refresh[w].id \in SourceIds /\ refresh[w].read \in Sources
      /\ refresh[w].at \in 0 .. MaxNow
  BY <1>1, SourcesAssumption DEF Fetching
<1>3. refresh[w].read.revision \in 1 .. MaxSourceRevision BY <1>2 DEF Sources
<1>4. QED BY <1>1, <1>2, <1>3 DEF Failed, Sources

LEMMA RecordFailureKeeps ==
  ASSUME SourcesInv, NEW w \in Refreshers, RecordFailure(w)
  PROVE  SourcesInv'
<1>1. /\ refresh[w].step = "fetching"
      /\ PutSource(refresh[w].id, Failed(w), refresh[w].read.revision)
      /\ Returning(w) /\ UNCHANGED <<owner, active, edit, now>>
  BY DEF RecordFailure
<1>2. /\ refresh[w].id \in SourceIds /\ Failed(w) \in Sources
      /\ refresh[w].read.revision \in 1 .. MaxSourceRevision
  BY <1>1, FetchFacts
<1>3. sources' \in [SourceIds -> Sources \cup {NoSource}]
  BY <1>1, <1>2, PutFacts DEF SourcesInv
<1>4. /\ MarksOK' /\ refresh' \in [Refreshers -> Refreshing \cup {NotRefreshing}]
      /\ \A v \in Refreshers : refresh'[v] = refresh[v] \/ refresh'[v].step = "ending"
  BY <1>1, ReturnedRefresh
<1>5. AskedOK' /\ FetchesOK' /\ EditOK' BY <1>1, <1>2, <1>4, PutKeeps
<1>6. QED BY <1>1, <1>3, <1>4, <1>5 DEF SourcesInv, SourcesTyped

(* A list that is reconciled is of the source as it is now.                   *)
LEMMA ReconcileFacts ==
  ASSUME SourcesInv, NEW w \in Refreshers, NEW list, Reconcile(w, list)
  PROVE  LET s == refresh[w].id
             source == [sources[s] EXCEPT !.refreshed = refresh[w].at]
         IN  /\ s \in SourceIds /\ sources[s] \in Sources
             /\ sources[s].revision = refresh[w].read.revision
             /\ sources[s].revision \in 1 .. MaxSourceRevision
             /\ source \in Sources /\ source.doc = sources[s].doc
             /\ source.enabled = sources[s].enabled
             /\ PutSource(s, source, sources[s].revision)
<1>1. PICK s : s = refresh[w].id OBVIOUS
<1>2. /\ refresh[w].step = "fetching" /\ sources[s] # NoSource
      /\ sources[s].revision = refresh[w].read.revision
      /\ PutSource(s, [sources[s] EXCEPT !.refreshed = refresh[w].at], sources[s].revision)
  BY <1>1 DEF Reconcile, Matches
<1>3. s \in SourceIds /\ refresh[w].at \in 0 .. MaxNow BY <1>1, <1>2, FetchFacts
<1>4. sources[s] \in Sources BY <1>2, <1>3 DEF SourcesInv, SourcesTyped
<1>5. QED BY <1>1, <1>2, <1>3, <1>4 DEF Sources

LEMMA ReconcileKeeps ==
  ASSUME SourcesInv, NEW w \in Refreshers, NEW list \in Lists, Reconcile(w, list)
  PROVE  SourcesInv'
<1>1. PICK s : s = refresh[w].id OBVIOUS
<1>2. PICK source : source = [sources[s] EXCEPT !.refreshed = refresh[w].at] OBVIOUS
<1>3. /\ s \in SourceIds /\ source \in Sources /\ sources[s].revision \in 1 .. MaxSourceRevision
      /\ PutSource(s, source, sources[s].revision)
  BY <1>1, <1>2, ReconcileFacts
<1>4. /\ refresh[w].step = "fetching" /\ owner' = TakenOver(s, list)
      /\ Returning(w) /\ UNCHANGED <<active, edit, now>>
  BY <1>1 DEF Reconcile
<1>5. owner' \in [Identities -> SourceIds \cup {Operator, NoEndpoint}]
  BY <1>3, <1>4 DEF TakenOver, SourcesInv, SourcesTyped
<1>6. sources' \in [SourceIds -> Sources \cup {NoSource}]
  BY <1>3, PutFacts DEF SourcesInv
<1>7. /\ MarksOK' /\ refresh' \in [Refreshers -> Refreshing \cup {NotRefreshing}]
      /\ \A v \in Refreshers : refresh'[v] = refresh[v] \/ refresh'[v].step = "ending"
  BY <1>4, ReturnedRefresh
<1>8. AskedOK' /\ FetchesOK' /\ EditOK' BY <1>3, <1>4, <1>7, PutKeeps
<1>9. QED BY <1>4, <1>5, <1>6, <1>7, <1>8 DEF SourcesInv, SourcesTyped

LEMMA RollBackKeeps ==
  ASSUME SourcesInv, NEW w \in Refreshers, RollBack(w)
  PROVE  SourcesInv'
<1>1. /\ refresh[w].step \in {"begun", "fetching"} /\ Returning(w)
      /\ UNCHANGED <<sources, owner, active, edit, now>>
  BY DEF RollBack
<1>2. /\ MarksOK' /\ refresh' \in [Refreshers -> Refreshing \cup {NotRefreshing}]
      /\ \A v \in Refreshers : refresh'[v] = refresh[v] \/ refresh'[v].step = "ending"
  BY <1>1, ReturnedRefresh
<1>3. AskedOK' /\ FetchesOK' BY <1>1, <1>2 DEF SourcesInv, AskedOK, FetchesOK
<1>4. QED BY <1>1, <1>2, <1>3 DEF SourcesInv, SourcesTyped, EditOK

LEMMA EndKeeps ==
  ASSUME SourcesInv, NEW w \in Refreshers, EndRefresh(w)
  PROVE  SourcesInv'
<1>1. /\ refresh[w].step = "ending" /\ active' = active \ {refresh[w].id}
      /\ refresh' = [refresh EXCEPT ![w] = NotRefreshing]
      /\ UNCHANGED <<sources, owner, edit, now>>
  BY DEF EndRefresh
<1>2. /\ refresh'[w] = NotRefreshing /\ \A v \in Refreshers \ {w} : refresh'[v] = refresh[v]
      /\ refresh' \in [Refreshers -> Refreshing \cup {NotRefreshing}]
  BY <1>1 DEF SourcesInv, SourcesTyped
<1>3. SourcesTyped' BY <1>1, <1>2 DEF SourcesInv, SourcesTyped
<1>4. AskedOK' /\ FetchesOK' BY <1>1, <1>2, SourceFacts DEF SourcesInv, AskedOK, FetchesOK
<1>5. MarksOK'
  <2>1. w \in Running BY <1>1, CallFacts DEF Running
  <2>2. Running' = Running \ {w} /\ \A v \in Running' : refresh'[v].id = refresh[v].id
    BY <1>2, <2>1 DEF Running
  <2>3. \A u, v \in Running : refresh[u].id = refresh[v].id => u = v
    BY DEF SourcesInv, MarksOK, OneFetchEach
  <2>4. active = {refresh[v].id : v \in Running} BY DEF SourcesInv, MarksOK, MarksAreRefreshes
  <2>5. OneFetchEach' BY <2>2, <2>3 DEF OneFetchEach
  <2>6. active' = {refresh[v].id : v \in Running \ {w}} BY <1>1, <2>1, <2>3, <2>4
  <2>7. MarksAreRefreshes' BY <2>2, <2>6 DEF MarksAreRefreshes
  <2>8. QED BY <2>5, <2>7 DEF MarksOK
<1>6. QED BY <1>1, <1>3, <1>4, <1>5 DEF SourcesInv, EditOK

LEMMA OtherSourceSteps ==
  ASSUME SourcesInv,
         \/ RefuseUpdate \/ SourceTick \/ UNCHANGED sourceVars
         \/ \E i \in Identities : AddEndpoint(i) \/ DropEndpoint(i)
  PROVE  SourcesInv'
<1>1. active' = active /\ refresh' = refresh
  BY DEF RefuseUpdate, SourceTick, AddEndpoint, DropEndpoint, sourceVars
<1>2. MarksOK' BY <1>1, MarksStay
<1>3. CASE RefuseUpdate
  BY <1>2, <1>3 DEF RefuseUpdate, SourcesInv, SourcesTyped, AskedOK, FetchesOK, EditOK
<1>4. CASE SourceTick
  <2>1. /\ now' = now + 1 /\ now < MaxNow
        /\ UNCHANGED <<sources, owner, active, refresh, edit>>
    BY <1>4 DEF SourceTick
  <2>2. now \in Nat /\ now' \in 1 .. MaxNow
    BY <2>1, SourcesAssumption DEF SourcesInv, SourcesTyped
  <2>3. \A n \in Nat : n <= now => n <= now' BY <2>1, <2>2
  <2>4. AskedOK'
    <3>1. ASSUME NEW w \in Refreshers, refresh[w].step = "begun" PROVE refresh[w].at <= now'
      <4>1. refresh[w].at \in 1 .. MaxNow /\ refresh[w].at <= now
        BY <3>1, CallFacts DEF SourcesInv, AskedOK, Begun
      <4>2. QED BY <2>3, <4>1, SourcesAssumption
    <3>2. QED BY <2>1, <3>1 DEF AskedOK
  <2>5. FetchesOK'
    <3>1. ASSUME NEW w \in Refreshers, refresh[w].step = "fetching" PROVE refresh[w].at <= now'
      <4>1. refresh[w].at \in 1 .. MaxNow /\ refresh[w].at <= now
        BY <3>1, CallFacts DEF SourcesInv, FetchesOK, Fetching
      <4>2. QED BY <2>3, <4>1, SourcesAssumption
    <3>2. QED BY <2>1, <3>1 DEF SourcesInv, FetchesOK
  <2>6. QED BY <1>2, <2>1, <2>2, <2>4, <2>5 DEF SourcesInv, SourcesTyped, EditOK
<1>5. CASE UNCHANGED sourceVars
  BY <1>2, <1>5 DEF sourceVars, SourcesInv, SourcesTyped, AskedOK, FetchesOK, EditOK
<1>6. ASSUME NEW i \in Identities, AddEndpoint(i) \/ DropEndpoint(i) PROVE SourcesInv'
  BY <1>2, <1>6 DEF AddEndpoint, DropEndpoint, SourcesInv, SourcesTyped, AskedOK, FetchesOK, EditOK
<1>7. QED BY <1>3, <1>4, <1>5, <1>6

LEMMA SourcesStep == SourcesInv /\ [SourcesNext]_sourceVars => SourcesInv'
BY CreateKeeps, ReadForUpdateKeeps, UpdateKeeps, DeleteKeeps, BeginKeeps, ReadSourceKeeps,
   RecordFailureKeeps, RollBackKeeps, EndKeeps, ReconcileKeeps, OtherSourceSteps DEF SourcesNext

LEMMA SourcesInvariance == SourcesSpec => []SourcesInv
BY SourcesStart, SourcesStep, PTL DEF SourcesSpec

(* A source is fetched by one refresh at a time, whoever asks and whatever is *)
(* edited, deleted and created while the fetch runs; it is marked exactly     *)
(* while a call for it runs, however calls end; and what a refresh or an edit *)
(* holds is a source that may be written back.                                *)
THEOREM FetchesAreSingle == SourcesSpec => []SingleFlight
<1>1. SourcesInv => SingleFlight
  <2>1. SUFFICES ASSUME SourcesInv PROVE SourcesTypeOK
    BY DEF SourcesInv, MarksOK, SingleFlight
  <2>2. ASSUME NEW w \in Refreshers, refresh[w].step = "fetching"
        PROVE  refresh[w].id \in SourceIds /\ refresh[w].read \in Sources
                 /\ refresh[w].at \in 1 .. now
    <3>1. refresh[w] \in Fetching /\ refresh[w].at <= now
      BY <2>1, <2>2, CallFacts DEF SourcesInv, FetchesOK
    <3>2. QED BY <2>1, <3>1, SourcesAssumption DEF SourcesInv, SourcesTyped, Fetching
  <2>3. edit # NotEditing => edit.id \in SourceIds /\ edit.source \in Sources
    BY <2>1 DEF SourcesInv, SourcesTyped, Editing
  <2>4. QED BY <2>1, <2>2, <2>3 DEF SourcesInv, SourcesTyped, SourcesTypeOK
<1>2. QED BY <1>1, SourcesInvariance, PTL

LEMMA CommittedBy ==
  ASSUME SourcesInv, [SourcesNext]_sourceVars, NEW w \in Refreshers, Committed(w)
  PROVE  \/ RecordFailure(w) \/ RollBack(w)
         \/ \E list \in Lists : Reconcile(w, list)
<1>1. /\ refresh[w] \in Fetching /\ refresh[w].step = "fetching" /\ refresh'[w].step = "ending"
      /\ refresh'[w] # refresh[w] /\ refresh \in [Refreshers -> Refreshing \cup {NotRefreshing}]
  BY CallFacts DEF Committed, SourcesInv, SourcesTyped
<1>2. ASSUME NEW v \in Refreshers, NEW call, refresh' = [refresh EXCEPT ![v] = call],
             v # w \/ call.step # "ending"
      PROVE  FALSE
  BY <1>1, <1>2
<1>3. ASSUME NEW v \in Refreshers,
             \/ RecordFailure(v) \/ RollBack(v) \/ \E list \in Lists : Reconcile(v, list)
      PROVE  v = w
  <2>1. Returning(v) BY <1>3 DEF RecordFailure, RollBack, Reconcile
  <2>2. QED BY <1>2, <2>1 DEF Returning
<1>4. ASSUME NEW v \in Refreshers, NEW s \in SourceIds, NEW revision, Begin(v, s, revision)
      PROVE  FALSE
  <2>1. refresh' = [refresh EXCEPT ![v] = Asked(s, revision)] /\ Asked(s, revision).step = "begun"
    BY <1>4 DEF Begin, Asked
  <2>2. QED BY <1>2, <2>1
<1>5. ASSUME NEW v \in Refreshers, ReadSource(v) \/ EndRefresh(v) PROVE FALSE
  <2>1. PICK f : f = [step |-> "fetching", id |-> refresh[v].id, renewed |-> FALSE,
                      read |-> sources[refresh[v].id], at |-> refresh[v].at]
    OBVIOUS
  <2>2. f.step = "fetching" BY <2>1
  <2>3. ReadSource(v) => refresh' = [refresh EXCEPT ![v] = f] BY <2>1 DEF ReadSource
  <2>4. EndRefresh(v) => refresh' = [refresh EXCEPT ![v] = NotRefreshing] BY DEF EndRefresh
  <2>5. QED BY <1>2, <1>5, <2>2, <2>3, <2>4, SourceFacts
<1>6. ASSUME NEW s \in SourceIds, DeleteSource(s) PROVE FALSE
  <2>1. refresh'[w] = refresh[w] \/ refresh'[w] = [refresh[w] EXCEPT !.renewed = TRUE]
    BY <1>6 DEF DeleteSource
  <2>2. QED BY <1>1, <2>1, RenewedFetch
<1>7. ASSUME refresh' = refresh PROVE FALSE BY <1>1, <1>7
<1>8. QED
  BY <1>3, <1>4, <1>5, <1>6, <1>7
     DEF SourcesNext, CreateSource, ReadForUpdate, UpdateSource, RefuseUpdate, AddEndpoint,
         DropEndpoint, SourceTick, sourceVars

(* Only a list that is reconciled attributes endpoints to a source.           *)
LEMMA ImportedBy ==
  ASSUME SourcesInv, [SourcesNext]_sourceVars, NEW i \in Identities,
         owner'[i] # owner[i], owner'[i] \in SourceIds
  PROVE  \E w \in Refreshers, list \in Lists : Reconcile(w, list)
<1>1. owner' # owner OBVIOUS
<1>2. ~\E j \in Identities : AddEndpoint(j) \/ DropEndpoint(j)
  BY SourcesAssumption DEF AddEndpoint, DropEndpoint, SourcesInv, SourcesTyped
<1>3. QED
  BY <1>1, <1>2
     DEF SourcesNext, CreateSource, ReadForUpdate, UpdateSource, RefuseUpdate, DeleteSource,
         Begin, ReadSource, RecordFailure, RollBack, EndRefresh, SourceTick, sourceVars

LEMMA ImportIsCurrent ==
  ASSUME SourcesInv, [SourcesNext]_sourceVars, NEW i \in Identities,
         owner'[i] # owner[i], owner'[i] \in SourceIds
  PROVE  \E w \in Refreshers : /\ Committed(w) /\ refresh[w].id = owner'[i]
                               /\ \/ refresh[w].renewed
                                  \/ /\ sources[owner'[i]].enabled
                                     /\ sources[owner'[i]].doc = refresh[w].read.doc
<1>1. PICK w \in Refreshers, list \in Lists : Reconcile(w, list) BY ImportedBy
<1>2. /\ refresh[w].step = "fetching" /\ owner' = TakenOver(refresh[w].id, list)
      /\ Returning(w)
      /\ sources[refresh[w].id].revision = refresh[w].read.revision
  BY <1>1 DEF Reconcile, Matches
<1>3. owner'[i] = refresh[w].id BY <1>2 DEF TakenOver
<1>4. Committed(w) BY <1>2 DEF Committed, Returning, SourcesInv, SourcesTyped
<1>5. ~refresh[w].renewed =>
        /\ sources[refresh[w].id].enabled
        /\ sources[refresh[w].id].doc = refresh[w].read.doc
  BY <1>2, FetchFacts DEF SourcesInv, FetchesOK
<1>6. QED BY <1>3, <1>4, <1>5

LEMMA EditSurvives ==
  ASSUME SourcesInv, [SourcesNext]_sourceVars, NEW w \in Refreshers, Committed(w),
         ~refresh[w].renewed, NEW t \in SourceIds, sources[t] # NoSource
  PROVE  sources'[t].doc = sources[t].doc /\ sources'[t].enabled = sources[t].enabled
<1>1. ASSUME RecordFailure(w)
      PROVE  sources'[t].doc = sources[t].doc /\ sources'[t].enabled = sources[t].enabled
  <2>1. refresh[w].step = "fetching" /\ PutSource(refresh[w].id, Failed(w), refresh[w].read.revision)
    BY <1>1 DEF RecordFailure
  <2>2. /\ refresh[w].id \in SourceIds /\ Failed(w) \in Sources /\ refresh[w] # NotRefreshing
        /\ refresh[w].read.revision \in 1 .. MaxSourceRevision
        /\ Failed(w).doc = refresh[w].read.doc /\ Failed(w).enabled = refresh[w].read.enabled
    BY <2>1, FetchFacts
  <2>3. /\ sources[refresh[w].id].revision = refresh[w].read.revision
        /\ sources'[refresh[w].id].doc = Failed(w).doc
        /\ sources'[refresh[w].id].enabled = Failed(w).enabled
        /\ \A u \in SourceIds \ {refresh[w].id} : sources'[u] = sources[u]
    BY <2>1, <2>2, PutFacts DEF SourcesInv
  <2>4. /\ refresh[w].read.doc = sources[refresh[w].id].doc
        /\ refresh[w].read.enabled = sources[refresh[w].id].enabled
    BY <2>1, <2>2, <2>3 DEF SourcesInv, FetchesOK
  <2>5. QED BY <2>2, <2>3, <2>4
<1>2. ASSUME NEW list \in Lists, Reconcile(w, list)
      PROVE  sources'[t].doc = sources[t].doc /\ sources'[t].enabled = sources[t].enabled
  <2>1. PICK s : s = refresh[w].id OBVIOUS
  <2>2. PICK source : source = [sources[s] EXCEPT !.refreshed = refresh[w].at] OBVIOUS
  <2>3. /\ s \in SourceIds /\ source \in Sources /\ sources[s].revision \in 1 .. MaxSourceRevision
        /\ source.doc = sources[s].doc /\ source.enabled = sources[s].enabled
        /\ PutSource(s, source, sources[s].revision)
    BY <1>2, <2>1, <2>2, ReconcileFacts
  <2>4. /\ sources'[s].doc = source.doc /\ sources'[s].enabled = source.enabled
        /\ \A u \in SourceIds \ {s} : sources'[u] = sources[u]
    BY <2>3, PutFacts DEF SourcesInv
  <2>5. QED BY <2>3, <2>4
<1>3. RollBack(w) => sources' = sources BY DEF RollBack
<1>4. QED BY <1>1, <1>2, <1>3, CommittedBy

LEMMA RefreshTimeSurvives ==
  ASSUME SourcesInv, [SourcesNext]_sourceVars, edit.step = "read", edit' = NotEditing,
         ~edit.renewed, NEW t \in SourceIds, sources[t] # NoSource
  PROVE  sources'[t].refreshed = sources[t].refreshed
<1>1. edit \in Editing /\ edit' # edit BY SourceFacts DEF SourcesInv, SourcesTyped
<1>2. ASSUME UpdateSource PROVE sources'[t].refreshed = sources[t].refreshed
  <2>1. /\ edit.id \in SourceIds /\ edit.source \in Sources
        /\ edit.expected \in 1 .. MaxSourceRevision /\ edit.source.revision \in Nat
    BY <1>1 DEF Editing, Sources
  <2>2. PutSource(edit.id, edit.source, edit.expected) BY <1>2 DEF UpdateSource
  <2>3. /\ sources[edit.id].revision = edit.expected
        /\ sources'[edit.id].refreshed = edit.source.refreshed
        /\ \A u \in SourceIds \ {edit.id} : sources'[u] = sources[u]
    BY <2>1, <2>2, PutFacts DEF SourcesInv
  <2>4. /\ edit # NotEditing
        /\ edit.expected <= edit.source.revision
        /\ edit.source.revision <= sources[edit.id].revision
        /\ edit.source.revision = sources[edit.id].revision =>
             edit.source.refreshed = sources[edit.id].refreshed
    BY <1>1, SourceFacts DEF SourcesInv, EditOK
  <2>5. edit.source.revision = sources[edit.id].revision
    BY <2>1, <2>3, <2>4, SourcesAssumption
  <2>6. QED BY <2>3, <2>4, <2>5
<1>3. ASSUME NEW s \in SourceIds, DeleteSource(s) PROVE FALSE
  <2>1. edit' = edit \/ edit' = [edit EXCEPT !.renewed = TRUE] BY <1>3 DEF DeleteSource
  <2>2. QED BY <1>1, <2>1, RenewedEdit, SourceFacts
<1>4. RefuseUpdate => sources' = sources BY DEF RefuseUpdate
<1>5. ASSUME NEW s \in SourceIds, NEW doc \in SourceDocs, NEW enabled \in BOOLEAN,
             NEW seen \in 1 .. MaxSourceRevision, ReadForUpdate(s, doc, enabled, seen)
      PROVE  FALSE
  BY <1>1, <1>5, SourceFacts DEF ReadForUpdate
<1>6. UpdateSource \/ RefuseUpdate
  BY <1>1, <1>3, <1>5
     DEF SourcesNext, CreateSource, Begin, ReadSource, RecordFailure, RollBack, EndRefresh, Reconcile,
         AddEndpoint, DropEndpoint, SourceTick, sourceVars
<1>7. QED BY <1>2, <1>4, <1>6

(* Refreshes and edits that interleave never undo one another: a list is      *)
(* taken only under the document it was fetched with, a refresh leaves the    *)
(* operator's document, and an edit the time of the last refresh.             *)
THEOREM RefreshesKept == SourcesSpec => RefreshesAreCurrent
<1>1. SourcesInv /\ [SourcesNext]_sourceVars =>
        [\A i \in Identities :
           owner'[i] # owner[i] /\ owner'[i] \in SourceIds =>
             \E w \in Refreshers : /\ Committed(w) /\ refresh[w].id = owner'[i]
                                   /\ \/ refresh[w].renewed
                                      \/ /\ sources[owner'[i]].enabled
                                         /\ sources[owner'[i]].doc = refresh[w].read.doc]_sourceVars
  BY ImportIsCurrent
<1>2. SourcesInv /\ [SourcesNext]_sourceVars =>
        [\A w \in Refreshers :
           Committed(w) /\ ~refresh[w].renewed =>
             \A s \in SourceIds : sources[s] # NoSource =>
               sources'[s].doc = sources[s].doc /\ sources'[s].enabled = sources[s].enabled]_sourceVars
  BY EditSurvives
<1>3. SourcesInv /\ [SourcesNext]_sourceVars =>
        [edit.step = "read" /\ edit' = NotEditing /\ ~edit.renewed =>
           \A s \in SourceIds : sources[s] # NoSource =>
             sources'[s].refreshed = sources[s].refreshed]_sourceVars
  BY RefreshTimeSurvives
<1>4. QED
  BY <1>1, <1>2, <1>3, SourcesInvariance, PTL
     DEF SourcesSpec, RefreshesAreCurrent, ImportsAreCurrent, EditsSurvive, RefreshTimesSurvive

-----------------------------------------------------------------------------
(* Health checks.                                                             *)

Tasks       == CheckEndpoints \X SUBSET CheckPools
CheckerCall == [step : {"none", "next", "waiting", "started"}, todo : SUBSET Tasks,
                checking : SUBSET CheckEndpoints, pools : SUBSET CheckPools]

ChecksTyped ==
  /\ bundle \in Bundles /\ checks \subseteq CheckEndpoints
  /\ checker \in [Checkers -> CheckerCall]
  /\ nextGlobal \in Nat /\ nextPools \in [CheckPools -> Nat]
  /\ sinceStart \in Nat /\ sinceMember \in [CheckPools -> Nat]

IdleUnmarked ==
  \A c \in Checkers : checker[c].step \in {"none", "next"} => checker[c].checking = {}

(* What is left of a pace and what has passed since the last start make up    *)
(* at least the pace.                                                         *)
PacesKept ==
  /\ nextGlobal + sinceStart >= GlobalPace
  /\ \A p \in CheckPools : nextPools[p] + sinceMember[p] >= PoolPace

ChecksInv == ChecksTyped /\ MarksAreCalls /\ IdleUnmarked /\ PacesKept

LEMMA ChecksStart == ChecksInit => ChecksInv
<1>1. SUFFICES ASSUME ChecksInit PROVE ChecksInv OBVIOUS
<1>2. NotChecking \in CheckerCall /\ NotChecking.checking = {}
  BY DEF NotChecking, CheckerCall
<1>3. QED
  BY <1>1, <1>2, ChecksAssumption
     DEF ChecksInit, ChecksInv, ChecksTyped, MarksAreCalls, IdleUnmarked, PacesKept

(* A call that begins or ends, or takes up the next endpoint, keeps the marks *)
(* if it marks what it checks and nothing that another call checks.           *)
LEMMA MarksMove ==
  ASSUME ChecksInv, NEW c \in Checkers, NEW call \in CheckerCall,
         checker' = [checker EXCEPT ![c] = call],
         call.step \in {"none", "next"} => call.checking = {},
         checks' = (checks \ checker[c].checking) \cup call.checking,
         \A d \in Checkers \ {c} : call.checking \cap checker[d].checking = {}
  PROVE  /\ checker' \in [Checkers -> CheckerCall] /\ checks' \subseteq CheckEndpoints
         /\ MarksAreCalls' /\ IdleUnmarked'
<1>1. /\ checker'[c] = call /\ \A d \in Checkers \ {c} : checker'[d] = checker[d]
      /\ checker' \in [Checkers -> CheckerCall]
  BY DEF ChecksInv, ChecksTyped
<1>2. checks' \subseteq CheckEndpoints BY DEF ChecksInv, ChecksTyped, CheckerCall
<1>3. MarksAreCalls'
  <2>1. \A x, y \in Checkers : x # y => checker'[x].checking \cap checker'[y].checking = {}
    BY <1>1 DEF ChecksInv, MarksAreCalls
  <2>2. ASSUME NEW e PROVE e \in checks' <=> \E d \in Checkers : e \in checker'[d].checking
    BY <1>1 DEF ChecksInv, MarksAreCalls
  <2>3. checks' = UNION {checker'[d].checking : d \in Checkers} BY <2>2
  <2>4. QED BY <2>1, <2>3 DEF MarksAreCalls
<1>4. IdleUnmarked' BY <1>1 DEF ChecksInv, IdleUnmarked
<1>5. QED BY <1>1, <1>2, <1>3, <1>4

LEMMA AskKeeps ==
  ASSUME ChecksInv, NEW c \in Checkers, NEW plan \in SUBSET Tasks, Ask(c, plan)
  PROVE  ChecksInv'
<1> DEFINE call == [NotChecking EXCEPT !.step = "next", !.todo = plan]
<1>1. /\ checker[c] = NotChecking /\ checker' = [checker EXCEPT ![c] = call]
      /\ UNCHANGED <<bundle, checks, nextGlobal, nextPools, sinceStart, sinceMember>>
  BY DEF Ask, rates, observed
<1>2. call \in CheckerCall /\ call.checking = {} /\ call.step = "next"
  BY DEF NotChecking, CheckerCall
<1>3. checker[c].checking = {} BY <1>1 DEF NotChecking
<1> HIDE DEF call
<1>4. checks' = (checks \ checker[c].checking) \cup call.checking BY <1>1, <1>2, <1>3
<1>5. /\ checker' \in [Checkers -> CheckerCall] /\ checks' \subseteq CheckEndpoints
      /\ MarksAreCalls' /\ IdleUnmarked'
  BY <1>1, <1>2, <1>4, MarksMove
<1>6. QED BY <1>1, <1>5 DEF ChecksInv, ChecksTyped, PacesKept

LEMMA EnterKeeps ==
  ASSUME ChecksInv, NEW c \in Checkers, NEW task \in checker[c].todo, Enter(c, task)
  PROVE  ChecksInv'
<1>1. /\ checker[c].step = "next" /\ checker[c] \in CheckerCall
      /\ UNCHANGED <<bundle, nextGlobal, nextPools, sinceStart, sinceMember>>
  BY DEF Enter, rates, observed, ChecksInv, ChecksTyped
<1>2. /\ task[1] \in CheckEndpoints /\ task[2] \subseteq CheckPools
      /\ checker[c].todo \ {task} \subseteq Tasks /\ checker[c].checking = {}
  BY <1>1 DEF CheckerCall, Tasks, ChecksInv, IdleUnmarked
<1>3. /\ checker' \in [Checkers -> CheckerCall] /\ checks' \subseteq CheckEndpoints
      /\ MarksAreCalls' /\ IdleUnmarked'
  <2>1. CASE task[1] \in checks
    <3> DEFINE call == [checker[c] EXCEPT !.todo = checker[c].todo \ {task}]
    <3>1. checker' = [checker EXCEPT ![c] = call] /\ checks' = checks
      BY <2>1 DEF Enter
    <3>2. call \in CheckerCall /\ call.checking = {} BY <1>1, <1>2 DEF CheckerCall
    <3> HIDE DEF call
    <3>3. QED BY <1>2, <3>1, <3>2, MarksMove
  <2>2. CASE task[1] \notin checks
    <3> DEFINE call == [step |-> "waiting", todo |-> checker[c].todo \ {task},
                        checking |-> {task[1]}, pools |-> task[2]]
    <3>1. checker' = [checker EXCEPT ![c] = call] /\ checks' = checks \cup {task[1]}
      BY <2>2 DEF Enter
    <3>2. call \in CheckerCall /\ call.checking = {task[1]} /\ call.step = "waiting"
      BY <1>1, <1>2 DEF CheckerCall
    <3>3. \A d \in Checkers : task[1] \notin checker[d].checking
      BY <2>2 DEF ChecksInv, MarksAreCalls
    <3> HIDE DEF call
    <3>4. checks' = (checks \ checker[c].checking) \cup call.checking
      BY <1>2, <3>1, <3>2
    <3>5. \A d \in Checkers \ {c} : call.checking \cap checker[d].checking = {}
      BY <3>2, <3>3
    <3>6. ~(call.step \in {"none", "next"}) BY <3>2
    <3>7. QED BY <3>1, <3>2, <3>4, <3>5, <3>6, MarksMove
  <2>3. QED BY <2>1, <2>2
<1>4. QED BY <1>1, <1>3 DEF ChecksInv, ChecksTyped, PacesKept

LEMMA ReserveRateKeeps ==
  ASSUME ChecksInv, NEW c \in Checkers, ReserveRate(c)
  PROVE  ChecksInv'
<1> DEFINE call == [checker[c] EXCEPT !.step = "started"]
<1>1. /\ checker[c].step = "waiting" /\ checker' = [checker EXCEPT ![c] = call]
      /\ nextGlobal' = GlobalPace /\ sinceStart' = 0
      /\ nextPools' = [p \in CheckPools |->
                         IF p \in checker[c].pools THEN PoolPace ELSE nextPools[p]]
      /\ sinceMember' = [p \in CheckPools |->
                           IF p \in checker[c].pools THEN 0 ELSE sinceMember[p]]
      /\ UNCHANGED <<bundle, checks>>
  BY DEF ReserveRate
<1>2. call \in CheckerCall /\ call.step = "started" /\ call.checking = checker[c].checking
  BY DEF ChecksInv, ChecksTyped, CheckerCall
<1> HIDE DEF call
<1>3. checks' = (checks \ checker[c].checking) \cup call.checking
  BY <1>1, <1>2 DEF ChecksInv, MarksAreCalls
<1>4. \A d \in Checkers \ {c} : call.checking \cap checker[d].checking = {}
  BY <1>2 DEF ChecksInv, MarksAreCalls
<1>5. /\ checker' \in [Checkers -> CheckerCall] /\ checks' \subseteq CheckEndpoints
      /\ MarksAreCalls' /\ IdleUnmarked'
  BY <1>1, <1>2, <1>3, <1>4, MarksMove
<1>6. PacesKept'
  BY <1>1, ChecksAssumption DEF ChecksInv, ChecksTyped, PacesKept
<1>7. QED
  BY <1>1, <1>5, <1>6, ChecksAssumption DEF ChecksInv, ChecksTyped

(* What a call is left with when a check or all of it ends.                   *)
LEMMA LeftFacts ==
  ASSUME NEW todo \in SUBSET Tasks,
         NEW call \in {[NotChecking EXCEPT !.step = "next", !.todo = todo], NotChecking}
  PROVE  call \in CheckerCall /\ call.checking = {} /\ call.step \in {"none", "next"}
<1>1. CASE call = NotChecking
  <2>1. call = [step |-> "none", todo |-> {}, checking |-> {}, pools |-> {}]
    BY <1>1 DEF NotChecking
  <2>2. QED BY <2>1 DEF CheckerCall
<1>2. CASE call = [NotChecking EXCEPT !.step = "next", !.todo = todo]
  <2>1. call = [step |-> "next", todo |-> todo, checking |-> {}, pools |-> {}]
    BY <1>2 DEF NotChecking
  <2>2. QED BY <2>1 DEF CheckerCall
<1>3. QED BY <1>1, <1>2

LEMMA FinishKeeps ==
  ASSUME ChecksInv, NEW c \in Checkers, Finish(c) \/ Return(c)
  PROVE  ChecksInv'
<1>1. PICK call \in {[NotChecking EXCEPT !.step = "next", !.todo = checker[c].todo],
                     NotChecking} :
        checker' = [checker EXCEPT ![c] = call]
  BY DEF Finish, Return
<1>2. /\ checks' = checks \ checker[c].checking
      /\ UNCHANGED <<bundle, nextGlobal, nextPools, sinceStart, sinceMember>>
  BY DEF Finish, Return, rates, observed
<1>3. checker[c].todo \subseteq Tasks BY DEF ChecksInv, ChecksTyped, CheckerCall
<1>4. call \in CheckerCall /\ call.checking = {}
  BY <1>1, <1>3, LeftFacts
<1>5. /\ checker' \in [Checkers -> CheckerCall] /\ checks' \subseteq CheckEndpoints
      /\ MarksAreCalls' /\ IdleUnmarked'
  BY <1>1, <1>2, <1>4, MarksMove
<1>6. QED BY <1>2, <1>5 DEF ChecksInv, ChecksTyped, PacesKept

LEMMA CheckTickKeeps == ChecksInv /\ CheckTick => ChecksInv'
<1>1. SUFFICES ASSUME ChecksInv, CheckTick PROVE ChecksInv' OBVIOUS
<1>2. ASSUME NEW t \in Nat, NEW since \in Nat, NEW pace \in Nat, t + since >= pace
      PROVE  /\ Later(t) \in Nat /\ Older(since, pace) \in Nat
             /\ Later(t) + Older(since, pace) >= pace
  BY <1>2 DEF Later, Older
<1>3. PacesKept'
  <2>1. nextGlobal' + sinceStart' >= GlobalPace
    BY <1>1, <1>2, ChecksAssumption DEF CheckTick, ChecksInv, ChecksTyped, PacesKept
  <2>2. ASSUME NEW p \in CheckPools PROVE nextPools'[p] + sinceMember'[p] >= PoolPace
    <3>1. /\ nextPools[p] \in Nat /\ sinceMember[p] \in Nat
          /\ nextPools[p] + sinceMember[p] >= PoolPace
      BY <1>1 DEF ChecksInv, ChecksTyped, PacesKept
    <3>2. /\ nextPools'[p] = Later(nextPools[p])
          /\ sinceMember'[p] = Older(sinceMember[p], PoolPace)
      BY <1>1 DEF CheckTick
    <3>3. QED BY <1>2, <3>1, <3>2, ChecksAssumption
  <2>3. QED BY <2>1, <2>2 DEF PacesKept
<1>4. ChecksTyped'
  <2>1. nextPools' \in [CheckPools -> Nat]
    BY <1>1 DEF CheckTick, Later, ChecksInv, ChecksTyped
  <2>2. sinceMember' \in [CheckPools -> Nat]
    BY <1>1, ChecksAssumption DEF CheckTick, Older, ChecksInv, ChecksTyped
  <2>3. nextGlobal' \in Nat /\ sinceStart' \in Nat
    BY <1>1, ChecksAssumption DEF CheckTick, Later, Older, ChecksInv, ChecksTyped
  <2>4. QED BY <1>1, <2>1, <2>2, <2>3 DEF CheckTick, ChecksInv, ChecksTyped
<1>5. QED BY <1>1, <1>3, <1>4 DEF CheckTick, ChecksInv, MarksAreCalls, IdleUnmarked

LEMMA PlansAreTasks ==
  ASSUME ChecksInv
  PROVE  /\ \A e \in CheckEndpoints : <<e, EndpointPools(e)>> \in Tasks
         /\ {<<e, EndpointPools(e)>> : e \in bundle.enabled} \subseteq Tasks
         /\ \A p \in CheckPools :
              {<<e, {p}>> : e \in bundle.members[p] \cap bundle.enabled} \subseteq Tasks
<1>1. bundle.enabled \subseteq CheckEndpoints BY ChecksAssumption DEF ChecksInv, ChecksTyped
<1>2. \A e : EndpointPools(e) \subseteq CheckPools BY DEF EndpointPools
<1>3. \A e \in CheckEndpoints : \A P \in SUBSET CheckPools : <<e, P>> \in Tasks BY DEF Tasks
<1>4. \A p \in CheckPools : {p} \in SUBSET CheckPools OBVIOUS
<1>5. QED BY <1>1, <1>2, <1>3, <1>4

LEMMA ChecksStep == ChecksInv /\ [ChecksNext]_checkVars => ChecksInv'
<1>1. SUFFICES ASSUME ChecksInv, [ChecksNext]_checkVars PROVE ChecksInv' OBVIOUS
<1>2. ASSUME NEW c \in Checkers, NEW e \in CheckEndpoints, CheckProxy(c, e) PROVE ChecksInv'
  <2>1. {<<e, EndpointPools(e)>>} \subseteq Tasks BY <1>1, PlansAreTasks
  <2>2. QED BY <1>1, <1>2, <2>1, AskKeeps DEF CheckProxy
<1>3. ASSUME NEW c \in Checkers, NEW p \in CheckPools, CheckPool(c, p) PROVE ChecksInv'
  BY <1>1, <1>3, PlansAreTasks, AskKeeps DEF CheckPool
<1>4. ASSUME NEW c \in Checkers, RunChecks(c) PROVE ChecksInv'
  BY <1>1, <1>4, PlansAreTasks, AskKeeps DEF RunChecks
<1>5. ASSUME NEW b \in Bundles, ActivateBundle(b) PROVE ChecksInv'
  BY <1>1, <1>5
     DEF ActivateBundle, rates, observed, ChecksInv, ChecksTyped, MarksAreCalls, IdleUnmarked,
         PacesKept
<1>6. CASE UNCHANGED checkVars
  BY <1>1, <1>6
     DEF checkVars, rates, observed, ChecksInv, ChecksTyped, MarksAreCalls, IdleUnmarked,
         PacesKept
<1>7. QED
  BY <1>1, <1>2, <1>3, <1>4, <1>5, <1>6, EnterKeeps, ReserveRateKeeps, FinishKeeps,
     CheckTickKeeps DEF ChecksNext

LEMMA ChecksInvariance == ChecksSpec => []ChecksInv
BY ChecksStart, ChecksStep, PTL DEF ChecksSpec

(* A mark of an endpoint belongs to one call that runs: none is shared, and   *)
(* none is left behind by a call that ended, was cancelled or had its         *)
(* snapshot replaced, or the endpoint would never be checked again.           *)
THEOREM MarksKept == ChecksSpec => []MarksAreCalls
BY ChecksInvariance, PTL DEF ChecksInv

(* Two starts are a pace apart, over all and within a pool, whichever calls   *)
(* they belong to.                                                            *)
THEOREM StartsPaced == ChecksSpec => Paced
<1>1. ASSUME ChecksInv, [ChecksNext]_checkVars, NEW c \in Checkers, Starts(c)
      PROVE  /\ sinceStart >= GlobalPace
             /\ \A p \in checker[c].pools : sinceMember[p] >= PoolPace
  <2>1. checker[c].step = "waiting" /\ checker'[c].step = "started" BY <1>1 DEF Starts
  <2>2. ASSUME NEW d \in Checkers, NEW call,
               checker' = [checker EXCEPT ![d] = call], call.step # "started"
        PROVE  FALSE
    BY <1>1, <2>1, <2>2 DEF ChecksInv, ChecksTyped
  <2>3. ASSUME NEW d \in Checkers, NEW plan, Ask(d, plan) PROVE FALSE
    <3>1. PICK call : call = [NotChecking EXCEPT !.step = "next", !.todo = plan] OBVIOUS
    <3>2. call.step = "next" BY <3>1 DEF NotChecking
    <3>3. QED BY <2>2, <2>3, <3>1, <3>2 DEF Ask
  <2>4. ASSUME NEW d \in Checkers, NEW task \in checker[d].todo, Enter(d, task) PROVE FALSE
    <3>1. d # c BY <2>1, <2>4 DEF Enter
    <3>2. checker'[c] = checker[c]
      BY <1>1, <2>4, <3>1 DEF Enter, ChecksInv, ChecksTyped
    <3>3. QED BY <2>1, <3>2
  <2>5. ASSUME NEW d \in Checkers, Finish(d) \/ Return(d) PROVE FALSE
    <3>1. PICK call \in {[NotChecking EXCEPT !.step = "next", !.todo = checker[d].todo],
                         NotChecking} :
            checker' = [checker EXCEPT ![d] = call]
      BY <2>5 DEF Finish, Return
    <3>2. checker[d].todo \in SUBSET Tasks BY <1>1 DEF ChecksInv, ChecksTyped, CheckerCall
    <3>3. call.step # "started" BY <3>1, <3>2, LeftFacts
    <3>4. QED BY <2>2, <3>1, <3>3
  <2>6. ASSUME NEW d \in Checkers, ReserveRate(d) PROVE d = c
    <3>1. PICK call : checker' = [checker EXCEPT ![d] = call]
      BY <2>6 DEF ReserveRate
    <3>2. QED BY <1>1, <2>1, <3>1 DEF ChecksInv, ChecksTyped
  <2>7. ReserveRate(c)
    BY <1>1, <2>1, <2>3, <2>4, <2>5, <2>6
       DEF ChecksNext, CheckProxy, CheckPool, RunChecks, ActivateBundle, CheckTick, checkVars
  <2>8. nextGlobal = 0 /\ \A p \in checker[c].pools : nextPools[p] = 0
    BY <2>7 DEF ReserveRate, Admitted
  <2>9. checker[c].pools \subseteq CheckPools BY <1>1 DEF ChecksInv, ChecksTyped, CheckerCall
  <2>10. sinceStart \in Nat /\ \A p \in CheckPools : sinceMember[p] \in Nat
    BY <1>1 DEF ChecksInv, ChecksTyped
  <2>11. QED BY <1>1, <2>8, <2>9, <2>10, ChecksAssumption DEF ChecksInv, PacesKept
<1>2. ChecksInv /\ [ChecksNext]_checkVars =>
        [\A c \in Checkers : Starts(c) =>
           /\ sinceStart >= GlobalPace
           /\ \A p \in checker[c].pools : sinceMember[p] >= PoolPace]_checkVars
  BY <1>1
<1>3. QED BY <1>2, ChecksInvariance, PTL DEF ChecksSpec, Paced
-----------------------------------------------------------------------------
(* What a policy document decides. A document and what is seen of a request   *)
(* satisfy EvaluationInv, and of every such pair:                             *)
(*   - a condition that is decided is decided rightly, by induction on its    *)
(*     height (RightlyStep, AllRightly), for the three functions on           *)
(*     conditions satisfy their equations (ConditionsDefined);                *)
(*   - the rules can be sorted (SortExists), what is ahead of a rule is what  *)
(*     has been considered before it (SeenFacts), and after every rule the    *)
(*     result is what Evaluated says of the rules so far (EvaluatedStep), by  *)
(*     induction on their number.                                             *)

(* The states of a condition.                                                 *)
States == {"match", "nomatch", "unknown"}

(* What a condition holds is lower than it.                                   *)
LEMMA TreeFacts ==
  ASSUME NEW c \in Conditions
  PROVE  /\ \A i \in DOMAIN c.all : c.all[i] \in Conditions /\ Height[c.all[i]] < Height[c]
         /\ \A i \in DOMAIN c.any : c.any[i] \in Conditions /\ Height[c.any[i]] < Height[c]
         /\ \A i \in DOMAIN c.not : c.not[i] \in Conditions /\ Height[c.not[i]] < Height[c]
         /\ Height[c] \in Nat
         /\ c.not # <<>> => DOMAIN c.not = {1}
         /\ c.all # <<>> => DOMAIN c.all # {}
         /\ c.any # <<>> => DOMAIN c.any # {}
         /\ c.all = <<>> => DOMAIN c.all = {}
         /\ c.any = <<>> => DOMAIN c.any = {}
         /\ c.not = <<>> => DOMAIN c.not = {}
         /\ \A i \in DOMAIN c.all : c.all[i] \in Children(c)
         /\ \A i \in DOMAIN c.any : c.any[i] \in Children(c)
         /\ \A i \in DOMAIN c.not : c.not[i] \in Children(c)
<1>1. /\ c.all \in Seq(Conditions) /\ c.any \in Seq(Conditions) /\ c.not \in Seq(Conditions)
      /\ Len(c.not) <= 1
      /\ Height[c] \in Nat /\ \A child \in Children(c) : Height[child] < Height[c]
  BY ConditionsAssumption
<1>2. /\ \A i \in DOMAIN c.all : c.all[i] \in Conditions
      /\ \A i \in DOMAIN c.any : c.any[i] \in Conditions
      /\ \A i \in DOMAIN c.not : c.not[i] \in Conditions
  BY <1>1
<1>3. /\ \A i \in DOMAIN c.all : c.all[i] \in Children(c)
      /\ \A i \in DOMAIN c.any : c.any[i] \in Children(c)
      /\ \A i \in DOMAIN c.not : c.not[i] \in Children(c)
  BY DEF Children, Range
<1>4. c.not # <<>> => DOMAIN c.not = {1} BY <1>1
<1>5. /\ c.all # <<>> => DOMAIN c.all # {}
      /\ c.any # <<>> => DOMAIN c.any # {}
  <2>1. \A s \in Seq(Conditions) : s # <<>> => 1 \in DOMAIN s BY EmptySeq, LenProperties
  <2>2. QED BY <1>1, <2>1
<1>6. QED BY <1>1, <1>2, <1>3, <1>4, <1>5

(* What the functions on conditions are made from.                            *)
HeightOf == [c \in Conditions |-> Height[c]]

(* Functions that agree below a condition agree on what it holds.             *)
LEMMA ByChildren ==
  ASSUME NEW c \in Conditions, NEW f, NEW g, Lower(Conditions, HeightOf, c, f, g)
  PROVE  /\ \A i \in DOMAIN c.all : f[c.all[i]] = g[c.all[i]]
         /\ \A i \in DOMAIN c.any : f[c.any[i]] = g[c.any[i]]
         /\ \A i \in DOMAIN c.not : f[c.not[i]] = g[c.not[i]]
<1>1. \A x \in Conditions : Height[x] < Height[c] => f[x] = g[x] BY DEF Lower, HeightOf
<1>2. QED BY <1>1, TreeFacts

(* Heights are naturals, so conditions are well founded.                      *)
LEMMA HeightOfType == HeightOf \in [Conditions -> Nat]
BY TreeFacts DEF HeightOf

(* The states of all conditions at once.                                      *)
StateOf(seen) == CHOOSE state : state = [d \in Conditions |-> MatchBy(state, d, seen)]

(* A negation is a state.                                                     *)
LEMMA NegatedType == \A s : Negated(s) \in States
BY DEF Negated, States

(* A condition has a state, whatever the states of what it holds.             *)
LEMMA MatchByType ==
  ASSUME NEW state, NEW c \in Conditions, NEW seen
  PROVE  MatchBy(state, c, seen) \in States
BY NegatedType DEF MatchBy, matchLeaf, States

(* Its state depends on what it holds only.                                   *)
LEMMA MatchBySame ==
  ASSUME NEW c \in Conditions, NEW f, NEW g, Lower(Conditions, HeightOf, c, f, g), NEW seen
  PROVE  MatchBy(f, c, seen) = MatchBy(g, c, seen)
<1>1. /\ \A i \in DOMAIN c.all : f[c.all[i]] = g[c.all[i]]
      /\ \A i \in DOMAIN c.any : f[c.any[i]] = g[c.any[i]]
      /\ \A i \in DOMAIN c.not : f[c.not[i]] = g[c.not[i]]
  BY ByChildren
<1>2. /\ {f[c.all[i]] : i \in DOMAIN c.all} = {g[c.all[i]] : i \in DOMAIN c.all}
      /\ {f[c.any[i]] : i \in DOMAIN c.any} = {g[c.any[i]] : i \in DOMAIN c.any}
  BY <1>1
<1>3. c.not # <<>> => f[c.not[1]] = g[c.not[1]] BY <1>1, TreeFacts
<1>4. QED BY <1>2, <1>3 DEF MatchBy

(* The states satisfy the equation of matchCondition.                         *)
LEMMA StatesExist ==
  ASSUME NEW seen
  PROVE  /\ StateOf(seen) \in [Conditions -> States]
         /\ \A c \in Conditions : StateOf(seen)[c] = MatchBy(StateOf(seen), c, seen)
<1> DEFINE step == [p \in Conditions \X [Conditions -> States] |-> MatchBy(p[2], p[1], seen)]
<1>1. step \in [Conditions \X [Conditions -> States] -> States]
  <2>1. ASSUME NEW p \in Conditions \X [Conditions -> States] PROVE MatchBy(p[2], p[1], seen) \in States
    BY MatchByType
  <2>2. QED BY <2>1
<1>2. \A c \in Conditions, f \in [Conditions -> States] : step[<<c, f>>] = MatchBy(f, c, seen) OBVIOUS
<1> HIDE DEF step
<1>3. States # {} BY DEF States
<1>4. ASSUME NEW c \in Conditions, NEW f \in [Conditions -> States], NEW g \in [Conditions -> States],
             Lower(Conditions, HeightOf, c, f, g)
      PROVE  step[<<c, f>>] = step[<<c, g>>]
  BY <1>2, <1>4, MatchBySame
<1>5. Recursive(Conditions, States, HeightOf, step)
  BY <1>1, <1>3, <1>4, HeightOfType DEF Recursive
<1>6. Solutions(Conditions, States, step) # {} BY <1>5, RecursionExists
<1>7. PICK f \in [Conditions -> States] : \A c \in Conditions : f[c] = step[<<c, f>>]
  BY <1>6 DEF Solutions
<1> DEFINE Is(state) == state = [d \in Conditions |-> MatchBy(state, d, seen)]
<1>8. Is(f) BY <1>2, <1>7
<1>9. \E state : Is(state) BY <1>8
<1> HIDE DEF Is
<1>10. Is(CHOOSE state : Is(state)) BY <1>9
<1>11. StateOf(seen) = [d \in Conditions |-> MatchBy(StateOf(seen), d, seen)]
  BY <1>10 DEF Is, StateOf
<1>12. QED BY <1>11, MatchByType

(* Whether all conditions hold at once.                                       *)
HoldsOf(all) == CHOOSE holds : holds = [d \in Conditions |-> HoldsBy(holds, d, all)]

(* Whether a condition holds depends on what it holds only.                   *)
LEMMA HoldsBySame ==
  ASSUME NEW c \in Conditions, NEW f, NEW g, Lower(Conditions, HeightOf, c, f, g), NEW all
  PROVE  HoldsBy(f, c, all) = HoldsBy(g, c, all)
<1>1. /\ \A i \in DOMAIN c.all : f[c.all[i]] = g[c.all[i]]
      /\ \A i \in DOMAIN c.any : f[c.any[i]] = g[c.any[i]]
      /\ \A i \in DOMAIN c.not : f[c.not[i]] = g[c.not[i]]
  BY ByChildren
<1>2. QED BY <1>1 DEF HoldsBy

(* Holding satisfies its equation.                                            *)
LEMMA HoldsExist ==
  ASSUME NEW all
  PROVE  \A c \in Conditions : HoldsOf(all)[c] = HoldsBy(HoldsOf(all), c, all)
<1> DEFINE step == [p \in Conditions \X [Conditions -> BOOLEAN] |-> HoldsBy(p[2], p[1], all)]
<1>1. step \in [Conditions \X [Conditions -> BOOLEAN] -> BOOLEAN]
  <2>1. ASSUME NEW p \in Conditions \X [Conditions -> BOOLEAN] PROVE HoldsBy(p[2], p[1], all) \in BOOLEAN
    BY DEF HoldsBy
  <2>2. QED BY <2>1
<1>2. \A c \in Conditions, f \in [Conditions -> BOOLEAN] : step[<<c, f>>] = HoldsBy(f, c, all) OBVIOUS
<1> HIDE DEF step
<1>3. ASSUME NEW c \in Conditions, NEW f \in [Conditions -> BOOLEAN], NEW g \in [Conditions -> BOOLEAN],
             Lower(Conditions, HeightOf, c, f, g)
      PROVE  step[<<c, f>>] = step[<<c, g>>]
  <2>1. HoldsBy(f, c, all) = HoldsBy(g, c, all) BY <1>3, HoldsBySame
  <2>2. QED BY <1>2, <2>1
<1>4. Recursive(Conditions, BOOLEAN, HeightOf, step)
  BY <1>1, <1>3, HeightOfType DEF Recursive
<1>5. Solutions(Conditions, BOOLEAN, step) # {} BY <1>4, RecursionExists
<1>6. PICK f \in [Conditions -> BOOLEAN] : \A c \in Conditions : f[c] = step[<<c, f>>]
  BY <1>5 DEF Solutions
<1> DEFINE Is(holds) == holds = [d \in Conditions |-> HoldsBy(holds, d, all)]
<1>7. Is(f) BY <1>2, <1>6
<1>8. \E holds : Is(holds) BY <1>7
<1> HIDE DEF Is
<1>9. Is(CHOOSE holds : Is(holds)) BY <1>8
<1>10. HoldsOf(all) = [d \in Conditions |-> HoldsBy(HoldsOf(all), d, all)]
  BY <1>9 DEF Is, HoldsOf
<1>11. QED BY <1>10

(* Which of them are valid.                                                   *)
ValidOf == CHOOSE valid : valid = [d \in Conditions |-> ValidBy(valid, d)]

(* So does whether it is valid.                                               *)
LEMMA ValidBySame ==
  ASSUME NEW c \in Conditions, NEW f, NEW g, Lower(Conditions, HeightOf, c, f, g)
  PROVE  ValidBy(f, c) = ValidBy(g, c)
<1>1. \A child \in Children(c) : child \in Conditions /\ Height[child] < Height[c]
  BY ConditionsAssumption, TreeFacts DEF Children, Range
<1>2. \A child \in Children(c) : f[child] = g[child] BY <1>1 DEF Lower, HeightOf
<1>3. QED BY <1>2 DEF ValidBy

(* Validity satisfies its equation.                                           *)
LEMMA ValidExist == \A c \in Conditions : ValidOf[c] = ValidBy(ValidOf, c)
<1> DEFINE step == [p \in Conditions \X [Conditions -> BOOLEAN] |-> ValidBy(p[2], p[1])]
<1>1. step \in [Conditions \X [Conditions -> BOOLEAN] -> BOOLEAN]
  <2>1. ASSUME NEW p \in Conditions \X [Conditions -> BOOLEAN] PROVE ValidBy(p[2], p[1]) \in BOOLEAN
    BY DEF ValidBy
  <2>2. QED BY <2>1
<1>2. \A c \in Conditions, f \in [Conditions -> BOOLEAN] : step[<<c, f>>] = ValidBy(f, c) OBVIOUS
<1> HIDE DEF step
<1>3. ASSUME NEW c \in Conditions, NEW f \in [Conditions -> BOOLEAN], NEW g \in [Conditions -> BOOLEAN],
             Lower(Conditions, HeightOf, c, f, g)
      PROVE  step[<<c, f>>] = step[<<c, g>>]
  <2>1. ValidBy(f, c) = ValidBy(g, c) BY <1>3, ValidBySame
  <2>2. QED BY <1>2, <2>1
<1>4. Recursive(Conditions, BOOLEAN, HeightOf, step)
  BY <1>1, <1>3, HeightOfType DEF Recursive
<1>5. Solutions(Conditions, BOOLEAN, step) # {} BY <1>4, RecursionExists
<1>6. PICK f \in [Conditions -> BOOLEAN] : \A c \in Conditions : f[c] = step[<<c, f>>]
  BY <1>5 DEF Solutions
<1> DEFINE Is(valid) == valid = [d \in Conditions |-> ValidBy(valid, d)]
<1>7. Is(f) BY <1>2, <1>6
<1>8. \E valid : Is(valid) BY <1>7
<1> HIDE DEF Is
<1>9. Is(CHOOSE valid : Is(valid)) BY <1>8
<1>10. ValidOf = [d \in Conditions |-> ValidBy(ValidOf, d)]
  BY <1>9 DEF Is, ValidOf
<1>11. QED BY <1>10

(* The functions of the specification are these.                              *)
LEMMA AtTheRoot ==
  ASSUME NEW c \in Conditions, NEW seen
  PROVE  /\ matchCondition(c, seen) = StateOf(seen)[c] /\ Holds(c, seen) = HoldsOf(seen)[c]
         /\ validCondition(c) <=> Height[c] <= MaxDepth /\ ValidOf[c]
BY DEF matchCondition, StateOf, Holds, HoldsOf, validCondition, ValidOf

(* The three functions on conditions are defined for every set of trees and   *)
(* every depth, and are what they are of the conditions one level down:       *)
(* matchCondition is match, nomatch or unknown, by the states its children    *)
(* have by matchCondition; a condition is valid when it is in form, not too   *)
(* deep, and its children are valid.                                          *)
THEOREM ConditionsDefined ==
  \A c \in Conditions :
    /\ \A seen : /\ matchCondition(c, seen) \in States
                 /\ matchCondition(c, seen)
                      = MatchBy([d \in Conditions |-> matchCondition(d, seen)], c, seen)
                 /\ Holds(c, seen) = HoldsBy([d \in Conditions |-> Holds(d, seen)], c, seen)
    /\ validCondition(c)
         <=> Height[c] <= MaxDepth /\ ValidBy([d \in Conditions |-> validCondition(d)], c)
<1>1. SUFFICES ASSUME NEW c \in Conditions, NEW seen
               PROVE  /\ matchCondition(c, seen) \in States
                      /\ matchCondition(c, seen)
                           = MatchBy([d \in Conditions |-> matchCondition(d, seen)], c, seen)
                      /\ Holds(c, seen) = HoldsBy([d \in Conditions |-> Holds(d, seen)], c, seen)
                      /\ validCondition(c) <=>
                           /\ Height[c] <= MaxDepth
                           /\ ValidBy([d \in Conditions |-> validCondition(d)], c)
  OBVIOUS
<1> DEFINE matched == [d \in Conditions |-> matchCondition(d, seen)]
           held    == [d \in Conditions |-> Holds(d, seen)]
           valid   == [d \in Conditions |-> validCondition(d)]
<1>2. /\ \A d \in Conditions : matched[d] = StateOf(seen)[d] /\ held[d] = HoldsOf(seen)[d]
      /\ \A d \in Conditions : valid[d] <=> Height[d] <= MaxDepth /\ ValidOf[d]
  BY AtTheRoot
<1>3. /\ matchCondition(c, seen) = StateOf(seen)[c] /\ Holds(c, seen) = HoldsOf(seen)[c]
      /\ validCondition(c) <=> Height[c] <= MaxDepth /\ ValidOf[c]
  BY AtTheRoot
<1> HIDE DEF matched, held, valid
<1>4. matchCondition(c, seen) = MatchBy(matched, c, seen)
  <2>1. Lower(Conditions, HeightOf, c, StateOf(seen), matched) BY <1>2 DEF Lower
  <2>2. MatchBy(StateOf(seen), c, seen) = MatchBy(matched, c, seen) BY <2>1, MatchBySame
  <2>3. QED BY <1>3, <2>2, StatesExist
<1>5. Holds(c, seen) = HoldsBy(held, c, seen)
  <2>1. Lower(Conditions, HeightOf, c, HoldsOf(seen), held) BY <1>2 DEF Lower
  <2>2. HoldsBy(HoldsOf(seen), c, seen) = HoldsBy(held, c, seen) BY <2>1, HoldsBySame
  <2>3. QED BY <1>3, <2>2, HoldsExist
<1>6. validCondition(c) <=> Height[c] <= MaxDepth /\ ValidBy(valid, c)
  <2>1. /\ \A child \in Children(c) : child \in Conditions /\ Height[child] \in Nat
                                       /\ Height[child] < Height[c]
        /\ Height[c] \in Nat /\ MaxDepth \in Nat
    BY ConditionsAssumption, DraftsAssumption, TreeFacts DEF Children, Range
  <2>2. ASSUME Height[c] <= MaxDepth
        PROVE  \A child \in Children(c) : valid[child] <=> ValidOf[child]
    BY <1>2, <2>1, <2>2
  <2>3. Height[c] <= MaxDepth => (ValidBy(valid, c) <=> ValidBy(ValidOf, c))
    BY <2>2 DEF ValidBy
  <2>4. ValidOf[c] <=> ValidBy(ValidOf, c) BY ValidExist
  <2>5. QED BY <1>3, <2>3, <2>4
<1>7. matchCondition(c, seen) \in States BY <1>3, StatesExist
<1>8. QED BY <1>4, <1>5, <1>6, <1>7 DEF matched, held, valid

(* A valid condition has one form.                                            *)
LEMMA FormFacts ==
  ASSUME NEW c \in Conditions, NEW valid, ValidBy(valid, c)
  PROVE  /\ c.all # <<>> => c.any = <<>> /\ c.not = <<>> /\ c.field = ""
         /\ c.any # <<>> => c.all = <<>> /\ c.not = <<>> /\ c.field = ""
         /\ c.not # <<>> => c.all = <<>> /\ c.any = <<>> /\ c.field = ""
         /\ c.field # "" => c.field \in Fields
<1>1. /\ c.field # "" => "leaf" \in Forms(c)
      /\ c.all # <<>> => "all" \in Forms(c)
      /\ c.any # <<>> => "any" \in Forms(c)
      /\ c.not # <<>> => "not" \in Forms(c)
  BY DEF Forms
<1>2. \A f, g \in Forms(c) : f = g BY DEF ValidBy
<1>3. "leaf" \in Forms(c) => c.field \in Fields BY DEF ValidBy
<1>4. /\ c.all # <<>> => c.any = <<>> /\ c.not = <<>> /\ c.field = ""
  <2>1. "all" # "any" /\ "all" # "not" /\ "all" # "leaf" OBVIOUS
  <2>2. QED BY <1>1, <1>2, <2>1
<1>5. /\ c.any # <<>> => c.all = <<>> /\ c.not = <<>> /\ c.field = ""
  <2>1. "any" # "all" /\ "any" # "not" /\ "any" # "leaf" OBVIOUS
  <2>2. QED BY <1>1, <1>2, <2>1
<1>6. /\ c.not # <<>> => c.all = <<>> /\ c.any = <<>> /\ c.field = ""
  <2>1. "not" # "all" /\ "not" # "any" /\ "not" # "leaf" OBVIOUS
  <2>2. QED BY <1>1, <1>2, <2>1
<1>7. QED BY <1>1, <1>3, <1>4, <1>5, <1>6

(* What is seen of a request.                                                 *)
SightOK == sight \in [Fields -> Values \cup {Hidden}]

(* What is decided of a condition is what it says of every completion.        *)
Rightly(c) ==
  \A all \in Completions : /\ StateOf(sight)[c] = "match" => HoldsOf(all)[c]
                           /\ StateOf(sight)[c] = "nomatch" => ~HoldsOf(all)[c]

(* It is decided rightly when everything it holds is.                         *)
LEMMA RightlyStep ==
  ASSUME SightOK, NEW c \in Conditions, ValidBy(ValidOf, c), \A child \in Children(c) : Rightly(child)
  PROVE  Rightly(c)
<1> DEFINE state == StateOf(sight)
<1> SUFFICES ASSUME NEW all \in Completions
             PROVE  /\ state[c] = "match" => HoldsOf(all)[c]
                    /\ state[c] = "nomatch" => ~HoldsOf(all)[c]
  BY DEF Rightly
<1> DEFINE holds == HoldsOf(all)
<1>1. state[c] = MatchBy(state, c, sight) /\ holds[c] = HoldsBy(holds, c, all)
  BY StatesExist, HoldsExist
<1>2. \A d \in Conditions : state[d] \in States BY StatesExist
<1>3. \A child \in Children(c) : /\ state[child] = "match" => holds[child]
                                 /\ state[child] = "nomatch" => ~holds[child]
  BY DEF Rightly
<1> HIDE DEF state, holds
<1>4. /\ \A i \in DOMAIN c.all : /\ state[c.all[i]] \in States
                                 /\ state[c.all[i]] = "match" => holds[c.all[i]]
                                 /\ state[c.all[i]] = "nomatch" => ~holds[c.all[i]]
      /\ \A i \in DOMAIN c.any : /\ state[c.any[i]] \in States
                                 /\ state[c.any[i]] = "match" => holds[c.any[i]]
                                 /\ state[c.any[i]] = "nomatch" => ~holds[c.any[i]]
      /\ \A i \in DOMAIN c.not : /\ state[c.not[i]] \in States
                                 /\ state[c.not[i]] = "match" => holds[c.not[i]]
                                 /\ state[c.not[i]] = "nomatch" => ~holds[c.not[i]]
  BY <1>2, <1>3, TreeFacts
<1>5. /\ c.all # <<>> => c.any = <<>> /\ c.not = <<>> /\ c.field = ""
      /\ c.any # <<>> => c.all = <<>> /\ c.not = <<>> /\ c.field = ""
      /\ c.not # <<>> => c.all = <<>> /\ c.any = <<>> /\ c.field = ""
      /\ c.field # "" => c.field \in Fields
  BY FormFacts
<1>6. /\ c.not # <<>> => DOMAIN c.not = {1} 
      /\ c.all = <<>> => DOMAIN c.all = {}
      /\ c.any = <<>> => DOMAIN c.any = {}
      /\ c.not = <<>> => DOMAIN c.not = {}
  BY TreeFacts
<1>7. CASE c.all # <<>>
  <2>1. holds[c] <=> \A i \in DOMAIN c.all : holds[c.all[i]] BY <1>1, <1>5, <1>6, <1>7 DEF HoldsBy
  <2>2. state[c] = IF "nomatch" \in {state[c.all[i]] : i \in DOMAIN c.all} THEN "nomatch"
                   ELSE IF "unknown" \in {state[c.all[i]] : i \in DOMAIN c.all} THEN "unknown" ELSE "match"
    BY <1>1, <1>7 DEF MatchBy
  <2>3. ASSUME state[c] = "match", NEW i \in DOMAIN c.all PROVE holds[c.all[i]]
    <3>1. state[c.all[i]] # "nomatch" /\ state[c.all[i]] # "unknown" BY <2>2, <2>3
    <3>2. QED BY <1>4, <3>1 DEF States
  <2>4. ASSUME state[c] = "nomatch" PROVE \E i \in DOMAIN c.all : ~holds[c.all[i]]
    <3>1. \E i \in DOMAIN c.all : state[c.all[i]] = "nomatch" BY <2>2, <2>4
    <3>2. QED BY <1>4, <3>1
  <2>5. QED BY <2>1, <2>3, <2>4 DEF state, holds
<1>8. CASE c.any # <<>>
  <2>1. holds[c] <=> \E i \in DOMAIN c.any : holds[c.any[i]] BY <1>1, <1>5, <1>6, <1>8 DEF HoldsBy
  <2>2. state[c] = IF "match" \in {state[c.any[i]] : i \in DOMAIN c.any} THEN "match"
                   ELSE IF "unknown" \in {state[c.any[i]] : i \in DOMAIN c.any} THEN "unknown" ELSE "nomatch"
    BY <1>1, <1>5, <1>8 DEF MatchBy
  <2>3. ASSUME state[c] = "nomatch", NEW i \in DOMAIN c.any PROVE ~holds[c.any[i]]
    <3>1. state[c.any[i]] # "match" /\ state[c.any[i]] # "unknown" BY <2>2, <2>3
    <3>2. QED BY <1>4, <3>1 DEF States
  <2>4. ASSUME state[c] = "match" PROVE \E i \in DOMAIN c.any : holds[c.any[i]]
    <3>1. \E i \in DOMAIN c.any : state[c.any[i]] = "match" BY <2>2, <2>4
    <3>2. QED BY <1>4, <3>1
  <2>5. QED BY <2>1, <2>3, <2>4 DEF state, holds
<1>9. CASE c.not # <<>>
  <2>1. holds[c] <=> ~holds[c.not[1]] BY <1>1, <1>5, <1>6, <1>9 DEF HoldsBy
  <2>2. state[c] = Negated(state[c.not[1]]) BY <1>1, <1>5, <1>9 DEF MatchBy
  <2>3. /\ state[c] = "match" => state[c.not[1]] = "nomatch"
        /\ state[c] = "nomatch" => state[c.not[1]] = "match"
    BY <2>2 DEF Negated
  <2>4. QED BY <1>4, <1>6, <1>9, <2>1, <2>3 DEF state, holds
<1>10. CASE c.all = <<>> /\ c.any = <<>> /\ c.not = <<>>
  <2>1. holds[c] <=> (c.field # "" => all[c.field] \in c.want) BY <1>1, <1>6, <1>10 DEF HoldsBy
  <2>2. state[c] = IF c.field = "" THEN "match" ELSE matchLeaf(c, sight) BY <1>1, <1>10 DEF MatchBy
  <2>3. CASE c.field = "" BY <2>1, <2>2, <2>3 DEF state, holds
  <2>4. CASE c.field # ""
    <3>1. c.field \in Fields BY <1>5, <2>4
    <3>2. sight[c.field] # Hidden => all[c.field] = sight[c.field] BY <3>1 DEF Completions
    <3>3. QED BY <2>1, <2>2, <2>4, <3>2 DEF matchLeaf, state, holds
  <2>5. QED BY <2>3, <2>4
<1>11. QED BY <1>7, <1>8, <1>9, <1>10 DEF state, holds

(* So every valid condition is, by induction on the height.                   *)
LEMMA AllRightly ==
  ASSUME SightOK, NEW c \in Conditions, ValidOf[c]
  PROVE  Rightly(c)
<1> DEFINE n == Height[c]
           P == {i \in 0 .. n : \A d \in Conditions : Height[d] <= i /\ ValidOf[d] => Rightly(d)}
<1>1. \A d \in Conditions : /\ Height[d] \in Nat
                            /\ \A child \in Children(d) : /\ child \in Conditions /\ Height[child] \in Nat
                                                          /\ Height[child] < Height[d]
  BY ConditionsAssumption, TreeFacts DEF Children, Range
<1>2. ASSUME NEW d \in Conditions, ValidOf[d],
             \A e \in Conditions : Height[e] < Height[d] /\ ValidOf[e] => Rightly(e)
      PROVE  Rightly(d)
  <2>1. ValidBy(ValidOf, d) BY <1>2, ValidExist
  <2>2. \A child \in Children(d) : ValidOf[child] BY <2>1 DEF ValidBy
  <2>3. \A child \in Children(d) : Rightly(child) BY <1>1, <1>2, <2>2
  <2>4. QED BY <2>1, <2>3, RightlyStep
<1>3. 0 \in P
  <2>1. ASSUME NEW d \in Conditions, Height[d] <= 0, ValidOf[d] PROVE Rightly(d)
    <3>1. \A e \in Conditions : ~(Height[e] < Height[d]) BY <1>1, <2>1
    <3>2. QED BY <1>2, <2>1, <3>1
  <2>2. QED BY <1>1, <2>1
<1>4. ASSUME NEW i \in 0 .. n, i \in P, i # n PROVE i + 1 \in P
  <2>1. ASSUME NEW d \in Conditions, Height[d] <= i + 1, ValidOf[d] PROVE Rightly(d)
    <3>1. \A e \in Conditions : Height[e] < Height[d] => Height[e] <= i BY <1>1, <2>1
    <3>2. \A e \in Conditions : Height[e] < Height[d] /\ ValidOf[e] => Rightly(e) BY <1>4, <3>1
    <3>3. QED BY <1>2, <2>1, <3>2
  <2>2. i + 1 \in 0 .. n BY <1>1, <1>4
  <2>3. QED BY <2>1, <2>2
<1> HIDE DEF P
<1>5. n \in P
  <2>1. n \in Nat BY <1>1
  <2> HIDE DEF n
  <2>2. \A i \in 0 .. n : i \in P BY <1>3, <1>4, <2>1, Induction
  <2>3. QED BY <2>1, <2>2
<1>6. QED BY <1>1, <1>5 DEF P
-----------------------------------------------------------------------------
(* Sequences of actions.                                                      *)
\* The first terminal action of s is at p, and these are the ones before it.
FirstAt(s, p) == p \in 1 .. Len(s) /\ s[p] \in Terminal /\ \A m \in 1 .. (p - 1) : s[m] \notin Terminal
Front(s, p) == {s[m] : m \in 1 .. (p - 1)}

(* What is in a sequence.                                                     *)
LEMMA RangeFacts ==
  ASSUME NEW S, NEW s \in Seq(S)
  PROVE  /\ Len(s) \in Nat /\ DOMAIN s = 1 .. Len(s) /\ \A x : x \in Range(s) <=> \E i \in 1 .. Len(s) : s[i] = x
         /\ hasTerminal(s) <=> \E i \in 1 .. Len(s) : s[i] \in Terminal
<1>1. Len(s) \in Nat /\ DOMAIN s = 1 .. Len(s) BY LenProperties
<1>2. \A x : x \in Range(s) <=> \E i \in 1 .. Len(s) : s[i] = x BY <1>1 DEF Range
<1>3. hasTerminal(s) <=> \E x \in Range(s) : x \in Terminal BY DEF hasTerminal
<1>4. QED BY <1>1, <1>2, <1>3

(* The actions of a prefix.                                                   *)
LEMMA FrontRange ==
  ASSUME NEW S, NEW s \in Seq(S), NEW p \in 1 .. Len(s)
  PROVE  Range(SubSeq(s, 1, p - 1)) = Front(s, p)
<1>1. Len(s) \in Nat BY LenProperties
<1>2. p - 1 \in 0 .. Len(s) /\ p - 1 \in Int BY <1>1
<1> DEFINE t == SubSeq(s, 1, p - 1)
<1>3. /\ t \in Seq(S) /\ Len(t) = p - 1
      /\ \A i \in 1 .. p - 1 : t[i] = s[i]
  BY <1>1, <1>2
<1> HIDE DEF t
<1>4. \A x : x \in Range(t) <=> \E i \in 1 .. p - 1 : t[i] = x
  <2>1. \A x : x \in Range(t) <=> \E i \in 1 .. Len(t) : t[i] = x BY <1>3, RangeFacts
  <2>2. QED BY <1>3, <2>1
<1>5. \A x : x \in Range(t) <=> x \in Front(s, p) BY <1>3, <1>4 DEF Front
<1>6. QED BY <1>5 DEF t

(* What is in two sequences put together.                                     *)
LEMMA ConcatFacts ==
  ASSUME NEW S, NEW s \in Seq(S), NEW t \in Seq(S)
  PROVE  /\ s \o t \in Seq(S) /\ Len(s \o t) = Len(s) + Len(t) /\ Len(s) \in Nat /\ Len(t) \in Nat
         /\ \A i \in 1 .. Len(s) : (s \o t)[i] = s[i]
         /\ \A i \in 1 .. Len(t) : (s \o t)[Len(s) + i] = t[i]
         /\ Range(s \o t) = Range(s) \cup Range(t)
<1> DEFINE u == s \o t
<1>1. /\ u \in Seq(S) /\ Len(u) = Len(s) + Len(t) /\ Len(s) \in Nat /\ Len(t) \in Nat
      /\ \A i \in 1 .. Len(u) : u[i] = IF i <= Len(s) THEN s[i] ELSE t[i - Len(s)]
  BY ConcatProperties, LenProperties
<1> HIDE DEF u
<1>2. \A i \in 1 .. Len(s) : i \in 1 .. Len(u) /\ u[i] = s[i] BY <1>1
<1>3. ASSUME NEW i \in 1 .. Len(t) PROVE Len(s) + i \in 1 .. Len(u) /\ u[Len(s) + i] = t[i]
  <2>1. PICK k \in Nat : k = Len(s) + i BY <1>1
  <2>2. k \in 1 .. Len(u) /\ ~(k <= Len(s)) /\ k - Len(s) = i BY <1>1, <2>1
  <2>3. u[k] = t[k - Len(s)] BY <1>1, <2>2
  <2>4. QED BY <2>1, <2>2, <2>3
<1>4. \A x : x \in Range(u) <=> x \in Range(s) \/ x \in Range(t)
  <2>1. \A x : x \in Range(u) <=> \E i \in 1 .. Len(u) : u[i] = x BY <1>1, RangeFacts
  <2>2. \A x : x \in Range(s) <=> \E i \in 1 .. Len(s) : s[i] = x BY RangeFacts
  <2>3. \A x : x \in Range(t) <=> \E i \in 1 .. Len(t) : t[i] = x BY RangeFacts
  <2>4. ASSUME NEW i \in 1 .. Len(u) PROVE u[i] \in Range(s) \/ u[i] \in Range(t)
    <3>1. CASE i <= Len(s)
      <4>1. i \in 1 .. Len(s) /\ u[i] = s[i] BY <1>1, <3>1
      <4>2. QED BY <2>2, <4>1
    <3>2. CASE ~(i <= Len(s))
      <4>1. i - Len(s) \in 1 .. Len(t) /\ u[i] = t[i - Len(s)] BY <1>1, <3>2
      <4>2. QED BY <2>3, <4>1
    <3>3. QED BY <3>1, <3>2
  <2>5. QED BY <1>2, <1>3, <2>1, <2>2, <2>3, <2>4
<1>5. Range(u) = Range(s) \cup Range(t) BY <1>4
<1>6. QED BY <1>1, <1>2, <1>3, <1>5 DEF u

(* With a terminal action there is a first one,                               *)
LEMMA FirstExists ==
  ASSUME NEW S, NEW s \in Seq(S), hasTerminal(s)
  PROVE  \E p : FirstAt(s, p)
<1> DEFINE T == {i \in 1 .. Len(s) : s[i] \in Terminal}
<1>1. Len(s) \in Nat /\ T # {} BY RangeFacts
<1>2. T \in SUBSET Nat BY <1>1
<1>3. PICK p \in T : \A m \in T : p <= m
  <2> HIDE DEF T
  <2>1. QED BY <1>1, <1>2, LeastNatural
<1>4. \A m \in 1 .. (p - 1) : m \in 1 .. Len(s) /\ ~(p <= m) BY <1>1
<1>5. FirstAt(s, p) BY <1>1, <1>3, <1>4 DEF FirstAt
<1>6. QED BY <1>5

(* only one,                                                                  *)
LEMMA FirstUnique ==
  ASSUME NEW s, NEW p, NEW q, FirstAt(s, p), FirstAt(s, q)
  PROVE  p = q
<1>1. p \in Int /\ q \in Int /\ 1 <= p /\ 1 <= q BY DEF FirstAt
<1>2. ~(p < q) BY <1>1 DEF FirstAt
<1>3. ~(q < p) BY <1>1 DEF FirstAt
<1>4. QED BY <1>1, <1>2, <1>3

(* and what is appended does not change it.                                   *)
LEMMA FirstKept ==
  ASSUME NEW S, NEW s \in Seq(S), NEW t \in Seq(S), NEW p, FirstAt(s, p)
  PROVE  FirstAt(s \o t, p) /\ (s \o t)[p] = s[p] /\ Front(s \o t, p) = Front(s, p)
<1> DEFINE u == s \o t
<1>1. /\ Len(u) = Len(s) + Len(t) /\ Len(s) \in Nat /\ Len(t) \in Nat
      /\ \A i \in 1 .. Len(s) : u[i] = s[i]
  BY ConcatFacts
<1> HIDE DEF u
<1>2. p \in 1 .. Len(s) BY DEF FirstAt
<1>3. p \in 1 .. Len(u) /\ u[p] = s[p] /\ \A m \in 1 .. (p - 1) : u[m] = s[m] BY <1>1, <1>2
<1>4. FirstAt(u, p) BY <1>3 DEF FirstAt
<1>5. Front(u, p) = Front(s, p) BY <1>3 DEF Front
<1>6. QED BY <1>3, <1>4, <1>5 DEF u

(* The first terminal action of t is, behind s, the first of both.            *)
IsShifted(s, t, q) == \E p : /\ FirstAt(s \o t, p) /\ (s \o t)[p] = t[q]
                             /\ Front(s \o t, p) = Range(s) \cup Front(t, q)

LEMMA FirstShifted ==
  ASSUME NEW S, NEW s \in Seq(S), NEW t \in Seq(S), ~hasTerminal(s), NEW q, FirstAt(t, q)
  PROVE  IsShifted(s, t, q)
<1> DEFINE u == s \o t
           n == Len(s)
<1>1. /\ Len(u) = n + Len(t) /\ n \in Nat /\ Len(t) \in Nat
      /\ \A i \in 1 .. n : u[i] = s[i]
      /\ \A i \in 1 .. Len(t) : u[n + i] = t[i]
  BY ConcatFacts
<1>2. /\ \A i \in 1 .. n : s[i] \notin Terminal
      /\ \A x : x \in Range(s) <=> \E i \in 1 .. n : s[i] = x
  BY RangeFacts
<1> HIDE DEF u, n
<1>3. q \in 1 .. Len(t) /\ t[q] \in Terminal /\ \A m \in 1 .. (q - 1) : t[m] \notin Terminal
  BY DEF FirstAt
<1>4. PICK p \in Nat : p = n + q BY <1>1, <1>3
<1>5. p \in 1 .. Len(u) /\ u[p] = t[q] BY <1>1, <1>3, <1>4
<1>6. ASSUME NEW m \in 1 .. (p - 1)
      PROVE  \/ m \in 1 .. n /\ u[m] = s[m]
             \/ m - n \in 1 .. (q - 1) /\ u[m] = t[m - n]
  <2>1. CASE m <= n BY <1>1, <1>3, <2>1
  <2>2. CASE ~(m <= n)
    <3>1. m - n \in 1 .. (q - 1) /\ m - n \in 1 .. Len(t) /\ n + (m - n) = m BY <1>1, <1>3, <1>4, <2>2
    <3>2. QED BY <1>1, <3>1
  <2>3. QED BY <2>1, <2>2
<1>7. \A m \in 1 .. (p - 1) : u[m] \notin Terminal BY <1>2, <1>3, <1>6
<1>8. FirstAt(u, p) BY <1>3, <1>5, <1>7 DEF FirstAt
<1>9. \A x : x \in Front(u, p) <=> x \in Range(s) \/ x \in Front(t, q)
  <2>1. \A x : x \in Front(u, p) <=> \E m \in 1 .. (p - 1) : u[m] = x BY DEF Front
  <2>2. \A x : x \in Front(t, q) <=> \E m \in 1 .. (q - 1) : t[m] = x BY DEF Front
  <2>3. ASSUME NEW m \in 1 .. (p - 1) PROVE u[m] \in Range(s) \/ u[m] \in Front(t, q)
    BY <1>2, <1>6, <2>2
  <2>4. ASSUME NEW i \in 1 .. n PROVE s[i] \in Front(u, p)
    <3>1. i \in 1 .. (p - 1) /\ u[i] = s[i] BY <1>1, <1>3, <1>4
    <3>2. QED BY <2>1, <3>1
  <2>5. ASSUME NEW i \in 1 .. (q - 1) PROVE t[i] \in Front(u, p)
    <3>1. PICK k \in Nat : k = n + i BY <1>1
    <3>2. k \in 1 .. (p - 1) /\ i \in 1 .. Len(t) BY <1>1, <1>3, <1>4, <3>1
    <3>3. u[k] = t[i] BY <1>1, <3>1, <3>2
    <3>4. QED BY <2>1, <3>2, <3>3
  <2>6. QED BY <1>2, <2>1, <2>2, <2>3, <2>4, <2>5
<1>10. Front(u, p) = Range(s) \cup Front(t, q) BY <1>9
<1>11. QED BY <1>5, <1>8, <1>10 DEF u, IsShifted
-----------------------------------------------------------------------------
(* What holds of a document and of what is seen of the request.               *)
EvaluationInv ==
  /\ document \in Seq(Drafts)
  /\ \A i \in DOMAIN document : Valid(document[i])
  /\ SightOK

(* The types of a rule's fields.                                              *)
LEMMA RuleFacts ==
  ASSUME EvaluationInv
  PROVE  /\ Len(document) \in Nat /\ DOMAIN document = 1 .. Len(document)
         /\ \A i \in 1 .. Len(document) :
              /\ document[i].priority \in Int /\ document[i].actions \in Seq(STRING)
              /\ document[i].condition \in Conditions
              /\ document[i].stop \in BOOLEAN /\ document[i].enabled \in BOOLEAN
<1>1. Len(document) \in Nat /\ DOMAIN document = 1 .. Len(document) BY LenProperties DEF EvaluationInv
<1>2. \A i \in 1 .. Len(document) : document[i] \in Drafts BY <1>1 DEF EvaluationInv
<1>3. QED BY <1>1, <1>2, DraftsAssumption

(* An attribute nobody has seen never makes a rule match.                     *)
LEMMA TrulyDecided == EvaluationInv => DecidedIsTrue
<1> SUFFICES ASSUME EvaluationInv, NEW i \in DOMAIN document
             PROVE  LET c == document[i].condition IN
                    /\ matchCondition(c, sight) = "match"   => \A all \in Completions : Holds(c, all)
                    /\ matchCondition(c, sight) = "nomatch" => \A all \in Completions : ~Holds(c, all)
  BY DEF DecidedIsTrue
<1> DEFINE c == document[i].condition
<1>1. c \in Conditions BY RuleFacts
<1>2. ValidOf[c] BY <1>1, AtTheRoot DEF EvaluationInv, Valid
<1> HIDE DEF c
<1>3. Rightly(c) BY <1>1, <1>2, AllRightly DEF EvaluationInv
<1>4. matchCondition(c, sight) = StateOf(sight)[c] /\ \A all \in Completions : Holds(c, all) = HoldsOf(all)[c]
  BY <1>1, AtTheRoot
<1>5. /\ matchCondition(c, sight) = "match"   => \A all \in Completions : Holds(c, all)
      /\ matchCondition(c, sight) = "nomatch" => \A all \in Completions : ~Holds(c, all)
  BY <1>3, <1>4 DEF Rightly
<1>6. QED BY <1>5 DEF c
-----------------------------------------------------------------------------
(* The order of evaluation.                                                   *)
Order == {p \in (DOMAIN document) \X (DOMAIN document) : Ahead(p[1], p[2])}

(* Ahead is a strict order, and it is Before.                                 *)
LEMMA OrderFacts ==
  ASSUME EvaluationInv
  PROVE  /\ StrictOrder(Order, 1 .. Len(document))
         /\ \A i, j \in 1 .. Len(document) : /\ <<i, j>> \in Order <=> Ahead(i, j)
                                             /\ Before(i, j) <=> Ahead(i, j)
<1> DEFINE n == Len(document)
<1>1. /\ n \in Nat /\ DOMAIN document = 1 .. n
      /\ \A i \in 1 .. n : document[i].priority \in Int
  BY RuleFacts
<1>2. ASSUME NEW i \in 1 .. n, NEW j \in 1 .. n PROVE <<i, j>> \in Order <=> Ahead(i, j)
  <2> DEFINE p == <<i, j>>
  <2>1. p[1] = i /\ p[2] = j OBVIOUS
  <2>2. p \in (DOMAIN document) \X (DOMAIN document)
    BY <1>1
  <2> HIDE DEF p, n
  <2>3. p \in Order <=> Ahead(p[1], p[2]) BY <2>2, Zenon DEF Order
  <2>4. QED BY <2>1, <2>3 DEF p
<1>3. ASSUME NEW i \in 1 .. n, NEW j \in 1 .. n PROVE Before(i, j) <=> Ahead(i, j)
  <2>1. /\ document[i].priority \in Int /\ document[j].priority \in Int BY <1>1
  <2>2. /\ 0 - document[i].priority < 0 - document[j].priority <=> document[i].priority > document[j].priority
        /\ 0 - document[i].priority = 0 - document[j].priority <=> document[i].priority = document[j].priority
    BY <2>1
  <2>3. QED BY <2>2 DEF Before, Ahead
<1>4. \A i \in 1 .. n : ~Ahead(i, i) BY <1>1 DEF Ahead
<1>5. \A i, j, k \in 1 .. n : Ahead(i, j) /\ Ahead(j, k) => Ahead(i, k) BY <1>1 DEF Ahead
<1>6. \A i, j \in 1 .. n : i # j => Ahead(i, j) \/ Ahead(j, i) BY <1>1 DEF Ahead
<1> HIDE DEF n
<1>7. StrictOrder(Order, 1 .. n) BY <1>2, <1>4, <1>5, <1>6 DEF StrictOrder
<1>8. QED BY <1>2, <1>3, <1>7 DEF n

(* Sorted is sorted.                                                          *)
LEMMA SortedFacts ==
  ASSUME EvaluationInv
  PROVE  Sorts(Sorted, Order, Len(document))
<1> DEFINE n == Len(document)
           Is(s) == s \in [DOMAIN document -> DOMAIN document] /\ \A i, j \in DOMAIN document : i < j => Ahead(s[i], s[j])
<1>1. n \in Nat /\ DOMAIN document = 1 .. n BY RuleFacts
<1>2. StrictOrder(Order, 1 .. n) /\ \A i, j \in 1 .. n : <<i, j>> \in Order <=> Ahead(i, j) BY OrderFacts
<1>3. PICK s : Sorts(s, Order, n)
  <2> HIDE DEF n
  <2>1. QED BY <1>1, <1>2, SortExists
<1> HIDE DEF n
<1>4. Is(s) BY <1>1, <1>2, <1>3 DEF Sorts
<1>5. Sorted = CHOOSE t : Is(t) BY DEF Sorted
<1> HIDE DEF Is
<1>6. Is(Sorted) BY <1>4, <1>5
<1>7. QED BY <1>1, <1>2, <1>6 DEF Is, Sorts, n

(* The rules evaluated by the first k steps.                                  *)
SeenTo(k) == {Sorted[j] : j \in 1 .. k}

(* The rules considered before a rule are the ones ahead of it, and in the    *)
(* end they are all considered.                                               *)
LEMMA SeenFacts ==
  ASSUME EvaluationInv
  PROVE  /\ SeenTo(0) = {} /\ SeenTo(Len(document)) = 1 .. Len(document)
         /\ \A k \in 1 .. Len(document) :
              /\ Sorted[k] \in 1 .. Len(document)
              /\ SeenTo(k) = SeenTo(k - 1) \cup {Sorted[k]}
              /\ \A i \in 1 .. Len(document) : i \in SeenTo(k - 1) <=> Before(i, Sorted[k])
<1> DEFINE n == Len(document)
<1>1. /\ n \in Nat /\ StrictOrder(Order, 1 .. n) /\ Sorts(Sorted, Order, n)
      /\ \A i, j \in 1 .. n : Before(i, j) <=> <<i, j>> \in Order
  BY RuleFacts, OrderFacts, SortedFacts
<1> HIDE DEF n
<1>2. \A k \in 1 .. n : Sorted[k] \in 1 .. n BY <1>1 DEF Sorts
<1>3. \A i \in 1 .. n : \E j \in 1 .. n : Sorted[j] = i BY <1>1, SortedOnto
<1>4. SeenTo(0) = {} BY DEF SeenTo
<1>5. SeenTo(n) = 1 .. n BY <1>2, <1>3 DEF SeenTo
<1>6. ASSUME NEW k \in 1 .. n PROVE SeenTo(k) = SeenTo(k - 1) \cup {Sorted[k]}
  <2>1. \A j : j \in 1 .. k <=> j \in 1 .. (k - 1) \/ j = k BY <1>1
  <2>2. QED BY <2>1 DEF SeenTo
<1>7. ASSUME NEW k \in 1 .. n, NEW i \in 1 .. n PROVE i \in SeenTo(k - 1) <=> Before(i, Sorted[k])
  <2>1. PICK j \in 1 .. n : Sorted[j] = i BY <1>3
  <2>2. i \in SeenTo(k - 1) => Before(i, Sorted[k])
    <3>1. ASSUME NEW m \in 1 .. (k - 1), Sorted[m] = i PROVE Before(i, Sorted[k])
      <4>1. m \in 1 .. n /\ m < k BY <1>1
      <4>2. <<Sorted[m], Sorted[k]>> \in Order BY <1>1, <4>1 DEF Sorts
      <4>3. QED BY <1>1, <1>2, <3>1, <4>2
    <3>2. QED BY <3>1 DEF SeenTo
  <2>3. CASE j < k
    <3>1. j \in 1 .. (k - 1) BY <1>1, <2>3
    <3>2. QED BY <2>1, <2>2, <3>1 DEF SeenTo
  <2>4. CASE j = k
    <3>1. ~Before(i, Sorted[k]) BY <1>1, <2>1, <2>4 DEF StrictOrder
    <3>2. QED BY <2>2, <3>1
  <2>5. CASE k < j
    <3>1. <<Sorted[k], i>> \in Order BY <1>1, <2>1, <2>5 DEF Sorts
    <3>2. <<i, Sorted[k]>> \in Order => <<i, i>> \in Order BY <1>1, <1>2, <3>1 DEF StrictOrder
    <3>3. <<i, i>> \notin Order BY <1>1 DEF StrictOrder
    <3>4. ~Before(i, Sorted[k]) BY <1>1, <1>2, <3>2, <3>3
    <3>5. QED BY <2>2, <3>4
  <2>6. j < k \/ j = k \/ k < j BY <1>1
  <2>7. QED BY <2>3, <2>4, <2>5, <2>6
<1>8. QED BY <1>2, <1>4, <1>5, <1>6, <1>7 DEF n
-----------------------------------------------------------------------------
(* The results of the steps of an evaluation.                                 *)
Results == [actions : Seq(STRING), terminal : 0 .. Len(document), stopped : BOOLEAN]

(* The results are of their type.                                             *)
LEMMA NoResultOK ==
  ASSUME EvaluationInv
  PROVE  NoResult \in Results
<1>1. Len(document) \in Nat BY RuleFacts
<1>2. <<>> \in Seq(STRING) /\ 0 \in 0 .. Len(document) BY <1>1, EmptySeq
<1>3. QED BY <1>2 DEF NoResult, Results

(* And they stay so.                                                          *)
LEMMA ConsiderOK ==
  ASSUME EvaluationInv, NEW r \in Results, NEW i \in 1 .. Len(document)
  PROVE  Consider(r, i) \in Results
<1>1. /\ Len(document) \in Nat /\ document[i].actions \in Seq(STRING) /\ document[i].stop \in BOOLEAN
  BY RuleFacts
<1>2. r.actions \in Seq(STRING) /\ r.terminal \in 0 .. Len(document) BY DEF Results
<1>3. r.actions \o document[i].actions \in Seq(STRING) BY <1>1, <1>2, ConcatProperties
<1>4. i \in 0 .. Len(document) BY <1>1
<1>5. QED BY <1>1, <1>2, <1>3, <1>4 DEF Consider, Results

(* The function in EvaluatePolicy.                                            *)
IsEvaluated(run) ==
  run = [k \in 0 .. Len(document) |-> IF k = 0 THEN NoResult ELSE Consider(run[k - 1], Sorted[k])]

(* The results of the steps satisfy the equation of EvaluatePolicy.           *)
LEMMA ResultsExist ==
  ASSUME EvaluationInv
  PROVE  \E run : /\ run \in [0 .. Len(document) -> Results] /\ EvaluatePolicy = run[Len(document)]
                  /\ run[0] = NoResult
                  /\ \A k \in 1 .. Len(document) : run[k] = Consider(run[k - 1], Sorted[k])
<1> DEFINE n == Len(document)
           step == [p \in Results \X (1 .. n) |-> Consider(p[1], Sorted[p[2]])]
<1>1. n \in Nat /\ NoResult \in Results /\ \A k \in 1 .. n : Sorted[k] \in 1 .. n
  BY RuleFacts, NoResultOK, SeenFacts
<1>2. step \in [Results \X (1 .. n) -> Results]
  <2>1. ASSUME NEW p \in Results \X (1 .. n) PROVE Consider(p[1], Sorted[p[2]]) \in Results
    BY <1>1, ConsiderOK
  <2>2. QED BY <2>1
<1>3. \A r \in Results, k \in 1 .. n : step[<<r, k>>] = Consider(r, Sorted[k]) OBVIOUS
<1> HIDE DEF step, n
<1>4. PICK f \in [0 .. n -> Results] : f[0] = NoResult /\ \A k \in 1 .. n : f[k] = step[<<f[k - 1], k>>]
  <2>1. Runs(n, Results, NoResult, step) # {} BY <1>1, <1>2, RunExists
  <2>2. QED BY <2>1 DEF Runs
<1>5. IsEvaluated(f)
  <2>1. ASSUME NEW k \in 0 .. n PROVE f[k] = IF k = 0 THEN NoResult ELSE Consider(f[k - 1], Sorted[k])
    <3>1. CASE k = 0 BY <1>4, <3>1
    <3>2. CASE k # 0
      <4>1. k \in 1 .. n /\ k - 1 \in 0 .. n BY <1>1, <3>2
      <4>2. f[k - 1] \in Results BY <1>4, <4>1
      <4>3. QED BY <1>3, <1>4, <3>2, <4>1, <4>2
    <3>3. QED BY <3>1, <3>2
  <2>2. QED BY <1>4, <2>1 DEF IsEvaluated, n
<1> DEFINE run == CHOOSE g : IsEvaluated(g)
<1>6. IsEvaluated(run) BY <1>5
<1>7. EvaluatePolicy = run[n] BY DEF EvaluatePolicy, IsEvaluated, n
<1> HIDE DEF run
<1>8. /\ run[0] = NoResult
      /\ \A k \in 1 .. n : run[k] = Consider(run[k - 1], Sorted[k])
  BY <1>1, <1>6 DEF IsEvaluated, n
<1>9. run \in [0 .. n -> Results]
  <2> DEFINE P == {k \in 0 .. n : run[k] \in Results}
  <2>1. 0 \in P BY <1>1, <1>8
  <2>2. ASSUME NEW k \in 0 .. n, k \in P, k # n PROVE k + 1 \in P
    <3>1. k + 1 \in 1 .. n /\ (k + 1) - 1 = k /\ k + 1 \in 0 .. n BY <1>1, <2>2
    <3>2. run[k + 1] = Consider(run[k], Sorted[k + 1]) BY <1>8, <3>1
    <3>3. QED BY <1>1, <2>2, <3>1, <3>2, ConsiderOK DEF n
  <2>3. DOMAIN run = 0 .. n /\ run = [k \in 0 .. n |-> run[k]] BY <1>6 DEF IsEvaluated, n
  <2> HIDE DEF P
  <2>4. \A k \in 0 .. n : k \in P BY <1>1, <2>1, <2>2, Induction
  <2>5. \A k \in 0 .. n : run[k] \in Results BY <2>4 DEF P
  <2>6. QED BY <2>3, <2>5
<1>10. QED BY <1>7, <1>8, <1>9 DEF n
-----------------------------------------------------------------------------
(* What the steps have heard and decided.                                     *)
Stops(i)     == i \in Matching /\ document[i].stop
Decides(i)   == i \in Heard /\ hasTerminal(document[i].actions)
First(i, seen) == i \in seen /\ Decides(i) /\ \A j \in seen : Decides(j) /\ j # i => Before(i, j)
ActionsOf(rules) == UNION {Range(document[j].actions) : j \in rules}
HeardAmong(seen) == {j \in Heard : j \in seen}
HeardBefore(i)   == {j \in Heard : Before(j, i)}

(* The actions are routed by the rule i.                                      *)
RoutedBy(actions, i) ==
  \E p, q : /\ FirstAt(actions, p) /\ FirstAt(document[i].actions, q)
            /\ actions[p] = document[i].actions[q]
            /\ Front(actions, p) = Front(document[i].actions, q) \cup ActionsOf(HeardBefore(i))

(* What the result says when the rules of seen have been considered.          *)
Evaluated(r, seen) ==
  /\ r.stopped <=> \E i \in seen : Stops(i)
  /\ \/ /\ \A i \in seen : ~Decides(i)
        /\ r.terminal = 0 /\ ~hasTerminal(r.actions) /\ Range(r.actions) = ActionsOf(HeardAmong(seen))
     \/ \E i : First(i, seen) /\ r.terminal = i /\ RoutedBy(r.actions, i)

(* The rules that match and the ones that are heard.                          *)
LEMMA MatchingFacts ==
  ASSUME EvaluationInv
  PROVE  /\ Matching \subseteq 1 .. Len(document) /\ Heard \subseteq Matching
         /\ \A i \in 1 .. Len(document) :
              i \in Matching <=> document[i].enabled /\ matchCondition(document[i].condition, sight) = "match"
         /\ \A i \in Matching : i \in Heard <=> \A j \in Matching : Before(j, i) => ~document[j].stop
<1>1. DOMAIN document = 1 .. Len(document) BY RuleFacts
<1>2. QED BY <1>1 DEF Matching, Heard

(* Nothing is in the empty sequence.                                          *)
LEMMA EmptyRange == Range(<<>>) = {} /\ ~hasTerminal(<<>>)
<1>1. Range(<<>>) = {} BY DEF Range
<1>2. QED BY <1>1 DEF hasTerminal

(* Before the first rule.                                                     *)
LEMMA EvaluatedNone == Evaluated(NoResult, {})
<1>1. HeardAmong({}) = {} BY DEF HeardAmong
<1>2. ActionsOf({}) = {} BY DEF ActionsOf
<1>3. NoResult.actions = <<>> /\ NoResult.terminal = 0 /\ NoResult.stopped = FALSE BY DEF NoResult
<1>4. Range(NoResult.actions) = {} /\ ~hasTerminal(NoResult.actions) BY <1>3, EmptyRange
<1>5. QED BY <1>1, <1>2, <1>3, <1>4 DEF Evaluated

(* One step: the rule x is considered after the rules of seen, which are the  *)
(* ones ahead of it.                                                          *)
LEMMA EvaluatedStep ==
  ASSUME EvaluationInv, NEW r \in Results, NEW seen \in SUBSET (1 .. Len(document)),
         NEW x \in 1 .. Len(document), x \notin seen,
         \A i \in 1 .. Len(document) : i \in seen <=> Before(i, x),
         Evaluated(r, seen)
  PROVE  Evaluated(Consider(r, x), seen \cup {x})
<1> DEFINE n == Len(document)
           own == document[x].actions
           later == Consider(r, x)
           wider == seen \cup {x}
<1>1. /\ n \in Nat /\ own \in Seq(STRING) /\ r.actions \in Seq(STRING)
      /\ document[x].stop \in BOOLEAN /\ r.stopped \in BOOLEAN
  BY RuleFacts DEF Results
<1>2. Matching \subseteq 1 .. n /\ Heard \subseteq Matching BY MatchingFacts
<1>3. x \in Matching <=> document[x].enabled /\ matchCondition(document[x].condition, sight) = "match"
  BY MatchingFacts
<1>4. r.stopped <=> \E i \in seen : Stops(i) BY DEF Evaluated
<1>5. r.stopped <=> \E j \in Matching : Before(j, x) /\ document[j].stop BY <1>2, <1>4 DEF Stops
<1>6. x \in Heard <=> x \in Matching /\ ~r.stopped BY <1>2, <1>5, MatchingFacts
<1>7. later.stopped <=> \E i \in wider : Stops(i)
  <2>1. CASE x \in Heard
    <3>1. later.stopped = document[x].stop BY <1>3, <1>6, <2>1 DEF Consider
    <3>2. QED BY <1>4, <1>6, <2>1, <3>1 DEF Stops
  <2>2. CASE x \notin Heard
    <3>1. later = r BY <1>3, <1>6, <2>2 DEF Consider
    <3>2. QED BY <1>4, <1>6, <2>2, <3>1 DEF Stops
  <2>3. QED BY <2>1, <2>2
<1>8. CASE x \notin Heard
  <2>1. later = r BY <1>3, <1>6, <1>8 DEF Consider
  <2>2. ~Decides(x) BY <1>8 DEF Decides
  <2>3. HeardAmong(wider) = HeardAmong(seen) BY <1>8 DEF HeardAmong
  <2>4. \A i : First(i, seen) => First(i, wider) BY <2>2 DEF First
  <2> HIDE DEF later, wider
  <2>5. \A i \in seen : ~Decides(i) => \A j \in wider : j \in seen \/ ~Decides(j) BY <2>2 DEF wider
  <2>6. CASE \A i \in seen : ~Decides(i)
    <3>1. \A i \in wider : ~Decides(i) BY <2>2, <2>6 DEF wider
    <3>2. ~\E i : First(i, seen) BY <2>6 DEF First
    <3>3. QED BY <1>7, <2>1, <2>3, <3>1, <3>2 DEF Evaluated, later, wider
  <2>7. CASE \E i \in seen : Decides(i)
    <3>1. QED BY <1>7, <2>1, <2>4, <2>7 DEF Evaluated, later, wider
  <2>8. QED BY <2>6, <2>7
<1>9. CASE x \in Heard
  <2>1. /\ later.actions = r.actions \o own
        /\ later.terminal = IF r.terminal = 0 /\ hasTerminal(own) THEN x ELSE r.terminal
    BY <1>3, <1>6, <1>9 DEF Consider
  <2>2. Decides(x) <=> hasTerminal(own) BY <1>9 DEF Decides
  <2>3. HeardAmong(seen) = HeardBefore(x) BY <1>2 DEF HeardAmong, HeardBefore
  <2>4. HeardAmong(wider) = HeardAmong(seen) \cup {x} BY <1>9 DEF HeardAmong
  <2>5. ActionsOf(HeardAmong(wider)) = ActionsOf(HeardAmong(seen)) \cup Range(own) BY <2>4 DEF ActionsOf
  <2> HIDE DEF later, wider, own, n
  <2> DEFINE S == STRING
  <2> DEFINE heard == r.actions
  <2>10. own \in Seq(S) /\ heard \in Seq(S) BY <1>1
  <2>11. later.actions = heard \o own /\ (~hasTerminal(r.actions) => ~hasTerminal(heard)) BY <2>1
  <2> HIDE DEF S, heard
  <2>6. CASE \E i : First(i, seen) /\ r.terminal = i /\ RoutedBy(r.actions, i)
    <3>1. PICK i : First(i, seen) /\ r.terminal = i /\ RoutedBy(r.actions, i) BY <2>6
    <3>2. i \in seen /\ i # 0 BY <3>1 DEF First
    <3>3. First(i, wider)
      <4>1. Before(i, x) BY <3>2
      <4>2. QED BY <3>1, <4>1 DEF First, wider
    <3>4. later.terminal = i BY <2>1, <3>1, <3>2
    <3>5. RoutedBy(later.actions, i)
      <4>1. PICK p, q : /\ FirstAt(r.actions, p) /\ FirstAt(document[i].actions, q)
                        /\ r.actions[p] = document[i].actions[q]
                        /\ Front(r.actions, p) = Front(document[i].actions, q) \cup ActionsOf(HeardBefore(i))
        BY <3>1 DEF RoutedBy
      <4>2. /\ FirstAt(later.actions, p) /\ later.actions[p] = r.actions[p]
            /\ Front(later.actions, p) = Front(r.actions, p)
        <5>1. FirstAt(heard, p) BY <4>1 DEF heard
        <5>2. /\ FirstAt(heard \o own, p) /\ (heard \o own)[p] = heard[p]
              /\ Front(heard \o own, p) = Front(heard, p)
          BY <2>10, <5>1, FirstKept
        <5>3. QED BY <2>11, <5>2 DEF heard
      <4>3. QED BY <4>1, <4>2 DEF RoutedBy
    <3>6. QED BY <1>7, <3>3, <3>4, <3>5 DEF Evaluated, later, wider
  <2>7. CASE /\ \A i \in seen : ~Decides(i)
             /\ r.terminal = 0 /\ ~hasTerminal(r.actions) /\ Range(r.actions) = ActionsOf(HeardAmong(seen))
    <3>1. CASE hasTerminal(own)
      <4>1. First(x, wider) BY <2>2, <2>7, <3>1 DEF First, wider
      <4>2. later.terminal = x BY <2>1, <2>7, <3>1
      <4>3. RoutedBy(later.actions, x)
        <5>1. PICK q : FirstAt(own, q) BY <1>1, <3>1, FirstExists
        <5>2. PICK p : /\ FirstAt(heard \o own, p) /\ (heard \o own)[p] = own[q]
                       /\ Front(heard \o own, p) = Range(heard) \cup Front(own, q)
          <6>1. ~hasTerminal(heard) BY <2>7, <2>11
          <6>2. IsShifted(heard, own, q) BY <2>10, <5>1, <6>1, FirstShifted
          <6>3. QED BY <6>2 DEF IsShifted
        <5>3. Range(r.actions) = ActionsOf(HeardBefore(x)) BY <2>3, <2>7
        <5>4. QED BY <2>11, <5>1, <5>2, <5>3 DEF RoutedBy, own, heard
      <4>4. QED BY <1>7, <4>1, <4>2, <4>3 DEF Evaluated, later, wider
    <3>2. CASE ~hasTerminal(own)
      <4>1. \A i \in wider : ~Decides(i) BY <2>2, <2>7, <3>2 DEF wider
      <4>2. later.terminal = 0 BY <2>1, <2>7, <3>2
      <4>3. Range(later.actions) = Range(r.actions) \cup Range(own) BY <1>1, <2>1, ConcatFacts
      <4>4. ~hasTerminal(later.actions) BY <2>7, <3>2, <4>3 DEF hasTerminal
      <4>5. Range(later.actions) = ActionsOf(HeardAmong(wider)) BY <2>5, <2>7, <4>3
      <4>6. QED BY <1>7, <4>1, <4>2, <4>4, <4>5 DEF Evaluated, later, wider
    <3>3. QED BY <3>1, <3>2
  <2>8. QED BY <2>6, <2>7 DEF Evaluated
<1>10. QED BY <1>8, <1>9

(* After the last rule.                                                       *)
LEMMA EvaluatedAll ==
  ASSUME EvaluationInv
  PROVE  EvaluatePolicy \in Results /\ Evaluated(EvaluatePolicy, 1 .. Len(document))
<1> DEFINE n == Len(document)
<1>1. PICK run : /\ run \in [0 .. n -> Results] /\ EvaluatePolicy = run[n] /\ run[0] = NoResult
                 /\ \A k \in 1 .. n : run[k] = Consider(run[k - 1], Sorted[k])
  BY ResultsExist
<1>2. n \in Nat BY RuleFacts
<1> DEFINE P == {k \in 0 .. n : SeenTo(k) \subseteq 1 .. n /\ Evaluated(run[k], SeenTo(k))}
<1>3. 0 \in P
  <2>1. SeenTo(0) = {} BY SeenFacts
  <2>2. Evaluated(run[0], SeenTo(0)) BY <1>1, <2>1, EvaluatedNone
  <2>3. QED BY <1>2, <2>1, <2>2
<1>4. ASSUME NEW k \in 0 .. n, k \in P, k # n PROVE k + 1 \in P
  <2>1. PICK m \in 1 .. n : m = k + 1 /\ m - 1 = k BY <1>2, <1>4
  <2>2. SeenTo(k) \subseteq 1 .. n /\ Evaluated(run[k], SeenTo(k)) BY <1>4
  <2>3. /\ Sorted[m] \in 1 .. n /\ SeenTo(m) = SeenTo(k) \cup {Sorted[m]}
        /\ \A i \in 1 .. n : i \in SeenTo(k) <=> Before(i, Sorted[m])
    BY <2>1, SeenFacts
  <2>4. Sorted[m] \notin SeenTo(k)
    <3>1. ~Before(Sorted[m], Sorted[m]) BY <2>3, OrderFacts DEF StrictOrder
    <3>2. QED BY <2>3, <3>1
  <2>5. run[m] = Consider(run[k], Sorted[m]) /\ run[k] \in Results BY <1>1, <2>1
  <2>6. Evaluated(run[m], SeenTo(m)) BY <2>2, <2>3, <2>4, <2>5, EvaluatedStep
  <2>7. SeenTo(m) \subseteq 1 .. n BY <2>2, <2>3
  <2>8. m \in 0 .. n BY <1>2
  <2>9. QED BY <2>1, <2>6, <2>7, <2>8
<1>5. n \in P
  <2> HIDE DEF P, n
  <2>1. \A k \in 0 .. n : k \in P BY <1>2, <1>3, <1>4, Induction
  <2>2. QED BY <1>2, <2>1
<1>6. Evaluated(run[n], SeenTo(n)) BY <1>5
<1>7. SeenTo(n) = 1 .. n /\ run[n] \in Results BY <1>1, <1>2, SeenFacts
<1>8. QED BY <1>1, <1>6, <1>7
-----------------------------------------------------------------------------
(* What the last result says is what RoutedByRank says.                       *)
LEMMA RoutedRightly == EvaluationInv => RoutedByRank
<1> SUFFICES ASSUME EvaluationInv PROVE RoutedByRank OBVIOUS
<1> DEFINE n == Len(document)
           r == EvaluatePolicy
           Deciding == {i \in Heard : hasTerminal(document[i].actions)}
<1>1. r \in Results /\ Evaluated(r, 1 .. n) BY EvaluatedAll
<1>2. Heard \subseteq 1 .. n BY MatchingFacts
<1>3. \A i : i \in Deciding <=> Decides(i) BY DEF Decides
<1>4. r.actions \in Seq(STRING) BY <1>1 DEF Results
<1> HIDE DEF r
<1>5. CASE /\ \A i \in 1 .. n : ~Decides(i)
           /\ ~hasTerminal(r.actions)
  <2>1. Deciding = {} BY <1>2, <1>3, <1>5
  <2>2. Decision.route = "none" BY <1>5 DEF Decision, r
  <2>3. QED BY <2>1, <2>2 DEF RoutedByRank
<1>6. CASE \E i : First(i, 1 .. n) /\ r.terminal = i /\ RoutedBy(r.actions, i)
  <2>1. PICK i : First(i, 1 .. n) /\ r.terminal = i /\ RoutedBy(r.actions, i) BY <1>6
  <2> DEFINE own == document[i].actions
             IsFirst(k) == k \in Deciding /\ \A j \in Deciding : j # k => Before(k, j)
             TerminalAt(s, k) == k \in DOMAIN s /\ s[k] \in Terminal /\ \A m \in 1 .. (k - 1) : s[m] \notin Terminal
  <2>2. i \in 1 .. n /\ i \in Deciding BY <1>3, <2>1 DEF First
  <2>3. IsFirst(i) BY <1>2, <1>3, <2>1, <2>2 DEF First
  <2>4. ASSUME NEW k, IsFirst(k) PROVE k = i
    <3>1. SUFFICES ASSUME k # i PROVE FALSE OBVIOUS
    <3>2. k \in 1 .. n /\ Before(k, i) /\ Before(i, k) BY <1>2, <2>2, <2>3, <2>4, <3>1
    <3>3. <<k, i>> \in Order /\ <<i, k>> \in Order BY <2>2, <3>2, OrderFacts
    <3>4. <<i, i>> \in Order BY <2>2, <3>2, <3>3, OrderFacts DEF StrictOrder
    <3>5. QED BY <2>2, <3>4, OrderFacts DEF StrictOrder
  <2> DEFINE chosen == CHOOSE k \in Deciding : \A j \in Deciding : j # k => Before(k, j)
  <2>5. chosen = i
    <3>1. IsFirst(chosen) BY <2>3
    <3> HIDE DEF IsFirst, chosen
    <3>2. QED BY <2>4, <3>1
  <2>6. own \in Seq(STRING) /\ DOMAIN own = 1 .. Len(own) /\ DOMAIN r.actions = 1 .. Len(r.actions)
    BY <1>4, <2>2, RuleFacts, RangeFacts
  <2>7. PICK p, q : /\ FirstAt(r.actions, p) /\ FirstAt(own, q)
                    /\ r.actions[p] = own[q]
                    /\ Front(r.actions, p) = Front(own, q) \cup ActionsOf(HeardBefore(i))
    BY <2>1 DEF RoutedBy
  <2> HIDE DEF own, n
  <2>8. \A s, k : DOMAIN s = 1 .. Len(s) => (TerminalAt(s, k) <=> FirstAt(s, k)) BY DEF FirstAt
  <2>9. ASSUME NEW s, DOMAIN s = 1 .. Len(s), NEW k, FirstAt(s, k)
        PROVE  k = CHOOSE m \in DOMAIN s : s[m] \in Terminal /\ \A l \in 1 .. (m - 1) : s[l] \notin Terminal
    <3> DEFINE c == CHOOSE m \in DOMAIN s : s[m] \in Terminal /\ \A l \in 1 .. (m - 1) : s[l] \notin Terminal
    <3>1. TerminalAt(s, k) BY <2>8, <2>9
    <3>2. TerminalAt(s, c) BY <3>1
    <3> HIDE DEF c, TerminalAt
    <3>3. FirstAt(s, c) BY <2>8, <2>9, <3>2
    <3>4. k = c BY <2>9, <3>3, FirstUnique
    <3>5. QED BY <3>4 DEF c
  <2> DEFINE last == CHOOSE m \in DOMAIN own : own[m] \in Terminal /\ \A l \in 1 .. (m - 1) : own[l] \notin Terminal
             first == CHOOSE m \in DOMAIN r.actions : /\ r.actions[m] \in Terminal
                                                      /\ \A l \in 1 .. (m - 1) : r.actions[l] \notin Terminal
  <2>10. last = q BY <2>6, <2>7, <2>9
  <2>11. first = p BY <2>6, <2>7, <2>9
  <2>12. p \in 1 .. Len(r.actions) /\ q \in 1 .. Len(own) /\ r.actions[p] \in Terminal BY <2>7 DEF FirstAt
  <2>13. hasTerminal(r.actions) BY <1>4, <2>12, RangeFacts
  <2> DEFINE S == STRING
  <2>14. r.actions \in Seq(S) /\ own \in Seq(S) BY <1>4, <2>6
  <2> HIDE DEF S
  <2>15. Range(SubSeq(r.actions, 1, p - 1)) = Front(r.actions, p) BY <2>12, <2>14, FrontRange
  <2>16. Range(SubSeq(own, 1, q - 1)) = Front(own, q) BY <2>12, <2>14, FrontRange
  <2>17. routeActions(r.actions) = [route |-> r.actions[first], modifiers |-> Range(SubSeq(r.actions, 1, first - 1))]
    BY DEF routeActions
  <2> HIDE DEF first, last, chosen
  <2>18. routeActions(r.actions) = [route |-> own[q], modifiers |-> Front(own, q) \cup ActionsOf(HeardBefore(i))]
    BY <2>7, <2>11, <2>15, <2>17
  <2>19. Decision = [rule |-> i, route |-> own[q], modifiers |-> Front(own, q) \cup ActionsOf(HeardBefore(i))]
    BY <2>1, <2>13, <2>18 DEF Decision, r
  <2>20. /\ Decision.rule = chosen /\ Decision.route = own[last]
         /\ Decision.modifiers = Range(SubSeq(own, 1, last - 1)) \cup
              UNION {Range(document[j].actions) : j \in {k \in Heard : Before(k, chosen)}}
    BY <2>5, <2>10, <2>16, <2>19 DEF ActionsOf, HeardBefore
  <2>21. Deciding # {} BY <2>2
  <2>22. own = document[chosen].actions BY <2>5 DEF own
  <2> HIDE DEF Deciding
  <2>23. QED BY <2>20, <2>21, <2>22 DEF RoutedByRank, Deciding, own, last, chosen
<1>7. QED BY <1>1, <1>5, <1>6 DEF Evaluated

(* EvaluationInv holds at the start,                                          *)
LEMMA EvaluationInvInit == EvaluationInit => EvaluationInv
<1> SUFFICES ASSUME EvaluationInit PROVE EvaluationInv OBVIOUS
<1>1. document \in Seq(Drafts) /\ DOMAIN document = {}
  <2>1. document = <<>> BY DEF EvaluationInit
  <2>2. Len(document) = 0 BY <2>1
  <2>3. QED BY <2>1, <2>2
<1>2. PICK v \in Values : sight = [host |-> v, path |-> Hidden] BY DEF EvaluationInit
<1>3. SightOK
  <2>1. DOMAIN sight = Fields /\ sight = [f \in Fields |-> sight[f]] BY <1>2 DEF Fields
  <2>2. \A f \in Fields : sight[f] \in Values \cup {Hidden} BY <1>2 DEF Fields
  <2>3. QED BY <2>1, <2>2 DEF SightOK
<1>4. QED BY <1>1, <1>3 DEF EvaluationInv

(* and every step keeps it.                                                   *)
LEMMA EvaluationInvNext == EvaluationInv /\ [EvaluationNext]_evaluationVars => EvaluationInv'
<1> SUFFICES ASSUME EvaluationInv, [EvaluationNext]_evaluationVars PROVE EvaluationInv' OBVIOUS
<1>1. ASSUME NEW rule \in Drafts, AddRule(rule) PROVE EvaluationInv'
  <2>1. document' = Append(document, rule) /\ sight' = sight /\ Valid(rule) BY <1>1 DEF AddRule
  <2>2. document \in Seq(Drafts) /\ Len(document) \in Nat BY LenProperties DEF EvaluationInv
  <2>3. /\ document' \in Seq(Drafts) /\ Len(document') = Len(document) + 1
        /\ \A i \in 1 .. Len(document') : document'[i] = IF i = Len(document') THEN rule ELSE document[i]
    BY <2>1, <2>2, AppendProperties
  <2>4. DOMAIN document' = 1 .. Len(document') /\ DOMAIN document = 1 .. Len(document) BY <2>2, <2>3, LenProperties
  <2>5. \A i \in DOMAIN document' : Valid(document'[i])
    <3>1. SUFFICES ASSUME NEW i \in 1 .. Len(document') PROVE Valid(document'[i]) BY <2>4
    <3>2. CASE i = Len(document') BY <2>1, <2>3, <3>2
    <3>3. CASE i # Len(document')
      <4>1. i \in 1 .. Len(document) /\ document'[i] = document[i] BY <2>2, <2>3, <3>3
      <4>2. QED BY <2>4, <4>1 DEF EvaluationInv
    <3>4. QED BY <3>2, <3>3
  <2>6. SightOK' BY <2>1 DEF EvaluationInv, SightOK
  <2>7. QED BY <2>3, <2>5, <2>6 DEF EvaluationInv
<1>2. ASSUME NEW v \in Values, SeePath(v) PROVE EvaluationInv'
  <2>1. document' = document /\ sight' = [sight EXCEPT !.path = v] BY <1>2 DEF SeePath
  <2>2. SightOK' BY <2>1 DEF EvaluationInv, SightOK
  <2>3. QED BY <2>1, <2>2 DEF EvaluationInv, Valid, validCondition
<1>3. CASE UNCHANGED evaluationVars
  <2>1. document' = document /\ sight' = sight BY <1>3 DEF evaluationVars
  <2>2. QED BY <2>1 DEF EvaluationInv, SightOK, Valid, validCondition
<1>4. QED BY <1>1, <1>2, <1>3 DEF EvaluationNext

(* A document decides as it is written, with what is seen of a request.       *)
THEOREM DecidesRightly == EvaluationSpec => []DecidesAsWritten
<1>1. EvaluationInv => DecidesAsWritten BY TrulyDecided, RoutedRightly DEF DecidesAsWritten
<1>2. QED BY <1>1, EvaluationInvInit, EvaluationInvNext, PTL DEF EvaluationSpec
=============================================================================
