# ProxySieve: formal models

TLA+ models of ProxySieve: of a request's way through the gateway, of the managers
it meets there (budgets, sessions, health), of the control plane that changes what
it meets, and of the goroutines beside it. Each model is translated from the Go
source and checked by TLC on small instances; the safety properties are proved with
TLAPS for every instance. Paths below are relative to `src/`.

    tlc -workers 2 -config Gateway.cfg MCGateway         # one run
    tlapm BudgetProofs.tla                               # one module of proofs

`PROJECT.json` lists the components, the runs with their configurations, a mutant
that each property has been seen to refute, the source lines behind each
definition, the hazards and the theorems.

## 1. The system

ProxySieve is a forward proxy. A client's HTTP, CONNECT or SOCKS5 request is
matched against a policy; the matching rule names a pool or a chain of upstream
proxies; one endpoint (or one per hop) is selected, dialled and relayed, and what
happened is counted. An Admin API edits the inventory, which is stored in SQLite
and published to the running gateway as numbered revisions.

| Component | State it keeps | Operations | Talks to | Hard behaviour | What makes it correct |
|---|---|---|---|---|---|
| Budget manager (`internal/budget`, `storage/sqlite/budgets.go`) | configurations by id, a used and a reserved count per budget and window, one lease per transfer in progress | Reserve, Consume, Close, Put/DeleteConfig, import, recovery | router (captures ids), relay (metered readers and writers), SQLite | streams reserve concurrently in several scopes; a clock read before the lock; crash, cancellation or store error between transfer and settlement; a window that changes under a lease | the charge of a row or a rolling window never passes the limit; what was transferred stays charged; reservations are returned |
| Session manager (`internal/session`, `storage/sqlite/sessions.go`) | sessions by id, an index from key to active session, the table behind both | Resolve (two locked sections around a selection), RecordUsage, Rotate, Delete, load | router, Admin API, SQLite | concurrent Resolves of one key, stale clocks, capacity, failed writes, restarts | memory equals table; one active session per key; a serving binding is kept; a restart accepts the table |
| Health manager (`internal/health`, `pkg/health`) | a snapshot and perhaps a probe mark per endpoint | Acquire, Observe, Release, Eligible | router (hops of a route), health checks, selectors | late reports, chains that claim hop by hop, probes of several actors | an open circuit stays open for its cooldown; a probe mark does not outlive its attempt; no endpoint is locked out |
| Health checks (`internal/app/health.go`) | endpoints being checked, pacing times | schedule, checkEndpoint, waitRate | health manager, connector | single flight under timeouts | a claim is always reported |
| Request router (`internal/app/gateway.go`) | nothing of its own; closures per route | Evaluate, Route, Retry, Observe, Complete | all of the above, runtime | values captured when the route is built are used much later | the components' properties hold of the composition |
| Runtime routing (`internal/app/runtime_routing.go`, `storage/sqlite/runtime.go`) | current snapshot, the last 100 of them, the stored revision | activate, rollback, publish, lookup | store, router | a revision retired while a request uses it; activation that fails half way | the published revision is the stored one |
| HTTP forward, CONNECT (`internal/transport`) | per connection | accept, forward, retry, relay | router, cache, recorder | retries before the first byte, upgrade of a connection | attempts bounded, each accounted once |
| SOCKS5 (`internal/transport/socks5`) | per connection | handshake, attempts, relay | as above | not joined at shutdown | as above |
| Upstream connector (`internal/upstream`) | none | dial, handshake through hops | endpoints | timeouts | none of its own |
| Policy, selectors, retry (`pkg/policy`, `pkg/routing`, `pkg/retry`) | round-robin position | pure functions | router | precedence, wrap-around | agreement with a reference definition |
| Response cache (`internal/cache`) | entries, bytes, order; files on disk | get, put, revalidate, recover | HTTP forward | replacement of a file in three renames, a crash between | bytes equal entries, one readable file per entry |
| DNS cache (`internal/cache/dns.go`) | entries, bytes | lookup | connector | concurrent misses | byte count within its limit |
| Traffic recorder (`internal/traffic`) | a queue, counters | Record, Stop, flush | transports, SQLite | stop during record, full queue, batch that fails | accepted = written + failed + waiting |
| Traffic rollups (`storage/sqlite/traffic.go`) | rows per minute, hour and day, watermarks, dirty buckets | rollup, retain | scheduler | late rows, retention before rollup | nothing counted twice or lost |
| Scheduler (`internal/scheduler`) | job list, running flag | Start, Stop, tick | rollups, refresh, checks | stop before start | no job after stop |
| Source refresh (`internal/source`) | the sources marked as being refreshed; source status | mark, fetch, reconcile | store, runtime | refreshes that meet, source edited during the fetch | one refresh of a source at a time, no mark left behind, stale results are refused |
| Event bus and alerts (`internal/events`, `internal/alert`) | history, subscribers, two queues | publish, subscribe, deliver, retry | all publishers, sinks | slow subscribers, full queues, stop during retries | every event delivered, dropped and counted, or queued; nothing sent again after its success was seen |
| Shadow policies (`internal/shadow`) | counters per generation | replace, evaluate | router | an evaluation that ends after a replacement | no count for another generation |
| TLS inspection (`internal/inspect`) | certificate cache | issue | CONNECT | little | cryptography |
| Inventory store (`storage/sqlite`, `storage/memory`) | records with revisions | create, update, delete, list | Admin API | two editors | compare-and-set |
| Admin API, accounts, audit, backup, extensions, configuration, CLI, dashboard | tables and files | request handlers | stores | little | out of scope, see section 7 |

The interactions that matter here: the router builds for each route a set of
closures. `Acquire` and `Observe` call the health manager; `Retry`, `Observe` and
`Complete` call the session manager; `Reserve` calls the budget manager. The
transport calls them in the order Acquire, dial, Observe, Complete, and on a
retryable failure Retry. None of the three managers calls another; they meet only
in these closures and in SQLite, where each has its own tables. The Admin API
changes the inventory in SQLite; an activation copies it into the revision that
requests are evaluated and routed under. Requests put events on a queue whose
worker writes them to SQLite, where the maintenance runner rolls them up; other
events go over the bus to the alert dispatcher and to streams of the Admin API.

## 2. Modules

| Module | What it is | Runs in |
|---|---|---|
| `Gateway` | requests, tunnels and chain tests from arrival to their events: route, budget, claims, attempts, retries, cached answers | `MCGateway` |
| `Budget`, `Sums` | the budget manager (`Sums`: totals over sets, also of `Rollups`), its rows, the metered streams, the operator, crashes | `MCBudget` |
| `Session` | the session manager, its table, the requests of the router, the operator, restarts | `MCSession` |
| `Health`, `Breaker` | the health manager with the attempts over hops and chains, and the abstract circuit breaker it implements | `MCHealth` |
| `Inventory`, `Bundles` | the saved inventory, the handlers that change it, the shadow manager; when a set of documents makes a revision | `MCControl` |
| `Runtime`, `Revisions` | activation, rollback, retained revisions, chain tests; the abstract register of revisions it implements | `MCControl` |
| `Sources` | sources, their edits and their refreshes | `MCControl` |
| `HealthChecks` | the calls that check endpoints, single flight and pace | `MCControl` |
| `Evaluation` | what a policy document decides | `MCControl` |
| `Scheduler` | the maintenance runner, its pages of sources, the order of the stop | `MCMaintenance` |
| `Rollups`, `Telemetry` | the four tiers of usage with rollups and retention; the recorder in front of them | `MCMaintenance`, `MCTelemetry` |
| `Events`, `Alerts` | the bus and its subscribers; the dispatcher | `MCServices` |
| `Bounded`, `Caches`, `DiskCache` | the bounded index the caches share; responses in memory and addresses; responses on disk | `MCServices` |
| `DataTheorems` | facts about data that several proofs rest on: sums over finite sets (`Total`), induction over the naturals, functions defined by recursion, sorting | |
| `BudgetProofs`, `HealthProofs`, `SessionProofs`, `GatewayProofs` | the theorems of section 5, one module per component | |
| `ServicesProofs` | the theorems about `Events` with `Alerts`, `Caches`, `DiskCache`, and the caches as `MCServices` composes them | |
| `ControlProofs` | the theorems about `Inventory`, `Runtime`, `Sources`, `HealthChecks` and `Evaluation` | |
| `MaintenanceProofs` | the theorems about `Scheduler` and `Telemetry` with `Rollups` | |

Definitions called `Bug...` are mutations: each is a plausible mistake in the code
(a guard dropped, a result not given back) put in the place of the definition that
follows it. The specification never uses them; they show that each property can
fail. Where a property is a conjunction, each of its parts has a mutation of its
own in the modules, and `PROJECT.json` lists one of them.

`MCControl`, `MCMaintenance` and `MCServices` hold several components side by side.
These share no variable (their mutual effects are abstracted to nondeterministic
environment steps in each), so the product of their behaviours shows nothing that
the behaviours of each do not: a variable `part`, chosen at the start, says which
one moves. Every action of every part fires. `Inventory` is two parts of `MCControl`:
with budgets and clients but no request compared, and with comparisons but neither
budgets nor clients, which the shadow manager never looks at.

### Gateway

`q[r]` is one request: what it is (`http`, `connect`, `socks`, or the `test` of a
chain), the route it has and the endpoints it holds, the endpoints it has excluded,
and history variables for what it tried and recorded: `answerer` is the proxy through
which the answer came, noted when it comes, and `misnamed` whether an event of the
request named another. `circuit` and `probes` are what
routes see of the health manager; `binding` is the one sticky session; `cached` the
stored answers.

| Action | Code |
|---|---|
| `Arrive`, `Rejected` | `forward`, `connect`, `Serve` up to the first route |
| `Route`, `RouteFreely`, `RouteSticky`, `ChainRoutes` | `router.Route`, `proxyExcluding`, `buildChain`, `selectChain` with their fallbacks |
| `Unaffordable` | `Available` on the route's budgets |
| `ServeCached` | the lookup before the loop |
| `TryDirect`, `Claim`, `Refuse` | `Route.Acquire`, hop by hop; a refusal releases what is held |
| `Answer`, `Fail`, `Report` | the attempt, and `Route.Observe` with whom `ChainError` blames |
| `Retry`, `GiveUp`, `ShouldRetry`, `Excluded` | `Policy.ShouldRetry`, `Wait`, `Route.Retry`, the event of each attempt |
| `Deliver`, `Splice`, `Inspect` | the response and its storage; the tunnel; the requests inside it, which run the whole of `forward`, cache included |
| `Cool` | a quarantine ends |

### Budget

`records` is the `budget_configs` table and the manager's copy, which are always
written together; `usage[b][w]` is the `budget_usage` row of budget `b` and window
start `w`. A stream slot is one metered direction of one connection, and its `pc`
follows `Reader.Read`, `Writer.Write` and `Available` of `internal/budget/io.go`:

| Action | Code |
|---|---|
| `Route` | `proxyExcluding`, `buildChain`: the ids that apply are captured |
| `Ask` | `Available` asks for one unit, Read and Write for up to `maxTransferReservation` |
| `Stamp` | `Manager.Reserve` checks the context and reads the clock, before its lock |
| `Grant`, `Refuse`, `ReserveError` | the transaction of `Store.ReserveBudgets`; a refusal halves the amount (`reserveUpTo`) until one unit is refused |
| `Transfer` | the source or destination moves bytes; nothing is written yet |
| `Consume`, `ConsumeError`, `Close`, `CloseError` | `Lease.Consume`, `Lease.Close` with the guarded UPDATEs of `moveBudgetReservation` |
| `StartUp`, `Crash` | `NewPersistent`: import once, charge what a crash left reserved |
| `PutConfig`, `DeleteConfig` | the operator |
| `Cancel`, `Tick` | the request's context ends; time passes |

Rows are minute buckets for a rolling budget, window starts for a calendar one and
row 0 for a lifetime one. `moved` and `high` are history variables: what was
really transferred, and the highest limit a budget ever had. `high` is there
because an operator may lower a limit below what is used already; the code then
refuses but, rightly, forgets nothing.

### Session

`sessions` and `index` are the manager's maps, `durable` the table. Resolve is
modelled as the code runs it: `Begin` reads the clock and captures the revision and
policy of the request's snapshot; `Reuse` or `Miss` is the first locked section;
the endpoint is selected unlocked; `Join` or `Bind` is the second. `Check`,
`Observe`, `Retry`, `Complete` and `Answer` are what the router does with the
result: they may rotate the session under another request that shares it.
`applyLocked` writes the table before the map; a refused entry (`Session.Validate`,
the partial UNIQUE index `sessions_active_key`) or a failing store leaves both
alone. `Miss` makes two transactions, and the second may fail alone.

### Health

Every call of the manager is one locked step, and a chain makes one call for each
hop. A caller reads the clock before it waits for the lock, so each call carries a
`lag`. Times are relative to the present (`left` is `OpenUntil` minus now), which
keeps the state space finite without a bound on time. Counters stop at their
thresholds and `left` at `-MaxLag`, where nothing more depends on them. Scores,
latencies and the disabled state are left out: no circuit decision reads the
former, and `SetDisabled` has no caller outside tests.

`Breaker` is the promise: an open circuit opens for `OpenDuration`, less the lag;
stays open for the whole of it whatever is reported; and closes only from half-open
(or straight from open where one success is enough). `Health!Promise` is the
refinement mapping; its property is `BreaksCircuits`.

### The control plane

`Inventory` separates what a handler checks from what it writes: `job` is the
holder of `routingMu` between the two. Handlers without the lock (creation of
proxies and clients, imports) run in between; the store may fail, and the process
may end anywhere. `Bundles` has the configuration check in one place, so that the
handlers' checks (`validatePool`, the references of policies and chains) can be
compared with what an activation will demand (`Activatable`). The shadow manager is
in the same module because its configurations are: `evaluations` are those that
run without its lock, and `generation` is how a late one is told apart.

`Runtime` knows of a bundle only its one chain and whether the configuration check
accepts it. `Compile`, `StoreActivates` and `Publish` are the three steps of an
activation under `runtimeControl.mu`; the process may end between any two.
`Evaluate` and `Route` of a request are apart, with activations in between.

`Sources` keeps revisions because the code compares them: a refresh marks its source
in `active` (`Begin`), reads it and may refuse it (`ReadSource`, `RollBack`), fetches,
reconciles in one transaction that finds the revision it started with or fails, and
takes the mark away (`EndRefresh`, the deferred `end`). The marks are a set beside the
calls, as in the code: one could be left behind, or removed for another call. `renewed` marks a refresh that met a deletion and a new
creation under the same id, where revisions start over and match.

`HealthChecks` keeps times relative to the present: `nextGlobal` and `nextPools` are
how far the reserved starts lie ahead, `sinceStart` and `sinceMember` observe how long
ago the last ones were.

`Evaluation` has a document that grows by valid rules and a request of which the
path is hidden at first. A condition is a tree of records; `Height` gives the levels
below its root, and a document deeper than `MaxDepth` is refused. `matchCondition`,
`validCondition` and `Holds` are functions on the trees that are defined by recursion.
`Sorted` puts the rules in order and `EvaluatePolicy` folds over them as the code does;
`RoutedByRank` says the same without an order of evaluation, and `Holds` says what a
condition means once everything is known.

### Maintenance and services

`Scheduler` abstracts a refresh to its effect on what is due. `Rollups` counts
events per minute; `dirtyMinutes`, `dirtyHours` and `dirtyDays` are the tables the
triggers of migration 18 write; like these, a retention marks the buckets of the rows it
deletes and no others. `Telemetry` puts the queue, the batches and the
stop of `traffic.Async` in front. `Events` numbers events in the order of their
publication, so that a hole in a stream can be seen. `Alerts` has one action for each
case of each select of the dispatcher's goroutines; an answer may be lost or late
(`Send`), so `sent` keeps apart what receivers answered with success and what the
dispatcher saw of it. `DiskCache` has one action for
each rename of `Disk.replace` and lets the process end, or the rename fail, at each;
`Recovered` is what the next start's `recoverTemporary` makes of the files, `Loaded` the
index its `load` makes of a listing of them, file by file in any order; `strays` are keys whose temporary file could not be moved or removed.

## 3. Runs

| Run | Instance | Shows |
|---|---|---|
| `budget_safety` | 2 streams, 2 budgets, one that changes between a lifetime limit of 1 and a calendar limit of 2 and one that comes and goes; chunks of 1 or 2; crashes; one instant; streams symmetric | `TypeOK`, `RowWithinLimit`, `NothingElseReserved`, `NoUndershoot`, `OnlyOperatorCreates` |
| `budget_rolling` | 2 streams, 1 rolling budget of limit 2 and length 2 over two-tick buckets, four instants, cancelled requests | `RollingWithinLimit`, `ReservedBacksLeases`, `UsedMonotone`, `Settles` |
| `session_store` | 2 requests, 2 keys, 4 ids, capacity 2, policies without limit or with one request, two revisions; the store and the selection may fail, operators, crashes | `TypeOK`, `MemoryIsDurable`, `IndexExact`, `Affinity` |
| `session_clock` | 2 requests, 2 keys, 4 ids, capacity 2, policies that expire after one tick or one idle tick, three instants, operators, crashes | `WithinCapacity`, `Reloadable`, `History` |
| `health` | 2 attempts over `<<e1>>` and the chain `<<e2, e1>>`, thresholds 2 and 2, cooldown 1, lag up to 1 | `TypeOK`, `Coherent`, `ProbesBacked`, `BreaksCircuits`, `NeverLockedOut` |
| `gateway` | 2 symmetric requests, 3 endpoints, a pool of two with a fallback of one, a chain of two hops with a fallback chain over the same endpoints, one metered endpoint, 3 attempts | `ProbesReturned`, `RetryElsewhere`, `AttemptsAccounted`, `CachedByAnswerer` |
| `control` | inventory: 1 endpoint, 2 pools that may be each other's fallback and the hops of a chain, 1 policy, 2 shadows of which one may be saved, 1 budget, 1 client (these two apart from comparisons); runtime: 3 revisions of which 2 are retained, 2 documents of the chain, 1 request; sources: 1 source with 3 revisions and 2 documents, 2 refreshes, 2 endpoints; checks: 2 endpoints in 2 pools, 2 callers, paces 1 and 3; policies: documents of two rules out of those over six trees of up to three levels, of which one has two forms and one is too deep; two values of host and path | `InventorySound`, `RevisionsAgree`, `RevisionsAdvance`, `RefreshesAreCurrent`, `SingleFlight`, `MarksAreCalls`, `Paced`, `DecidesAsWritten` |
| `maintenance` | runner: 4 sources in pages of 2, one page and one refresh a run; telemetry: hours of 2 minutes, days of 4, twelve minutes, 2 events, a queue and batches of 2, runs at three times, settings that keep each tier longer or nothing | `QuietAfterStop`, `EventsAccounted`, `RetentionAdvances`, `NothingWaitsForEver` |
| `services` | alerts: 1 subscriber allowed beside two that want it, streams and queues of 1, 2 events, 1 rule, 1 webhook, 1 worker, 2 attempts, 2 edits; caches: 3 keys of 2 hosts, 2 names, 2 lookups, 2 entries, 3 bytes; disk: 3 puts | `AlertsSound`, `CachesSound`, `StopJoins` |

Why these bounds are enough to make the cases happen:

- *Two streams and chunks of two* are the least with which one stream's reservation
  makes another halve its amount and succeed, or be refused. In `budget_safety` the
  captured scopes differ between a stream routed before and after an operator's
  change, so one transaction holds leases in two budgets while the other holds one.
  `MaxMoved` (2 there, 1 in `budget_rolling`) bounds only the history variable.
- *Four instants with two-tick buckets* let a bucket leave the rolling window within
  the run, and the first instant falls late in its bucket: the cutoff must be
  truncated (the mutant of `Counted` shows it). `Start` keeps every window clear of
  the lifetime row 0.
- *Four ids for a capacity of two* let two requests create over evictions without
  running out of ids nobody has seen; two requests of one key are what the two
  locked sections of Resolve are about, and two keys what eviction is about.
- *A chain that shares its last hop with a single-hop route* is refused half way, is
  probing one hop while another attempt probes the other, and reports hop by hop.
- *Three attempts over three endpoints* let a retry find nothing left, find the
  failed endpoint again in a fallback pool and in a fallback chain, and give up with
  attempts to spare. A second request makes claims fail and sessions change hands.
- *Two pools* are enough for a cycle of fallbacks of either length and for a chain
  whose hops share an endpoint through a fallback. *Two shadows with room for one* and
  two generations let an evaluation outlive its configuration and its id.
- *Two retained of three revisions* let a request outlive its snapshot.
- *Events of minutes 0 and 1* fall into one hour and one day, the one of minute 4
  into others; runs at 2, 7 and 11 come before and after each tier's age.
- *Streams and queues of one* overflow with two events. *Three puts of sizes 1 and 2
  under 3 bytes* replace, evict and are refused.

`CHECK_DEADLOCK` is on for budgets, sessions and health, which never stop. It is off
for the others: a request that has ended, a process that was stopped or the bounds on
edits, events and revisions end a behaviour there.

Three more runs refute what a document says; they are section 6.

### Fairness

`Budget` assumes weak fairness of `Settle(s)`: the steps a stream's goroutine takes
unaided, each of which only waits for a mutex and a SQLite transaction with a
timeout. Reads, writes, operators, crashes and the clock are not fair. `Settles`
therefore says that a stream which asks or has transferred gets on, whatever the
others do. `Health` assumes that time passes and that every attempt progresses,
because dials, exchanges and checks all have deadlines; `NeverLockedOut` rests on
both.

`Scheduler` assumes that the runner's goroutine is scheduled (weak fairness of its
steps) and that the list of sources and the visit of each, which may fail or time
out, succeed again and again if they are tried again and again (strong fairness of
`ListPage` and `VisitNext`): a store that never answers refreshes nothing.
`NoSourceStarves` says that then every source that stays due is tried. `Telemetry`
and `Alerts` assume weak fairness of each goroutine: every wait in them is a select
that also waits for the stop, or a call with a timeout. Operators, publishers,
crashes and edits are never fair. `StopEnds` and `StopJoins` are what is shown.
`Gateway`, `Session` and the control plane state safety only.

## 4. Properties worth a word

- `RowWithinLimit`: no interleaving of streams, configuration changes and restarts
  brings a row above the highest limit its budget had. It needs every scope checked
  and updated in one transaction, and reservations counted with use.
- `RollingWithinLimit`: the same for every window of a rolling budget that ends with
  a minute, although a stream's stamp may be older than another's reservation. Its
  rows are the minutes that begin within the length of the window. If that is whole
  minutes (`rolling_seconds` may be any number from 60 on), these are the rows a
  reservation in that minute counts. Otherwise two reservations in one minute may have
  different cutoffs, the later of which leaves out a minute the earlier counted: the
  rows that overlap a window of 61 seconds may together hold more than the limit.
  `docs/budgets.md` promises minute buckets and no more.
- `NoUndershoot`: what was transferred is charged in the row of its lease, over
  crashes. It fails if the store may fail (section 6), so `budget_safety` has none
  of that.
- `NothingElseReserved`: without cancellation and store errors nothing but leases is
  reserved. With them reservations may stay behind (section 6), and only
  `ReservedBacksLeases` holds: every live lease finds its row reserved, so the guard of
  the UPDATEs never refuses what a stream has reserved.
- `IndexExact`: the index names active sessions of its key, and names every one of
  them. The second half is what the loops of Rotate and Delete rest on, and what the
  two transactions of `Miss` could break.
- `Affinity`: a Resolve never takes a binding from its key that still serves.
- `Reloadable`: a gateway that crashes at any moment starts again. It rests on
  `Session.Validate` being applied at every write, since the clock read before the
  lock can be older than the session's creation.
- `ProbesBacked`, `NeverLockedOut`, `ProbesReturned`: a mark in `Manager.probes` that
  nobody would remove is the end of an endpoint until the process restarts. `Health`
  shows it of the manager with late clocks, `Gateway` of every way a request can end.
- `RetryElsewhere`: exclusions are collected in closures that capture one another,
  over pools, fallbacks, chains and sessions. The one exception is written into it: a
  retry that finds its key bound anew by another request takes that binding without
  asking whether it is excluded.
- `AttemptsAccounted`: one event per attempt on every path out of the loop, and the
  body's bytes in one of them. A retry is only made when nothing of the body was
  read, which is what the second part rests on.
- `CachedByAnswerer`: the route's closures outlive the attempt and a retry replaces the
  route, so the key of a stored answer and the names in the events are computed from
  another route than the request began with. Both are compared with who answered.
- `InventorySound`: `RefsSound` over handlers that check and write apart, `Activatable`
  over handlers' checks against the configuration check, `SamplesOfConfig` over
  evaluations that end late.
- `RevisionsAgree`, `RevisionsAdvance`: `Runtime` implements `Revisions`. A request is
  never routed by another revision than it was evaluated under, and is refused for
  its age only after as many activations as are retained, because memory is pruned
  by the same rule as the table.
- `SingleFlight`, `MarksAreCalls`: an operator's refresh and the scheduler's meet at the
  same map of sources being fetched, and the calls of several checkers at the map of
  endpoints being checked. A mark nobody removes would end the refreshes or checks, and
  one removed early would let a second in; both properties therefore say that the marks
  are those of the calls that run, on every way a call may end.
- `RefreshesAreCurrent`: an edit or a disabling that has returned is never overtaken
  by a fetch it met, nor a refresh's time by an edit that read it earlier.
- `DecidesAsWritten`: a rule that matches while a part of the request is hidden would
  match whatever is hidden; negation is where this goes wrong. It does not say that
  a request is routed the same once more of it is seen: a rule that blocks a path
  is passed over in a tunnel.
- `EventsAccounted`, `RetentionAdvances`: what the queue accepted is written or
  counted failed; what is written is stored once; no query counts it twice; and a
  retention loses nothing of what is marked. That it loses what is not marked is
  section 6.
- `AlertsSound`: an event the bus gave the dispatcher, and a task it made of it, is
  always somewhere or counted; once the dispatcher has seen a receiver answer an event
  with success, it does not send it there again. A receiver may well answer twice: a
  success that is lost or late is retried (`docs/alerts.md:44`), which is what the
  Idempotency-Key is for.
- `CachesSound`: whatever a crash or a failed rename leaves in the directory, the
  next start finds what the last Put stored, and never what it replaced.

## 5. Proofs

TLAPS proves the following for every value of the constants that satisfies the named
assumptions: `BudgetAssumption`, `HealthAssumption`, `SessionAssumption`,
`RuntimeAssumption`, `GatewayAssumption`, `SourcesAssumption`, `ChecksAssumption`,
`SchedulerAssumption`, `RollupsAssumption`, `TelemetryAssumption`, `EventsAssumption`,
`AlertsAssumption`, `BoundedAssumption`, `CachesAssumption`, `DiskAssumption`,
`ConditionsAssumption`, `DraftsAssumption` and, for the inventory, `DocsAssumption`. They say what the
constants are (sets of documents of the right shape, positive thresholds) and little
more; TLC evaluates each on every run that uses its module. Six carry weight:

- `BudgetAssumption`: the set of streams is finite (`IsFiniteSet(Streams)`), for sums
  over it are taken, and every window ends before the first instant, so that row 0 is
  the lifetime row alone. Time is Unix time, and windows are a month or, rolling, 365 days at most.
- `RuntimeAssumption`: `Retained > 1`. The code retains 100. With 1 the store would
  prune the revision that still runs while its successor is being activated.
- `DocsAssumption`: `MaxShadows <= MaxGeneration`, so that a restart, which gives each
  saved shadow a generation, stays within the bound.
- `RollupsAssumption`: a day is a multiple of an hour, and an hour of a minute, as in
  the code (`Truncate` by 60 minutes and 24 hours of UTC); a raw setting is at least one
  minute, which is what the configuration requires.
- `DiskAssumption`: the keys are finitely many. A key on disk is a SHA-256 digest; a
  directory then holds finitely many files, and a start reads all of them.
- `ConditionsAssumption`: a condition is a finite tree whose `Height` is one more than
  that of the highest it holds, and it has at most one `not`. The decoder builds
  nothing else.

| Theorem | Statement | Argument |
|---|---|---|
| `BudgetProofs!TypeCorrect` | `Spec => []TypeOK` | `TypeOK` is inductive once `LeaseShape` is part of it: that pending bytes are within the lease, and that only a stream between grant and close holds one, keeps `remaining - pending` natural; the guard `Covered` of the UPDATEs keeps the rows natural |
| `BudgetProofs!UsedNeverFalls` | `Spec => UsedMonotone` | one step per action, from the type invariant |
| `BudgetProofs!HardLimit` | `Spec => []RowWithinLimit` | inductive with `TypeOK` and the fact that every configuration in force has a limit of at most `high`. The charge of a row changes only in `Grant`, which adds what `Fits` admits: for a rolling budget the row is one of the rows counted, hence not more than their sum (`ChargeCoversRow`, from `DataTheorems`); `Consume` moves within the charge, `Close` lowers it, recovery turns reserved into used |
| `BudgetProofs!RollingLimit` | `Spec => []RollingWithinLimit` | `RollingInv`: with `HardLimit`'s invariant, that rows of rolling budgets are charged at starts of minutes only. A window that holds the row a grant charges is then part of what the grant counted, but for rows that are never charged (`WindowCounted`); a window that does not hold it does not change |
| `BudgetProofs!LeasesAreBacked` | `Spec => []ReservedBacksLeases` | inductive with `DownIsQuiet` (nobody holds a lease while the manager is down). What the leases hold in a row is a sum over streams, of which a step changes one term (`LeasedStep`) by what it does to the row (`LeaseStep`), or gives the lease up and leaves the row |
| `BudgetProofs!NothingStaysReserved` | `Faults ⊆ {"crash"}`: `Spec => []NothingElseReserved` | `ExactInv`: the same with equality, and that nobody is cancelled; the steps that give a lease up without returning it need a cancelled request or a store that fails |
| `BudgetProofs!NothingIsForgotten` | `"store" ∉ Faults`: `Spec => []NoUndershoot` | `SpentInv`: what was moved through a row *and* what its leases have still to spare is within its charge, for a Close returns the latter. It needs `BackedInv`, that bytes are pending between Transfer and Consume only, and that with a store that answers only a cancelled request fails to consume; its Close then fails as well |
| `BudgetProofs!ImportsOnce` | `Spec => OnlyOperatorCreates` | from the type invariant, action by action |
| `HealthProofs!TypeCorrect` | `Spec => []TypeOK` | with the shape of attempts: a claiming one has a hop to claim, none probes what it does not hold |
| `HealthProofs!Coherence` | `Spec => []Coherent` | `PhaseKept` for each of the five things that can happen to a snapshot, and the mark of an endpoint is removed by the step that leaves its half-open phase |
| `HealthProofs!ProbesAreBacked` | `Spec => []ProbesBacked` | inductive with `TypeOK`: the step that makes a mark makes its owner; the owner gives it up only by reporting, which removes the mark |
| `HealthProofs!BreakerImplemented` | `Spec => BreaksCircuits` | initial states map to initial states (Breaker's `Init`), and each step moves every endpoint by a step of Breaker or leaves it (`StepMoves`); `Coherent` gives the cases of `Observed` |
| `SessionProofs!IndexAgrees` | `Spec => []IndexExact` | the actions change the maps in four ways: a session is touched, sessions are rotated or removed, one is created, all are loaded (`Moves`; `NextMoves` maps each action to one). `MapsInv` is kept by each of the four: the two halves of `IndexExact` need each other and the agreement of memory and table, for the UNIQUE index compares with the table, and Rotate and Delete go over the index |
| `SessionProofs!TypeCorrect`, `CapacityKept`, `MemoryKept` | `Spec => []TypeOK`, `[]WithinCapacity`, `[]MemoryIsDurable` | parts of the same invariant: a session is created only where `Room` is not empty, and every write goes to both maps or to neither |
| `SessionProofs!RestartAccepts` | `Spec => []Reloadable` | from `MapsInv`: what the load refuses is a record that `Validate` refuses, or two active sessions of one key, which the index rules out |
| `SessionProofs!AffinityKept`, `HistoryKept` | `Spec => Affinity`, `Spec => History` | from the invariant and `NextMoves` |
| `ControlProofs!RevisionsKept` | `RuntimeSpec => []RevisionsAgree` | `RevisionsInv` follows an activation: memory and table name the same revision but between the write and the publication, where the table is one ahead and holds the bundle that will be published; what memory retains of what the table still has is the same |
| `ControlProofs!RevisionsFollow` | `RuntimeSpec => RevisionsAdvance` | `Runtime` implements `Revisions`, step by step (`StepAdvances`). With `CallsOK`: what a call was evaluated under is what its revision names in memory, and is there unless as many revisions have followed as are retained |
| `GatewayProofs!ProbesKept` | `GatewaySpec => []ProbesReturned` | inductive with the shape of requests (`HopsOK`): a request holds endpoints only while it claims or tries, and gives them up by reporting |
| `GatewayProofs!RetriesElsewhere` | `GatewaySpec => []RetryElsewhere` | `ElsewhereOK`: what was tried is excluded wherever the next route is chosen, and what a request chose itself is not among it. `BindingOK` tells a binding that was made for this attempt from one that another request made or an earlier attempt left |
| `GatewayProofs!AttemptsKept` | `GatewaySpec => []AttemptsAccounted` | `EventsOK`, `BodyOK`: events and attempts place by place in the loop; a body that was read is never sent again |
| `GatewayProofs!CacheAttributed` | `GatewaySpec => []CachedByAnswerer` | `NamedOK`: from its answer to its end a request keeps the route the answer came through, so `answerer` is its last hop; what is stored then has it in its key, and a hit of the cache compares that key with its own route |
| `ControlProofs!InventoryIsSound` | `InventorySpec => []InventorySound` | what a handler checked under `routingMu` stays true until it writes, since the handlers without the lock only add rows (`JobChecked`); so a write keeps `TablesRefer` and adds no cycle of fallbacks. `MemoryFollows`: the shadow manager compares what the table says but for the row just written; `CandidatesCurrent`: an evaluation of a current generation compares what that generation compares |
| `ControlProofs!FetchesAreSingle` | `SourcesSpec => []SingleFlight` | part of `SourcesInv`: the marks are those of the calls and no two calls have one source, so a call that finds no mark is alone and one that ends takes the mark of no other |
| `ControlProofs!RefreshesKept` | `SourcesSpec => RefreshesAreCurrent` | `FetchesOK`, `EditOK`: while a source is the one that was read, its revision is not below what was read, and at that revision it says what was read. So the comparison of revisions at the end is a comparison of documents |
| `ControlProofs!MarksKept`, `StartsPaced` | `ChecksSpec => []MarksAreCalls`, `ChecksSpec => Paced` | `ChecksInv`: the marks are those of the calls, which check different endpoints; what is left of a pace and what has passed since the last start make up the pace |
| `MaintenanceProofs!RunnerIsQuiet` | `SchedulerSpec => []QuietAfterStop` | `RunnerInv`: the store is closed only when the runner is stopped and its worker has ended or never was, and a stopped runner starts none |
| `MaintenanceProofs!EventsAreAccounted` | `TelemetrySpec => []EventsAccounted` | `TelemetryInv`. Of the recorder (`RecorderOK`): accepted and in doubt is written, failed or waiting, and after the stop nothing waits. Of the tables (`Covered`): no row shows more than was recorded in its bucket, for what is rebuilt is a sum of rows that do not; each of the seven transactions keeps it (`RollupMinuteOK` ... `RetireDaysOK`), by the decomposition of a sum into the sums of its buckets (`SumBlocks`, from `TotalFibres`). `WrittenIsStored`: the rows hold what was counted as written |
| `MaintenanceProofs!RetentionGoesForward` | `TelemetrySpec => RetentionAdvances` | each transaction is `Onward`: watermarks do not fall, and a bucket between its tier's watermark and that of the tier below is left alone, because a mark is never below the watermark of the tier its bucket is rebuilt from (`TablesOK`, `MarkFacts`) and a cut is rounded down to whole buckets of the next tier. What queries show is a sum over four spans of time; a step of the retention moves a span from one tier to the next and each bucket moved is the sum of the rows it stands for, because it was rebuilt before (`RetireRawShown`, `RetireMinutesShown`, `RetireHoursShown`); the four cuts are in order (`CutsInOrder`) |
| `ServicesProofs!AlertsHold` | `AlertsSpec => []AlertsSound` | `BusOK`: a stream is a stretch of what was published, rising and without a hole, and an open one ends with the newest event. `EventsHere`, `TasksHere`: how many events and tasks each place holds, for finite sets of listeners and workers. `FlowOK`: what is in the stream is later than what is queued, which is later than the event in the router, and no task was ever made of a later event; the router's own event has tasks only for webhooks it no longer has to select. So a new task is new (`TaskQueued`), and `TasksOK` says that a task is in one place, that an answer the dispatcher saw succeed leaves only the row to write, and that the rows of a task in delivery are failures of earlier attempts |
| `ServicesProofs!CountsKept` | `CachesSpec => []CountsExact` | `CachesInv`: the bytes of a cache are the `Total` of its entries and stay natural. What is purged, evicted or replaced is a sum apart from what stays (`TotalPartition`), so the recorded count loses exactly that; an entry enters only where `Fits`. A lookup that asked knows the name it asked for, so what it enters, however late, is an entry of its name |
| `ServicesProofs!DiskKept` | `DiskSpec => []DiskSound` | `DiskInv`, place by place of a Put: what the file, the file set aside and the index say of a key whose temporary file can be moved (`FilesOK`), that the room a Put made is still there when its entry enters (`PutOK`), and that the count covers the bytes of the entries (`Held`, `Within`). A start reads a listing in any order, with a file perhaps met twice: each file it reads leaves a partial index of the right kind (`Loads`), and what was read of a key stays right (`Agrees`), by induction on the listing (`LoadedRuns`, `LoadedOK`) |
| `ServicesProofs!CachesHold` | `ServicesSpec => []CachesSound` | the two invariants together: a step of one cache leaves the other's variables, but for the clock, which both allow to advance |
| `ControlProofs!ConditionsDefined` | `matchCondition`, `validCondition` and `Holds` satisfy their equations, for conditions of any height | `StatesExist`, `HoldsExist`, `ValidExist`: what each makes of a condition depends on lower ones only, so by induction on the height there is a function that satisfies the equations (`RecursionExists`); the three choose such a function at each condition, and any two agree below it |
| `ControlProofs!DecidesRightly` | `EvaluationSpec => []DecidesAsWritten` | `EvaluationInv` (every rule is valid, a field is hidden or has a value) implies it. For conditions by induction on the height: a decided condition is decided rightly if what it holds is (`RightlyStep`), form by form, a valid one having one form. For the route: the rules can be sorted, those considered before a rule are exactly those ahead of it (`SeenFacts`), and after each rule the result is what `Evaluated` says of the rules so far: stopped by a matching rule, nothing terminal yet and all that was heard collected, or a first terminal action with its modifiers in front of it, which no later rule changes (`EvaluatedStep`) |

`DataTheorems` holds what these rest on. The library's induction theorems take an
operator for the property, which the provers cannot instantiate; here the property is
a set of naturals (`LeastNatural`, `Induction`, from the well-foundedness of inclusion
on finite sets). From it follow that a function defined by recursion exists, over a
number of steps (`RunExists`) or over the heights of trees (`RecursionExists`), lemmas by which
a start of the cache on disk, the evaluation of a document and the functions on
conditions are shown to be defined, and that what a strict order ranks can be
sorted (`SortExists`, `SortedOnto`).

Five attempts at a proof changed a model. `RollingWithinLimit` was first stated for
every row that overlaps a window, which is false for lengths that are not whole minutes
(section 4). `RevisionsAgree` does not hold with one retained revision, which
`RuntimeAssumption` now excludes. In `Offered` and `After` two arms of a CASE overlapped:
TLC takes the first, TLA+ leaves the value open, and nothing could be proved of it.
`DiskCache` loads a directory, and `Evaluation` matches a condition and folds over the
rules, by recursive functions where they used RECURSIVE operators, of which nothing can
be proved; validity follows the code's limit of depth.

Only model-checked is liveness (`Settles`, `NeverLockedOut`, `NothingWaitsForEver`,
`StopJoins`): fairness and ENABLED are out of the provers' reach. Every invariant and
every action property that a passing run checks is proved.

## 6. Where code and documents disagree

Three runs state what a document says, and TLC refutes it:

| Run | Document | What the code does |
|---|---|---|
| `budget_store_error`: `NoUndershoot` | `docs/budgets.md:17-18`: database errors leave reservations charged or reserved | after a failed Consume, Read and Write still Close; if that succeeds the transferred bytes are neither used nor reserved |
| `rollups_loss`: `SummaryExact` | `docs/traffic-accounting.md:74`: rows are neither omitted nor counted twice as retention advances | a minute is rebuilt from raw events only while it is marked. Once it is rolled up the mark is gone; a retention whose cut lies in it deletes the rows after the cut, and a later one the raw events: the minute is in no tier any more |
| `cache_truncated`: `CacheHoldsWhole` | `docs/cache.md:16-18`: partial responses bypass storage | when a byte budget ends in the middle of a response the metered reader returns `io.EOF`, which is taken for the end of the body: what was read is stored as the whole response |

Five more are reproduced by a configuration kept beside the others:

| Configuration | Document | What the code does |
|---|---|---|
| `BudgetClose.cfg`: `CloseReturnsUnused` | `docs/budgets.md:5`: closing a lease returns unused reserved bytes | `Lease.Close` uses the request's context; once it has ended the release fails, and the bytes stay reserved until the next start charges them |
| `BudgetExpiry.cfg`: `RollingNeverExpiresEarly` | `docs/budgets.md:47`: a rolling guard never expires usage early | a lease is stamped before a blocking read; bytes that arrive after the window has passed are charged to a bucket no longer counted. (`docs/budgets.md:39-40` says that a reservation is charged to the window in which it was acquired, which is what happens) |
| `SessionConflict.cfg`: `NextRequestBinds` | `docs/sessions.md:37-41`: the next request selects a fresh endpoint | two requests share a binding that reaches its limit between the two locked sections of Resolve; the second create is refused by the unique index and the request fails |
| `SessionFailover.cfg`: `FailoverRoutes` | `PROGRESS.md:359`: one-step failover to a different endpoint | when the failure makes the endpoint ineligible, Observe has rotated the session; the retry's own Rotate returns not found and there is no failover |
| `HealthProbe.cfg`: `OneProbe` | `PROGRESS.md:354-355`: only one recovery attempt can use a quarantined endpoint | Observe and Release delete the probe mark whoever made it; a late report from before the quarantine lets a second probe in |

Two are stated in the modules as the document has them and no run checks them:
`HealthChecks!MembersPaced` (`docs/configuration.md:82-85`: probes are paced "for
endpoints in the same pool"; `CheckPool` counts a check of one pool against that pool
only, `internal/app/health.go:159`) and `DiskCache!DiskBytesExact` (the comment at
`internal/cache/disk.go:36`; a start that meets a file twice counts its bytes
twice, which errs towards eviction).

Others, without a formula:

- `docs/chains.md:36-37` says that operators test the exact active chain revision. The
  test is refused unless the saved document is active, but then runs against whatever
  is current; an activation in between is measured instead (`HealthOfThisChain` admits
  it).
- `docs/alerts.md:44` says that network errors are retried. A name that does not
  resolve is reported as `destination_denied`, which is not.
- `docs/budgets.md:62-63` says that mutations affect new reservations immediately.
  A route captures its budget ids (`internal/app/gateway.go:494`), so a tunnel that
  was routed before a budget was created is not charged for it, and one whose budget
  is deleted ends. `Route` and `ReserveError` of `Budget` model both.
- Without a store, the create in `SessionConflict.cfg` is not refused but overwrites
  the index entry of a session that is still active: nothing reaches it any more.
  `ActiveIsIndexed` is therefore stated for a manager with a store.
- An expired session counts as active until its key is asked for again, and
  `makeRoomLocked` does not evict active ones: a manager full of expired bindings
  refuses new keys (`Miss` and `Bind` where `Room` is empty).

What the models had to admit, and no document denies:

- `updatePool` does not look at the chains that use the pool: the saved inventory may
  not compile until it is changed again. `Activatable` is stated for chains that fit.
- A shadow's draft may name pools and chains that are deleted later.
- A retry whose key another request has bound anew takes that binding, even when the
  request has excluded its endpoint (`RetryElsewhere`).
- A fallback chain that shares an endpoint with the failed chain cannot be used by the
  retry; a chain failure that names no endpoint blames and excludes nobody.
- An attempt that succeeds and whose client leaves before the tunnel's reply leaves no
  event (`AttemptsAccounted` excepts it).
- A source, like a budget and a chain, that is deleted and created again starts at
  revision 1: a refresh that met both is accepted (`renewed`). Deleting a source leaves
  its id in its endpoints.
- A dispatcher the bus has closed for being slow competes with streams for one of the
  subscriber slots; what is published before it has one is counted nowhere.
- The throttle and the rewrite of a lower rule override those of a higher one
  (`decorate`: the last wins), where the route is the highest rule's.
- `http.Server.Shutdown` does not wait for tunnels; their events arrive after the
  recorder has stopped and are refused (`Telemetry`: `ErrClosed`).

## 7. Not modelled

- The budget manager's in-memory branch (the gateway always passes a store), status
  calls, and the arithmetic near 2^63, which plain comparisons guard.
- Revisions of the requests to most tables: a request with a stale revision changes
  nothing, so the models contain those that match (`Sources` compares them).
- The session manager without a store: `Persistent` is a constant of `Session`, and
  the runs set it.
- The test of a webhook and the cap of its log at 10,000 rows.
- The operators of conditions (`equals`, `suffix`, `wildcard`, `regex`, `cidr`): `want` is the set of
  values a condition accepts. The order in which selectors prefer endpoints: `Gateway`
  takes any eligible one.
- What a pool asks of an endpoint's score and latency (`MinHealthScore`, `MaxLatency`
  of `endpointEligibleForPool`): `Usable` is the circuit, the mark and the exclusions.
- What other requests do between the Resolve, Rotate and Resolve by which the router
  gives up a binding that no longer serves: `RouteSticky` of `Gateway` is one step;
  the steps are those of `Session`.
- The wait for `rateMu` after `waitRate` has read the clock: `ReserveRate` is one step,
  and a start may follow another sooner than `Paced` says by as long as the earlier
  caller waited for the lock.
- HMAC keys, certificates, header handling, relaying, formats: data that no property
  here distinguishes.
- Accounts, authentication and API keys, backup, TLS inspection, audit, extensions,
  configuration, the CLI and the dashboard: sequential request handlers or pure I/O.

## 8. Plan

The model is complete but for the lines above, and every safety property of the
passing runs has its theorem. What could come next:

1. `Scheduler`, `Alerts`: the invariants behind `StopEnds` and `StopJoins`, that what a
   stop waits for has a step of its own that is enabled. The conclusion under fairness
   stays with TLC.
2. The operators of conditions on values, and the order in which selectors prefer
   endpoints, against definitions of their own.
3. The memory stores and the revisions of the Admin API's requests, should the gateway
   come to use them.
