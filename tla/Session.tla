------------------------------ MODULE Session -------------------------------
(***************************************************************************)
(* Sticky sessions: the manager (internal/session/manager.go), its durable   *)
(* table (internal/storage/sqlite/sessions.go, migration 15) and the part of *)
(* the router that resolves, rotates and accounts a binding for one request  *)
(* (internal/app/gateway.go, proxyExcluding).  A key is an HMAC index: the   *)
(* client, the pool, the strategy and the affinity value together.           *)
(***************************************************************************)
EXTENDS Integers, FiniteSets

CONSTANTS
  Keys,         \* HMAC index keys
  Ids,          \* session ids
  NoId,         \* no session
  Endpoints,    \* proxy endpoint ids
  Requests,     \* slots for concurrent downstream requests
  Policies,     \* session policies a pool may have
  Capacity,     \* the manager's max
  Persistent,   \* the manager has a store
  MaxRevision,  \* last revision of the runtime inventory (bound)
  MaxCount,     \* the largest request and byte count, math.MaxUint64 in the code
  Amounts,      \* bytes one request may move
  MaxTime,      \* last instant (bound)
  Environment   \* which of crash, store and select failures, operator happen

\* A limit of 0 is no limit.
Policy == [ttl : Nat, idle : Nat, requests : Nat, bytes : Nat]

ASSUME SessionAssumption ==
  /\ NoId \notin Ids
  /\ IsFiniteSet(Ids)
  /\ Policies \subseteq Policy
  /\ Capacity \in Nat \ {0}
  /\ Persistent \in BOOLEAN
  /\ MaxRevision \in Nat /\ MaxCount \in Nat /\ MaxTime \in Nat
  /\ Amounts \subseteq Nat
  /\ Environment \subseteq {"crash", "store", "select", "operator"}

VARIABLES
  sessions,     \* Manager.sessions
  index,        \* Manager.index
  durable,      \* the sessions table
  now,          \* the wall clock
  runtime,      \* the active revision and the pool's session policy in it
  request       \* request slot -> its program counter and locals

vars == <<sessions, index, durable, now, runtime, request>>

Absent == [status |-> "absent"]

Idle == [pc |-> "idle"]

Init ==
  /\ sessions = [i \in Ids |-> Absent]
  /\ index = [k \in Keys |-> NoId]
  /\ durable = [i \in Ids |-> Absent]
  /\ now = 0
  /\ \E p \in Policies : runtime = [revision |-> 0, policy |-> p]
  /\ request = [r \in Requests |-> Idle]

-----------------------------------------------------------------------------
(* Sessions.                                                                *)

Present(f) == {i \in Ids : f[i] # Absent}
Active(f)  == {i \in Ids : f[i].status = "active"}

\* rotationReason: the binding no longer serves this policy and revision at t.
Stale(s, p, v, t) ==
  \/ s.status # "active"
  \/ s.policy # p
  \/ s.revision # v
  \/ (p.ttl > 0 /\ t >= s.created + p.ttl)
  \/ (p.idle > 0 /\ t >= s.used + p.idle)
  \/ (p.requests > 0 /\ s.requests >= p.requests)
  \/ (p.bytes > 0 /\ s.bytes >= p.bytes)

\* The binding of a key that Resolve may hand out again.
Live(k, p, v, t) == index[k] # NoId /\ ~Stale(sessions[index[k]], p, v, t)

\* removeLocked and the loops of Rotate and Delete over the index.
Unindexed(gone) == [k \in Keys |-> IF index[k] \in gone THEN NoId ELSE index[k]]

Without(f, gone) == [i \in Ids |-> IF i \in gone THEN Absent ELSE f[i]]

Rotated(f, gone) ==
  [i \in Ids |-> IF i \in gone THEN [f[i] EXCEPT !.status = "rotated"] ELSE f[i]]

\* makeRoomLocked: the sets of at most one id it may name for removal.
Room(f) ==
  LET Evictable == Present(f) \ Active(f)
  IN  IF Cardinality(Present(f)) < Capacity
        THEN {{}}
        ELSE {{i} : i \in {j \in Evictable : \A l \in Evictable : f[j].used <= f[l].used}}

-----------------------------------------------------------------------------
(* The sessions table.                                                      *)

BugAccepts(i, s) == TRUE                    \* no UNIQUE index, no Validate

\* Session.Validate and the partial UNIQUE index sessions_active_key.
Accepts(i, s) ==
  Persistent =>
    /\ s.used >= s.created
    /\ s.status = "active" =>
         \A j \in Active(durable) \ {i} : durable[j].key # s.key

StoreFails == Persistent /\ "store" \in Environment

\* ApplySessions fails: the entry is refused or the database is unavailable.
Rejects(i, s) == ~Accepts(i, s) \/ StoreFails

\* ApplySessions and the manager's map together: both maps become these.
Stored(f) ==
  /\ sessions' = f
  /\ durable' = IF Persistent THEN f ELSE durable

\* What NewPersistent accepts as its initial state.
Loadable(f) ==
  /\ Cardinality(Present(f)) <= Capacity
  /\ \A i \in Present(f) : f[i].used >= f[i].created
  /\ \A i, j \in Active(f) : f[i].key = f[j].key => i = j

-----------------------------------------------------------------------------
(* One request.                                                             *)

Goto(r, pc) == request' = [request EXCEPT ![r].pc = pc]
Serve(r, i, pc) == request' = [request EXCEPT ![r].pc = pc, ![r].id = i]

\* The router enters Resolve, which reads the clock before it takes the lock.
Begin(r, k) ==
  /\ request[r] = Idle
  /\ request' = [request EXCEPT ![r] =
       [pc |-> "resolve", key |-> k, policy |-> runtime.policy,
        revision |-> runtime.revision, at |-> now, id |-> NoId, again |-> FALSE]]
  /\ UNCHANGED <<sessions, index, durable, now, runtime>>

\* The first locked section finds a binding that still serves.
Reuse(r) ==
  LET q == request[r]  i == index[q.key] IN
  /\ q.pc = "resolve"
  /\ Live(q.key, q.policy, q.revision, q.at)
  /\ LET s == [sessions[i] EXCEPT !.used = q.at] IN
     \/ /\ Accepts(i, s)
        /\ Stored([sessions EXCEPT ![i] = s])
        /\ Serve(r, i, IF q.again THEN "serving" ELSE "reused")
     \/ /\ Rejects(i, s)
        /\ UNCHANGED <<sessions, durable>>
        /\ Goto(r, "failed")
  /\ UNCHANGED <<index, now, runtime>>

BugMiss(r) ==                               \* the stale binding is not rotated
  LET q == request[r] IN
  /\ q.pc = "resolve"
  /\ ~Live(q.key, q.policy, q.revision, q.at)
  /\ \E gone \in Room(sessions) :
       /\ Stored(Without(sessions, gone))
       /\ index' = [Unindexed(gone) EXCEPT ![q.key] = NoId]
       /\ Goto(r, "select")
  /\ UNCHANGED <<now, runtime>>

\* The first locked section finds none: a stale binding is rotated and leaves
\* the index, and one old session makes room.  Rotation and removal are two
\* transactions, so the second may fail alone.
Miss(r) ==
  LET q == request[r]
      stale == {index[q.key]} \ {NoId}
      f == Rotated(sessions, stale)
  IN
  /\ q.pc = "resolve"
  /\ ~Live(q.key, q.policy, q.revision, q.at)
  /\ \/ \E gone \in Room(f) :
          /\ Stored(Without(f, gone))
          /\ index' = [Unindexed(gone) EXCEPT ![q.key] = NoId]
          /\ Goto(r, "select")
     \/ /\ Room(f) = {}
        /\ Stored(f)
        /\ index' = [index EXCEPT ![q.key] = NoId]
        /\ Goto(r, "full")
     \/ /\ StoreFails
        /\ stale # {}
        /\ UNCHANGED <<sessions, durable, index>>
        /\ Goto(r, "failed")
     \/ /\ StoreFails
        /\ \E gone \in Room(f) : gone # {}
        /\ Stored(f)
        /\ index' = [index EXCEPT ![q.key] = NoId]
        /\ Goto(r, "failed")
  /\ UNCHANGED <<now, runtime>>

\* No endpoint is eligible.
SelectFails(r) ==
  /\ "select" \in Environment
  /\ request[r].pc = "select"
  /\ Goto(r, "failed")
  /\ UNCHANGED <<sessions, index, durable, now, runtime>>

\* The second locked section: another request bound the key meanwhile.
Join(r) ==
  LET q == request[r] IN
  /\ q.pc = "select"
  /\ Live(q.key, q.policy, q.revision, q.at)
  /\ Serve(r, index[q.key], IF q.again THEN "serving" ELSE "reused")
  /\ UNCHANGED <<sessions, index, durable, now, runtime>>

\* An id model.NewID may return: nobody has seen it.
Unseen == {i \in Ids : sessions[i] = Absent /\ durable[i] = Absent
                       /\ \A r \in Requests : request[r] # Idle => request[r].id # i}

\* newSession.
Created(q, e) ==
  [status |-> "active", key |-> q.key, endpoint |-> e, created |-> q.at,
   used |-> q.at, policy |-> q.policy, revision |-> q.revision,
   requests |-> 0, bytes |-> 0]

BugBind(r) ==                               \* the binding is not looked up again
  LET q == request[r] IN
  /\ q.pc = "select"
  /\ \E i \in Unseen, e \in Endpoints, gone \in Room(sessions) :
       LET s == Created(q, e) IN
       /\ Stored([Without(Rotated(sessions, {index[q.key]} \ {NoId}), gone) EXCEPT ![i] = s])
       /\ index' = [Unindexed(gone) EXCEPT ![q.key] = i]
       /\ Serve(r, i, "serving")
  /\ UNCHANGED <<now, runtime>>

BugCrowd(r) ==                              \* room is made in the first section only
  LET q == request[r] IN
  /\ q.pc = "select"
  /\ ~Live(q.key, q.policy, q.revision, q.at)
  /\ \E i \in Unseen, e \in Endpoints :
       LET s == Created(q, e) IN
       /\ Accepts(i, s)
       /\ Stored([sessions EXCEPT ![i] = s])
       /\ index' = [index EXCEPT ![q.key] = i]
       /\ Serve(r, i, "serving")
  /\ UNCHANGED <<now, runtime>>

\* The second locked section binds the key to the selected endpoint.
Bind(r) ==
  LET q == request[r] IN
  /\ q.pc = "select"
  /\ ~Live(q.key, q.policy, q.revision, q.at)
  /\ \/ \E i \in Unseen, e \in Endpoints, gone \in Room(sessions) :
          LET s == Created(q, e) IN
          \/ /\ Accepts(i, s)
             /\ Stored([Without(sessions, gone) EXCEPT ![i] = s])
             /\ index' = [Unindexed(gone) EXCEPT ![q.key] = i]
             /\ Serve(r, i, "serving")
          \/ /\ Rejects(i, s)
             /\ UNCHANGED <<sessions, durable, index>>
             /\ Goto(r, "failed")
     \/ /\ Room(sessions) = {}
        /\ UNCHANGED <<sessions, durable, index>>
        /\ Goto(r, "full")
  /\ UNCHANGED <<now, runtime>>

\* Manager.Rotate on an active session, and its two ways to fail: there is no
\* such session, or the caller's context or the store fails.
Rotate(i) ==
  /\ sessions[i].status = "active"
  /\ Stored(Rotated(sessions, {i}))
  /\ index' = Unindexed({i})

RotateFails(i) ==
  /\ (sessions[i].status # "active" \/ "store" \in Environment)
  /\ UNCHANGED <<sessions, durable, index>>

\* Resolve again, from the top.
Again(r, again) ==
  request' = [request EXCEPT ![r].pc = "resolve", ![r].at = now,
                             ![r].id = NoId, ![r].again = again]

\* The router accepts the reused endpoint, or finds it ineligible or out of
\* budget, rotates the binding and resolves once more.
Check(r) ==
  /\ request[r].pc = "reused"
  /\ \/ /\ Goto(r, "serving")
        /\ UNCHANGED <<sessions, durable, index>>
     \/ (Rotate(request[r].id) /\ Again(r, TRUE))
     \/ (RotateFails(request[r].id) /\ Goto(r, "unroutable"))
  /\ UNCHANGED <<now, runtime>>

\* Observe of a failed attempt whose endpoint is no longer eligible; the error
\* of Rotate is ignored.
Observe(r) ==
  /\ request[r].pc = "serving"
  /\ Rotate(request[r].id)
  /\ UNCHANGED <<now, runtime, request>>

\* Route.Retry, after the failed attempt was accounted: rotate the binding and
\* route again, or give up.
Retry(r) ==
  /\ request[r].pc = "recorded"
  /\ \/ (Rotate(request[r].id) /\ Again(r, FALSE))
     \/ (RotateFails(request[r].id) /\ Goto(r, "unroutable"))
  /\ UNCHANGED <<now, runtime>>

BugUnaccountable(i, n) == sessions[i] = Absent     \* counters wrap unnoticed

\* RecordUsage refuses an unknown session and a counter it cannot advance.
Unaccountable(i, n) ==
  \/ sessions[i] = Absent
  \/ sessions[i].bytes + n > MaxCount
  \/ sessions[i].requests = MaxCount

BugComplete(r) ==                           \* usage is not written through
  LET i == request[r].id IN
  /\ request[r].pc = "serving"
  /\ \E n \in Amounts :
       IF Unaccountable(i, n)
         THEN UNCHANGED sessions
         ELSE sessions' = [sessions EXCEPT ![i].requests = @ + 1, ![i].used = now]
  /\ Goto(r, "recorded")
  /\ UNCHANGED <<durable, index, now, runtime>>

BugRevive(r) ==                             \* writes the binding back as it was resolved
  LET i == request[r].id IN
  /\ request[r].pc = "serving"
  /\ \E n \in Amounts :
       IF Unaccountable(i, n)
         THEN UNCHANGED <<sessions, durable>>
         ELSE Stored([sessions EXCEPT ![i] = [@ EXCEPT !.status = "active",
                        !.requests = @ + 1, !.bytes = @ + n, !.used = now]])
  /\ Goto(r, "recorded")
  /\ UNCHANGED <<index, now, runtime>>

\* Route.Complete, which accounts an attempt that ended, failed or not:
\* RecordUsage, whose error is ignored.
Complete(r) ==
  LET i == request[r].id IN
  /\ request[r].pc = "serving"
  /\ \E n \in Amounts :
       IF Unaccountable(i, n)
         THEN UNCHANGED <<sessions, durable>>
         ELSE LET s == [sessions[i] EXCEPT !.requests = @ + 1, !.bytes = @ + n, !.used = now] IN
              \/ (Accepts(i, s) /\ Stored([sessions EXCEPT ![i] = s]))
              \/ (Rejects(i, s) /\ UNCHANGED <<sessions, durable>>)
  /\ Goto(r, "recorded")
  /\ UNCHANGED <<index, now, runtime>>

\* The request is answered, or given up before its attempt is accounted.
Answer(r) ==
  /\ request[r].pc \in {"serving", "recorded", "failed", "full", "unroutable"}
  /\ request' = [request EXCEPT ![r] = Idle]
  /\ UNCHANGED <<sessions, index, durable, now, runtime>>

-----------------------------------------------------------------------------
(* The operator, the clock and the process.                                 *)

RotateSession(i) ==
  /\ "operator" \in Environment
  /\ Rotate(i)
  /\ UNCHANGED <<now, runtime, request>>

BugDeleteSession(i) ==                      \* the index keeps the deleted id
  /\ sessions[i] # Absent
  /\ Stored(Without(sessions, {i}))
  /\ UNCHANGED <<index, now, runtime, request>>

DeleteSession(i) ==
  /\ "operator" \in Environment
  /\ sessions[i] # Absent
  /\ Stored(Without(sessions, {i}))
  /\ index' = Unindexed({i})
  /\ UNCHANGED <<now, runtime, request>>

\* A new inventory is activated; running requests keep their snapshot.
Activate ==
  /\ Persistent
  /\ runtime.revision < MaxRevision
  /\ \E p \in Policies : runtime' = [revision |-> runtime.revision + 1, policy |-> p]
  /\ UNCHANGED <<sessions, index, durable, now, request>>

Tick ==
  /\ now < MaxTime
  /\ now' = now + 1
  /\ UNCHANGED <<sessions, index, durable, runtime, request>>

\* The process dies and NewPersistent loads the table.
Restart ==
  /\ "crash" \in Environment
  /\ Persistent
  /\ Loadable(durable)
  /\ sessions' = durable
  /\ index' = [k \in Keys |->
       IF \E i \in Active(durable) : durable[i].key = k
         THEN CHOOSE i \in Active(durable) : durable[i].key = k
         ELSE NoId]
  /\ request' = [r \in Requests |-> Idle]
  /\ UNCHANGED <<durable, now, runtime>>

-----------------------------------------------------------------------------
Next ==
  \/ \E r \in Requests :
       \/ \E k \in Keys : Begin(r, k)
       \/ Reuse(r) \/ Miss(r) \/ SelectFails(r) \/ Join(r) \/ Bind(r)
       \/ Check(r) \/ Observe(r) \/ Retry(r) \/ Complete(r) \/ Answer(r)
  \/ \E i \in Ids : RotateSession(i) \/ DeleteSession(i)
  \/ Activate \/ Tick \/ Restart

Spec == Init /\ [][Next]_vars

-----------------------------------------------------------------------------
(* Properties.                                                              *)

SessionRecord ==
  [status : {"active", "rotated"}, key : Keys, endpoint : Endpoints,
   created : 0 .. MaxTime, used : 0 .. MaxTime, policy : Policies,
   revision : 0 .. MaxRevision, requests : 0 .. MaxCount, bytes : 0 .. MaxCount]

RequestRecord ==
  [pc : {"resolve", "select", "reused", "serving", "recorded", "failed", "full",
         "unroutable"},
   key : Keys, policy : Policies, revision : 0 .. MaxRevision, at : 0 .. MaxTime,
   id : Ids \cup {NoId}, again : BOOLEAN]

\* Every variable has its shape, and a request that reuses or serves holds an id.
TypeOK ==
  /\ sessions \in [Ids -> SessionRecord \cup {Absent}]
  /\ index \in [Keys -> Ids \cup {NoId}]
  /\ durable \in [Ids -> SessionRecord \cup {Absent}]
  /\ now \in 0 .. MaxTime
  /\ runtime \in [revision : 0 .. MaxRevision, policy : Policies]
  /\ request \in [Requests -> RequestRecord \cup {Idle}]
  /\ \A r \in Requests :
       request[r].pc \in {"reused", "serving", "recorded"} => request[r].id # NoId

\* The manager's map never exceeds its capacity: a create makes room in both of
\* its locked sections, since others create between them (makeRoomLocked).
WithinCapacity == Cardinality(Present(sessions)) <= Capacity

\* The index names only active sessions of the same key, whatever requests,
\* rotations, deletions and evictions interleave (Manager.index).
IndexSound ==
  \A k \in Keys : index[k] # NoId =>
    /\ sessions[index[k]].status = "active"
    /\ sessions[index[k]].key = k

\* With a store, an active session is the binding of its key, so that rotation
\* on the next request can reach it: none is stranded outside the index.
ActiveIsIndexed == Persistent =>
  \A i \in Active(sessions) : index[sessions[i].key] = i

\* The index and the active sessions say the same: each interleaving of requests
\* with deletions, evictions and rotations keeps both directions.
IndexExact == IndexSound /\ ActiveIsIndexed

\* Memory never runs ahead of or behind the table, failed writes included
\* (applyLocked before every assignment).
MemoryIsDurable == Persistent => durable = sessions

\* Whatever the table holds when the process dies, NewPersistent accepts it.
Reloadable == Loadable(durable)

\* Resolve never takes a binding away from a key while it still serves the
\* request's policy and revision: concurrent creates of one key agree.
Affinity ==
  [][\A r \in Requests :
       LET q == request[r] IN
       /\ q.pc \in {"resolve", "select"}
       /\ request'[r].pc \notin {q.pc, "idle"}
       /\ Live(q.key, q.policy, q.revision, q.at)
       => index'[q.key] = index[q.key]]_vars

\* A session that stays keeps its key, endpoint and creation time, its usage
\* never falls and once rotated it is never active again.
History ==
  [][\A i \in Present(sessions) : sessions'[i] # Absent =>
       /\ sessions'[i].key = sessions[i].key
       /\ sessions'[i].endpoint = sessions[i].endpoint
       /\ sessions'[i].created = sessions[i].created
       /\ sessions'[i].requests >= sessions[i].requests
       /\ sessions'[i].bytes >= sessions[i].bytes
       /\ sessions[i].status = "rotated" => sessions'[i].status = "rotated"]_vars

\* docs/sessions.md: "Runtime revision changes, policy changes, expiry, limits,
\* ... mark a binding rotated; the next request selects a fresh eligible
\* endpoint."  So where nothing fails, Resolve returns no error but capacity.
NextRequestBinds == \A r \in Requests : request[r].pc # "failed"

\* PROGRESS.md: "Added one-step failover to a different eligible endpoint": an
\* attempt that fails and may be retried is routed again.
FailoverRoutes == \A r \in Requests : request[r].pc # "unroutable"
=============================================================================
