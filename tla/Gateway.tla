------------------------------ MODULE Gateway -------------------------------
(* What becomes of a request: the HTTP forward proxy, CONNECT with or without *)
(* TLS inspection, SOCKS5 and the test of a chain all ask the router for a    *)
(* route (direct, an endpoint of a pool, an endpoint a session is bound to,   *)
(* or a chain), check the budget, claim the route's endpoints, try, report    *)
(* what they saw, and perhaps ask for another route. Health is here only what *)
(* routes see of it (module Health has the rest); the affordability of a      *)
(* Metered endpoint changes at any time (module Budget).                      *)
EXTENDS Naturals, Sequences, FiniteSets

CONSTANTS Requests, Endpoints,
          Kinds,         \* what requests are: http, connect, socks or test
          RootPool,      \* a pool and its fallbacks in order: a sequence of sets
          Chains,        \* a chain and its fallbacks: sequences of such pools
          Metered,       \* endpoints under a hard budget
          MaxAttempts    \* retry.max_attempts

Direct == "direct"       \* the last hop of a direct route

ASSUME GatewayAssumption ==
  /\ RootPool \in Seq(SUBSET Endpoints)
  /\ \A c \in DOMAIN Chains : Chains[c] \in Seq(Seq(SUBSET Endpoints)) /\ Len(Chains[c]) >= 2
  /\ Kinds \subseteq {"http", "connect", "socks", "test"} /\ Metered \subseteq Endpoints /\ Direct \notin Endpoints
  /\ MaxAttempts \in Nat \ {0}

VARIABLES circuit,   \* health.Manager.states: closed, open or half_open
          probes,    \* health.Manager.probes
          binding,   \* the session of the one key in use: its id and endpoint
          cached,    \* the response cache: key, who answered, whether it was all
          q          \* the requests

gatewayVars == <<circuit, probes, binding, cached, q>>

NoBinding == [id |-> <<>>, e |-> Direct]

NoRequest ==
  [pc |-> "idle", kind |-> "http", via |-> "direct", safe |-> FALSE, body |-> FALSE,
   caching |-> FALSE, hops |-> <<>>, held |-> {}, excluded |-> {}, sid |-> <<>>,
   tries |-> 0, events |-> 0, billed |-> 0, gone |-> FALSE, tried |-> {}, inner |-> FALSE,
   answerer |-> Direct,   \* history: who answered the attempt,
   misnamed |-> FALSE]    \* and whether the event named another

HopsOf(r) == {q[r].hops[i] : i \in DOMAIN q[r].hops}
Tunnel(r) == q[r].kind \in {"connect", "socks"}

GatewayInit ==
  /\ circuit = [e \in Endpoints |-> "closed"] /\ probes = {}
  /\ binding = NoBinding /\ cached = {}
  /\ q = [r \in Requests |-> NoRequest]

Become(r, record) == q' = [q EXCEPT ![r] = record]

\* The handler returns: what it knew of its request and route is gone.
Ended(record) ==
  [NoRequest EXCEPT !.pc = "ended", !.kind = record.kind, !.tries = record.tries,
     !.events = record.events, !.billed = record.billed, !.gone = record.gone,
     !.misnamed = record.misnamed]

\* The handler answers without a route. Before the first attempt it records the
\* rejection; the test of a chain never records.
Rejected(r) ==
  Ended([q[r] EXCEPT !.events = IF q[r].tries = 0 /\ q[r].kind # "test" THEN @ + 1 ELSE @])

-----------------------------------------------------------------------------
(* Selection. An endpoint is usable for a pool if its circuit admits it and   *)
(* it is not excluded; a metered one may be out of budget besides. What a pool *)
(* asks of the score and the latency of an endpoint is left out.              *)

Usable(e, excluded) == e \notin excluded /\ circuit[e] # "open" /\ e \notin probes

UsableOf(pool, j, excluded) == {e \in pool[j] : Usable(e, excluded)}

\* The first pool of the order with a candidate chooses among its candidates.
Selectable(pool, excluded) ==
  {e \in Endpoints : \E j \in DOMAIN pool :
     /\ e \in UsableOf(pool, j, excluded)
     /\ \A k \in 1 .. j - 1 : UsableOf(pool, k, excluded) \subseteq Metered}

NothingLeft(pool, excluded) ==
  \A j \in DOMAIN pool : UsableOf(pool, j, excluded) \subseteq Metered

\* The choices of the first n hops of a chain: each excludes the ones before.
Links(chain, n, excluded) ==
  {s \in [1 .. n -> Endpoints] : \A i \in 1 .. n :
     s[i] \in Selectable(chain[i], excluded \cup {s[k] : k \in 1 .. i - 1})}

Unbuildable(chain, excluded) ==
  \E n \in DOMAIN chain : \E s \in Links(chain, n - 1, excluded) :
    NothingLeft(chain[n], excluded \cup {s[k] : k \in 1 .. n - 1})

ChainRoutes(excluded) ==
  UNION {Links(Chains[c], Len(Chains[c]), excluded) :
           c \in {d \in DOMAIN Chains : \A b \in 1 .. d - 1 : Unbuildable(Chains[b], excluded)}}

ChainsExhausted(excluded) == \A c \in DOMAIN Chains : Unbuildable(Chains[c], excluded)

-----------------------------------------------------------------------------
(* From the listener to a route.                                              *)

\* A request is read and evaluated to an action. A request no rule routes, or
\* one that is blocked, mocked or redirected, is answered at once.
Arrive(r) ==
  /\ q[r].pc = "idle"
  /\ \/ \E k \in Kinds, v \in {"direct", "proxy", "sticky", "chain"},
          safe, body, caching \in BOOLEAN :
          /\ k # "http" => ~safe /\ ~body /\ ~caching
          /\ k = "test" => v = "chain"
          /\ caching => safe /\ ~body
          /\ Become(r, [NoRequest EXCEPT !.pc = "routing", !.kind = k, !.via = v, !.safe = safe,
                                         !.body = body, !.caching = caching])
     \/ Become(r, [NoRequest EXCEPT !.pc = "ended", !.events = 1])
  /\ UNCHANGED <<circuit, probes, binding, cached>>

Ready(r, hops, sid) == Become(r, [q[r] EXCEPT !.pc = "ready", !.hops = hops, !.sid = sid])

\* A direct route, an endpoint of a pool without sessions, or a chain.
RouteFreely(r) ==
  /\ \/ q[r].via = "direct" /\ (Ready(r, <<Direct>>, <<>>) \/ Become(r, Rejected(r)))
     \/ /\ q[r].via = "proxy"
        /\ \/ \E e \in Selectable(RootPool, q[r].excluded) : Ready(r, <<e>>, <<>>)
           \/ NothingLeft(RootPool, q[r].excluded) /\ Become(r, Rejected(r))
     \/ /\ q[r].via = "chain"
        /\ \/ \E s \in ChainRoutes(q[r].excluded) : Ready(r, s, <<>>)
           \/ ChainsExhausted(q[r].excluded) /\ Become(r, Rejected(r))
  /\ UNCHANGED binding

\* A reused binding is given up where its endpoint is not eligible or out of
\* budget, and is not compared with the endpoints this request excludes. (The
\* Resolve, Rotate and Resolve of the router are one step here: module Session
\* has what may come between them.)
Serves(b) == b # NoBinding /\ Usable(b.e, {})

RouteSticky(r) ==
  /\ q[r].via = "sticky"
  /\ \/ /\ Serves(binding)
        /\ Ready(r, <<binding.e>>, binding.id) /\ UNCHANGED binding
     \/ /\ Serves(binding) => binding.e \in Metered
        /\ \/ \E e \in Selectable(RootPool, q[r].excluded) :
                LET b == [id |-> <<r, q[r].inner, q[r].tries>>, e |-> e]
                IN  binding' = b /\ Ready(r, <<e>>, b.id)
           \/ /\ NothingLeft(RootPool, q[r].excluded)
              /\ binding' = NoBinding /\ Become(r, Rejected(r))

Route(r) ==
  /\ q[r].pc = "routing"
  /\ RouteFreely(r) \/ RouteSticky(r)
  /\ UNCHANGED <<circuit, probes, cached>>

-----------------------------------------------------------------------------
(* Before the attempt: inspection, budget, cache, claims.                     *)

\* A CONNECT that is inspected: the client's TLS ends here and what it carries
\* is forwarded as an HTTP request of its own. Or the client is lost, or the
\* inspector has no certificate; neither is recorded. (`inner` tells sessions
\* apart, so it is kept where there may be one.)
Inspect(r) ==
  /\ q[r].pc = "ready" /\ q[r].kind = "connect" /\ q[r].tries = 0
  /\ \/ \E v \in {"direct", "proxy", "sticky", "chain"}, safe, body, caching \in BOOLEAN :
          /\ caching => safe /\ ~body
          /\ Become(r, [NoRequest EXCEPT !.pc = "routing", !.via = v, !.safe = safe, !.body = body,
                                         !.caching = caching, !.inner = (v = "sticky")])
     \/ Become(r, Ended(q[r]))
  /\ UNCHANGED <<circuit, probes, binding, cached>>

Limited(r) == HopsOf(r) \cap Metered # {}

Unaffordable(r) ==
  /\ q[r].pc = "ready" /\ Limited(r) /\ q[r].kind # "test"
  /\ Become(r, Rejected(r))
  /\ UNCHANGED <<circuit, probes, binding, cached>>

LastHop(hops) == hops[Len(hops)]

\* cacheKeyFor: the route (direct, a pool, a pool under the key of the session,
\* a chain) and its last proxy. The chains of an order are one route here; the
\* client, the policy, the revision and the URL of all requests are the same.
KeyOf(r) == <<q[r].via, LastHop(q[r].hops)>>

MayHit(r) == q[r].caching /\ q[r].tries = 0

ServeCached(r) ==
  /\ q[r].pc = "ready" /\ MayHit(r)
  /\ \E c \in cached :
       /\ c.key = KeyOf(r)
       /\ Become(r, Ended([q[r] EXCEPT !.events = @ + 1,
                                       !.misnamed = c.by # LastHop(q[r].hops)]))
  /\ UNCHANGED <<circuit, probes, binding, cached>>

\* The cache misses, or drops an expired entry.
Missed(r) == IF MayHit(r) /\ q[r].held = {} THEN {c \in cached : c.key # KeyOf(r)} ELSE cached

NextHop(r) == q[r].hops[Cardinality(q[r].held) + 1]

TryDirect(r) ==
  /\ q[r].pc = "ready" /\ q[r].via = "direct"
  /\ cached' = Missed(r)
  /\ Become(r, [q[r] EXCEPT !.pc = "flight", !.tries = @ + 1])
  /\ UNCHANGED <<circuit, probes, binding>>

\* Acquire of the next hop; with the last one the attempt begins.
Claim(r) ==
  LET e == NextHop(r)  last == Cardinality(q[r].held) + 1 = Len(q[r].hops) IN
  /\ q[r].pc \in {"ready", "claiming"} /\ q[r].via # "direct" /\ Usable(e, {})
  /\ probes' = IF circuit[e] = "half_open" THEN probes \cup {e} ELSE probes
  /\ cached' = Missed(r)
  /\ Become(r, [q[r] EXCEPT !.held = @ \cup {e}, !.pc = IF last THEN "flight" ELSE "claiming",
                            !.tries = IF last THEN @ + 1 ELSE @])
  /\ UNCHANGED <<circuit, binding>>

Refused(r) ==
  /\ q[r].pc \in {"ready", "claiming"} /\ q[r].via # "direct" /\ ~Usable(NextHop(r), {})
  /\ cached' = Missed(r)

(* Mutant: the hops claimed before the refused one are not released.          *)
BugKeep(r) ==
  /\ Refused(r)
  /\ Become(r, Rejected(r))
  /\ UNCHANGED <<circuit, probes, binding>>

Refuse(r) ==
  /\ Refused(r)
  /\ probes' = probes \ q[r].held
  /\ Become(r, Rejected(r))
  /\ UNCHANGED <<circuit, binding>>

-----------------------------------------------------------------------------
(* The attempt. What Observe may make of a circuit (module Health has when).  *)

Observed(c, success) ==
  CASE c = "closed"    -> IF success THEN {"closed"} ELSE {"closed", "open"}
    [] c = "half_open" -> IF success THEN {"half_open", "closed"} ELSE {"open"}
    [] c = "open"      -> IF success THEN {"open", "half_open", "closed"} ELSE {"open"}

\* Observe for the hops it blames or praises, Release for the others.
Report(r, judged, success) ==
  /\ circuit' \in [Endpoints -> {"closed", "open", "half_open"}]
  /\ \A e \in Endpoints :
       circuit'[e] \in IF e \in judged THEN Observed(circuit[e], success) ELSE {circuit[e]}
  /\ probes' = probes \ q[r].held

\* The upstream answered. An HTTP answer may count as a failure of the proxy.
Answer(r) ==
  /\ q[r].pc = "flight"
  /\ \E success \in (IF q[r].kind = "http" THEN BOOLEAN ELSE {TRUE}) :
       Report(r, q[r].held, success)
  /\ Become(r, IF q[r].kind = "test" THEN Ended(q[r])
               ELSE [q[r] EXCEPT !.pc = "answered", !.held = {}, !.answerer = LastHop(q[r].hops)])
  /\ UNCHANGED <<binding, cached>>

\* The attempt failed: a proxy is blamed, a chain blames the hop that failed, if
\* one did. An endpoint that is thereby out of use loses its session. The failed
\* attempt is recorded, with what was read of the request's body.
Fail(r) ==
  /\ q[r].pc = "flight"
  /\ \E judged \in (IF q[r].via = "chain" THEN {{}} \cup {{e} : e \in q[r].held} ELSE {q[r].held}) :
       Report(r, judged, FALSE)
  /\ binding' = IF /\ q[r].via = "sticky" /\ binding.id = q[r].sid
                   /\ circuit'[q[r].hops[1]] = "open"
                THEN NoBinding ELSE binding
  /\ Become(r, IF q[r].kind = "test" THEN Ended(q[r])
               ELSE [q[r] EXCEPT !.pc = "failed", !.held = {}, !.tried = @ \cup HopsOf(r),
                                 !.events = @ + 1, !.billed = IF q[r].body THEN @ + 1 ELSE @])
  /\ UNCHANGED cached

(* Mutant: a request whose body was read is tried again.                      *)
BugShouldRetry(r) ==
  /\ q[r].via # "direct" /\ q[r].tries < MaxAttempts
  /\ q[r].kind = "http" => q[r].safe

(* Mutant: one attempt more than configured.                                  *)
BugOneMore(r) ==
  /\ q[r].via # "direct" /\ q[r].tries <= MaxAttempts
  /\ q[r].kind = "http" => q[r].safe /\ ~q[r].body

\* ShouldRetry for HTTP; a tunnel asks only for the number of attempts.
ShouldRetry(r) ==
  /\ q[r].via # "direct" /\ q[r].tries < MaxAttempts
  /\ q[r].kind = "http" => q[r].safe /\ ~q[r].body

(* Mutant: a retry excludes the last endpoint only.                           *)
BugExcluded(r) == HopsOf(r)

Excluded(r) == q[r].excluded \cup HopsOf(r)

\* Route.Retry: a session is rotated first, if it is still there to rotate.
Retry(r) ==
  /\ q[r].pc = "failed" /\ ShouldRetry(r)
  /\ q[r].via = "sticky" => binding.id = q[r].sid
  /\ binding' = IF q[r].via = "sticky" THEN NoBinding ELSE binding
  /\ Become(r, [q[r] EXCEPT !.pc = "routing", !.excluded = Excluded(r), !.hops = <<>>, !.sid = <<>>])
  /\ UNCHANGED <<circuit, probes, cached>>

(* Mutant: the failure is recorded once more when no retry follows.           *)
BugGiveUp(r) ==
  /\ q[r].pc = "failed"
  /\ Become(r, Ended([q[r] EXCEPT !.events = @ + 1]))
  /\ UNCHANGED <<circuit, probes, binding, cached>>

\* No retry, the wait for it was cancelled, or the session is gone.
GiveUp(r) ==
  /\ q[r].pc = "failed"
  /\ Become(r, Ended(q[r]))
  /\ UNCHANGED <<circuit, probes, binding, cached>>

(* Mutant: the response is stored under the key of the first route.           *)
BugStoreKey(r) ==
  IF q[r].tried = {} THEN KeyOf(r) ELSE <<q[r].via, CHOOSE e \in q[r].tried : TRUE>>

StoreKey(r) == KeyOf(r)

\* The HTTP response is delivered, after it was cached where it may be: a reader
\* whose budget runs out in the middle of it reports its end.
Deliver(r) ==
  /\ q[r].pc = "answered" /\ ~Tunnel(r)
  /\ \E read \in {"whole", "broken"} \cup (IF Limited(r) THEN {"cut"} ELSE {}), fresh \in BOOLEAN :
       cached' = IF q[r].caching /\ fresh /\ read # "broken"
                 THEN {c \in cached : c.key # StoreKey(r)} \cup
                        {[key |-> StoreKey(r), by |-> q[r].answerer, whole |-> read = "whole"]}
                 ELSE cached
  /\ Become(r, Ended([q[r] EXCEPT !.events = @ + 1, !.billed = IF q[r].body THEN @ + 1 ELSE @,
                                  !.misnamed = LastHop(q[r].hops) # q[r].answerer]))
  /\ UNCHANGED <<circuit, probes, binding>>

\* The client of a tunnel is told, and bytes flow; or it has gone, and nothing
\* is recorded.
Splice(r) ==
  /\ q[r].pc = "answered" /\ Tunnel(r)
  /\ \E gone \in BOOLEAN :
       Become(r, Ended([q[r] EXCEPT !.gone = gone, !.events = IF gone THEN @ ELSE @ + 1]))
  /\ UNCHANGED <<circuit, probes, binding, cached>>

\* An open circuit is looked at after its cooldown.
Cool(e) ==
  /\ circuit[e] = "open"
  /\ circuit' = [circuit EXCEPT ![e] = "half_open"]
  /\ UNCHANGED <<probes, binding, cached, q>>

Handle(r) ==
  \/ Route(r) \/ Inspect(r) \/ Unaffordable(r) \/ ServeCached(r) \/ TryDirect(r)
  \/ Claim(r) \/ Refuse(r) \/ Answer(r) \/ Fail(r) \/ Retry(r) \/ GiveUp(r)
  \/ Deliver(r) \/ Splice(r)

GatewayNext ==
  \/ \E r \in Requests : Arrive(r) \/ Handle(r)
  \/ \E e \in Endpoints : Cool(e)

GatewaySpec == GatewayInit /\ [][GatewayNext]_gatewayVars

-----------------------------------------------------------------------------
(* Properties.                                                                *)

Request ==
  [pc : {"idle", "routing", "ready", "claiming", "flight", "failed", "answered", "ended"},
   kind : {"http", "connect", "socks", "test"}, via : {"direct", "proxy", "sticky", "chain"},
   safe : BOOLEAN, body : BOOLEAN, caching : BOOLEAN, inner : BOOLEAN, gone : BOOLEAN,
   hops : Seq(Endpoints \cup {Direct}), held : SUBSET Endpoints,
   excluded : SUBSET Endpoints, tried : SUBSET (Endpoints \cup {Direct}),
   sid : {<<>>} \cup (Requests \X BOOLEAN \X (0 .. MaxAttempts)),
   tries : 0 .. MaxAttempts, events : 0 .. MaxAttempts, billed : 0 .. MaxAttempts,
   answerer : Endpoints \cup {Direct}, misnamed : BOOLEAN]

\* Every variable has its shape, a request makes and records no more attempts
\* than retry.max_attempts, and holds endpoints only while it claims and tries.
GatewayTypeOK ==
  /\ circuit \in [Endpoints -> {"closed", "open", "half_open"}]
  /\ probes \subseteq Endpoints /\ binding.e \in Endpoints \cup {Direct}
  /\ \A c \in cached : c.by \in Endpoints \cup {Direct}
  /\ \A r \in Requests :
       /\ q[r].tries <= MaxAttempts
       /\ q[r] \in Request
       /\ q[r].pc \notin {"claiming", "flight"} => q[r].held = {}

\* Whatever way a request ends, refused between two hops of a chain, out of
\* budget, inspected, answered or failed, it leaves no probe behind: behind every
\* mark is a request that still claims or tries (Route.Acquire, Route.Observe).
ProbesReturned ==
  \A e \in probes : \E r \in Requests : e \in q[r].held /\ q[r].pc \in {"claiming", "flight"}

\* docs/retries.md: retry uses "different eligible endpoints". No attempt goes
\* through an endpoint an earlier attempt of the request failed through, in
\* whichever chain or fallback pool it turns up again; a session that another
\* request bound in the meantime is the one exception.
RetryElsewhere ==
  \A r \in Requests :
    /\ q[r].pc \in {"ready", "claiming", "flight"}
    /\ q[r].via = "sticky" => q[r].sid = <<r, q[r].inner, q[r].tries>>
    => HopsOf(r) \cap q[r].tried = {}

\* docs/retries.md: "Each attempt has its own route/proxy traffic event". A
\* request leaves one event per attempt, also when the last retry found no route,
\* no budget or no claim, except for a tunnel whose client left before the reply.
EveryAttemptRecorded ==
  \A r \in Requests :
    q[r].pc = "ended" /\ q[r].tries > 0 =>
      q[r].events = IF q[r].kind = "test" THEN 0
                    ELSE q[r].tries - (IF q[r].gone THEN 1 ELSE 0)

\* The bytes of a request's body are in one event at most: an event carries what
\* has been read of the body so far, so a second attempt would count it again.
BodyCountedOnce == \A r \in Requests : q[r].billed <= 1

\* A response that took a retry is found under the key of the proxy that
\* answered, never under the key of one that failed (cacheKeyFor is called again
\* after the loop). So the events name who answered: the event of an attempt the
\* proxy that did, and the event of a request served from the cache, which names
\* the route the request was given, the proxy that answered the one before.
CachedByAnswerer ==
  /\ \A c \in cached : c.key[2] = c.by
  /\ \A r \in Requests : ~q[r].misnamed

\* docs/cache.md: "partial responses" "bypass storage".
CacheHoldsWhole == \A c \in cached : c.whole

\* What a request did is accounted: no more attempts than allowed, one event for
\* each, and its body in one of them at most.
AttemptsAccounted == GatewayTypeOK /\ EveryAttemptRecorded /\ BodyCountedOnce
=============================================================================
