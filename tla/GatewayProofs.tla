---------------------------- MODULE GatewayProofs ----------------------------
(* Theorems about Gateway for every set of requests and endpoints, every pool *)
(* with its fallbacks, every list of chains and every number of attempts.     *)
EXTENDS Gateway, FiniteSetTheorems, TLAPS

Hops(x) == {x.hops[i] : i \in DOMAIN x.hops}

Routed == {"ready", "claiming", "flight", "failed", "answered"}

(* A routed request has hops, it holds endpoints only while it claims or      *)
(* tries, and never as many as it has hops before it tries.                   *)
HopsOK(x) ==
  /\ IsFiniteSet(x.held)
  /\ x.pc \notin {"claiming", "flight"} => x.held = {}
  /\ x.pc \in Routed => /\ x.hops # <<>>
                        /\ x.via = "direct" => x.hops = <<Direct>>
                        /\ x.via # "direct" => x.hops \in Seq(Endpoints)
  /\ x.pc \in {"ready", "claiming"} => Cardinality(x.held) < Len(x.hops)

(* One event per finished attempt, none for a test; a body read is a body     *)
(* that no attempt follows.                                                   *)
EventsOK(x) ==
  /\ x.pc \in {"routing", "ready", "claiming"} => x.tries < MaxAttempts
  /\ x.pc \in {"flight", "failed", "answered"} => x.tries > 0
  /\ x.kind = "test" => x.events = 0 /\ x.pc \notin {"failed", "answered"}
  /\ x.kind # "test" =>
       /\ x.pc \in {"routing", "ready", "claiming", "failed"} => x.events = x.tries
       /\ x.pc \in {"flight", "answered"} => x.events = x.tries - 1
       /\ x.pc = "ended" /\ x.tries > 0 => x.events = x.tries - (IF x.gone THEN 1 ELSE 0)
  /\ x.pc # "ended" => x.gone = FALSE

BodyOK(x) ==
  /\ x.kind # "http" => x.body = FALSE /\ x.inner = FALSE /\ x.caching = FALSE
  /\ x.pc \notin {"failed", "ended"} => x.billed = 0
  /\ x.billed <= 1
  /\ x.pc = "failed" /\ ~x.body => x.billed = 0

(* What was tried is excluded, so what the request chose itself is new. A     *)
(* session is its own if it was bound for this very attempt.                  *)
Own(r, x, id) == id # <<>> /\ id[1] = r /\ id[2] = x.inner

ElsewhereOK(r, x) ==
  /\ x.pc \in {"routing", "ready", "claiming", "flight", "answered"} => x.tried \subseteq x.excluded
  /\ x.pc = "failed" => x.tried \subseteq x.excluded \cup Hops(x)
  /\ x.pc \in {"ready", "claiming", "flight"} /\ x.via # "sticky" => Hops(x) \cap x.tried = {}
  /\ x.pc \in {"ready", "claiming"} /\ x.via = "sticky" /\ Own(r, x, x.sid) =>
       x.sid[3] = x.tries /\ Hops(x) \cap x.tried = {}
  /\ x.pc = "flight" /\ x.via = "sticky" /\ Own(r, x, x.sid) => x.sid[3] < x.tries

(* The route of an answered request is still the one that was answered, so    *)
(* what its event and its key name is who answered.                           *)
NamedOK(x) == x.misnamed = FALSE /\ (x.pc = "answered" => x.answerer = LastHop(x.hops))

RequestOK(r, x) ==
  /\ x \in Request
  /\ HopsOK(x) /\ EventsOK(x) /\ BodyOK(x) /\ NamedOK(x) /\ ElsewhereOK(r, x)

(* Before a request asks for a session, the one that is bound is not its own. *)
Sid == Requests \X BOOLEAN \X (0 .. MaxAttempts)

BindingOK ==
  /\ \/ binding = NoBinding
     \/ binding \in [id : Sid, e : Endpoints]
  /\ \A r \in Requests :
       binding.id # <<>> /\ binding.id[1] = r /\ q[r].pc # "ended" =>
         /\ q[r].pc # "idle"
         /\ binding.id[2] => q[r].inner
         /\ ~(q[r].pc = "routing" /\ q[r].via = "sticky" /\ Own(r, q[r], binding.id))

CacheOK == \A c \in cached : c.by \in Endpoints \cup {Direct} /\ c.key[2] = c.by

CircuitsOK ==
  /\ circuit \in [Endpoints -> {"closed", "open", "half_open"}]
  /\ probes \subseteq Endpoints

RequestsOK == q \in [Requests -> Request] /\ \A r \in Requests : RequestOK(r, q[r])

IInv == RequestsOK /\ CircuitsOK /\ BindingOK /\ CacheOK /\ ProbesReturned

-----------------------------------------------------------------------------
(* Records.                                                                   *)

(* One request becomes another, the others stay.                              *)
LEMMA Becomes ==
  ASSUME RequestsOK, NEW r \in Requests, NEW x, Become(r, x), RequestOK(r, x)
  PROVE  RequestsOK' /\ q'[r] = x /\ \A o \in Requests \ {r} : q'[o] = q[o]
<1>1. x \in Request BY DEF RequestOK
<1>2. q' = [q EXCEPT ![r] = x] BY DEF Become
<1>3. q' \in [Requests -> Request] /\ q'[r] = x /\ \A o \in Requests \ {r} : q'[o] = q[o]
  BY <1>1, <1>2 DEF RequestsOK
<1>4. \A o \in Requests : RequestOK(o, q'[o]) BY <1>3 DEF RequestsOK
<1>5. QED BY <1>3, <1>4 DEF RequestsOK

LEMMA NoRequestOK == NoRequest \in Request /\ NoRequest.tried = {} /\ NoRequest.held = {}
<1>1. <<>> \in Seq(Endpoints \cup {Direct}) BY DEF Direct
<1>2. QED BY <1>1, GatewayAssumption DEF NoRequest, Request

(* A handler may return once its attempts are accounted for.                  *)
LEMMA EndedOK ==
  ASSUME NEW r, NEW x \in Request, x.billed <= 1, x.misnamed = FALSE,
         x.kind = "test" => x.events = 0,
         x.kind # "test" /\ x.tries > 0 => x.events = x.tries - (IF x.gone THEN 1 ELSE 0)
  PROVE  RequestOK(r, Ended(x)) /\ Ended(x).pc = "ended" /\ Ended(x).held = {}
<1> DEFINE y == Ended(x)
<1>1. /\ y.pc = "ended" /\ y.kind = x.kind /\ y.tries = x.tries /\ y.events = x.events
      /\ y.billed = x.billed /\ y.gone = x.gone /\ y.held = {}
      /\ y.body = FALSE /\ y.inner = FALSE /\ y.caching = FALSE /\ y.misnamed = FALSE
  BY DEF Ended, NoRequest
<1>2. y \in Request
  <2> DEFINE z == [NoRequest EXCEPT !.pc = "ended", !.kind = x.kind, !.tries = x.tries]
  <2>1. z \in Request BY NoRequestOK DEF Request
  <2>2. y = [z EXCEPT !.events = x.events, !.billed = x.billed, !.gone = x.gone,
                      !.misnamed = x.misnamed]
    BY DEF Ended, NoRequest
  <2> HIDE DEF y, z
  <2>3. QED BY <2>1, <2>2 DEF Request
<1> HIDE DEF y
<1>3. HopsOK(y) BY <1>1, FS_EmptySet DEF HopsOK, Routed
<1>4. EventsOK(y) BY <1>1 DEF EventsOK
<1>5. BodyOK(y) BY <1>1 DEF BodyOK
<1>6. ElsewhereOK(r, y) BY <1>1 DEF ElsewhereOK
<1>7. NamedOK(y) BY <1>1 DEF NamedOK
<1>8. QED BY <1>1, <1>2, <1>3, <1>4, <1>5, <1>6, <1>7 DEF RequestOK, y

LEMMA RejectedOK ==
  ASSUME NEW r \in Requests, RequestOK(r, q[r]), q[r].pc \in {"routing", "ready", "claiming"}
  PROVE  /\ RequestOK(r, Rejected(r))
         /\ Rejected(r).pc = "ended" /\ Rejected(r).held = {}
<1> DEFINE n == IF q[r].tries = 0 /\ q[r].kind # "test" THEN q[r].events + 1 ELSE q[r].events
           x == [q[r] EXCEPT !.events = n]
<1>1. Rejected(r) = Ended(x) BY DEF Rejected
<1>2. /\ q[r] \in Request /\ q[r].gone = FALSE /\ q[r].billed = 0 /\ q[r].misnamed = FALSE
      /\ q[r].kind = "test" => q[r].events = 0
      /\ q[r].kind # "test" => q[r].events = q[r].tries
  BY DEF RequestOK, EventsOK, BodyOK, NamedOK
<1>3. q[r].tries \in 0 .. MaxAttempts /\ q[r].events \in 0 .. MaxAttempts /\ MaxAttempts \in Nat \ {0}
  BY <1>2, GatewayAssumption DEF Request
<1>4. n \in 0 .. MaxAttempts /\ (q[r].tries > 0 \/ q[r].kind = "test" => n = q[r].events)
  BY <1>2, <1>3
<1> HIDE DEF n
<1>5. x \in Request BY <1>2, <1>4 DEF Request
<1>6. /\ x.kind = q[r].kind /\ x.tries = q[r].tries /\ x.gone = FALSE /\ x.billed = 0 /\ x.events = n
      /\ x.misnamed = FALSE
  BY <1>2 DEF Request
<1> HIDE DEF x
<1>7. x.kind = "test" => x.events = 0 BY <1>2, <1>4, <1>6
<1>8. x.kind # "test" /\ x.tries > 0 => x.events = x.tries - (IF x.gone THEN 1 ELSE 0)
  BY <1>2, <1>4, <1>6
<1>9. x.billed <= 1 /\ x.misnamed = FALSE BY <1>6
<1>10. QED BY <1>1, <1>5, <1>7, <1>8, <1>9, EndedOK

-----------------------------------------------------------------------------
(* The steps of a request: what it becomes is well formed again.              *)

(* It gets a route: hops it did not try, or those of a session another        *)
(* request bound.                                                             *)
LEMMA ReadyOK ==
  ASSUME NEW r \in Requests, RequestOK(r, q[r]), q[r].pc = "routing", NEW hops, NEW sid,
         hops # <<>>, sid \in Sid \cup {<<>>},
         IF q[r].via = "direct" THEN hops = <<Direct>> ELSE hops \in Seq(Endpoints),
         \/ {hops[i] : i \in DOMAIN hops} \cap q[r].tried = {} /\ (sid # <<>> => sid[3] = q[r].tries)
         \/ q[r].via = "sticky" /\ ~Own(r, q[r], sid)
  PROVE  LET x == [q[r] EXCEPT !.pc = "ready", !.hops = hops, !.sid = sid]
         IN  RequestOK(r, x) /\ x.pc = "ready" /\ x.inner = q[r].inner
<1> DEFINE x == [q[r] EXCEPT !.pc = "ready", !.hops = hops, !.sid = sid]
<1>1. q[r] \in Request /\ q[r].held = {} BY DEF RequestOK, HopsOK
<1>2. hops \in Seq(Endpoints \cup {Direct})
  <2>1. CASE q[r].via = "direct"
    <3>1. hops = <<Direct>> /\ Direct \in Endpoints \cup {Direct} BY <2>1
    <3>2. QED BY <3>1
  <2>2. CASE q[r].via # "direct" BY <2>2
  <2>3. QED BY <2>1, <2>2
<1>3. sid \in {<<>>} \cup (Requests \X BOOLEAN \X (0 .. MaxAttempts)) BY DEF Sid
<1>4. x \in Request BY <1>1, <1>2, <1>3 DEF Request
<1>5. /\ x.pc = "ready" /\ x.hops = hops /\ x.sid = sid
      /\ x.via = q[r].via /\ x.kind = q[r].kind /\ x.body = q[r].body /\ x.inner = q[r].inner /\ x.caching = q[r].caching
      /\ x.held = {} /\ x.excluded = q[r].excluded /\ x.tried = q[r].tried
      /\ x.tries = q[r].tries /\ x.events = q[r].events /\ x.billed = q[r].billed
      /\ x.gone = q[r].gone /\ x.misnamed = q[r].misnamed
  BY <1>1 DEF Request
<1> HIDE DEF x
<1>6. HopsOK(x)
  <2>1. IsFiniteSet(x.held) /\ Cardinality(x.held) = 0 BY <1>5, FS_EmptySet
  <2>2. Len(hops) > 0 BY <1>2
  <2>3. QED BY <1>5, <2>1, <2>2 DEF HopsOK, Routed
<1>7. EventsOK(x) BY <1>5 DEF RequestOK, EventsOK
<1>8. BodyOK(x) BY <1>5 DEF RequestOK, BodyOK
<1>9. ElsewhereOK(r, x) BY <1>5 DEF RequestOK, ElsewhereOK, Own, Hops
<1>10. NamedOK(x) BY <1>5 DEF RequestOK, NamedOK
<1>11. QED BY <1>4, <1>5, <1>6, <1>7, <1>8, <1>9, <1>10 DEF RequestOK, x

LEMMA ArriveOK ==
  ASSUME NEW r \in Requests, Arrive(r)
  PROVE  \E x : Become(r, x) /\ RequestOK(r, x)
<1>1. ASSUME NEW k \in Kinds, NEW v \in {"direct", "proxy", "sticky", "chain"},
             NEW safe \in BOOLEAN, NEW body \in BOOLEAN, NEW caching \in BOOLEAN,
             k # "http" => ~safe /\ ~body /\ ~caching
      PROVE  RequestOK(r, [NoRequest EXCEPT !.pc = "routing", !.kind = k, !.via = v, !.safe = safe,
                                            !.body = body, !.caching = caching])
  <2> DEFINE x == [NoRequest EXCEPT !.pc = "routing", !.kind = k, !.via = v, !.safe = safe,
                                    !.body = body, !.caching = caching]
  <2>1. k \in {"http", "connect", "socks", "test"} BY GatewayAssumption
  <2>2. x \in Request
    <3> DEFINE y == [NoRequest EXCEPT !.pc = "routing", !.kind = k, !.via = v]
    <3>1. y \in Request BY <2>1, NoRequestOK DEF Request
    <3>2. x = [y EXCEPT !.safe = safe, !.body = body, !.caching = caching] OBVIOUS
    <3> HIDE DEF x, y
    <3>3. QED BY <3>1, <3>2 DEF Request
  <2>3. /\ x.pc = "routing" /\ x.kind = k /\ x.body = body /\ x.inner = FALSE /\ x.caching = caching /\ x.held = {}
        /\ x.tried = {} /\ x.tries = 0 /\ x.events = 0 /\ x.billed = 0 /\ x.gone = FALSE
        /\ x.misnamed = FALSE
    BY DEF NoRequest
  <2> HIDE DEF x
  <2>4. HopsOK(x) BY <2>3, FS_EmptySet DEF HopsOK, Routed
  <2>5. EventsOK(x) BY <2>3, GatewayAssumption DEF EventsOK
  <2>6. BodyOK(x) BY <1>1, <2>3 DEF BodyOK
  <2>7. ElsewhereOK(r, x) BY <2>3 DEF ElsewhereOK
  <2>8. NamedOK(x) BY <2>3 DEF NamedOK
  <2>9. QED BY <2>2, <2>4, <2>5, <2>6, <2>7, <2>8 DEF RequestOK, x
<1>2. RequestOK(r, [NoRequest EXCEPT !.pc = "ended", !.events = 1])
  <2> DEFINE x == [NoRequest EXCEPT !.pc = "ended", !.events = 1]
  <2>1. 1 \in 0 .. MaxAttempts BY GatewayAssumption
  <2>2. x \in Request BY <2>1, NoRequestOK DEF NoRequest, Request
  <2>3. /\ x.pc = "ended" /\ x.kind = "http" /\ x.body = FALSE /\ x.inner = FALSE /\ x.held = {}
        /\ x.tries = 0 /\ x.billed = 0 /\ x.misnamed = FALSE
    BY DEF NoRequest
  <2> HIDE DEF x
  <2>4. HopsOK(x) BY <2>3, FS_EmptySet DEF HopsOK, Routed
  <2>5. EventsOK(x) BY <2>3 DEF EventsOK
  <2>6. BodyOK(x) BY <2>3 DEF BodyOK
  <2>7. ElsewhereOK(r, x) BY <2>3 DEF ElsewhereOK
  <2>8. NamedOK(x) BY <2>3 DEF NamedOK
  <2>9. QED BY <2>2, <2>4, <2>5, <2>6, <2>7, <2>8 DEF RequestOK, x
<1>3. CASE Become(r, [NoRequest EXCEPT !.pc = "ended", !.events = 1]) BY <1>2, <1>3
<1>4. ASSUME NEW k \in Kinds, NEW v \in {"direct", "proxy", "sticky", "chain"},
             NEW safe \in BOOLEAN, NEW body \in BOOLEAN, NEW caching \in BOOLEAN,
             k # "http" => ~safe /\ ~body /\ ~caching,
             Become(r, [NoRequest EXCEPT !.pc = "routing", !.kind = k, !.via = v, !.safe = safe,
                                         !.body = body, !.caching = caching])
      PROVE  \E x : Become(r, x) /\ RequestOK(r, x)
  BY <1>1, <1>4
<1>5. CASE ~Become(r, [NoRequest EXCEPT !.pc = "ended", !.events = 1])
  <2>1. PICK k \in Kinds, v \in {"direct", "proxy", "sticky", "chain"},
             safe \in BOOLEAN, body \in BOOLEAN, caching \in BOOLEAN :
          /\ k # "http" => ~safe /\ ~body /\ ~caching
          /\ Become(r, [NoRequest EXCEPT !.pc = "routing", !.kind = k, !.via = v, !.safe = safe,
                                         !.body = body, !.caching = caching])
    BY <1>5, ZenonT(60) DEF Arrive
  <2>2. QED BY <1>4, <2>1
<1>6. QED BY <1>3, <1>5

(* A choice among pools is an endpoint that is not excluded; a chain's hops   *)
(* are as many, of such endpoints.                                            *)
LEMMA SelectableNew ==
  ASSUME NEW pool, NEW excluded, NEW e \in Selectable(pool, excluded)
  PROVE  e \in Endpoints /\ e \notin excluded
BY DEF Selectable, UsableOf, Usable

LEMMA ChainRouteNew ==
  ASSUME NEW excluded, NEW s \in ChainRoutes(excluded)
  PROVE  s \in Seq(Endpoints) /\ s # <<>> /\ {s[i] : i \in DOMAIN s} \cap excluded = {}
<1>1. PICK c \in DOMAIN Chains : s \in Links(Chains[c], Len(Chains[c]), excluded)
  BY DEF ChainRoutes
<1>2. Len(Chains[c]) \in Nat /\ Len(Chains[c]) >= 2
  <2>1. Chains[c] \in Seq(Seq(SUBSET Endpoints)) /\ Len(Chains[c]) >= 2 BY GatewayAssumption
  <2>2. QED BY <2>1
<1> DEFINE n == Len(Chains[c])
<1> HIDE DEF n
<1>3. /\ s \in [1 .. n -> Endpoints] /\ n \in Nat /\ n >= 2
      /\ \A i \in 1 .. n : s[i] \in Selectable(Chains[c][i], excluded \cup {s[k] : k \in 1 .. i - 1})
  BY <1>1, <1>2 DEF Links, n
<1>4. \A i \in 1 .. n : s[i] \notin excluded BY <1>3, SelectableNew
<1>5. DOMAIN s = 1 .. n /\ s \in Seq(Endpoints) /\ Len(s) = n BY <1>3
<1>6. QED BY <1>3, <1>4, <1>5

(* What almost every step of a request does: it ends, or proceeds without     *)
(* asking for a route again.                                                  *)
Proceeds(r, x) ==
  /\ Become(r, x) /\ RequestOK(r, x)
  /\ x.pc = "ended" \/ (x.pc \notin {"idle", "routing"} /\ x.inner = q[r].inner)

LEMMA ProceedsReady ==
  ASSUME NEW r \in Requests, RequestOK(r, q[r]), q[r].pc = "routing", NEW hops, NEW sid,
         Ready(r, hops, sid), hops # <<>>, sid \in Sid \cup {<<>>},
         IF q[r].via = "direct" THEN hops = <<Direct>> ELSE hops \in Seq(Endpoints),
         \/ {hops[i] : i \in DOMAIN hops} \cap q[r].tried = {} /\ (sid # <<>> => sid[3] = q[r].tries)
         \/ q[r].via = "sticky" /\ ~Own(r, q[r], sid)
  PROVE  \E x : Proceeds(r, x)
<1> DEFINE x == [q[r] EXCEPT !.pc = "ready", !.hops = hops, !.sid = sid]
<1>1. RequestOK(r, x) /\ x.pc = "ready" /\ x.inner = q[r].inner BY ReadyOK
<1>2. Become(r, x) BY DEF Ready
<1> HIDE DEF x
<1>3. QED BY <1>1, <1>2 DEF Proceeds

LEMMA ProceedsRejected ==
  ASSUME NEW r \in Requests, RequestOK(r, q[r]), q[r].pc = "routing", Become(r, Rejected(r))
  PROVE  \E x : Proceeds(r, x)
BY RejectedOK DEF Proceeds

LEMMA RouteFreelyOK ==
  ASSUME NEW r \in Requests, RequestOK(r, q[r]), q[r].pc = "routing", RouteFreely(r)
  PROVE  \E x : Proceeds(r, x)
<1>1. q[r].tried \subseteq q[r].excluded /\ q[r].excluded \subseteq Endpoints
  BY DEF RequestOK, ElsewhereOK, Request
<1>2. CASE Become(r, Rejected(r)) BY <1>2, ProceedsRejected
<1>3. CASE q[r].via = "direct" /\ Ready(r, <<Direct>>, <<>>)
  <2>1. Direct \notin q[r].tried BY <1>1, GatewayAssumption
  <2> DEFINE hops == <<Direct>>
  <2>2. {hops[i] : i \in DOMAIN hops} = {Direct} /\ hops # <<>> OBVIOUS
  <2>3. hops = <<Direct>> OBVIOUS
  <2> HIDE DEF hops
  <2>4. QED BY <1>3, <2>1, <2>2, <2>3, ProceedsReady
<1>4. ASSUME NEW e \in Selectable(RootPool, q[r].excluded), Ready(r, <<e>>, <<>>), q[r].via = "proxy"
      PROVE  \E x : Proceeds(r, x)
  <2>1. e \in Endpoints /\ e \notin q[r].tried BY <1>1, SelectableNew
  <2> DEFINE hops == <<e>>
  <2>2. {hops[i] : i \in DOMAIN hops} = {e} /\ hops # <<>> /\ hops \in Seq(Endpoints) BY <2>1
  <2>3. Ready(r, hops, <<>>) BY <1>4
  <2> HIDE DEF hops
  <2>4. QED BY <1>4, <2>1, <2>2, <2>3, ProceedsReady
<1>5. ASSUME NEW s \in ChainRoutes(q[r].excluded), Ready(r, s, <<>>), q[r].via = "chain"
      PROVE  \E x : Proceeds(r, x)
  <2>1. s \in Seq(Endpoints) /\ s # <<>> /\ {s[i] : i \in DOMAIN s} \cap q[r].tried = {}
    BY <1>1, ChainRouteNew
  <2>2. QED BY <1>5, <2>1, ProceedsReady
<1>6. QED BY <1>2, <1>3, <1>4, <1>5 DEF RouteFreely

LEMMA RouteStickyOK ==
  ASSUME NEW r \in Requests, RequestOK(r, q[r]), BindingOK, q[r].pc = "routing", RouteSticky(r)
  PROVE  \E x : Proceeds(r, x)
<1>1. /\ q[r].tried \subseteq q[r].excluded /\ q[r].tries \in 0 .. MaxAttempts
      /\ q[r].inner \in BOOLEAN /\ q[r].via = "sticky"
  BY DEF RequestOK, ElsewhereOK, Request, RouteSticky
<1>2. CASE Become(r, Rejected(r)) BY <1>2, ProceedsRejected
<1>3. CASE Serves(binding) /\ Ready(r, <<binding.e>>, binding.id)
  <2>1. binding \in [id : Sid, e : Endpoints] BY <1>3 DEF BindingOK, Serves
  <2>2. ~Own(r, q[r], binding.id) BY <1>1 DEF BindingOK, Own
  <2> DEFINE hops == <<binding.e>>
  <2>3. hops # <<>> /\ hops \in Seq(Endpoints) BY <2>1
  <2>4. Ready(r, hops, binding.id) BY <1>3
  <2> HIDE DEF hops
  <2>5. QED BY <1>1, <2>1, <2>2, <2>3, <2>4, ProceedsReady
<1>4. ASSUME NEW e \in Selectable(RootPool, q[r].excluded),
             Ready(r, <<e>>, <<r, q[r].inner, q[r].tries>>)
      PROVE  \E x : Proceeds(r, x)
  <2>1. e \in Endpoints /\ e \notin q[r].tried BY <1>1, <1>4, SelectableNew
  <2> DEFINE hops == <<e>>
             sid == <<r, q[r].inner, q[r].tries>>
  <2>2. {hops[i] : i \in DOMAIN hops} = {e} /\ hops # <<>> /\ hops \in Seq(Endpoints) BY <2>1
  <2>3. sid \in Sid /\ sid[3] = q[r].tries BY <1>1 DEF Sid
  <2>4. Ready(r, hops, sid) BY <1>4
  <2> HIDE DEF hops, sid
  <2>5. QED BY <1>1, <2>1, <2>2, <2>3, <2>4, ProceedsReady
<1>5. QED BY <1>2, <1>3, <1>4 DEF RouteSticky

LEMMA RouteOK ==
  ASSUME NEW r \in Requests, RequestOK(r, q[r]), BindingOK, Route(r)
  PROVE  \E x : Proceeds(r, x)
BY RouteFreelyOK, RouteStickyOK DEF Route

(* An inspected request begins anew, with the kind and the counts of one.     *)
Within(v, safe, body, caching) ==
  [NoRequest EXCEPT !.pc = "routing", !.via = v, !.safe = safe, !.body = body,
                    !.caching = caching, !.inner = (v = "sticky")]

LEMMA InspectOK ==
  ASSUME NEW r \in Requests, RequestOK(r, q[r]), Inspect(r)
  PROVE  \E x : /\ Become(r, x) /\ RequestOK(r, x)
                /\ \/ x.pc = "ended"
                   \/ x.pc = "routing" /\ (x.via = "sticky" => x.inner)
<1>1. ASSUME NEW v \in {"direct", "proxy", "sticky", "chain"}, NEW safe \in BOOLEAN, NEW body \in BOOLEAN,
             NEW caching \in BOOLEAN, NEW z, z = Within(v, safe, body, caching)
      PROVE  RequestOK(r, z) /\ z.pc = "routing" /\ (z.via = "sticky" => z.inner)
  <2> DEFINE inner == v = "sticky"
             y == [NoRequest EXCEPT !.pc = "routing", !.via = v]
             x == [y EXCEPT !.safe = safe, !.body = body, !.caching = caching, !.inner = inner]
  <2>1. inner \in BOOLEAN /\ (v = "sticky" => inner) OBVIOUS
  <2> HIDE DEF inner
  <2>2. y \in Request BY NoRequestOK DEF Request
  <2>3. /\ y.pc = "routing" /\ y.kind = "http" /\ y.via = v /\ y.held = {} /\ y.tried = {}
        /\ y.tries = 0 /\ y.events = 0 /\ y.billed = 0 /\ y.gone = FALSE /\ y.misnamed = FALSE
    BY DEF NoRequest
  <2> HIDE DEF y
  <2>4. x \in Request BY <2>1, <2>2 DEF Request
  <2>5. /\ x.pc = "routing" /\ x.kind = "http" /\ x.via = v /\ x.held = {} /\ x.tried = {}
        /\ x.tries = 0 /\ x.events = 0 /\ x.billed = 0 /\ x.gone = FALSE /\ x.inner = inner
        /\ x.misnamed = FALSE
    BY <2>2, <2>3 DEF Request
  <2>6. x = z BY <1>1 DEF y, inner, Within
  <2> HIDE DEF x
  <2>7. HopsOK(x) BY <2>5, FS_EmptySet DEF HopsOK, Routed
  <2>8. EventsOK(x) BY <2>5, GatewayAssumption DEF EventsOK
  <2>9. BodyOK(x) BY <2>5 DEF BodyOK
  <2>10. ElsewhereOK(r, x) BY <2>5 DEF ElsewhereOK
  <2>11. RequestOK(r, x)
    <3>1. NamedOK(x) BY <2>5 DEF NamedOK
    <3>2. QED BY <2>4, <2>7, <2>8, <2>9, <2>10, <3>1 DEF RequestOK
  <2>12. x.via = "sticky" => x.inner BY <2>1, <2>5
  <2>13. QED BY <2>5, <2>6, <2>11, <2>12
<1>2. ASSUME Become(r, Ended(q[r])) PROVE RequestOK(r, Ended(q[r])) /\ Ended(q[r]).pc = "ended"
  <2>1. q[r] \in Request /\ q[r].tries = 0 /\ q[r].events = 0 /\ q[r].billed = 0 /\ q[r].misnamed = FALSE
    BY DEF Inspect, RequestOK, EventsOK, BodyOK, NamedOK
  <2>2. /\ q[r].billed <= 1
        /\ q[r].kind = "test" => q[r].events = 0
        /\ q[r].kind # "test" /\ q[r].tries > 0 =>
             q[r].events = q[r].tries - (IF q[r].gone THEN 1 ELSE 0)
    BY <2>1
  <2>3. QED BY <2>1, <2>2, EndedOK
<1>3. CASE Become(r, Ended(q[r])) BY <1>2, <1>3
<1>4. CASE ~Become(r, Ended(q[r]))
  <2>1. PICK v \in {"direct", "proxy", "sticky", "chain"}, safe \in BOOLEAN, body \in BOOLEAN,
             caching \in BOOLEAN : Become(r, Within(v, safe, body, caching))
    BY <1>4, ZenonT(60) DEF Inspect, Within
  <2>2. QED BY <1>1, <2>1
<1>5. QED BY <1>3, <1>4

LEMMA TryDirectOK ==
  ASSUME NEW r \in Requests, RequestOK(r, q[r]), TryDirect(r)
  PROVE  \E x : Proceeds(r, x)
<1> DEFINE x == [q[r] EXCEPT !.pc = "flight", !.tries = @ + 1]
<1>1. Become(r, x) /\ q[r].pc = "ready" /\ q[r].via = "direct" BY DEF TryDirect
<1>2. /\ q[r] \in Request /\ q[r].tries + 1 \in 0 .. MaxAttempts /\ q[r].tries \in Nat
      /\ q[r].held = {} /\ q[r].gone = FALSE
  BY <1>1, GatewayAssumption DEF RequestOK, HopsOK, EventsOK, Request
<1>3. x \in Request BY <1>2 DEF Request
<1>4. /\ x.pc = "flight" /\ x.tries = q[r].tries + 1 /\ x.hops = q[r].hops /\ x.sid = q[r].sid
      /\ x.via = q[r].via /\ x.kind = q[r].kind /\ x.body = q[r].body /\ x.inner = q[r].inner /\ x.caching = q[r].caching
      /\ x.held = {} /\ x.excluded = q[r].excluded /\ x.tried = q[r].tried
      /\ x.events = q[r].events /\ x.billed = q[r].billed /\ x.gone = FALSE /\ x.misnamed = q[r].misnamed
  BY <1>2 DEF Request
<1> HIDE DEF x
<1>5. HopsOK(x) BY <1>1, <1>4 DEF RequestOK, HopsOK, Routed
<1>6. EventsOK(x) BY <1>1, <1>2, <1>4 DEF RequestOK, EventsOK
<1>7. BodyOK(x) BY <1>1, <1>4 DEF RequestOK, BodyOK
<1>8. ElsewhereOK(r, x) BY <1>1, <1>4 DEF RequestOK, ElsewhereOK, Own, Hops
<1>9. NamedOK(x) BY <1>4 DEF RequestOK, NamedOK
<1>10. QED BY <1>1, <1>3, <1>4, <1>5, <1>6, <1>7, <1>8, <1>9 DEF RequestOK, Proceeds

(* The claim of a hop: fewer are held than there are hops, so there is a next.*)
LEMMA ClaimOK ==
  ASSUME NEW r \in Requests, RequestOK(r, q[r]), Claim(r)
  PROVE  /\ NextHop(r) \in Endpoints
         /\ \E x : /\ Proceeds(r, x) /\ x.pc \in {"claiming", "flight"}
                  /\ x.held = q[r].held \cup {NextHop(r)}
<1> DEFINE e == NextHop(r)
           last == Cardinality(q[r].held) + 1 = Len(q[r].hops)
           pc == IF last THEN "flight" ELSE "claiming"
           tries == IF last THEN q[r].tries + 1 ELSE q[r].tries
           x == [q[r] EXCEPT !.held = @ \cup {e}, !.pc = pc, !.tries = tries]
<1>1. Become(r, x) /\ q[r].pc \in {"ready", "claiming"} /\ q[r].via # "direct" BY DEF Claim
<1>2. /\ q[r] \in Request /\ q[r].tries + 1 \in 0 .. MaxAttempts /\ q[r].tries \in 0 .. MaxAttempts
      /\ q[r].gone = FALSE /\ q[r].hops \in Seq(Endpoints) /\ q[r].held \subseteq Endpoints
      /\ IsFiniteSet(q[r].held) /\ Cardinality(q[r].held) < Len(q[r].hops)
  BY <1>1, GatewayAssumption DEF RequestOK, HopsOK, EventsOK, Request, Routed
<1>3. Cardinality(q[r].held) \in Nat /\ Len(q[r].hops) \in Nat BY <1>2, FS_CardinalityType
<1>4. Cardinality(q[r].held) + 1 \in 1 .. Len(q[r].hops) BY <1>2, <1>3
<1>5. e \in Endpoints BY <1>2, <1>4 DEF NextHop
<1> HIDE DEF e
<1>6. /\ IsFiniteSet(q[r].held \cup {e})
      /\ Cardinality(q[r].held \cup {e}) \in Nat
      /\ Cardinality(q[r].held \cup {e}) <= Cardinality(q[r].held) + 1
  <2> DEFINE held == q[r].held
  <2>1. IsFiniteSet(held) /\ Cardinality(held) \in Nat BY <1>2, <1>3
  <2> HIDE DEF held
  <2>2. /\ IsFiniteSet(held \cup {e})
        /\ Cardinality(held \cup {e}) = IF e \in held THEN Cardinality(held) ELSE Cardinality(held) + 1
    BY <2>1, FS_AddElement
  <2>3. Cardinality(held \cup {e}) \in Nat /\ Cardinality(held \cup {e}) <= Cardinality(held) + 1
    BY <2>1, <2>2
  <2>4. QED BY <2>2, <2>3 DEF held
<1>7. tries \in 0 .. MaxAttempts /\ pc \in {"claiming", "flight"} BY <1>2
<1>8. /\ pc = "flight" => tries = q[r].tries + 1
      /\ pc = "claiming" => /\ tries = q[r].tries
                            /\ Cardinality(q[r].held \cup {e}) < Len(q[r].hops)
  BY <1>2, <1>3, <1>4, <1>6
<1> HIDE DEF pc, tries
<1>9. x \in Request BY <1>2, <1>5, <1>7 DEF Request
<1>10. /\ x.pc = pc /\ x.tries = tries /\ x.hops = q[r].hops /\ x.sid = q[r].sid
       /\ x.via = q[r].via /\ x.kind = q[r].kind /\ x.body = q[r].body /\ x.inner = q[r].inner /\ x.caching = q[r].caching
       /\ x.held = q[r].held \cup {e} /\ x.excluded = q[r].excluded /\ x.tried = q[r].tried
       /\ x.events = q[r].events /\ x.billed = q[r].billed /\ x.gone = FALSE /\ x.misnamed = q[r].misnamed
  BY <1>2 DEF Request
<1> HIDE DEF x
<1>11. HopsOK(x) BY <1>1, <1>6, <1>7, <1>8, <1>10 DEF RequestOK, HopsOK, Routed
<1>12. EventsOK(x) BY <1>1, <1>2, <1>7, <1>8, <1>10 DEF RequestOK, EventsOK
<1>13. BodyOK(x) BY <1>1, <1>7, <1>10 DEF RequestOK, BodyOK
<1>14. ElsewhereOK(r, x)
  <2>1. /\ x.tried \subseteq x.excluded /\ Hops(x) = Hops(q[r])
        /\ x.via # "sticky" => Hops(x) \cap x.tried = {}
        /\ x.via = "sticky" /\ Own(r, x, x.sid) =>
             x.sid[3] = q[r].tries /\ Hops(x) \cap x.tried = {}
    BY <1>1, <1>10 DEF RequestOK, ElsewhereOK, Own, Hops
  <2>2. QED BY <1>2, <1>7, <1>8, <1>10, <2>1 DEF ElsewhereOK
<1>15. RequestOK(r, x)
  <2>1. NamedOK(x) BY <1>7, <1>10 DEF RequestOK, NamedOK
  <2>2. QED BY <1>9, <1>11, <1>12, <1>13, <1>14, <2>1 DEF RequestOK
<1>16. Proceeds(r, x) BY <1>1, <1>7, <1>10, <1>15 DEF Proceeds
<1>17. QED BY <1>5, <1>7, <1>10, <1>16 DEF e

LEMMA AnswerOK ==
  ASSUME NEW r \in Requests, RequestOK(r, q[r]), Answer(r)
  PROVE  \E x : Proceeds(r, x) /\ x.held = {}
<1>1. q[r].pc = "flight" /\ q[r] \in Request BY DEF Answer, RequestOK
<1>2. CASE q[r].kind = "test"
  <2>1. Become(r, Ended(q[r])) BY <1>2 DEF Answer
  <2>2. q[r].events = 0 /\ q[r].billed <= 1 /\ q[r].misnamed = FALSE
    BY <1>2 DEF RequestOK, EventsOK, BodyOK, NamedOK
  <2>3. RequestOK(r, Ended(q[r])) /\ Ended(q[r]).pc = "ended" /\ Ended(q[r]).held = {}
    BY <1>1, <1>2, <2>2, EndedOK
  <2>4. QED BY <2>1, <2>3 DEF Proceeds
<1>3. CASE q[r].kind # "test"
  <2> DEFINE last == LastHop(q[r].hops)
             x == [q[r] EXCEPT !.pc = "answered", !.held = {}, !.answerer = last]
  <2>1. Become(r, x) BY <1>3 DEF Answer
  <2>2. x \in Request
    <3>1. q[r].hops \in Seq(Endpoints \cup {Direct}) /\ q[r].hops # <<>>
      BY <1>1 DEF RequestOK, HopsOK, Request, Routed
    <3>2. last \in Endpoints \cup {Direct} BY <3>1 DEF LastHop
    <3> HIDE DEF last
    <3>3. QED BY <1>1, <3>2 DEF Request
  <2>3. /\ x.pc = "answered" /\ x.tries = q[r].tries /\ x.hops = q[r].hops
        /\ x.via = q[r].via /\ x.kind = q[r].kind /\ x.body = q[r].body /\ x.inner = q[r].inner /\ x.caching = q[r].caching
        /\ x.held = {} /\ x.excluded = q[r].excluded /\ x.tried = q[r].tried
        /\ x.events = q[r].events /\ x.billed = q[r].billed /\ x.gone = q[r].gone
        /\ x.misnamed = q[r].misnamed /\ x.answerer = last
    BY <1>1 DEF Request
  <2> HIDE DEF x
  <2>4. HopsOK(x) BY <1>1, <2>3, FS_EmptySet DEF RequestOK, HopsOK, Routed
  <2>5. EventsOK(x) BY <1>1, <1>3, <2>3 DEF RequestOK, EventsOK
  <2>6. BodyOK(x) BY <1>1, <2>3 DEF RequestOK, BodyOK
  <2>7. ElsewhereOK(r, x) BY <1>1, <2>3 DEF RequestOK, ElsewhereOK
  <2>8. NamedOK(x) BY <2>3 DEF RequestOK, NamedOK
  <2>9. QED BY <2>1, <2>2, <2>3, <2>4, <2>5, <2>6, <2>7, <2>8 DEF RequestOK, Proceeds
<1>4. QED BY <1>2, <1>3

LEMMA FailOK ==
  ASSUME NEW r \in Requests, RequestOK(r, q[r]), Fail(r)
  PROVE  \E x : Proceeds(r, x) /\ x.held = {}
<1>1. q[r].pc = "flight" /\ q[r] \in Request BY DEF Fail, RequestOK
<1>2. CASE q[r].kind = "test"
  <2>1. Become(r, Ended(q[r])) BY <1>2 DEF Fail
  <2>2. q[r].events = 0 /\ q[r].billed <= 1 /\ q[r].misnamed = FALSE
    BY <1>2 DEF RequestOK, EventsOK, BodyOK, NamedOK
  <2>3. RequestOK(r, Ended(q[r])) /\ Ended(q[r]).pc = "ended" /\ Ended(q[r]).held = {}
    BY <1>1, <1>2, <2>2, EndedOK
  <2>4. QED BY <2>1, <2>3 DEF Proceeds
<1>3. CASE q[r].kind # "test"
  <2> DEFINE events == q[r].events + 1
             billed == IF q[r].body THEN q[r].billed + 1 ELSE q[r].billed
             tried  == q[r].tried \cup HopsOf(r)
             x == [q[r] EXCEPT !.pc = "failed", !.held = {}, !.tried = tried,
                               !.events = events, !.billed = billed]
  <2>1. Become(r, x) BY <1>3 DEF Fail
  <2>2. /\ q[r].events = q[r].tries - 1 /\ q[r].tries > 0 /\ q[r].tries \in 0 .. MaxAttempts
        /\ q[r].billed = 0 /\ MaxAttempts \in Nat \ {0}
        /\ q[r].hops \in Seq(Endpoints \cup {Direct}) /\ q[r].tried \subseteq Endpoints \cup {Direct}
    BY <1>1, <1>3, GatewayAssumption DEF RequestOK, EventsOK, BodyOK, Request
  <2>3. /\ events = q[r].tries /\ events \in 0 .. MaxAttempts
        /\ billed \in 0 .. MaxAttempts /\ billed <= 1 /\ (~q[r].body => billed = 0)
    BY <2>2
  <2>4. HopsOf(r) = Hops(q[r]) /\ tried \subseteq Endpoints \cup {Direct}
    BY <2>2 DEF HopsOf, Hops
  <2>5. q[r].tried \subseteq q[r].excluded BY <1>1 DEF RequestOK, ElsewhereOK
  <2> HIDE DEF events, billed
  <2>6. tried \subseteq q[r].excluded \cup Hops(q[r]) BY <2>4, <2>5
  <2> HIDE DEF tried
  <2>7. x \in Request BY <1>1, <2>3, <2>4 DEF Request
  <2>8. /\ x.pc = "failed" /\ x.tries = q[r].tries /\ x.hops = q[r].hops
        /\ x.via = q[r].via /\ x.kind = q[r].kind /\ x.body = q[r].body /\ x.inner = q[r].inner /\ x.caching = q[r].caching
        /\ x.held = {} /\ x.excluded = q[r].excluded /\ x.tried = tried
        /\ x.events = events /\ x.billed = billed /\ x.gone = q[r].gone /\ x.misnamed = q[r].misnamed
    BY <1>1 DEF Request
  <2> HIDE DEF x
  <2>9. HopsOK(x) BY <1>1, <2>8, FS_EmptySet DEF RequestOK, HopsOK, Routed
  <2>10. EventsOK(x) BY <1>1, <1>3, <2>3, <2>8 DEF RequestOK, EventsOK
  <2>11. BodyOK(x) BY <1>1, <2>3, <2>8 DEF RequestOK, BodyOK
  <2>12. ElsewhereOK(r, x) BY <2>6, <2>8 DEF ElsewhereOK, Hops
  <2>13. NamedOK(x) BY <2>8 DEF RequestOK, NamedOK
  <2>14. QED BY <2>1, <2>7, <2>8, <2>9, <2>10, <2>11, <2>12, <2>13 DEF RequestOK, Proceeds
<1>4. QED BY <1>2, <1>3

(* A retry has excluded all that was tried; a body was read only of requests  *)
(* that are not retried.                                                      *)
LEMMA RetryOK ==
  ASSUME NEW r \in Requests, RequestOK(r, q[r]), Retry(r)
  PROVE  \E x : Become(r, x) /\ RequestOK(r, x) /\ x.pc = "routing" /\ x.via = q[r].via /\ x.inner = q[r].inner
<1> DEFINE x == [q[r] EXCEPT !.pc = "routing", !.excluded = Excluded(r), !.hops = <<>>, !.sid = <<>>]
<1>1. /\ Become(r, x) /\ q[r].pc = "failed" /\ q[r].via # "direct" /\ q[r].tries < MaxAttempts
      /\ q[r].kind = "http" => ~q[r].body
  BY DEF Retry, ShouldRetry
<1>2. q[r] \in Request /\ q[r].hops \in Seq(Endpoints) /\ q[r].excluded \subseteq Endpoints
  BY <1>1 DEF RequestOK, HopsOK, Request, Routed
<1>3. Excluded(r) = q[r].excluded \cup Hops(q[r]) BY DEF Excluded, HopsOf, Hops
<1>4. Excluded(r) \subseteq Endpoints /\ q[r].tried \subseteq Excluded(r)
  <2>1. Hops(q[r]) \subseteq Endpoints BY <1>2 DEF Hops
  <2>2. QED BY <1>1, <1>2, <1>3, <2>1 DEF RequestOK, ElsewhereOK
<1>5. <<>> \in Seq(Endpoints \cup {Direct}) OBVIOUS
<1>6. x \in Request BY <1>2, <1>4, <1>5 DEF Request
<1>7. /\ x.pc = "routing" /\ x.tries = q[r].tries
      /\ x.via = q[r].via /\ x.kind = q[r].kind /\ x.body = q[r].body /\ x.inner = q[r].inner /\ x.caching = q[r].caching
      /\ x.held = q[r].held /\ x.excluded = Excluded(r) /\ x.tried = q[r].tried
      /\ x.events = q[r].events /\ x.billed = q[r].billed /\ x.gone = q[r].gone /\ x.misnamed = q[r].misnamed
  BY <1>2 DEF Request
<1> HIDE DEF x
<1>8. HopsOK(x) BY <1>1, <1>7, FS_EmptySet DEF RequestOK, HopsOK, Routed
<1>9. EventsOK(x) BY <1>1, <1>7 DEF RequestOK, EventsOK
<1>10. BodyOK(x) BY <1>1, <1>7 DEF RequestOK, BodyOK
<1>11. ElsewhereOK(r, x) BY <1>4, <1>7 DEF ElsewhereOK
<1>12. NamedOK(x) BY <1>7 DEF RequestOK, NamedOK
<1>13. QED BY <1>1, <1>6, <1>7, <1>8, <1>9, <1>10, <1>11, <1>12 DEF RequestOK

(* The steps that end a request.                                              *)
LEMMA EndOK ==
  ASSUME NEW r \in Requests, RequestOK(r, q[r]), CacheOK,
         Unaffordable(r) \/ ServeCached(r) \/ Refuse(r) \/ GiveUp(r)
  PROVE  \E x : Proceeds(r, x) /\ x.held = {}
<1>1. q[r] \in Request BY DEF RequestOK
<1>2. CASE Unaffordable(r) \/ Refuse(r)
  <2>1. Become(r, Rejected(r)) /\ q[r].pc \in {"ready", "claiming"}
    BY <1>2 DEF Unaffordable, Refuse, Refused
  <2>2. QED BY <2>1, RejectedOK DEF Proceeds
<1>3. CASE ServeCached(r)
  <2>1. PICK c \in cached :
          /\ c.key = KeyOf(r)
          /\ Become(r, Ended([q[r] EXCEPT !.events = @ + 1, !.misnamed = c.by # LastHop(q[r].hops)]))
    BY <1>3 DEF ServeCached
  <2> DEFINE n == q[r].events + 1
             named == c.by # LastHop(q[r].hops)
             x == [q[r] EXCEPT !.events = n, !.misnamed = named]
  <2>2. Become(r, Ended(x)) /\ q[r].pc = "ready" /\ q[r].tries = 0 /\ q[r].caching
    BY <1>3, <2>1 DEF ServeCached, MayHit
  <2>3. named = FALSE BY <2>1 DEF CacheOK, KeyOf
  <2>4. /\ q[r].billed = 0 /\ q[r].gone = FALSE /\ q[r].events = 0 /\ q[r].kind # "test"
    BY <2>2 DEF RequestOK, EventsOK, BodyOK
  <2>5. n \in 0 .. MaxAttempts BY <2>4, GatewayAssumption
  <2> HIDE DEF n, named
  <2>6. x \in Request BY <1>1, <2>5, <2>3 DEF Request
  <2>7. x.kind = q[r].kind /\ x.tries = 0 /\ x.billed = 0 /\ x.misnamed = FALSE
    BY <1>1, <2>2, <2>4, <2>3 DEF Request
  <2> HIDE DEF x
  <2>8. /\ x.billed <= 1
        /\ x.kind = "test" => x.events = 0
        /\ x.kind # "test" /\ x.tries > 0 => x.events = x.tries - (IF x.gone THEN 1 ELSE 0)
    BY <2>4, <2>7
  <2>9. RequestOK(r, Ended(x)) /\ Ended(x).pc = "ended" /\ Ended(x).held = {}
    BY <2>6, <2>7, <2>8, EndedOK
  <2>10. QED BY <2>2, <2>9 DEF Proceeds
<1>4. CASE GiveUp(r)
  <2>1. Become(r, Ended(q[r])) /\ q[r].pc = "failed" BY <1>4 DEF GiveUp
  <2>2. /\ q[r].billed <= 1 /\ q[r].gone = FALSE /\ q[r].kind # "test" /\ q[r].events = q[r].tries
        /\ q[r].events \in Nat /\ q[r].misnamed = FALSE
    BY <1>1, <2>1, GatewayAssumption DEF RequestOK, EventsOK, BodyOK, NamedOK, Request
  <2>3. /\ q[r].kind = "test" => q[r].events = 0
        /\ q[r].kind # "test" /\ q[r].tries > 0 =>
             q[r].events = q[r].tries - (IF q[r].gone THEN 1 ELSE 0)
    BY <1>1, <2>2 DEF Request
  <2>4. RequestOK(r, Ended(q[r])) /\ Ended(q[r]).pc = "ended" /\ Ended(q[r]).held = {}
    BY <1>1, <2>2, <2>3, EndedOK
  <2>5. QED BY <2>1, <2>4 DEF Proceeds
<1>5. QED BY <1>2, <1>3, <1>4

(* One event for the attempt that was answered, unless the tunnel's client    *)
(* left.                                                                      *)
LEMMA DeliverOK ==
  ASSUME NEW r \in Requests, RequestOK(r, q[r]), Deliver(r)
  PROVE  \E x : Proceeds(r, x) /\ x.held = {}
<1> DEFINE events == q[r].events + 1
           billed == IF q[r].body THEN q[r].billed + 1 ELSE q[r].billed
           named == LastHop(q[r].hops) # q[r].answerer
           x == [q[r] EXCEPT !.events = events, !.billed = billed, !.misnamed = named]
<1>1. Become(r, Ended(x)) /\ q[r].pc = "answered" /\ q[r] \in Request BY DEF Deliver, RequestOK
<1>2. /\ q[r].kind # "test" /\ q[r].events = q[r].tries - 1 /\ q[r].tries > 0
      /\ q[r].tries \in 0 .. MaxAttempts /\ q[r].billed = 0 /\ q[r].gone = FALSE
      /\ MaxAttempts \in Nat \ {0} /\ named = FALSE
  BY <1>1, GatewayAssumption DEF RequestOK, EventsOK, BodyOK, NamedOK, Request
<1>3. events = q[r].tries /\ events \in 0 .. MaxAttempts /\ billed \in 0 .. MaxAttempts /\ billed <= 1
  BY <1>2
<1> HIDE DEF events, billed, named
<1>4. x \in Request
  <2> DEFINE y == [q[r] EXCEPT !.events = events, !.billed = billed]
  <2>1. y \in Request BY <1>1, <1>3 DEF Request
  <2>2. x = [y EXCEPT !.misnamed = named] OBVIOUS
  <2>3. named = FALSE BY <1>2
  <2>4. x = [y EXCEPT !.misnamed = FALSE] BY <2>2, <2>3
  <2> HIDE DEF x, y
  <2>5. QED BY <2>1, <2>4 DEF Request
<1>5. /\ x.kind = q[r].kind /\ x.tries = q[r].tries /\ x.billed = billed /\ x.events = events
      /\ x.gone = FALSE /\ x.misnamed = FALSE
  BY <1>1, <1>2 DEF Request
<1> HIDE DEF x
<1>6. /\ x.events = x.tries - (IF x.gone THEN 1 ELSE 0) /\ x.billed <= 1 /\ x.kind # "test"
      /\ x.misnamed = FALSE
  BY <1>2, <1>3, <1>5
<1>7. RequestOK(r, Ended(x)) /\ Ended(x).pc = "ended" /\ Ended(x).held = {}
  BY <1>4, <1>6, EndedOK
<1>8. QED BY <1>1, <1>7 DEF Proceeds

LEMMA SpliceOK ==
  ASSUME NEW r \in Requests, RequestOK(r, q[r]), Splice(r)
  PROVE  \E x : Proceeds(r, x) /\ x.held = {}
<1>1. PICK gone \in BOOLEAN :
        Become(r, Ended([q[r] EXCEPT !.gone = gone, !.events = IF gone THEN @ ELSE @ + 1]))
  BY DEF Splice
<1> DEFINE events == IF gone THEN q[r].events ELSE q[r].events + 1
           x == [q[r] EXCEPT !.gone = gone, !.events = events]
<1>2. Become(r, Ended(x)) /\ q[r].pc = "answered" /\ q[r] \in Request
  BY <1>1 DEF Splice, RequestOK
<1>3. /\ q[r].kind # "test" /\ q[r].events = q[r].tries - 1 /\ q[r].tries > 0
      /\ q[r].tries \in 0 .. MaxAttempts /\ q[r].billed = 0 /\ MaxAttempts \in Nat \ {0}
      /\ q[r].misnamed = FALSE
  BY <1>2, GatewayAssumption DEF RequestOK, EventsOK, BodyOK, NamedOK, Request
<1>4. events = q[r].tries - (IF gone THEN 1 ELSE 0) /\ events \in 0 .. MaxAttempts
  BY <1>3
<1> HIDE DEF events
<1>5. x \in Request BY <1>2, <1>4 DEF Request
<1>6. /\ x.kind = q[r].kind /\ x.tries = q[r].tries /\ x.billed = 0 /\ x.events = events /\ x.gone = gone
      /\ x.misnamed = FALSE
  BY <1>2, <1>3 DEF Request
<1> HIDE DEF x
<1>7. /\ x.events = x.tries - (IF x.gone THEN 1 ELSE 0) /\ x.billed <= 1 /\ x.kind # "test"
      /\ x.misnamed = FALSE
  BY <1>3, <1>4, <1>6
<1>8. RequestOK(r, Ended(x)) /\ Ended(x).pc = "ended" /\ Ended(x).held = {}
  BY <1>5, <1>7, EndedOK
<1>9. QED BY <1>2, <1>8 DEF Proceeds

-----------------------------------------------------------------------------
(* The steps of the gateway.                                                  *)

OnlyOf(r) == \A o \in Requests \ {r} : q'[o] = q[o]

LEMMA HandleProceeds ==
  ASSUME RequestsOK, BindingOK, CacheOK, NEW r \in Requests, Handle(r), ~Inspect(r), ~Retry(r)
  PROVE  \E x : Proceeds(r, x)
<1>1. RequestOK(r, q[r]) BY DEF RequestsOK
<1>2. QED
  BY <1>1, RouteOK, TryDirectOK, ClaimOK, AnswerOK, FailOK, EndOK, DeliverOK, SpliceOK DEF Handle

LEMMA StepRequests ==
  ASSUME RequestsOK, BindingOK, CacheOK, NEW r \in Requests, Arrive(r) \/ Handle(r)
  PROVE  RequestsOK' /\ OnlyOf(r)
<1>1. RequestOK(r, q[r]) BY DEF RequestsOK
<1>2. \E x : Become(r, x) /\ RequestOK(r, x)
  BY <1>1, HandleProceeds, ArriveOK, InspectOK, RetryOK DEF Proceeds
<1>3. QED BY <1>2, Becomes DEF OnlyOf

(* A probe goes with the request that held it, or has another.                *)
LEMMA ProbesStay ==
  ASSUME RequestsOK, ProbesReturned, NEW r \in Requests, OnlyOf(r),
         probes' \subseteq probes \ q[r].held
  PROVE  ProbesReturned'
<1>1. SUFFICES ASSUME NEW e \in probes'
               PROVE  \E o \in Requests : e \in q'[o].held /\ q'[o].pc \in {"claiming", "flight"}
  BY DEF ProbesReturned
<1>2. PICK o \in Requests : e \in q[o].held /\ q[o].pc \in {"claiming", "flight"}
  BY DEF ProbesReturned
<1>3. o # r BY <1>2
<1>4. QED BY <1>2, <1>3 DEF OnlyOf

LEMMA StepProbes ==
  ASSUME RequestsOK, BindingOK, CacheOK, CircuitsOK, ProbesReturned, NEW r \in Requests, Arrive(r) \/ Handle(r)
  PROVE  ProbesReturned' /\ probes' \subseteq Endpoints
<1>1. RequestOK(r, q[r]) /\ OnlyOf(r) BY StepRequests DEF RequestsOK
<1>2. ASSUME UNCHANGED probes, q[r].pc \notin {"claiming", "flight"}
      PROVE  ProbesReturned' /\ probes' \subseteq Endpoints
  BY <1>1, <1>2, ProbesStay DEF RequestOK, HopsOK, CircuitsOK
<1>3. CASE Refuse(r) \/ Answer(r) \/ Fail(r)
  <2>1. probes' = probes \ q[r].held BY <1>3 DEF Refuse, Answer, Fail, Report
  <2>2. QED BY <1>1, <2>1, ProbesStay DEF CircuitsOK
<1>4. CASE Claim(r)
  <2>1. NextHop(r) \in Endpoints BY <1>1, <1>4, ClaimOK
  <2>2. PICK x : Proceeds(r, x) /\ x.pc \in {"claiming", "flight"} /\ x.held = q[r].held \cup {NextHop(r)}
    BY <1>1, <1>4, ClaimOK
  <2>3. q'[r] = x BY <2>2, Becomes DEF Proceeds
  <2>4. probes' \subseteq probes \cup {NextHop(r)} BY <1>4 DEF Claim
  <2>5. ASSUME NEW e \in probes'
        PROVE  \E o \in Requests : e \in q'[o].held /\ q'[o].pc \in {"claiming", "flight"}
    <3>1. CASE e = NextHop(r) BY <2>2, <2>3, <3>1
    <3>2. CASE e \in probes
      <4>1. PICK o \in Requests : e \in q[o].held /\ q[o].pc \in {"claiming", "flight"}
        BY <3>2 DEF ProbesReturned
      <4>2. CASE o = r BY <2>2, <2>3, <4>1, <4>2
      <4>3. CASE o # r BY <1>1, <4>1, <4>3 DEF OnlyOf
      <4>4. QED BY <4>2, <4>3
    <3>3. QED BY <2>4, <3>1, <3>2
  <2>6. QED BY <2>1, <2>4, <2>5 DEF ProbesReturned, CircuitsOK
<1>5. CASE \/ Arrive(r) \/ Route(r) \/ Inspect(r) \/ Unaffordable(r) \/ ServeCached(r)
           \/ TryDirect(r) \/ Retry(r) \/ GiveUp(r) \/ Deliver(r) \/ Splice(r)
  <2>1. UNCHANGED probes /\ q[r].pc \notin {"claiming", "flight"}
    BY <1>5 DEF Arrive, Route, Inspect, Unaffordable, ServeCached, TryDirect, Retry, GiveUp,
                Deliver, Splice
  <2>2. QED BY <1>2, <2>1
<1>6. QED BY <1>3, <1>4, <1>5 DEF Handle

LEMMA StepCircuits ==
  ASSUME CircuitsOK, NEW r \in Requests, Arrive(r) \/ Handle(r)
  PROVE  circuit' \in [Endpoints -> {"closed", "open", "half_open"}]
<1>1. CASE Answer(r) \/ Fail(r) BY <1>1 DEF Answer, Fail, Report
<1>2. CASE ~(Answer(r) \/ Fail(r))
  BY <1>2 DEF Handle, Arrive, Route, Inspect, Unaffordable, ServeCached, TryDirect, Claim, Refuse,
              Retry, GiveUp, Deliver, Splice, CircuitsOK
<1>3. QED BY <1>1, <1>2

(* A session that stays remains what it is to the others; to the request that *)
(* steps it may not become one it could take for its own.                     *)
LEMMA BindingStays ==
  ASSUME BindingOK, NEW r \in Requests, OnlyOf(r), binding' \in {binding, NoBinding},
         \/ q'[r].pc = "ended"
         \/ q[r].pc \notin {"idle", "ended"} /\ q'[r].inner = q[r].inner /\ q'[r].pc \notin {"idle", "routing"}
  PROVE  BindingOK'
<1>1. NoBinding.id = <<>> BY DEF NoBinding
<1>2. binding' = NoBinding \/ binding' \in [id : Sid, e : Endpoints]
  BY DEF BindingOK
<1>3. ASSUME NEW o \in Requests, binding'.id # <<>>, binding'.id[1] = o, q'[o].pc # "ended"
      PROVE  /\ q'[o].pc # "idle"
             /\ binding'.id[2] => q'[o].inner
             /\ ~(q'[o].pc = "routing" /\ q'[o].via = "sticky" /\ Own(o, q'[o], binding'.id))
  <2>1. binding' = binding BY <1>1, <1>3
  <2>2. CASE o = r BY <1>3, <2>1, <2>2 DEF BindingOK
  <2>3. CASE o # r BY <1>3, <2>1, <2>3 DEF BindingOK, OnlyOf
  <2>4. QED BY <2>2, <2>3
<1>4. QED BY <1>2, <1>3 DEF BindingOK

LEMMA StepBinding ==
  ASSUME RequestsOK, BindingOK, CacheOK, NEW r \in Requests, Arrive(r) \/ Handle(r)
  PROVE  BindingOK'
<1>1. RequestOK(r, q[r]) /\ OnlyOf(r) BY StepRequests DEF RequestsOK
<1>2. ASSUME NEW x, Proceeds(r, x)
      PROVE  q'[r] = x /\ (x.pc = "ended" \/ (x.pc \notin {"idle", "routing"} /\ x.inner = q[r].inner))
  BY <1>2, Becomes DEF Proceeds
<1>3. CASE \/ RouteFreely(r) /\ Route(r)
           \/ Unaffordable(r) \/ ServeCached(r) \/ TryDirect(r) \/ Claim(r) \/ Refuse(r)
           \/ Answer(r) \/ Fail(r) \/ GiveUp(r) \/ Deliver(r) \/ Splice(r)
  <2>1. binding' \in {binding, NoBinding} /\ q[r].pc \notin {"idle", "ended"}
    BY <1>3 DEF RouteFreely, Route, Unaffordable, ServeCached, TryDirect, Claim, Refuse, Refused,
                Answer, Fail, GiveUp, Deliver, Splice
  <2>2. \E x : Proceeds(r, x)
    BY <1>1, <1>3, RouteOK, TryDirectOK, ClaimOK, AnswerOK, FailOK, EndOK, DeliverOK, SpliceOK
  <2>3. QED BY <1>1, <1>2, <2>1, <2>2, BindingStays
<1>4. CASE RouteSticky(r) /\ Route(r)
  <2>1. PICK x : Proceeds(r, x) BY <1>1, <1>4, RouteStickyOK DEF Route
  <2>2. q[r].pc = "routing" /\ q[r] \in Request /\ q[r].tries \in 0 .. MaxAttempts /\ q[r].inner \in BOOLEAN
    BY <1>1, <1>4 DEF Route, RequestOK, Request
  <2>3. CASE binding' \in {binding, NoBinding} BY <1>1, <1>2, <2>1, <2>2, <2>3, BindingStays
  <2>4. ASSUME NEW e \in Selectable(RootPool, q[r].excluded),
               binding' = [id |-> <<r, q[r].inner, q[r].tries>>, e |-> e],
               Ready(r, <<e>>, <<r, q[r].inner, q[r].tries>>)
        PROVE  BindingOK'
    <3> DEFINE sid == <<r, q[r].inner, q[r].tries>>
               y == [q[r] EXCEPT !.pc = "ready", !.hops = <<e>>, !.sid = sid]
    <3>1. q'[r] = y BY <2>4 DEF Ready, Become, RequestsOK
    <3>2. y.pc = "ready" /\ y.inner = q[r].inner BY <2>2 DEF Request
    <3> HIDE DEF y
    <3>3. sid \in Sid /\ sid[1] = r /\ sid[2] = q[r].inner BY <2>2 DEF Sid
    <3>4. binding'.id = sid BY <2>4
    <3>5. binding' \in [id : Sid, e : Endpoints] BY <2>4, <3>3, SelectableNew
    <3> HIDE DEF sid
    <3>6. QED BY <3>1, <3>2, <3>3, <3>4, <3>5 DEF BindingOK
  <2>5. QED BY <1>4, <2>3, <2>4 DEF RouteSticky
<1>5. CASE Arrive(r)
  <2>1. binding' = binding /\ q[r].pc = "idle" BY <1>5 DEF Arrive
  <2>2. binding.id # <<>> => binding.id[1] # r BY <2>1 DEF BindingOK
  <2>3. QED BY <1>1, <2>1, <2>2 DEF BindingOK, OnlyOf
<1>6. CASE Inspect(r)
  <2>1. binding' = binding /\ q[r].pc = "ready" /\ q[r].kind = "connect" BY <1>6 DEF Inspect
  <2>2. q[r].inner = FALSE BY <1>1, <2>1 DEF RequestOK, BodyOK
  <2>3. PICK x : /\ Become(r, x) /\ RequestOK(r, x)
                 /\ \/ x.pc = "ended"
                    \/ x.pc = "routing" /\ (x.via = "sticky" => x.inner)
    BY <1>1, <1>6, InspectOK
  <2>4. q'[r] = x BY <2>3, Becomes
  <2>5. binding.id # <<>> /\ binding.id[1] = r => ~binding.id[2]
    BY <2>1, <2>2 DEF BindingOK
  <2>6. binding.id # <<>> /\ binding.id[1] = r /\ x.pc # "ended" =>
          /\ x.pc # "idle" /\ (binding.id[2] => x.inner)
          /\ ~(x.pc = "routing" /\ x.via = "sticky" /\ Own(r, x, binding.id))
    BY <2>3, <2>5 DEF Own
  <2>7. QED BY <1>1, <2>1, <2>4, <2>6 DEF BindingOK, OnlyOf
<1>7. CASE Retry(r)
  <2>1. PICK x : Become(r, x) /\ RequestOK(r, x) /\ x.pc = "routing" /\ x.via = q[r].via /\ x.inner = q[r].inner
    BY <1>1, <1>7, RetryOK
  <2>2. q'[r] = x /\ q[r].pc = "failed" BY <1>7, <2>1, Becomes DEF Retry
  <2>3. binding' = IF q[r].via = "sticky" THEN NoBinding ELSE binding BY <1>7 DEF Retry
  <2>4. CASE q[r].via = "sticky" BY <2>3, <2>4 DEF BindingOK, NoBinding
  <2>5. CASE q[r].via # "sticky"
    <3>1. binding.id # <<>> /\ binding.id[1] = r => (binding.id[2] => x.inner)
      BY <2>1, <2>2 DEF BindingOK
    <3>2. QED BY <1>1, <2>1, <2>2, <2>3, <2>5, <3>1 DEF BindingOK, OnlyOf
  <2>6. QED BY <2>4, <2>5
<1>8. QED BY <1>3, <1>4, <1>5, <1>6, <1>7 DEF Handle, Route

LEMMA StepCache ==
  ASSUME RequestsOK, CacheOK, NEW r \in Requests, Arrive(r) \/ Handle(r)
  PROVE  CacheOK'
<1>1. CASE cached' \subseteq cached BY <1>1 DEF CacheOK
<1>2. CASE Deliver(r)
  <2>1. q[r].hops \in Seq(Endpoints \cup {Direct}) /\ q[r].hops # <<>>
    BY <1>2 DEF Deliver, RequestsOK, RequestOK, HopsOK, Request, Routed
  <2>2. LastHop(q[r].hops) \in Endpoints \cup {Direct} BY <2>1 DEF LastHop
  <2>3. StoreKey(r)[2] = LastHop(q[r].hops) BY DEF StoreKey, KeyOf
  <2>4. q[r].answerer = LastHop(q[r].hops) BY <1>2 DEF Deliver, RequestsOK, RequestOK, NamedOK
  <2>5. PICK whole \in BOOLEAN :
          cached' \subseteq cached \cup {[key |-> StoreKey(r), by |-> q[r].answerer, whole |-> whole]}
    BY <1>2 DEF Deliver
  <2>6. QED BY <2>2, <2>3, <2>4, <2>5 DEF CacheOK
<1>3. CASE ~Deliver(r)
  <2>1. Missed(r) \subseteq cached BY DEF Missed
  <2>2. cached' \subseteq cached
    BY <1>3, <2>1 DEF Handle, Arrive, Route, Inspect, Unaffordable, ServeCached, TryDirect, Claim,
                      Refuse, Refused, Answer, Fail, Retry, GiveUp, Splice
  <2>3. QED BY <1>1, <2>2
<1>4. QED BY <1>2, <1>3

-----------------------------------------------------------------------------
LEMMA InitInv == GatewayInit => IInv
<1>1. SUFFICES ASSUME GatewayInit PROVE IInv OBVIOUS
<1>2. \A r : RequestOK(r, NoRequest)
  <2>1. /\ NoRequest.pc = "idle" /\ NoRequest.kind = "http" /\ NoRequest.held = {}
        /\ NoRequest.billed = 0 /\ NoRequest.gone = FALSE /\ NoRequest.tries = 0
        /\ NoRequest.misnamed = FALSE
    BY DEF NoRequest
  <2>2. HopsOK(NoRequest) BY <2>1, FS_EmptySet DEF HopsOK, Routed
  <2>3. EventsOK(NoRequest) BY <2>1 DEF EventsOK
  <2>4. BodyOK(NoRequest) BY <2>1 DEF BodyOK
  <2>5. \A r : ElsewhereOK(r, NoRequest) BY <2>1 DEF ElsewhereOK
  <2>6. NamedOK(NoRequest) BY <2>1 DEF NamedOK
  <2>7. QED BY <2>2, <2>3, <2>4, <2>5, <2>6, NoRequestOK DEF RequestOK
<1>3. RequestsOK BY <1>1, <1>2, NoRequestOK DEF GatewayInit, RequestsOK
<1>4. BindingOK BY <1>1 DEF GatewayInit, BindingOK, NoBinding
<1>5. CircuitsOK /\ CacheOK /\ ProbesReturned
  BY <1>1 DEF GatewayInit, CircuitsOK, CacheOK, ProbesReturned
<1>6. QED BY <1>3, <1>4, <1>5 DEF IInv

LEMMA Invariance == GatewaySpec => []IInv
<1>1. ASSUME IInv, [GatewayNext]_gatewayVars PROVE IInv'
  <2>1. ASSUME NEW r \in Requests, Arrive(r) \/ Handle(r) PROVE IInv'
    BY <1>1, <2>1, StepRequests, StepProbes, StepCircuits, StepBinding, StepCache DEF IInv, CircuitsOK
  <2>2. ASSUME NEW e \in Endpoints, Cool(e) PROVE IInv'
    <3>1. circuit' \in [Endpoints -> {"closed", "open", "half_open"}]
      BY <1>1, <2>2 DEF Cool, IInv, CircuitsOK
    <3>2. UNCHANGED <<probes, binding, cached, q>> BY <2>2 DEF Cool
    <3>3. QED BY <1>1, <3>1, <3>2 DEF IInv, RequestsOK, CircuitsOK, BindingOK, CacheOK, ProbesReturned
  <2>3. CASE UNCHANGED gatewayVars
    BY <1>1, <2>3 DEF gatewayVars, IInv, RequestsOK, CircuitsOK, BindingOK, CacheOK, ProbesReturned
  <2>4. QED BY <1>1, <2>1, <2>2, <2>3 DEF GatewayNext
<1>2. QED BY <1>1, InitInv, PTL DEF GatewaySpec

-----------------------------------------------------------------------------
(* No way a request ends leaves a half-open probe claimed: every mark has a   *)
(* request that still claims or tries.                                        *)
THEOREM ProbesKept == GatewaySpec => []ProbesReturned
<1>1. IInv => ProbesReturned BY DEF IInv
<1>2. QED BY <1>1, Invariance, PTL

(* No attempt goes through an endpoint an earlier one failed through, fallback *)
(* pools, fallback chains and sessions included.                              *)
THEOREM RetriesElsewhere == GatewaySpec => []RetryElsewhere
<1>1. ASSUME IInv PROVE RetryElsewhere
  <2>1. SUFFICES ASSUME NEW r \in Requests, q[r].pc \in {"ready", "claiming", "flight"},
                        q[r].via = "sticky" => q[r].sid = <<r, q[r].inner, q[r].tries>>
                 PROVE  HopsOf(r) \cap q[r].tried = {}
    BY DEF RetryElsewhere
  <2>2. ElsewhereOK(r, q[r]) /\ q[r].tries \in 0 .. MaxAttempts
    BY <1>1 DEF IInv, RequestsOK, RequestOK, Request
  <2>3. HopsOf(r) = Hops(q[r]) BY DEF HopsOf, Hops
  <2>4. CASE q[r].via # "sticky" BY <2>1, <2>2, <2>3, <2>4 DEF ElsewhereOK
  <2>5. CASE q[r].via = "sticky"
    <3>1. q[r].sid = <<r, q[r].inner, q[r].tries>> BY <2>1, <2>5
    <3>2. Own(r, q[r], q[r].sid) /\ q[r].sid[3] = q[r].tries BY <3>1 DEF Own
    <3>3. q[r].pc # "flight" BY <2>2, <2>5, <3>2, GatewayAssumption DEF ElsewhereOK
    <3>4. QED BY <2>1, <2>2, <2>3, <2>5, <3>2, <3>3 DEF ElsewhereOK
  <2>6. QED BY <2>4, <2>5
<1>2. QED BY <1>1, Invariance, PTL

(* A request makes no more attempts than it may, leaves one event for each,   *)
(* and its body in one of them at most.                                       *)
THEOREM AttemptsKept == GatewaySpec => []AttemptsAccounted
<1>1. ASSUME IInv PROVE AttemptsAccounted
  <2>1. ASSUME NEW r \in Requests
        PROVE  /\ q[r] \in Request /\ q[r].tries <= MaxAttempts /\ q[r].billed <= 1
               /\ q[r].pc \notin {"claiming", "flight"} => q[r].held = {}
               /\ q[r].pc = "ended" /\ q[r].tries > 0 =>
                    q[r].events = IF q[r].kind = "test" THEN 0
                                  ELSE q[r].tries - (IF q[r].gone THEN 1 ELSE 0)
    <3>1. RequestOK(r, q[r]) BY <1>1 DEF IInv, RequestsOK
    <3>2. q[r] \in Request /\ q[r].tries <= MaxAttempts
      BY <3>1, GatewayAssumption DEF RequestOK, Request
    <3>3. q[r].billed <= 1 BY <3>1 DEF RequestOK, BodyOK
    <3>4. q[r].pc \notin {"claiming", "flight"} => q[r].held = {} BY <3>1 DEF RequestOK, HopsOK
    <3>5. q[r].pc = "ended" /\ q[r].tries > 0 =>
            q[r].events = IF q[r].kind = "test" THEN 0
                          ELSE q[r].tries - (IF q[r].gone THEN 1 ELSE 0)
      BY <3>1 DEF RequestOK, EventsOK
    <3>6. QED BY <3>2, <3>3, <3>4, <3>5
  <2>2. GatewayTypeOK
    BY <1>1, <2>1 DEF GatewayTypeOK, IInv, CircuitsOK, BindingOK, NoBinding, CacheOK
  <2>3. EveryAttemptRecorded /\ BodyCountedOnce BY <2>1 DEF EveryAttemptRecorded, BodyCountedOnce
  <2>4. QED BY <2>2, <2>3 DEF AttemptsAccounted
<1>2. QED BY <1>1, Invariance, PTL

(* After any number of retries, a response is found under the key of the proxy *)
(* that answered, and an event names the proxy whose response it is, the one  *)
(* it was fetched through or, from the cache, the one that answered before.   *)
THEOREM CacheAttributed == GatewaySpec => []CachedByAnswerer
<1>1. IInv => CachedByAnswerer
  BY DEF IInv, CacheOK, RequestsOK, RequestOK, NamedOK, CachedByAnswerer
<1>2. QED BY <1>1, Invariance, PTL
=============================================================================
