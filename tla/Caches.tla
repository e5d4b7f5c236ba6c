------------------------------- MODULE Caches -------------------------------
(* The response cache in memory and the cache of addresses. Each operation on *)
(* the response cache is one critical section. A lookup that misses asks the  *)
(* resolver without the lock and comes back to insert, so that two misses of  *)
(* one name insert in either order.                                           *)
EXTENDS Bounded

CONSTANTS Names,                  \* names looked up, naturals
          Lookups                 \* lookups under way at a time

ASSUME CachesAssumption == Names \subseteq Nat

VARIABLES responses,   \* [entries, bytes]
          dns,         \* [entries, bytes]
          lookups      \* [Lookups -> [step, name]]

cacheVars == <<clock, responses, dns, lookups>>

CachesInit ==
  /\ clock = 0
  /\ responses = [entries |-> [k \in Keys |-> None], bytes |-> 0]
  /\ dns = [entries |-> [k \in Names |-> None], bytes |-> 0]
  /\ lookups = [l \in Lookups |-> [step |-> "idle", name |-> 0]]

Remove(cache, keys) ==
  [entries |-> Minus(cache.entries, keys), bytes |-> cache.bytes - Bytes(cache.entries, keys)]

Entry(size, expires) == [size |-> size, expires |-> expires, version |-> 0]

-----------------------------------------------------------------------------
(* Responses. *)

GetResponse(k) ==
  /\ responses' = Remove(responses, Expired(responses.entries, clock) \cap {k})
  /\ UNCHANGED <<clock, dns, lookups>>

PutResponse(k, entry) ==
  LET live == Remove(responses, Expired(responses.entries, clock) \ {k})
      kept == Remove(live, Evicted(live.entries, live.bytes, k, entry.size, MaxEntries, MaxBytes))
      fits == Fits(kept.entries, kept.bytes, k, entry.size, 0, MaxEntries, MaxBytes)
  IN  /\ entry.size <= MaxBytes
      /\ responses' = IF fits THEN [entries |-> [kept.entries EXCEPT ![k] = entry],
                                 bytes |-> kept.bytes + entry.size - kept.entries[k].size]
                   ELSE kept
      /\ UNCHANGED <<clock, dns, lookups>>

CacheStats ==
  /\ responses' = Remove(responses, Expired(responses.entries, clock))
  /\ UNCHANGED <<clock, dns, lookups>>

PurgeAll == responses' = Remove(responses, Keys) /\ UNCHANGED <<clock, dns, lookups>>

PurgeDomain(host) ==
  /\ responses' = Remove(responses, {k \in Keys : HostOf[k] = host})
  /\ UNCHANGED <<clock, dns, lookups>>

-----------------------------------------------------------------------------
(* Addresses. *)

LookUp(l, name) ==
  /\ lookups[l].step = "idle"
  /\ dns' = Remove(dns, Expired(dns.entries, clock) \cap {name})
  /\ lookups' = IF dns'.entries[name] # None THEN lookups
                ELSE [lookups EXCEPT ![l] = [step |-> "asked", name |-> name]]
  /\ UNCHANGED <<clock, responses>>

(* The answer is kept until expires. Mutant: the limits count the entry as    *)
(* new although another lookup inserted the name meanwhile.                   *)
BugInsert(l, size, expires) ==
  LET k == lookups[l].name
      live == Remove(dns, Expired(dns.entries, clock))
      kept == Remove(live, Evicted(live.entries, live.bytes, k, size, MaxEntries, MaxBytes))
  IN  /\ lookups[l].step = "asked" /\ size <= MaxBytes
      /\ dns' = [entries |-> [kept.entries EXCEPT ![k] = Entry(size, expires)],
                 bytes |-> kept.bytes + size]
      /\ lookups' = [lookups EXCEPT ![l] = [step |-> "idle", name |-> 0]]
      /\ UNCHANGED <<clock, responses>>

Insert(l, size, expires) ==
  LET k == lookups[l].name
      live == Remove(dns, Expired(dns.entries, clock))
      kept == Remove(live, Evicted(live.entries, live.bytes, k, size, MaxEntries, MaxBytes))
      fits == Fits(kept.entries, kept.bytes, k, size, 0, MaxEntries, MaxBytes)
  IN  /\ lookups[l].step = "asked" /\ size <= MaxBytes
      /\ dns' = IF fits THEN [entries |-> [kept.entries EXCEPT ![k] = Entry(size, expires)],
                              bytes |-> kept.bytes + size - kept.entries[k].size]
                ELSE kept
      /\ lookups' = [lookups EXCEPT ![l] = [step |-> "idle", name |-> 0]]
      /\ UNCHANGED <<clock, responses>>

(* No answer, an empty one, or one too large to keep. *)
NoAnswer(l) ==
  /\ lookups[l].step = "asked"
  /\ lookups' = [lookups EXCEPT ![l] = [step |-> "idle", name |-> 0]]
  /\ UNCHANGED <<clock, responses, dns>>

Tick == clock < MaxClock /\ clock' = clock + 1 /\ UNCHANGED <<responses, dns, lookups>>

CachesNext ==
  \/ Tick \/ CacheStats \/ PurgeAll
  \/ \E k \in Keys : GetResponse(k)
  \/ \E k \in Keys, size \in Sizes, ttl \in 0 .. 2 : PutResponse(k, Entry(size, clock + ttl))
  \/ \E k \in Keys : PurgeDomain(HostOf[k])
  \/ \E l \in Lookups, name \in Names : LookUp(l, name)
  \/ \E l \in Lookups : NoAnswer(l)
  \/ \E l \in Lookups, size \in Sizes, at \in 0 .. clock : Insert(l, size, at + 1)

CachesSpec == CachesInit /\ [][CachesNext]_cacheVars

-----------------------------------------------------------------------------
(* What is promised. *)

(* The byte counts are those of the entries and the limits hold, whatever     *)
(* expires, is evicted, purged or inserted by two lookups at once.            *)
CountsExact ==
  \A cache \in {responses, dns} :
    /\ cache.bytes = Bytes(cache.entries, Present(cache.entries))
    /\ cache.bytes <= MaxBytes
    /\ Cardinality(Present(cache.entries)) <= MaxEntries
=============================================================================
