------------------------------ MODULE Bounded -------------------------------
(* The bounded indexes of the caches: entries with a size and an expiry, a    *)
(* limit on their number and one on their bytes. What does not fit pushes out *)
(* the entries that expire first, of equal ones the one with the least key.   *)
EXTENDS Integers, FiniteSets, Sums

CONSTANTS Keys,                   \* of responses, naturals
          HostOf,                 \* [Keys -> hosts]
          Sizes,
          MaxEntries, MaxBytes,
          MaxClock                \* bound

ASSUME BoundedAssumption ==
  /\ Keys \subseteq Nat /\ DOMAIN HostOf = Keys /\ Sizes \subseteq Nat \ {0}
  /\ MaxEntries \in Nat \ {0} /\ MaxBytes \in Nat \ {0} /\ MaxClock \in Nat

VARIABLE clock

None == [size |-> 0, expires |-> -1, version |-> 0]

Present(entries) == {k \in DOMAIN entries : entries[k] # None}

Bytes(entries, keys) == Total([k \in DOMAIN entries |-> entries[k].size], keys)

Minus(entries, keys) == [k \in DOMAIN entries |-> IF k \in keys THEN None ELSE entries[k]]

Expired(entries, now) == {k \in Present(entries) : entries[k].expires <= now}

Before(entries, j, k) ==
  \/ entries[j].expires < entries[k].expires
  \/ entries[j].expires = entries[k].expires /\ j <= k

(* The n entries but key that are evicted first. *)
First(entries, key, n) ==
  LET others == Present(entries) \ {key}
  IN  {k \in others : Cardinality({j \in others : Before(entries, j, k)}) <= n}

(* Whether an entry of a size fits for key, bytes being counted, after n evictions. *)
Fits(entries, bytes, key, size, n, maxEntries, maxBytes) ==
  LET out == First(entries, key, n)
  IN  /\ key \in Present(entries) \/ Cardinality(Present(entries) \ out) < maxEntries
      /\ bytes - Bytes(entries, out) - entries[key].size + size <= maxBytes

(* The evictions that let it fit; all but key when nothing does. *)
Evicted(entries, bytes, key, size, maxEntries, maxBytes) ==
  LET enough == {n \in 0 .. Cardinality(Present(entries)) :
                   Fits(entries, bytes, key, size, n, maxEntries, maxBytes)}
  IN  IF enough = {} THEN Present(entries) \ {key}
      ELSE First(entries, key, CHOOSE n \in enough : \A m \in enough : n <= m)
=============================================================================
