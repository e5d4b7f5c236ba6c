------------------------------ MODULE DiskCache -----------------------------
(* The response cache on disk: an index in memory and a file per entry. An    *)
(* entry is replaced by writing a temporary file, moving the old file aside,  *)
(* moving the new one in its place and removing the old one; the lock keeps   *)
(* other operations out, but the process may end between any two steps, and   *)
(* a step may fail. A start rebuilds the index from what the directory holds. *)
(* A file holds an entry: its size, its expiry, and the number of its Put.    *)
EXTENDS Bounded, Sequences

CONSTANT MaxPuts       \* bound

(* A key is a digest, so there are finitely many; 0 stands for no key.        *)
ASSUME DiskAssumption == MaxPuts \in Nat /\ IsFiniteSet(Keys) /\ 0 \notin Keys

VARIABLES index, bytes,      \* entries and d.bytes
          files, olds,        \* *.cache and *.cache.old: [Keys -> entries]
          put,                \* the Put or the start under the lock: [step, key, entry, existed]
          puts,               \* numbers the Puts
          last,               \* observed: number of the Put that entered each key, 0 once it left
          strays              \* observed: keys with a file that the code failed to remove or to
                              \* move back, and went on

indexVars == <<index, bytes>>
fileVars  == <<files, olds>>
diskVars  == <<clock, indexVars, fileVars, put, puts, last, strays>>

NoPut == [step |-> "none", key |-> 0, entry |-> None, existed |-> FALSE]
Nothing == [k \in Keys |-> None]

DiskInit ==
  /\ clock = 0 /\ index = Nothing /\ bytes = 0 /\ files = Nothing /\ olds = Nothing
  /\ put = NoPut /\ puts = 0
  /\ last = [k \in Keys |-> 0] /\ strays = {}

Unlocked == put.step = "none"

(* Mutant: what expired is given back twice. *)
BugForgetFiles(keys, failing) ==
  /\ index' = Minus(index, keys)
  /\ bytes' = bytes - Bytes(index, keys) - Bytes(index, keys \cap Expired(index, clock))
  /\ files' = Minus(files, keys \ failing)
  /\ strays' = strays \cup {k \in keys \cap failing : files[k] # None}
  /\ last' = [k \in Keys |-> IF k \in keys THEN 0 ELSE last[k]]

(* Keys leave the index and their files are removed; of the keys in failing   *)
(* the file stays.                                                            *)
ForgetFiles(keys, failing) ==
  /\ index' = Minus(index, keys) /\ bytes' = bytes - Bytes(index, keys)
  /\ files' = Minus(files, keys \ failing)
  /\ strays' = strays \cup {k \in keys \cap failing : files[k] # None}
  /\ last' = [k \in Keys |-> IF k \in keys THEN 0 ELSE last[k]]

-----------------------------------------------------------------------------
(* Get, Purge, PurgeDomain, Stats. *)

Readable(k) == files[k] # None /\ files[k].expires = index[k].expires /\ files[k].size = index[k].size

(* A hit changes nothing; what is expired or does not match is dropped. *)
GetFile(k) ==
  /\ Unlocked /\ k \in Present(index)
  /\ index[k].expires <= clock \/ ~Readable(k)
  /\ \E failing \in SUBSET {k} : ForgetFiles({k}, failing)
  /\ UNCHANGED <<clock, olds, put, puts>>

(* A file that cannot be removed keeps its entry. *)
PurgeFiles(keys) ==
  /\ Unlocked
  /\ \E purged \in SUBSET (keys \cap Present(index)) : ForgetFiles(purged, {})
  /\ UNCHANGED <<clock, olds, put, puts>>

DropExpired ==
  /\ Unlocked /\ Expired(index, clock) # {}
  /\ \E failing \in SUBSET Expired(index, clock) : ForgetFiles(Expired(index, clock), failing)
  /\ UNCHANGED <<clock, olds, put, puts>>

-----------------------------------------------------------------------------
(* Put. *)

(* The lock is taken with the temporary file written, expired entries are     *)
(* dropped and others evicted. An eviction that fails ends the Put.           *)
BeginPut(k, size, expires) ==
  /\ Unlocked /\ puts < MaxPuts /\ puts' = puts + 1 /\ size <= MaxBytes
  /\ LET old == Expired(index, clock) \ {k}
         live == Minus(index, old)
         room == Evicted(live, bytes - Bytes(index, old), k, size, MaxEntries, MaxBytes)
         left == bytes - Bytes(index, old \cup room)
         fits == Fits(Minus(live, room), left, k, size, 0, MaxEntries, MaxBytes)
         it   == [size |-> size, expires |-> expires, version |-> puts + 1]
     IN  \/ /\ ForgetFiles(old \cup room, {})
            /\ put' = IF fits
                      THEN [step |-> IF k \in Present(index) THEN "clear" ELSE "move",
                            key |-> k, entry |-> it, existed |-> k \in Present(index)]
                      ELSE NoPut
         \/ /\ room # {} /\ ForgetFiles(old, {}) /\ put' = NoPut
  /\ UNCHANGED <<clock, olds>>

PutKeeps == UNCHANGED <<clock, indexVars, puts, last>>

Clear ==
  /\ put.step = "clear"
  /\ \E removed \in IF put.key \in strays THEN BOOLEAN ELSE {TRUE} :
       olds' = IF removed THEN Minus(olds, {put.key}) ELSE olds
  /\ put' = [put EXCEPT !.step = "aside"]
  /\ UNCHANGED <<files, strays>> /\ PutKeeps

(* Mutant: the old file is removed, not moved aside. *)
BugAside ==
  /\ put.step = "aside"
  /\ files' = Minus(files, {put.key})
  /\ put' = [put EXCEPT !.step = "move"]
  /\ UNCHANGED <<olds, strays>> /\ PutKeeps

Aside ==
  /\ put.step = "aside"
  /\ \/ /\ olds' = [olds EXCEPT ![put.key] = IF files[put.key] # None THEN files[put.key] ELSE @]
        /\ files' = Minus(files, {put.key})
        /\ put' = [put EXCEPT !.step = "move"]
     \/ put' = NoPut /\ UNCHANGED fileVars
  /\ UNCHANGED strays /\ PutKeeps

Move ==
  /\ put.step = "move"
  /\ files' = [files EXCEPT ![put.key] = put.entry]
  /\ put' = [put EXCEPT !.step = IF put.existed THEN "tidy" ELSE "enter"]
  /\ UNCHANGED <<olds, strays>> /\ PutKeeps

(* The new file cannot be moved: the old one is moved back, if it can be. *)
MoveFails ==
  /\ put.step = "move"
  /\ \/ put.existed /\ olds[put.key] # None
        /\ files' = [files EXCEPT ![put.key] = olds[put.key]] /\ olds' = Minus(olds, {put.key})
        /\ UNCHANGED strays
     \/ UNCHANGED fileVars
        /\ strays' = IF olds[put.key] # None THEN strays \cup {put.key} ELSE strays
  /\ put' = NoPut /\ PutKeeps

(* Mutant: the old file stays. *)
BugTidy ==
  /\ put.step = "tidy"
  /\ put' = [put EXCEPT !.step = "enter"]
  /\ UNCHANGED <<fileVars, strays>> /\ PutKeeps

Tidy ==
  /\ put.step = "tidy"
  /\ \/ olds' = Minus(olds, {put.key}) /\ UNCHANGED strays
     \/ strays' = strays \cup {put.key} /\ UNCHANGED olds
  /\ put' = [put EXCEPT !.step = "enter"]
  /\ UNCHANGED files /\ PutKeeps

(* Mutant: what is replaced is not given back. *)
BugEnterIndex ==
  /\ put.step = "enter"
  /\ index' = [index EXCEPT ![put.key] = put.entry]
  /\ bytes' = bytes + put.entry.size
  /\ last' = [last EXCEPT ![put.key] = put.entry.version]
  /\ put' = NoPut
  /\ UNCHANGED <<clock, fileVars, puts, strays>>

EnterIndex ==
  /\ put.step = "enter"
  /\ index' = [index EXCEPT ![put.key] = put.entry]
  /\ bytes' = bytes + put.entry.size - index[put.key].size
  /\ last' = [last EXCEPT ![put.key] = put.entry.version]
  /\ put' = NoPut
  /\ UNCHANGED <<clock, fileVars, puts, strays>>

-----------------------------------------------------------------------------
(* The process ends, at any step, and starts. *)

(* A temporary file is removed; an old one is moved back unless its target is there. *)
Recovered == [k \in Keys |-> IF files[k] = None THEN olds[k] ELSE files[k]]

MovedBack == {k \in Keys : files[k] = None /\ olds[k] # None}

(* A file that is listed enters, and the earliest to expire go until all fits. *)
EnterListed(d, k) ==
  IF d.files[k] = None \/ d.files[k].expires <= clock THEN [d EXCEPT !.files[k] = None]
  ELSE LET entries == [d.entries EXCEPT ![k] = d.files[k]]
           count == d.bytes + d.files[k].size
           out(n) == First(entries, 0, n)
           enough == {n \in 0 .. Cardinality(Present(entries)) :
                        /\ Cardinality(Present(entries) \ out(n)) <= MaxEntries
                        /\ count - Bytes(entries, out(n)) <= MaxBytes}
           gone == out(CHOOSE n \in enough : \A m \in enough : n <= m)
       IN  IF enough = {} THEN [d EXCEPT !.failed = TRUE]
           ELSE [entries |-> Minus(entries, gone), bytes |-> count - Bytes(entries, gone),
                 files |-> Minus(d.files, gone), failed |-> d.failed]

(* The directory is listed in any order, and may show a file that was moved   *)
(* back under both its names.                                                 *)
Listed   == {k \in Keys : Recovered[k] # None}
Listings ==
  LET once == {l \in [1 .. Cardinality(Listed) -> Listed] : \A k \in Listed : \E i \in DOMAIN l : l[i] = k}
  IN  once \cup {Append(l, k) : l \in once, k \in MovedBack}

(* What is in the index and the directory once all of a listing has entered. *)
Loaded(listing) ==
  LET loaded[i \in 0 .. Len(listing)] ==
        IF i = 0 THEN [entries |-> Nothing, bytes |-> 0, files |-> Recovered, failed |-> FALSE]
        ELSE EnterListed(loaded[i - 1], listing[i])
  IN  loaded[Len(listing)]

Crash ==
  /\ \E listing \in Listings :
       LET loaded == Loaded(listing)
       IN  /\ ~loaded.failed
           /\ index' = loaded.entries /\ bytes' = loaded.bytes /\ files' = loaded.files
  /\ put' = NoPut /\ olds' = Nothing /\ strays' = {}
  /\ last' = [k \in Keys |-> index'[k].version]
  /\ UNCHANGED <<clock, puts>>

TickDisk ==
  /\ clock < MaxClock /\ clock' = clock + 1
  /\ UNCHANGED <<indexVars, fileVars, put, puts, last, strays>>

DiskNext ==
  \/ \E k \in Keys : GetFile(k) \/ PurgeFiles({j \in Keys : HostOf[j] = HostOf[k]})
  \/ PurgeFiles(Keys) \/ DropExpired
  \/ \E k \in Keys, size \in Sizes, ttl \in 1 .. 2 : BeginPut(k, size, clock + ttl)
  \/ Clear \/ Aside \/ Move \/ MoveFails \/ Tidy \/ EnterIndex
  \/ Crash \/ TickDisk

DiskSpec == DiskInit /\ [][DiskNext]_diskVars

-----------------------------------------------------------------------------
(* What is promised. *)

DiskTypeOK ==
  /\ \A entries \in {index, files, olds} :
       entries \in [Keys -> [size : Nat, expires : Int, version : 0 .. MaxPuts]]
  /\ bytes \in Nat /\ put.step \in {"none", "clear", "aside", "move", "tidy", "enter"}

(* The index never counts less than its entries hold, so the limits hold too; *)
(* it counts more only after a start that met a file twice.                   *)
DiskWithinLimits ==
  /\ Bytes(index, Present(index)) <= bytes /\ bytes <= MaxBytes
  /\ Cardinality(Present(index)) <= MaxEntries

(* "One lock keeps file/index accounting exact." *)
DiskBytesExact == bytes = Bytes(index, Present(index))

(* Wherever the process ends, the next one finds for a key what the last Put  *)
(* stored, or what the Put under way stores, and never what was replaced,     *)
(* evicted or purged before; and an entry is not lost halfway through its     *)
(* replacement.                                                               *)
RestartIsCurrent ==
  \A k \in Keys \ strays : Recovered[k].expires > clock =>
    \/ Recovered[k].version = last[k] /\ last[k] > 0
    \/ put.key = k /\ Recovered[k] = put.entry

NothingLost == \A k \in Present(index) \ strays : Recovered[k] # None

(* The cache on disk keeps its limits, and its files tell the next process    *)
(* what its index tells this one.                                             *)
DiskSound == DiskTypeOK /\ DiskWithinLimits /\ RestartIsCurrent /\ NothingLost
=============================================================================
