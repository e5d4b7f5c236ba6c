------------------------------- MODULE Budget -------------------------------
(***************************************************************************)
(* Hard byte budgets: the manager (internal/budget/manager.go), the durable *)
(* usage rows it moves (internal/storage/sqlite/budgets.go) and the readers *)
(* and writers of the relay that reserve before they transfer and settle    *)
(* afterwards (internal/budget/io.go).  A stream is one metered direction of *)
(* one proxied connection.  The gateway always builds the manager with a     *)
(* store, so the manager's in-memory branch is not modelled.                 *)
(***************************************************************************)
EXTENDS Integers, FiniteSets, Sums

CONSTANTS
  Budgets,      \* budget ids
  Streams,      \* slots for metered directions of connections
  Options,      \* Options[b]: the configurations an operator may give b
  Imported,     \* the budgets section of the YAML file: id -> configuration
  MaxChunk,     \* maxTransferReservation, in units of transfer
  Minute,       \* clock ticks in one minute bucket
  Start,        \* first instant; every window before it is later than row 0
  MaxTime,      \* last instant (bound)
  MaxMoved,     \* units one row may see transferred (bound)
  Faults        \* the failures the environment may inject

Rows     == 0 .. MaxTime
Instants == Start .. MaxTime

Config == [limit  : Nat \ {0},
           window : {"lifetime", "calendar", "rolling"},
           length : Nat \ {0},
           scope  : SUBSET Streams]

\* Configurations by id, for some of the budgets.
Inventories ==
  UNION {[B -> UNION {Options[b] : b \in Budgets}] : B \in SUBSET Budgets}

ASSUME BudgetAssumption ==
  /\ IsFiniteSet(Streams)
  /\ Options \in [Budgets -> SUBSET Config]
  /\ Imported \in Inventories
  /\ \A b \in DOMAIN Imported : Imported[b] \in Options[b]
  /\ MaxChunk \in Nat \ {0} /\ MaxMoved \in Nat
  /\ Minute \in Nat \ {0}
  /\ Start \in Nat /\ MaxTime \in Nat /\ Start <= MaxTime
  /\ \A b \in Budgets : \A c \in Options[b] : c.length + Minute < Start
  /\ Faults \subseteq {"cancel", "crash", "store"}

VARIABLES
  up,           \* the gateway process runs
  records,      \* id -> configuration: budget_configs, and the manager's copy
  initialized,  \* budget_inventory_state.initialized
  usage,        \* budget_usage: id -> window_start -> used and reserved bytes
  now,          \* the wall clock
  stream,       \* stream slot -> its program counter and locals
  moved,        \* history: bytes really transferred, by id and charged row
  high          \* history: the highest limit an id ever had

vars == <<up, records, initialized, usage, now, stream, moved, high>>

Empty == [b \in {} |-> 0]

\* A slot no connection uses.
Fresh == [pc |-> "new", ids |-> {}, admitted |-> FALSE, want |-> 0, at |-> Start,
          held |-> Empty, remaining |-> 0, pending |-> 0, cancelled |-> FALSE]

Init ==
  /\ up = FALSE
  /\ records = Empty
  /\ initialized = FALSE
  /\ usage = [b \in Budgets |-> [w \in Rows |-> [used |-> 0, reserved |-> 0]]]
  /\ now = Start
  /\ stream = [s \in Streams |-> Fresh]
  /\ moved = [b \in Budgets |-> [w \in Rows |-> 0]]
  /\ high = [b \in Budgets |-> 0]

-----------------------------------------------------------------------------
(* Windows: which row a reservation lands in and which rows count against   *)
(* the limit.                                                               *)

Truncate(t) == t - (t % Minute)

RowOf(c, t) ==
  CASE c.window = "lifetime" -> 0
    [] c.window = "calendar" -> t - (t % c.length)
    [] c.window = "rolling"  -> Truncate(t)

BugCounted(c, t) == {w \in Rows : w >= t - c.length}   \* cutoff not truncated

Counted(c, t) == {w \in Rows : w >= Truncate(t - c.length)}

Charged(b, w) == usage[b][w].used + usage[b][w].reserved

ChargeAt(b, c, t) ==
  IF c.window = "rolling"
    THEN Total([w \in Rows |-> Charged(b, w)], Counted(c, t))
    ELSE Charged(b, RowOf(c, t))

BugFits(b, t, n) ==                                     \* reservations not counted
  usage[b][RowOf(records[b], t)].used + n <= records[b].limit

Fits(b, t, n) == ChargeAt(b, records[b], t) + n <= records[b].limit

\* The usage table after m more are used and n more reserved in every row of a lease.
MoveRows(held, at, m, n) ==
  [b \in Budgets |->
     IF b \in DOMAIN held
       THEN [usage[b] EXCEPT ![RowOf(held[b], at)] =
               [used |-> @.used + m, reserved |-> @.reserved + n]]
       ELSE usage[b]]

\* The guard of the UPDATE statements: reserved_bytes >= amount in every row.
Covered(held, at, n) ==
  \A b \in DOMAIN held : usage[b][RowOf(held[b], at)].reserved >= n

-----------------------------------------------------------------------------
(* The process: start (import, recover), crash, clock.                      *)

Raise(h, recs) ==
  [b \in Budgets |-> IF b \in DOMAIN recs /\ recs[b].limit > h[b]
                       THEN recs[b].limit ELSE h[b]]

BugStartUp ==                                  \* forgets what a crash left reserved
  /\ ~up
  /\ up' = TRUE
  /\ records' = IF initialized THEN records ELSE Imported
  /\ initialized' = TRUE
  /\ usage' = [b \in Budgets |-> [w \in Rows |->
                 [used |-> usage[b][w].used, reserved |-> 0]]]
  /\ high' = Raise(high, records')
  /\ UNCHANGED <<now, stream, moved>>

BugImport ==                                   \* imports the YAML on every start
  /\ ~up
  /\ up' = TRUE
  /\ records' = [b \in DOMAIN Imported \cup DOMAIN records |->
                   IF b \in DOMAIN records THEN records[b] ELSE Imported[b]]
  /\ initialized' = TRUE
  /\ usage' = [b \in Budgets |-> [w \in Rows |->
                 [used |-> Charged(b, w), reserved |-> 0]]]
  /\ high' = Raise(high, records')
  /\ UNCHANGED <<now, stream, moved>>

\* NewPersistent: import the YAML once, then charge what a crash left reserved.
StartUp ==
  /\ ~up
  /\ up' = TRUE
  /\ records' = IF initialized THEN records ELSE Imported
  /\ initialized' = TRUE
  /\ usage' = [b \in Budgets |-> [w \in Rows |->
                 [used |-> Charged(b, w), reserved |-> 0]]]
  /\ high' = Raise(high, records')
  /\ UNCHANGED <<now, stream, moved>>

\* The process dies; SQLite keeps what was committed.
Crash ==
  /\ up /\ "crash" \in Faults
  /\ up' = FALSE
  /\ stream' = [s \in Streams |-> Fresh]
  /\ UNCHANGED <<records, initialized, usage, now, moved, high>>

Tick ==
  /\ now < MaxTime
  /\ now' = now + 1
  /\ UNCHANGED <<up, records, initialized, usage, stream, moved, high>>

-----------------------------------------------------------------------------
(* The operator.  A request with a stale revision changes nothing, so these *)
(* are the requests whose revision matches.  Usage rows are left alone.     *)

PutConfig(b, c) ==
  /\ up
  /\ records' = [x \in DOMAIN records \cup {b} |-> IF x = b THEN c ELSE records[x]]
  /\ high' = Raise(high, records')
  /\ UNCHANGED <<up, initialized, usage, now, stream, moved>>

BugDeleteConfig(b) ==                          \* forgets what was used as well
  /\ up
  /\ b \in DOMAIN records
  /\ records' = [x \in DOMAIN records \ {b} |-> records[x]]
  /\ usage' = [usage EXCEPT ![b] = [w \in Rows |-> [@[w] EXCEPT !.used = 0]]]
  /\ UNCHANGED <<up, initialized, now, stream, moved, high>>

DeleteConfig(b) ==
  /\ up
  /\ b \in DOMAIN records
  /\ records' = [x \in DOMAIN records \ {b} |-> records[x]]
  /\ UNCHANGED <<up, initialized, usage, now, stream, moved, high>>

-----------------------------------------------------------------------------
(* A stream.                                                                *)

Applicable(s) == {b \in DOMAIN records : s \in records[b].scope}

\* The route captures the ids that apply; without any its transfers are unmetered.
Route(s) ==
  /\ up
  /\ stream[s].pc = "new"
  /\ stream' = [stream EXCEPT
       ![s] = [Fresh EXCEPT !.ids = Applicable(s),
                            !.pc = IF Applicable(s) = {} THEN "unmetered" ELSE "admit"]]
  /\ UNCHANGED <<up, records, initialized, usage, now, moved, high>>

\* Available asks for one unit; Read and Write ask for up to MaxChunk.
Ask(s, n) ==
  /\ \/ stream[s].pc = "admit" /\ n = 1
     \/ stream[s].pc = "idle"
  /\ stream' = [stream EXCEPT ![s].pc = "asking", ![s].want = n]
  /\ UNCHANGED <<up, records, initialized, usage, now, moved, high>>

\* Reserve checks the context and reads the clock before it takes the lock.
Stamp(s) ==
  /\ stream[s].pc = "asking"
  /\ stream' = [stream EXCEPT
       ![s] = IF @.cancelled THEN Fresh ELSE [@ EXCEPT !.pc = "stamped", !.at = now]]
  /\ UNCHANGED <<up, records, initialized, usage, now, moved, high>>

\* All limits admit the amount: one transaction reserves in every scope.
Grant(s) ==
  LET st == stream[s] IN
  /\ st.pc = "stamped" /\ ~st.cancelled
  /\ st.ids \subseteq DOMAIN records
  /\ \A b \in st.ids : Fits(b, st.at, st.want)
  /\ LET held == [b \in st.ids |-> records[b]] IN
       /\ usage' = MoveRows(held, st.at, 0, st.want)
       /\ stream' = [stream EXCEPT
            ![s].pc = IF st.admitted THEN "holding" ELSE "closing",
            ![s].held = held,
            ![s].want = 0,
            ![s].remaining = st.want]
  /\ UNCHANGED <<up, records, initialized, now, moved, high>>

BugRefuse(s) ==                                \* one unit is halved to one unit
  LET st == stream[s] IN
  /\ st.pc = "stamped" /\ ~st.cancelled
  /\ st.ids \subseteq DOMAIN records
  /\ \E b \in st.ids : ~Fits(b, st.at, st.want)
  /\ stream' = [stream EXCEPT ![s] = [st EXCEPT !.pc = "asking", !.want = (st.want + 1) \div 2]]
  /\ UNCHANGED <<up, records, initialized, usage, now, moved, high>>

\* A limit refuses: reserveUpTo halves the amount until it has refused one unit.
Refuse(s) ==
  LET st == stream[s] IN
  /\ st.pc = "stamped" /\ ~st.cancelled
  /\ st.ids \subseteq DOMAIN records
  /\ \E b \in st.ids : ~Fits(b, st.at, st.want)
  /\ stream' = [stream EXCEPT
       ![s] = IF st.want = 1
                THEN Fresh
                ELSE [st EXCEPT !.pc = "asking", !.want = (st.want + 1) \div 2]]
  /\ UNCHANGED <<up, records, initialized, usage, now, moved, high>>

\* A captured id was deleted, the context ended, or the database failed.
ReserveError(s) ==
  /\ stream[s].pc = "stamped"
  /\ \/ stream[s].cancelled
     \/ ~(stream[s].ids \subseteq DOMAIN records)
     \/ "store" \in Faults
  /\ stream' = [stream EXCEPT ![s] = Fresh]
  /\ UNCHANGED <<up, records, initialized, usage, now, moved, high>>

BugTransfer(s, n) ==                           \* the buffer is not cut to the reservation
  LET st == stream[s] IN
  /\ st.pc = "holding"
  /\ \A b \in DOMAIN st.held : moved[b][RowOf(st.held[b], st.at)] + n <= MaxMoved
  /\ stream' = [stream EXCEPT ![s].pc = "consuming", ![s].pending = n]
  /\ moved' = [b \in Budgets |->
       IF b \in DOMAIN st.held THEN [moved[b] EXCEPT ![RowOf(st.held[b], st.at)] = @ + n]
                               ELSE moved[b]]
  /\ UNCHANGED <<up, records, initialized, usage, now, high>>

\* The source or the destination moves n bytes of the reservation.
Transfer(s, n) ==
  LET st == stream[s] IN
  /\ st.pc = "holding"
  /\ n <= st.remaining
  /\ \A b \in DOMAIN st.held : moved[b][RowOf(st.held[b], st.at)] + n <= MaxMoved
  /\ stream' = [stream EXCEPT ![s].pc = "consuming", ![s].pending = n]
  /\ moved' = [b \in Budgets |->
       IF b \in DOMAIN st.held THEN [moved[b] EXCEPT ![RowOf(st.held[b], st.at)] = @ + n]
                               ELSE moved[b]]
  /\ UNCHANGED <<up, records, initialized, usage, now, high>>

BugConsume(s) ==                               \* the lease keeps what it consumed
  LET st == stream[s] IN
  /\ st.pc = "consuming"
  /\ ~st.cancelled
  /\ Covered(st.held, st.at, st.pending)
  /\ usage' = MoveRows(st.held, st.at, st.pending, -st.pending)
  /\ stream' = [stream EXCEPT ![s].pc = "closing", ![s].pending = 0]
  /\ UNCHANGED <<up, records, initialized, now, moved, high>>

\* Lease.Consume: the moved bytes go from reserved to used in every row.
Consume(s) ==
  LET st == stream[s] IN
  /\ st.pc = "consuming"
  /\ ~st.cancelled
  /\ Covered(st.held, st.at, st.pending)
  /\ usage' = MoveRows(st.held, st.at, st.pending, -st.pending)
  /\ stream' = [stream EXCEPT ![s].pc = "closing", ![s].remaining = @ - st.pending,
                              ![s].pending = 0]
  /\ UNCHANGED <<up, records, initialized, now, moved, high>>

ConsumeError(s) ==
  LET st == stream[s] IN
  /\ st.pc = "consuming"
  /\ \/ st.cancelled
     \/ "store" \in Faults
     \/ ~Covered(st.held, st.at, st.pending)
  /\ stream' = [stream EXCEPT ![s].pc = "aborting", ![s].pending = 0]
  /\ UNCHANGED <<up, records, initialized, usage, now, moved, high>>

BugClose(s) ==                                 \* Available keeps what it asked for
  LET st == stream[s]  n == IF st.admitted THEN st.remaining ELSE 0 IN
  /\ st.pc \in {"closing", "aborting"}
  /\ st.cancelled => st.remaining = 0
  /\ Covered(st.held, st.at, n)
  /\ usage' = MoveRows(st.held, st.at, 0, -n)
  /\ stream' = [stream EXCEPT
       ![s] = IF st.pc = "aborting" THEN Fresh
              ELSE [Fresh EXCEPT !.pc = "idle", !.ids = st.ids, !.admitted = TRUE,
                                 !.cancelled = st.cancelled]]
  /\ UNCHANGED <<up, records, initialized, now, moved, high>>

\* Lease.Close returns what is left; Read and Write stop after an error.
Close(s) ==
  LET st == stream[s] IN
  /\ st.pc \in {"closing", "aborting"}
  /\ st.cancelled => st.remaining = 0
  /\ Covered(st.held, st.at, st.remaining)
  /\ usage' = MoveRows(st.held, st.at, 0, -st.remaining)
  /\ stream' = [stream EXCEPT
       ![s] = IF st.pc = "aborting" THEN Fresh
              ELSE [Fresh EXCEPT !.pc = "idle", !.ids = st.ids, !.admitted = TRUE,
                                 !.cancelled = st.cancelled]]
  /\ UNCHANGED <<up, records, initialized, now, moved, high>>

CloseError(s) ==
  LET st == stream[s] IN
  /\ st.pc \in {"closing", "aborting"}
  /\ st.remaining > 0
  /\ \/ st.cancelled
     \/ "store" \in Faults
     \/ ~Covered(st.held, st.at, st.remaining)
  /\ stream' = [stream EXCEPT ![s] = Fresh]
  /\ UNCHANGED <<up, records, initialized, usage, now, moved, high>>

\* End of the source, or of an unmetered or refused route.
Finish(s) ==
  /\ stream[s].pc \in {"admit", "idle", "unmetered"}
  /\ stream' = [stream EXCEPT ![s] = Fresh]
  /\ UNCHANGED <<up, records, initialized, usage, now, moved, high>>

\* The client goes away: the request context ends.
Cancel(s) ==
  /\ "cancel" \in Faults
  /\ stream[s].pc # "new" /\ ~stream[s].cancelled
  /\ stream' = [stream EXCEPT ![s].cancelled = TRUE]
  /\ UNCHANGED <<up, records, initialized, usage, now, moved, high>>

\* What the stream's goroutine does unaided once it runs.
Settle(s) ==
  \/ Stamp(s) \/ Grant(s) \/ Refuse(s) \/ ReserveError(s)
  \/ Consume(s) \/ ConsumeError(s) \/ Close(s) \/ CloseError(s)

Use(s) ==
  \/ Route(s) \/ Finish(s) \/ Cancel(s)
  \/ \E n \in 1 .. MaxChunk : Ask(s, n)
  \/ \E n \in 0 .. MaxChunk : Transfer(s, n)

Operate == \E b \in Budgets : DeleteConfig(b) \/ \E c \in Options[b] : PutConfig(b, c)

Next ==
  \/ StartUp \/ Crash \/ Tick \/ Operate
  \/ \E s \in Streams : Settle(s) \/ Use(s)

Spec == Init /\ [][Next]_vars /\ \A s \in Streams : WF_vars(Settle(s))

-----------------------------------------------------------------------------
(* Properties.                                                              *)

StreamType ==
  [pc : {"new", "unmetered", "admit", "idle", "asking", "stamped", "holding",
         "consuming", "closing", "aborting"},
   ids : SUBSET Budgets, admitted : BOOLEAN, want : 0 .. MaxChunk, at : Instants,
   held : Inventories, remaining : 0 .. MaxChunk, pending : 0 .. MaxChunk,
   cancelled : BOOLEAN]

\* Only a stream between grant and close holds a lease.
LeaseShape(st) ==
  /\ st.pending <= st.remaining
  /\ st.pc \notin {"holding", "consuming", "closing", "aborting"} =>
       st.held = Empty /\ st.remaining = 0

\* Type correctness of the manager, its rows, the streams and the history.
TypeOK ==
  /\ up \in BOOLEAN /\ initialized \in BOOLEAN
  /\ records \in Inventories
  /\ usage \in [Budgets -> [Rows -> [used : Nat, reserved : Nat]]]
  /\ now \in Instants
  /\ stream \in [Streams -> StreamType]
  /\ \A s \in Streams : LeaseShape(stream[s])
  /\ moved \in [Budgets -> [Rows -> Nat]]
  /\ high \in [Budgets -> Nat]

\* What a stream's lease, and what all of them, still hold in row w of b.
Holds(s, b, w) ==
  IF b \in DOMAIN stream[s].held /\ RowOf(stream[s].held[b], stream[s].at) = w
    THEN stream[s].remaining ELSE 0
Leased(b, w) == Total([s \in Streams |-> Holds(s, b, w)], Streams)

\* No interleaving of streams, configuration changes and restarts brings the
\* charge of a usage row above the highest limit its budget ever had.
RowWithinLimit == \A b \in Budgets, w \in Rows : Charged(b, w) <= high[b]

\* A budget that is always rolling over the same length stays within its limit
\* in the window that ends with any minute, although streams stamp the clock
\* before they lock and reserve in the bucket of the stamp.  Where the length is
\* a number of whole minutes these are the rows of the windows that end at any
\* instant; otherwise a window that ends within a minute is finer than the rows.
AlwaysRolling(b) ==
  \A c, d \in Options[b] : c.window = "rolling" /\ c.length = d.length
RollingWithinLimit ==
  \A b \in Budgets : AlwaysRolling(b) =>
    \A c \in Options[b], t \in Rows :
      Total([w \in Rows |-> Charged(b, w)],
            {w \in Rows : t - c.length <= w /\ w <= t}) <= high[b]

\* Every byte that was really transferred is charged, used or reserved, in the
\* row of its lease: a crash and a restart never undershoot.
NoUndershoot == \A b \in Budgets, w \in Rows : moved[b][w] <= Charged(b, w)

\* The reservation columns back what the live leases hold, so the guarded
\* UPDATEs of Consume and Close find their rows covered.
ReservedBacksLeases ==
  up => \A b \in Budgets, w \in Rows : usage[b][w].reserved >= Leased(b, w)

\* Without failures nothing but the live leases is reserved: every path through
\* Read, Write and Available returns what it did not use.
NothingElseReserved ==
  up => \A b \in Budgets, w \in Rows : usage[b][w].reserved = Leased(b, w)

\* After the first import only a running manager creates a budget: a restart
\* does not bring back what the operator deleted from the YAML's inventory.
OnlyOperatorCreates ==
  [][DOMAIN records' \subseteq DOMAIN records \/ up \/ ~initialized]_vars

\* Used bytes never go down: not on release, recovery, reconfiguration or delete.
UsedMonotone ==
  [][\A b \in Budgets, w \in Rows : usage'[b][w].used >= usage[b][w].used]_vars

\* What a stream starts it ends: the halving stops although other streams take
\* and return allowance in between, and a transfer is consumed and its lease
\* closed, or given up, before the stream asks for more.
Busy(s) == stream[s].pc \in {"asking", "stamped", "consuming", "closing", "aborting"}
Settles == \A s \in Streams : Busy(s) ~> ~Busy(s)

\* docs/budgets.md: closing a lease returns unused reserved bytes.  Once no
\* stream holds a lease nothing is reserved.
CloseReturnsUnused ==
  (up /\ \A s \in Streams : stream[s].pc \in {"new", "idle"}) =>
    \A b \in Budgets, w \in Rows : usage[b][w].reserved = 0

\* docs/budgets.md: a rolling guard never expires usage early.  Bytes that are
\* transferred now are charged to a row the guard counts now.
RollingNeverExpiresEarly ==
  [][\A s \in Streams : \A b \in DOMAIN stream[s].held :
       stream'[s].pending > 0 /\ stream[s].held[b].window = "rolling" =>
         RowOf(stream[s].held[b], stream[s].at) \in Counted(stream[s].held[b], now)]_vars

=============================================================================
