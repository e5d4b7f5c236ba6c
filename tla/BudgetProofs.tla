---------------------------- MODULE BudgetProofs ----------------------------
(* Theorems about Budget for every set of budgets and streams, every choice *)
(* of configurations and every bound.                                       *)
EXTENDS Budget, DataTheorems

\* Every inventory gives some of the budgets a configuration.
LEMMA InventoryFacts ==
  ASSUME NEW f \in Inventories
  PROVE  /\ DOMAIN f \subseteq Budgets
         /\ f \in [DOMAIN f -> UNION {Options[b] : b \in Budgets}]
         /\ \A b \in DOMAIN f : f[b] \in Config
<1>1. PICK B \in SUBSET Budgets : f \in [B -> UNION {Options[b] : b \in Budgets}]
  BY DEF Inventories
<1>2. UNION {Options[b] : b \in Budgets} \subseteq Config
  BY BudgetAssumption
<1>3. QED BY <1>1, <1>2

\* The constructions of StartUp, PutConfig, DeleteConfig and Grant yield inventories.
LEMMA EmptyInventory == Empty \in Inventories
<1>1. Empty \in [{} -> UNION {Options[b] : b \in Budgets}] BY DEF Empty
<1>2. QED BY <1>1 DEF Inventories

LEMMA PutInventory ==
  ASSUME NEW f \in Inventories, NEW b \in Budgets, NEW c \in Options[b]
  PROVE  [x \in DOMAIN f \cup {b} |-> IF x = b THEN c ELSE f[x]] \in Inventories
<1> DEFINE U == UNION {Options[d] : d \in Budgets}
<1>1. c \in U OBVIOUS
<1>2. DOMAIN f \subseteq Budgets /\ f \in [DOMAIN f -> U] BY InventoryFacts
<1>3. DOMAIN f \cup {b} \in SUBSET Budgets BY <1>2
<1> HIDE DEF U
<1>4. [x \in DOMAIN f \cup {b} |-> IF x = b THEN c ELSE f[x]] \in [DOMAIN f \cup {b} -> U]
  BY <1>1, <1>2
<1>5. QED BY <1>3, <1>4 DEF Inventories, U

LEMMA RestrictInventory ==
  ASSUME NEW f \in Inventories, NEW B \in SUBSET Budgets, B \subseteq DOMAIN f
  PROVE  [x \in B |-> f[x]] \in Inventories
<1> DEFINE U == UNION {Options[d] : d \in Budgets}
<1>1. f \in [DOMAIN f -> U] BY InventoryFacts
<1> HIDE DEF U
<1>2. [x \in B |-> f[x]] \in [B -> U] BY <1>1
<1>3. QED BY <1>2 DEF Inventories, U

-----------------------------------------------------------------------------
(* Type correctness.                                                        *)

\* The typing of the streams.
StreamsOK == stream \in [Streams -> StreamType] /\ \A s \in Streams : LeaseShape(stream[s])

LEMMA FreshType == Fresh \in StreamType /\ LeaseShape(Fresh)
BY EmptyInventory, BudgetAssumption DEF Fresh, StreamType, Instants, LeaseShape

\* A usage row keeps its type when its counts move and the reservation covers it.
Row == [used : Nat, reserved : Nat]

LEMMA ShiftRow ==
  ASSUME NEW f \in [Rows -> Row], NEW w, NEW m \in Nat, NEW n \in Int,
         w \in Rows => f[w].reserved + n >= 0
  PROVE  [f EXCEPT ![w] = [used |-> @.used + m, reserved |-> @.reserved + n]] \in [Rows -> Row]
<1>1. CASE w \in Rows BY <1>1 DEF Row
<1>2. CASE w \notin Rows BY <1>2
<1>3. QED BY <1>1, <1>2

\* A step that gives a slot well-typed contents keeps every slot well typed.
LEMMA SlotUpdate ==
  ASSUME StreamsOK, NEW s \in Streams, NEW st \in StreamType,
         LeaseShape(st), stream' = [stream EXCEPT ![s] = st]
  PROVE  StreamsOK'
BY DEF StreamsOK

LEMMA InitType == Init => TypeOK
<1> SUFFICES ASSUME Init PROVE TypeOK OBVIOUS
<1> USE BudgetAssumption DEF Init
<1>1. usage \in [Budgets -> [Rows -> Row]] BY DEF Rows, Row
<1>2. stream \in [Streams -> StreamType] /\ \A s \in Streams : LeaseShape(stream[s])
  BY FreshType
<1>3. now \in Instants BY DEF Instants
<1>4. QED BY <1>1, <1>2, <1>3, EmptyInventory DEF TypeOK, Row

LEMMA StepType == TypeOK /\ [Next]_vars => TypeOK'
<1> SUFFICES ASSUME TypeOK, [Next]_vars PROVE TypeOK' OBVIOUS
<1> USE BudgetAssumption
<1>1. CASE StartUp
  <2>1. records' \in Inventories BY <1>1 DEF StartUp, TypeOK
  <2>2. usage' \in [Budgets -> [Rows -> Row]]
    BY <1>1 DEF StartUp, TypeOK, Charged, Row
  <2>3. high' \in [Budgets -> Nat]
    BY <1>1, <2>1, InventoryFacts DEF StartUp, TypeOK, Raise, Config
  <2>4. QED BY <1>1, <2>1, <2>2, <2>3 DEF StartUp, TypeOK, Row
<1>2. CASE Crash
  BY <1>2, FreshType DEF Crash, TypeOK
<1>3. CASE Tick
  BY <1>3 DEF Tick, TypeOK, Instants
<1>4. ASSUME NEW b \in Budgets, NEW c \in Options[b], PutConfig(b, c) PROVE TypeOK'
  <2>1. records' \in Inventories BY <1>4, PutInventory DEF PutConfig, TypeOK
  <2>2. high' \in [Budgets -> Nat]
    BY <1>4, <2>1, InventoryFacts DEF PutConfig, TypeOK, Raise, Config
  <2>3. QED BY <1>4, <2>1, <2>2 DEF PutConfig, TypeOK
<1>5. ASSUME NEW b \in Budgets, DeleteConfig(b) PROVE TypeOK'
  <2>1. DOMAIN records \ {b} \in SUBSET Budgets BY InventoryFacts DEF TypeOK
  <2>2. records' \in Inventories BY <1>5, <2>1, RestrictInventory DEF DeleteConfig, TypeOK
  <2>3. QED BY <1>5, <2>2 DEF DeleteConfig, TypeOK
<1>6. ASSUME NEW s \in Streams, Settle(s) \/ Use(s) PROVE TypeOK'
  <2> DEFINE st == stream[s]
  <2>0. st \in StreamType /\ LeaseShape(st) /\ StreamsOK
    BY DEF TypeOK, StreamsOK
  <2>1. ASSUME stream' = [stream EXCEPT ![s] = Fresh] PROVE StreamsOK'
    BY <2>0, <2>1, FreshType, SlotUpdate
  <2>2. CASE Stamp(s)
    <3>1. CASE st.cancelled BY <2>1, <2>2, <3>1 DEF Stamp, TypeOK, StreamsOK
    <3>2. CASE ~st.cancelled
      <4> DEFINE new == [st EXCEPT !.pc = "stamped", !.at = now]
      <4>1. new \in StreamType /\ LeaseShape(new)
        BY <2>0, <2>2 DEF StreamType, LeaseShape, TypeOK, Stamp
      <4>2. stream' = [stream EXCEPT ![s] = new] BY <2>2, <3>2 DEF Stamp
      <4>3. StreamsOK' BY <2>0, <4>1, <4>2, SlotUpdate
      <4>4. QED BY <2>2, <4>3 DEF Stamp, TypeOK, StreamsOK
    <3>3. QED BY <3>1, <3>2
  <2>3. CASE Grant(s)
    <3> DEFINE held == [b \in st.ids |-> records[b]]
               new == [st EXCEPT !.pc = IF st.admitted THEN "holding" ELSE "closing",
                                 !.held = held, !.want = 0, !.remaining = st.want]
    <3>1. held \in Inventories
      BY <2>0, <2>3, RestrictInventory DEF Grant, TypeOK, StreamType
    <3>2. usage' \in [Budgets -> [Rows -> Row]]
      <4>1. st.want \in Nat BY <2>0 DEF StreamType
      <4>2. \A b \in Budgets : \A w :
              [usage[b] EXCEPT ![w] = [used |-> @.used + 0, reserved |-> @.reserved + st.want]]
                \in [Rows -> Row]
        <5> SUFFICES ASSUME NEW b \in Budgets, NEW w PROVE
              [usage[b] EXCEPT ![w] = [used |-> @.used + 0, reserved |-> @.reserved + st.want]]
                \in [Rows -> Row]
          OBVIOUS
        <5>1. usage[b] \in [Rows -> Row] BY DEF TypeOK, Row
        <5>2. w \in Rows => usage[b][w].reserved + st.want >= 0 BY <4>1, <5>1 DEF Row
        <5>3. QED BY <4>1, <5>1, <5>2, ShiftRow
      <4>3. QED BY <2>3, <4>2 DEF Grant, MoveRows, TypeOK, Row
    <3>3. stream' = [stream EXCEPT ![s] = new] BY <2>0, <2>3 DEF Grant, TypeOK
    <3> HIDE DEF held
    <3>4. new \in StreamType /\ LeaseShape(new)
      <4>1. st.pc = "stamped" BY <2>3 DEF Grant
      <4>2. st.pending = 0 BY <2>0, <4>1 DEF LeaseShape, StreamType
      <4>3. new \in StreamType
        <5>1. 0 \in 0 .. MaxChunk /\ st.want \in 0 .. MaxChunk BY <2>0 DEF StreamType
        <5>2. QED BY <2>0, <3>1, <5>1 DEF StreamType
      <4>4. new.pc \in {"holding", "closing"} /\ new.pending = 0 /\ new.remaining = st.want
        BY <2>0, <4>2 DEF StreamType
      <4>5. QED BY <2>0, <4>3, <4>4 DEF LeaseShape, StreamType
    <3>5. StreamsOK' BY <2>0, <3>3, <3>4, SlotUpdate
    <3>6. QED BY <2>3, <3>2, <3>5 DEF Grant, TypeOK, StreamsOK, Row
  <2>4. CASE Refuse(s)
    <3>1. CASE st.want = 1 BY <2>1, <2>4, <3>1 DEF Refuse, TypeOK, StreamsOK
    <3>2. CASE st.want # 1
      <4> DEFINE new == [st EXCEPT !.pc = "asking", !.want = (st.want + 1) \div 2]
      <4>1. (st.want + 1) \div 2 \in 0 .. MaxChunk BY <2>0, <3>2 DEF StreamType
      <4>2. new \in StreamType /\ LeaseShape(new)
        BY <2>0, <2>4, <4>1 DEF StreamType, LeaseShape, Refuse
      <4>3. stream' = [stream EXCEPT ![s] = new] BY <2>4, <3>2 DEF Refuse
      <4>4. StreamsOK' BY <2>0, <4>2, <4>3, SlotUpdate
      <4>5. QED BY <2>4, <4>4 DEF Refuse, TypeOK, StreamsOK
    <3>3. QED BY <3>1, <3>2
  <2>5. CASE ReserveError(s)
    BY <2>1, <2>5 DEF ReserveError, TypeOK, StreamsOK
  <2>6. CASE Consume(s)
    <3> DEFINE new == [st EXCEPT !.pc = "closing", !.remaining = @ - st.pending, !.pending = 0]
    <3>1. usage' \in [Budgets -> [Rows -> Row]]
      <4>1. \A b \in DOMAIN st.held :
              [usage[b] EXCEPT ![RowOf(st.held[b], st.at)] =
                 [used |-> @.used + st.pending, reserved |-> @.reserved + (-st.pending)]]
                \in [Rows -> Row]
        <5> SUFFICES ASSUME NEW b \in DOMAIN st.held PROVE
              [usage[b] EXCEPT ![RowOf(st.held[b], st.at)] =
                 [used |-> @.used + st.pending, reserved |-> @.reserved + (-st.pending)]]
                \in [Rows -> Row]
          OBVIOUS
        <5>1. b \in Budgets BY <2>0, InventoryFacts DEF StreamType
        <5>2. usage[b][RowOf(st.held[b], st.at)].reserved >= st.pending
          BY <2>6 DEF Consume, Covered
        <5>3. usage[b] \in [Rows -> Row] /\ st.pending \in Nat
          BY <2>0, <5>1 DEF TypeOK, StreamType, Row
        <5> DEFINE row == RowOf(st.held[b], st.at)
                   left == -st.pending
        <5>4. left \in Int /\ (row \in Rows => usage[b][row].reserved + left >= 0)
          BY <5>2, <5>3 DEF Row
        <5>5. 0 \in Nat OBVIOUS
        <5> HIDE DEF row, left
        <5>6. [usage[b] EXCEPT ![row] = [used |-> @.used + st.pending, reserved |-> @.reserved + left]]
                \in [Rows -> Row]
          BY <5>3, <5>4, <5>5, ShiftRow
        <5>7. QED BY <5>6 DEF row, left
      <4>2. QED BY <2>6, <4>1 DEF Consume, MoveRows, TypeOK, Row
    <3>2. stream' = [stream EXCEPT ![s] = new] BY <2>0, <2>6 DEF Consume, TypeOK
    <3>3. new \in StreamType /\ LeaseShape(new)
      <4>1. st.pending <= st.remaining BY <2>0 DEF LeaseShape
      <4>2. st.remaining - st.pending \in 0 .. MaxChunk BY <2>0, <4>1 DEF StreamType
      <4>3. new \in StreamType
        <5> DEFINE left == st.remaining - st.pending
        <5>1. 0 \in 0 .. MaxChunk /\ left \in 0 .. MaxChunk BY <4>2
        <5> HIDE DEF left
        <5>2. [st EXCEPT !.pc = "closing", !.remaining = left, !.pending = 0] \in StreamType
          BY <2>0, <5>1 DEF StreamType
        <5>3. QED BY <2>0, <5>2 DEF left, StreamType
      <4>4. new.pc = "closing" /\ new.pending = 0 /\ new.remaining = st.remaining - st.pending
        BY <2>0 DEF StreamType
      <4>5. QED BY <4>2, <4>3, <4>4 DEF LeaseShape
    <3>4. StreamsOK' BY <2>0, <3>2, <3>3, SlotUpdate
    <3>5. QED BY <2>6, <3>1, <3>4 DEF Consume, TypeOK, StreamsOK, Row
  <2>7. CASE ConsumeError(s)
    <3> DEFINE new == [st EXCEPT !.pc = "aborting", !.pending = 0]
    <3>1. new \in StreamType /\ LeaseShape(new)
      <4>0. 0 \in 0 .. MaxChunk OBVIOUS
      <4>1. new \in StreamType BY <2>0, <4>0 DEF StreamType
      <4>2. new.pc = "aborting" /\ new.pending = 0 /\ new.remaining = st.remaining
        BY <2>0 DEF StreamType
      <4>3. QED BY <2>0, <4>1, <4>2 DEF LeaseShape, StreamType
    <3>2. stream' = [stream EXCEPT ![s] = new] BY <2>0, <2>7 DEF ConsumeError, TypeOK
    <3>3. StreamsOK' BY <2>0, <3>1, <3>2, SlotUpdate
    <3>4. QED BY <2>7, <3>3 DEF ConsumeError, TypeOK, StreamsOK
  <2>8. CASE Close(s)
    <3> DEFINE idle == [Fresh EXCEPT !.pc = "idle", !.ids = st.ids, !.admitted = TRUE,
                                     !.cancelled = st.cancelled]
               new == IF st.pc = "aborting" THEN Fresh ELSE idle
    <3>1. usage' \in [Budgets -> [Rows -> Row]]
      <4>1. \A b \in DOMAIN st.held :
              [usage[b] EXCEPT ![RowOf(st.held[b], st.at)] =
                 [used |-> @.used + 0, reserved |-> @.reserved + (-st.remaining)]]
                \in [Rows -> Row]
        <5> SUFFICES ASSUME NEW b \in DOMAIN st.held PROVE
              [usage[b] EXCEPT ![RowOf(st.held[b], st.at)] =
                 [used |-> @.used + 0, reserved |-> @.reserved + (-st.remaining)]]
                \in [Rows -> Row]
          OBVIOUS
        <5>1. b \in Budgets BY <2>0, InventoryFacts DEF StreamType
        <5>2. usage[b][RowOf(st.held[b], st.at)].reserved >= st.remaining
          BY <2>8 DEF Close, Covered
        <5>3. usage[b] \in [Rows -> Row] /\ st.remaining \in Nat
          BY <2>0, <5>1 DEF TypeOK, StreamType, Row
        <5> DEFINE row == RowOf(st.held[b], st.at)
                   left == -st.remaining
        <5>4. left \in Int /\ (row \in Rows => usage[b][row].reserved + left >= 0)
          BY <5>2, <5>3 DEF Row
        <5>5. 0 \in Nat OBVIOUS
        <5> HIDE DEF row, left
        <5>6. [usage[b] EXCEPT ![row] = [used |-> @.used + 0, reserved |-> @.reserved + left]]
                \in [Rows -> Row]
          BY <5>3, <5>4, <5>5, ShiftRow
        <5>7. QED BY <5>6 DEF row, left
      <4>2. QED BY <2>8, <4>1 DEF Close, MoveRows, TypeOK, Row
    <3>2. stream' = [stream EXCEPT ![s] = new] BY <2>8 DEF Close
    <3>3. idle \in StreamType /\ LeaseShape(idle)
      BY <2>0, FreshType DEF StreamType, LeaseShape, Fresh
    <3>4. new \in StreamType /\ LeaseShape(new) BY <3>3, FreshType
    <3>5. StreamsOK' BY <2>0, <3>2, <3>4, SlotUpdate
    <3>6. QED BY <2>8, <3>1, <3>5 DEF Close, TypeOK, StreamsOK, Row
  <2>9. CASE CloseError(s)
    BY <2>1, <2>9 DEF CloseError, TypeOK, StreamsOK
  <2>10. CASE Route(s)
    <3> DEFINE new == [Fresh EXCEPT !.ids = Applicable(s),
                         !.pc = IF Applicable(s) = {} THEN "unmetered" ELSE "admit"]
    <3>1. Applicable(s) \subseteq Budgets BY InventoryFacts DEF Applicable, TypeOK
    <3>2. new \in StreamType /\ LeaseShape(new)
      BY <3>1, FreshType DEF StreamType, LeaseShape, Fresh
    <3>3. stream' = [stream EXCEPT ![s] = new] BY <2>10 DEF Route
    <3>4. StreamsOK' BY <2>0, <3>2, <3>3, SlotUpdate
    <3>5. QED BY <2>10, <3>4 DEF Route, TypeOK, StreamsOK
  <2>11. CASE Finish(s)
    BY <2>1, <2>11 DEF Finish, TypeOK, StreamsOK
  <2>12. CASE Cancel(s)
    <3> DEFINE new == [st EXCEPT !.cancelled = TRUE]
    <3>1. new \in StreamType /\ LeaseShape(new) BY <2>0 DEF StreamType, LeaseShape
    <3>2. stream' = [stream EXCEPT ![s] = new] BY <2>0, <2>12 DEF Cancel, TypeOK
    <3>3. StreamsOK' BY <2>0, <3>1, <3>2, SlotUpdate
    <3>4. QED BY <2>12, <3>3 DEF Cancel, TypeOK, StreamsOK
  <2>13. ASSUME NEW n \in 1 .. MaxChunk, Ask(s, n) PROVE TypeOK'
    <3> DEFINE new == [st EXCEPT !.pc = "asking", !.want = n]
    <3>1. new \in StreamType /\ LeaseShape(new)
      <4>1. st.pc \in {"admit", "idle"} BY <2>13 DEF Ask
      <4>2. st.held = Empty /\ st.remaining = 0 BY <2>0, <4>1 DEF LeaseShape
      <4>3. new \in StreamType
        <5>1. n \in 0 .. MaxChunk OBVIOUS
        <5>2. QED BY <2>0, <5>1 DEF StreamType
      <4>4. new.held = Empty /\ new.remaining = 0 /\ new.pending = st.pending
        BY <2>0, <4>2 DEF StreamType
      <4>5. QED BY <2>0, <4>2, <4>3, <4>4 DEF LeaseShape, StreamType
    <3>2. stream' = [stream EXCEPT ![s] = new] BY <2>0, <2>13 DEF Ask, TypeOK
    <3>3. StreamsOK' BY <2>0, <3>1, <3>2, SlotUpdate
    <3>4. QED BY <2>13, <3>3 DEF Ask, TypeOK, StreamsOK
  <2>14. ASSUME NEW n \in 0 .. MaxChunk, Transfer(s, n) PROVE TypeOK'
    <3> DEFINE new == [st EXCEPT !.pc = "consuming", !.pending = n]
    <3>1. new \in StreamType /\ LeaseShape(new)
      BY <2>0, <2>14 DEF StreamType, LeaseShape, Transfer
    <3>2. stream' = [stream EXCEPT ![s] = new] BY <2>0, <2>14 DEF Transfer, TypeOK
    <3>3. StreamsOK' BY <2>0, <3>1, <3>2, SlotUpdate
    <3>4. moved' \in [Budgets -> [Rows -> Nat]]
      <4>1. n \in Nat OBVIOUS
      <4>2. \A b \in Budgets : \A w : [moved[b] EXCEPT ![w] = @ + n] \in [Rows -> Nat]
        <5> SUFFICES ASSUME NEW b \in Budgets, NEW w
                     PROVE  [moved[b] EXCEPT ![w] = @ + n] \in [Rows -> Nat]
          OBVIOUS
        <5>1. moved[b] \in [Rows -> Nat] BY DEF TypeOK
        <5>2. CASE w \in Rows BY <4>1, <5>1, <5>2
        <5>3. CASE w \notin Rows BY <5>1, <5>3
        <5>4. QED BY <5>2, <5>3
      <4>3. QED BY <2>14, <4>2 DEF Transfer, TypeOK
    <3>5. QED BY <2>14, <3>3, <3>4 DEF Transfer, TypeOK, StreamsOK
  <2>15. QED
    BY <1>6, <2>2, <2>3, <2>4, <2>5, <2>6, <2>7, <2>8, <2>9, <2>10, <2>11,
       <2>12, <2>13, <2>14 DEF Settle, Use
<1>7. CASE UNCHANGED vars
  BY <1>7 DEF vars, TypeOK
<1>8. QED BY <1>1, <1>2, <1>3, <1>4, <1>5, <1>6, <1>7 DEF Next, Operate

\* The manager, its rows and the streams keep their types.
THEOREM TypeCorrect == Spec => []TypeOK
BY InitType, StepType, PTL DEF Spec

-----------------------------------------------------------------------------
(* Used bytes never go down.                                                *)

LEMMA StepUsed ==
  TypeOK /\ [Next]_vars =>
    \A b \in Budgets, w \in Rows : usage'[b][w].used >= usage[b][w].used
<1> SUFFICES ASSUME TypeOK, [Next]_vars, NEW b \in Budgets, NEW w \in Rows
             PROVE  usage'[b][w].used >= usage[b][w].used
  OBVIOUS
<1>0. usage[b] \in [Rows -> Row] BY DEF TypeOK, Row
<1>1. CASE UNCHANGED usage BY <1>0, <1>1 DEF Row
<1>2. CASE StartUp BY <1>0, <1>2 DEF StartUp, Charged, Row
<1>3. ASSUME NEW s \in Streams, Grant(s) PROVE usage'[b][w].used >= usage[b][w].used
  <2>1. \/ usage'[b] = usage[b]
        \/ \E x : usage'[b] = [usage[b] EXCEPT ![x] =
               [used |-> @.used + 0, reserved |-> @.reserved + stream[s].want]]
    BY <1>3 DEF Grant, MoveRows
  <2>2. \A x : [usage[b] EXCEPT ![x] =
               [used |-> @.used + 0, reserved |-> @.reserved + stream[s].want]][w].used
             = usage[b][w].used
    BY <1>0 DEF Row
  <2>3. usage[b][w].used \in Nat BY <1>0 DEF Row
  <2>4. usage'[b][w].used = usage[b][w].used BY <2>1, <2>2
  <2>5. QED BY <2>3, <2>4
<1>4. ASSUME NEW s \in Streams, Consume(s) PROVE usage'[b][w].used >= usage[b][w].used
  <2>1. stream[s].pending \in Nat BY BudgetAssumption DEF TypeOK, StreamType
  <2>2. QED BY <1>0, <1>4, <2>1 DEF Consume, MoveRows, TypeOK, Row
<1>5. ASSUME NEW s \in Streams, Close(s) PROVE usage'[b][w].used >= usage[b][w].used
  BY <1>0, <1>5 DEF Close, MoveRows, TypeOK, Row
<1>6. QED
  BY <1>1, <1>2, <1>3, <1>4, <1>5 DEF Next, Operate, Settle, Use, vars, Crash, Tick,
     PutConfig, DeleteConfig, Route, Ask, Stamp, Refuse, ReserveError, Transfer,
     ConsumeError, CloseError, Finish, Cancel

\* No release, recovery, configuration change or deletion lowers what a row has
\* used: a restart or an operator cannot reset a guard.
THEOREM UsedNeverFalls == Spec => UsedMonotone
<1>1. TypeOK /\ [Next]_vars =>
        [\A b \in Budgets, w \in Rows : usage'[b][w].used >= usage[b][w].used]_vars
  BY StepUsed
<1>2. QED BY <1>1, TypeCorrect, PTL DEF Spec, UsedMonotone

-----------------------------------------------------------------------------
(* Windows.                                                                 *)

LEMMA DivMod ==
  ASSUME NEW a \in Int, NEW m \in Nat \ {0}
  PROVE  a = m * (a \div m) + (a % m) /\ a % m \in 0 .. (m - 1) /\ a \div m \in Int
OBVIOUS

LEMMA FloorBelow ==
  ASSUME NEW m \in Nat \ {0}, NEW a \in Nat
  PROVE  a - (a % m) \in 0 .. a
<1> DEFINE p == a \div m
<1>1. a = m * p + (a % m) /\ a % m \in 0 .. (m - 1) /\ p \in Int BY DivMod
<1> HIDE DEF p
<1>2. p >= 0
  <2>1. ASSUME p <= -1 PROVE m * p <= -m BY <1>1, <2>1
  <2>2. QED BY <1>1, <2>1
<1>3. m * p >= 0 BY <1>1, <1>2
<1>4. QED BY <1>1, <1>3

LEMMA FloorMonotone ==
  ASSUME NEW m \in Nat \ {0}, NEW a \in Int, NEW c \in Int, c <= a
  PROVE  c - (c % m) <= a - (a % m)
<1> DEFINE p == a \div m
           q == c \div m
<1>1. a = m * p + (a % m) /\ a % m \in 0 .. (m - 1) /\ p \in Int BY DivMod
<1>2. c = m * q + (c % m) /\ c % m \in 0 .. (m - 1) /\ q \in Int BY DivMod
<1> HIDE DEF p, q
<1>3. m * (p + 1) = m * p + m BY <1>1
<1>4. a < m * (p + 1) BY <1>1, <1>3
<1>5. m * q <= c BY <1>2
<1>6. ASSUME q >= p + 1 PROVE m * q >= m * (p + 1) BY <1>1, <1>2, <1>6
<1>7. q <= p BY <1>1, <1>2, <1>4, <1>5, <1>6
<1>8. m * q <= m * p BY <1>1, <1>2, <1>7
<1>9. QED BY <1>1, <1>2, <1>8

\* A reservation lands in a row of the table.
LEMMA RowType ==
  ASSUME NEW c \in Config, NEW t \in Instants
  PROVE  RowOf(c, t) \in Rows
<1>1. t \in Nat /\ t <= MaxTime /\ MaxTime \in Nat BY BudgetAssumption DEF Instants
<1>2. c.length \in Nat \ {0} /\ c.window \in {"lifetime", "calendar", "rolling"} BY DEF Config
<1>3. t - (t % c.length) \in 0 .. t BY <1>1, <1>2, FloorBelow
<1>4. t - (t % Minute) \in 0 .. t BY <1>1, BudgetAssumption, FloorBelow
<1>5. QED BY <1>1, <1>2, <1>3, <1>4 DEF RowOf, Truncate, Rows

LEMMA RowsFinite == IsFiniteSet(Rows)
<1>1. MaxTime \in Nat BY BudgetAssumption
<1>2. QED BY <1>1, FS_Interval DEF Rows

\* What counts against the limit includes the row the reservation lands in.
LEMMA ChargeCoversRow ==
  ASSUME TypeOK, NEW b \in Budgets, NEW c \in Config, NEW t \in Instants
  PROVE  /\ Charged(b, RowOf(c, t)) <= ChargeAt(b, c, t)
         /\ ChargeAt(b, c, t) \in Nat
<1> DEFINE f == [w \in Rows |-> Charged(b, w)]
<1>1. \A w \in Rows : Charged(b, w) \in Nat BY DEF TypeOK, Charged
<1>2. RowOf(c, t) \in Rows BY RowType
<1>3. CASE c.window = "rolling"
  <2>1. IsFiniteSet(Rows) BY RowsFinite
  <2>2. Counted(c, t) \in SUBSET Rows BY DEF Counted
  <2>3. IsFiniteSet(Counted(c, t)) BY <2>1, <2>2, FS_Subset
  <2>4. Truncate(t - c.length) <= Truncate(t)
    <3>1. Minute \in Nat \ {0} /\ t \in Int /\ c.length \in Nat
      BY BudgetAssumption DEF Instants, Config
    <3>2. PICK x \in Int : x = t - c.length BY <3>1
    <3>3. x <= t BY <3>1, <3>2
    <3>4. x - (x % Minute) <= t - (t % Minute) BY <3>1, <3>3, FloorMonotone
    <3>5. QED BY <3>2, <3>4 DEF Truncate
  <2>5. RowOf(c, t) = Truncate(t) BY <1>3 DEF RowOf
  <2>6. RowOf(c, t) \in Counted(c, t) BY <1>2, <2>4, <2>5 DEF Counted
  <2>7. \A w \in Counted(c, t) : f[w] \in Nat BY <1>1, <2>2
  <2>8. f[RowOf(c, t)] = Charged(b, RowOf(c, t)) BY <1>2
  <2>9. ChargeAt(b, c, t) = Total(f, Counted(c, t)) BY <1>3 DEF ChargeAt
  <2> HIDE DEF f
  <2>10. f[RowOf(c, t)] <= Total(f, Counted(c, t)) BY <2>3, <2>6, <2>7, TotalElement
  <2>11. Total(f, Counted(c, t)) \in Nat BY <2>3, <2>7, TotalNat
  <2>12. QED BY <2>8, <2>9, <2>10, <2>11
<1>4. CASE c.window # "rolling" BY <1>1, <1>2, <1>4 DEF ChargeAt
<1>5. QED BY <1>3, <1>4

-----------------------------------------------------------------------------
(* The hard limit.  RowWithinLimit is not inductive: a grant compares with  *)
(* the configuration in force, so that limit must be a known one.           *)

LimitKnown == \A b \in DOMAIN records : records[b].limit <= high[b]

LimitInv == RowWithinLimit /\ LimitKnown

\* Raising the history keeps every earlier limit and knows the new ones.
LEMMA RaiseFacts ==
  ASSUME TypeOK, NEW recs \in Inventories
  PROVE  /\ \A b \in Budgets : Raise(high, recs)[b] \in Nat /\ high[b] <= Raise(high, recs)[b]
         /\ \A b \in DOMAIN recs : recs[b].limit <= Raise(high, recs)[b]
<1>1. high \in [Budgets -> Nat] BY DEF TypeOK
<1>2. DOMAIN recs \subseteq Budgets /\ \A b \in DOMAIN recs : recs[b].limit \in Nat
  BY InventoryFacts DEF Config
<1>3. QED BY <1>1, <1>2 DEF Raise

\* How one row changes when a lease moves an amount in it.
LEMMA MovedRow ==
  ASSUME TypeOK, NEW b \in Budgets, NEW w \in Rows, NEW x, NEW n \in Nat,
         \/ usage'[b] = usage[b]
         \/ usage'[b] = [usage[b] EXCEPT ![x] =
              [used |-> @.used + n, reserved |-> @.reserved + (-n)]]
         \/ usage'[b] = [usage[b] EXCEPT ![x] =
              [used |-> @.used + 0, reserved |-> @.reserved + (-n)]]
  PROVE  Charged(b, w)' <= Charged(b, w)
<1>1. usage[b] \in [Rows -> Row] BY DEF TypeOK, Row
<1>2. QED BY <1>1 DEF Charged, Row

LEMMA StepLimit == TypeOK /\ TypeOK' /\ LimitInv /\ [Next]_vars => LimitInv'
<1> SUFFICES ASSUME TypeOK, TypeOK', LimitInv, [Next]_vars PROVE LimitInv' OBVIOUS
<1>0. /\ usage \in [Budgets -> [Rows -> Row]] /\ high \in [Budgets -> Nat]
      /\ records \in Inventories
  BY DEF TypeOK, Row
<1>1. CASE StartUp
  <2>1. records' \in Inventories /\ high' = Raise(high, records') BY <1>1 DEF StartUp, TypeOK
  <2>2. \A b \in Budgets, w \in Rows : Charged(b, w)' = Charged(b, w)
    BY <1>0, <1>1 DEF StartUp, Charged, Row
  <2>3. \A b \in Budgets : high[b] <= high'[b] /\ high'[b] \in Nat BY <2>1, RaiseFacts
  <2>4. \A b \in Budgets, w \in Rows : Charged(b, w) \in Nat BY <1>0 DEF Charged, Row
  <2>5. RowWithinLimit' BY <1>0, <2>2, <2>3, <2>4 DEF LimitInv, RowWithinLimit
  <2>6. LimitKnown' BY <2>1, RaiseFacts DEF LimitKnown
  <2>7. QED BY <2>5, <2>6 DEF LimitInv
<1>2. ASSUME NEW b \in Budgets, NEW c \in Options[b], PutConfig(b, c) PROVE LimitInv'
  <2>1. records' \in Inventories /\ high' = Raise(high, records')
    BY <1>2, PutInventory DEF PutConfig, TypeOK
  <2>2. usage' = usage BY <1>2 DEF PutConfig
  <2>3. \A d \in Budgets : high[d] <= high'[d] /\ high'[d] \in Nat BY <2>1, RaiseFacts
  <2>4. \A d \in Budgets, w \in Rows : Charged(d, w) \in Nat BY <1>0 DEF Charged, Row
  <2>5. RowWithinLimit' BY <1>0, <2>2, <2>3, <2>4 DEF LimitInv, RowWithinLimit, Charged
  <2>6. LimitKnown' BY <2>1, RaiseFacts DEF LimitKnown
  <2>7. QED BY <2>5, <2>6 DEF LimitInv
<1>3. ASSUME NEW b \in Budgets, DeleteConfig(b) PROVE LimitInv'
  BY <1>3 DEF DeleteConfig, LimitInv, RowWithinLimit, LimitKnown, Charged
<1>4. ASSUME NEW s \in Streams, Grant(s) PROVE LimitInv'
  <2> DEFINE st == stream[s]
  <2>0. st.at \in Instants /\ st.want \in Nat /\ st.ids \subseteq DOMAIN records
    <3>1. st \in StreamType BY DEF TypeOK
    <3>2. st.at \in Instants /\ st.want \in Nat BY <3>1, BudgetAssumption DEF StreamType
    <3>3. st.ids \subseteq DOMAIN records BY <1>4 DEF Grant
    <3>4. QED BY <3>2, <3>3
  <2>1. ASSUME NEW b \in Budgets, NEW w \in Rows PROVE Charged(b, w)' <= high[b]
    <3>1. CASE b \notin st.ids
      BY <1>0, <1>4, <3>1 DEF Grant, MoveRows, Charged, LimitInv, RowWithinLimit
    <3>2. CASE b \in st.ids
      <4> DEFINE row == RowOf(records[b], st.at)
      <4>1. records[b] \in Config /\ records[b].limit \in Nat
        BY <1>0, <2>0, <3>2, InventoryFacts DEF Config
      <4>2. row \in Rows BY <2>0, <4>1, RowType
      <4>3. Charged(b, row) <= ChargeAt(b, records[b], st.at)
            /\ ChargeAt(b, records[b], st.at) \in Nat
        BY <2>0, <4>1, ChargeCoversRow
      <4>4. ChargeAt(b, records[b], st.at) + st.want <= records[b].limit
        BY <1>4, <3>2 DEF Grant, Fits
      <4>5. records[b].limit <= high[b] BY <2>0, <3>2 DEF LimitInv, LimitKnown
      <4>6. Charged(b, row) \in Nat BY <1>0, <4>2 DEF Charged, Row
      <4>7. Charged(b, row) + st.want <= high[b]
        BY <1>0, <2>0, <4>1, <4>3, <4>4, <4>5, <4>6
      <4>8. usage'[b] = [usage[b] EXCEPT ![row] =
               [used |-> @.used + 0, reserved |-> @.reserved + st.want]]
        BY <1>4, <3>2 DEF Grant, MoveRows
      <4> HIDE DEF row
      <4>9. CASE w = row
        BY <1>0, <2>0, <4>2, <4>7, <4>8, <4>9 DEF Charged, Row
      <4>10. CASE w # row
        BY <1>0, <4>2, <4>8, <4>10 DEF Charged, Row, LimitInv, RowWithinLimit
      <4>11. QED BY <4>9, <4>10
    <3>3. QED BY <3>1, <3>2
  <2>2. high' = high /\ records' = records BY <1>4 DEF Grant
  <2>3. QED BY <2>1, <2>2 DEF LimitInv, RowWithinLimit, LimitKnown
<1>5. ASSUME NEW s \in Streams, Consume(s) \/ Close(s) PROVE LimitInv'
  <2> DEFINE st == stream[s]
  <2>1. st.pending \in Nat /\ st.remaining \in Nat BY BudgetAssumption DEF TypeOK, StreamType
  <2>2. ASSUME NEW b \in Budgets, NEW w \in Rows PROVE Charged(b, w)' <= Charged(b, w)
    <3>1. CASE Consume(s)
      <4>1. \/ usage'[b] = usage[b]
            \/ \E x : usage'[b] = [usage[b] EXCEPT ![x] =
                 [used |-> @.used + st.pending, reserved |-> @.reserved + (-st.pending)]]
        BY <3>1 DEF Consume, MoveRows
      <4>2. QED BY <2>1, <4>1, MovedRow
    <3>2. CASE Close(s)
      <4>1. \/ usage'[b] = usage[b]
            \/ \E x : usage'[b] = [usage[b] EXCEPT ![x] =
                 [used |-> @.used + 0, reserved |-> @.reserved + (-st.remaining)]]
        BY <3>2 DEF Close, MoveRows
      <4>2. QED BY <2>1, <4>1, MovedRow
    <3>3. QED BY <1>5, <3>1, <3>2
  <2>3. high' = high /\ records' = records BY <1>5 DEF Consume, Close
  <2>4. \A b \in Budgets, w \in Rows : Charged(b, w) \in Nat /\ Charged(b, w)' \in Nat
    BY DEF TypeOK, Charged
  <2>5. RowWithinLimit' BY <1>0, <2>2, <2>3, <2>4 DEF LimitInv, RowWithinLimit
  <2>6. QED BY <2>3, <2>5 DEF LimitInv, LimitKnown
<1>6. CASE UNCHANGED <<usage, high, records>>
  BY <1>6 DEF LimitInv, RowWithinLimit, LimitKnown, Charged
<1>7. QED
  BY <1>1, <1>2, <1>3, <1>4, <1>5, <1>6 DEF Next, Operate, Settle, Use, vars, Crash, Tick,
     Route, Ask, Stamp, Refuse, ReserveError, Transfer, ConsumeError, CloseError,
     Finish, Cancel

\* The hard limit: whatever streams, operators, crashes and failing databases do,
\* no usage row is charged beyond the highest limit its budget ever had.
THEOREM HardLimit == Spec => []RowWithinLimit
<1>1. Init => LimitInv
  <2> SUFFICES ASSUME Init PROVE LimitInv OBVIOUS
  <2>1. \A b \in Budgets, w \in Rows : Charged(b, w) = 0 /\ high[b] = 0
    BY DEF Init, Charged
  <2>2. DOMAIN records = {} BY DEF Init, Empty
  <2>3. QED BY <2>1, <2>2 DEF LimitInv, RowWithinLimit, LimitKnown
<1>2. QED BY <1>1, StepLimit, TypeCorrect, PTL DEF Spec, LimitInv

-----------------------------------------------------------------------------
(* What the leases hold.                                                    *)

\* What a stream's lease holds in a row, and what of it was not transferred.
InRow(st, b, w) == b \in DOMAIN st.held /\ RowOf(st.held[b], st.at) = w
Part(st, b, w)  == IF InRow(st, b, w) THEN st.remaining ELSE 0
Spare(st, b, w) ==
  IF InRow(st, b, w) /\ st.pc # "aborting" THEN st.remaining - st.pending ELSE 0

LEMMA PartType ==
  ASSUME NEW st \in StreamType, LeaseShape(st), NEW b, NEW w
  PROVE  Part(st, b, w) \in Nat /\ Spare(st, b, w) \in Nat
<1>1. st.remaining \in Nat /\ st.pending \in Nat /\ st.pending <= st.remaining
  BY BudgetAssumption DEF StreamType, LeaseShape
<1>2. QED BY <1>1 DEF Part, Spare

LEMMA NoLease ==
  ASSUME NEW st, LeaseShape(st), NEW b, NEW w,
         st.pc \notin {"holding", "consuming", "closing", "aborting"}
  PROVE  Part(st, b, w) = 0 /\ Spare(st, b, w) = 0
<1>1. DOMAIN st.held = {} BY DEF LeaseShape, Empty
<1>2. QED BY <1>1 DEF Part, Spare, InRow

\* A lease holds its part in a row of the table.
LEMMA LeaseRow ==
  ASSUME NEW st \in StreamType, NEW b \in DOMAIN st.held
  PROVE  b \in Budgets /\ RowOf(st.held[b], st.at) \in Rows
<1>1. st.held \in Inventories /\ st.at \in Instants BY DEF StreamType
<1>2. b \in Budgets /\ st.held[b] \in Config BY <1>1, InventoryFacts
<1>3. QED BY <1>1, <1>2, RowType

LEMMA LeasedIsTotal ==
  ASSUME NEW b, NEW w
  PROVE  Leased(b, w) = Total([s \in Streams |-> Part(stream[s], b, w)], Streams)
BY DEF Leased, Holds, Part, InRow

\* How a row changes when a lease moves amounts in its rows.
LEMMA MovedAt ==
  ASSUME TypeOK, NEW held, NEW at, NEW m, NEW n, usage' = MoveRows(held, at, m, n),
         NEW b \in Budgets, NEW w \in Rows
  PROVE  usage'[b][w] = IF b \in DOMAIN held /\ RowOf(held[b], at) = w
                          THEN [used |-> usage[b][w].used + m,
                                reserved |-> usage[b][w].reserved + n]
                          ELSE usage[b][w]
<1>1. usage[b] \in [Rows -> Row] BY DEF TypeOK, Row
<1>2. usage'[b] = IF b \in DOMAIN held
                    THEN [usage[b] EXCEPT ![RowOf(held[b], at)] =
                            [used |-> @.used + m, reserved |-> @.reserved + n]]
                    ELSE usage[b]
  BY DEF MoveRows
<1>3. QED BY <1>1, <1>2

\* A stream's step reserves what its lease gains and returns what it loses, but
\* for a Close that fails: then the reservation stays.
LEMMA LeaseStep ==
  ASSUME TypeOK, TypeOK', NEW s \in Streams, Settle(s) \/ Use(s),
         NEW b \in Budgets, NEW w \in Rows
  PROVE  \/ usage'[b][w].reserved =
              usage[b][w].reserved + Part(stream'[s], b, w) - Part(stream[s], b, w)
         \/ CloseError(s) /\ usage' = usage /\ Part(stream'[s], b, w) = 0
<1> DEFINE st == stream[s]
           nx == stream'[s]
           Exact == usage'[b][w].reserved =
                      usage[b][w].reserved + Part(nx, b, w) - Part(st, b, w)
<1>1. st \in StreamType /\ nx \in StreamType /\ LeaseShape(st) /\ LeaseShape(nx) BY DEF TypeOK
<1>2. usage[b][w].reserved \in Nat BY DEF TypeOK
<1>3. /\ Part(st, b, w) \in Nat /\ Part(nx, b, w) \in Nat
      /\ st.want \in Nat /\ st.pending \in Nat /\ st.remaining \in Nat
  BY <1>1, PartType, BudgetAssumption DEF StreamType
<1>4. ASSUME usage' = usage,
             st.pc \notin {"holding", "consuming", "closing", "aborting"},
             nx.pc \notin {"holding", "consuming", "closing", "aborting"}
      PROVE  Exact
  <2>1. Part(st, b, w) = 0 /\ Part(nx, b, w) = 0 BY <1>1, <1>4, NoLease
  <2>2. QED BY <1>2, <1>4, <2>1
<1>5. ASSUME usage' = usage, nx.held = st.held, nx.at = st.at, nx.remaining = st.remaining
      PROVE  Exact
  BY <1>2, <1>3, <1>5 DEF Part, InRow
<1>6. stream \in [Streams -> StreamType] BY DEF TypeOK
<1>7. Fresh.pc = "new" BY DEF Fresh
<1>8. CASE Stamp(s)
  <2>1. nx.pc \in {"new", "stamped"} BY <1>1, <1>6, <1>7, <1>8 DEF Stamp, StreamType
  <2>2. QED BY <1>4, <1>8, <2>1 DEF Stamp
<1>9. CASE Grant(s)
  <2> DEFINE held == [x \in st.ids |-> records[x]]
  <2>1. st.pc = "stamped" /\ usage' = MoveRows(held, st.at, 0, st.want) BY <1>9 DEF Grant
  <2>2. nx.held = held /\ nx.at = st.at /\ nx.remaining = st.want
    BY <1>1, <1>6, <1>9 DEF Grant, StreamType
  <2>3. Part(st, b, w) = 0 BY <1>1, <2>1, NoLease
  <2> HIDE DEF held
  <2>4. usage'[b][w] = IF InRow(nx, b, w)
                         THEN [used |-> usage[b][w].used + 0,
                               reserved |-> usage[b][w].reserved + st.want]
                         ELSE usage[b][w]
    BY <2>1, <2>2, MovedAt DEF InRow
  <2>5. QED BY <1>2, <1>3, <2>2, <2>3, <2>4 DEF Part
<1>10. CASE Refuse(s)
  <2>1. nx.pc \in {"new", "asking"} BY <1>1, <1>6, <1>7, <1>10 DEF Refuse, StreamType
  <2>2. QED BY <1>4, <1>10, <2>1 DEF Refuse
<1>11. CASE ReserveError(s)
  BY <1>4, <1>6, <1>7, <1>11 DEF ReserveError
<1>12. CASE Consume(s)
  <2>1. usage' = MoveRows(st.held, st.at, st.pending, -st.pending) BY <1>12 DEF Consume
  <2>2. nx.held = st.held /\ nx.at = st.at /\ nx.remaining = st.remaining - st.pending
    BY <1>1, <1>6, <1>12 DEF Consume, StreamType
  <2>3. usage'[b][w] = IF InRow(st, b, w)
                         THEN [used |-> usage[b][w].used + st.pending,
                               reserved |-> usage[b][w].reserved + (-st.pending)]
                         ELSE usage[b][w]
    BY <2>1, MovedAt DEF InRow
  <2>4. QED BY <1>2, <1>3, <2>2, <2>3 DEF Part, InRow
<1>13. CASE ConsumeError(s)
  <2>1. nx.held = st.held /\ nx.at = st.at /\ nx.remaining = st.remaining /\ usage' = usage
    BY <1>1, <1>6, <1>13 DEF ConsumeError, StreamType
  <2>2. QED BY <1>5, <2>1
<1>14. CASE Close(s)
  <2>1. usage' = MoveRows(st.held, st.at, 0, -st.remaining) BY <1>14 DEF Close
  <2>2. nx.pc \in {"new", "idle"} BY <1>1, <1>6, <1>7, <1>14 DEF Close, Fresh
  <2>3. Part(nx, b, w) = 0 BY <1>1, <2>2, NoLease
  <2>4. usage'[b][w] = IF InRow(st, b, w)
                         THEN [used |-> usage[b][w].used + 0,
                               reserved |-> usage[b][w].reserved + (-st.remaining)]
                         ELSE usage[b][w]
    BY <2>1, MovedAt DEF InRow
  <2>5. QED BY <1>2, <1>3, <2>3, <2>4 DEF Part
<1>15. CASE CloseError(s)
  <2>1. nx.pc = "new" /\ usage' = usage BY <1>6, <1>7, <1>15 DEF CloseError
  <2>2. QED BY <1>1, <1>15, <2>1, NoLease
<1>16. CASE Route(s)
  <2>1. nx.pc \in {"unmetered", "admit"} BY <1>6, <1>16 DEF Route, Fresh
  <2>2. QED BY <1>4, <1>16, <2>1 DEF Route
<1>17. CASE Finish(s)
  BY <1>4, <1>6, <1>7, <1>17 DEF Finish
<1>18. CASE Cancel(s)
  <2>1. nx.held = st.held /\ nx.at = st.at /\ nx.remaining = st.remaining /\ usage' = usage
    BY <1>1, <1>6, <1>18 DEF Cancel, StreamType
  <2>2. QED BY <1>5, <2>1
<1>19. ASSUME NEW n \in 1 .. MaxChunk, Ask(s, n) PROVE Exact
  <2>1. nx.pc = "asking" BY <1>1, <1>6, <1>19 DEF Ask, StreamType
  <2>2. QED BY <1>4, <1>19, <2>1 DEF Ask
<1>20. ASSUME NEW n \in 0 .. MaxChunk, Transfer(s, n) PROVE Exact
  <2>1. nx.held = st.held /\ nx.at = st.at /\ nx.remaining = st.remaining /\ usage' = usage
    BY <1>1, <1>6, <1>20 DEF Transfer, StreamType
  <2>2. QED BY <1>5, <2>1
<1>21. QED
  BY <1>8, <1>9, <1>10, <1>11, <1>12, <1>13, <1>14, <1>15, <1>16, <1>17, <1>18, <1>19, <1>20
     DEF Settle, Use

\* A stream's step touches no other slot, neither process nor configurations.
LEMMA OwnSlot ==
  ASSUME TypeOK, NEW s \in Streams, Settle(s) \/ Use(s)
  PROVE  /\ \A x \in Streams \ {s} : stream'[x] = stream[x]
         /\ UNCHANGED <<up, records, initialized, high>>
<1>1. stream \in [Streams -> StreamType] BY DEF TypeOK
<1>2. ASSUME NEW n \in 1 .. MaxChunk, Ask(s, n)
      PROVE  /\ \A x \in Streams \ {s} : stream'[x] = stream[x]
             /\ UNCHANGED <<up, records, initialized, high>>
  BY <1>1, <1>2 DEF Ask
<1>3. ASSUME NEW n \in 0 .. MaxChunk, Transfer(s, n)
      PROVE  /\ \A x \in Streams \ {s} : stream'[x] = stream[x]
             /\ UNCHANGED <<up, records, initialized, high>>
  BY <1>1, <1>3 DEF Transfer
<1>4. CASE Settle(s)
  BY <1>1, <1>4 DEF Settle, Stamp, Grant, Refuse, ReserveError, Consume, ConsumeError,
     Close, CloseError
<1>5. CASE Route(s) \/ Finish(s) \/ Cancel(s) BY <1>1, <1>5 DEF Route, Finish, Cancel
<1>6. QED BY <1>2, <1>3, <1>4, <1>5 DEF Use

\* What all leases hold in a row changes by what the stream's lease does.
LEMMA LeasedStep ==
  ASSUME TypeOK, TypeOK', NEW s \in Streams, Settle(s) \/ Use(s), NEW b, NEW w
  PROVE  /\ Leased(b, w) \in Nat /\ Leased(b, w)' \in Nat
         /\ Leased(b, w)' + Part(stream[s], b, w) = Leased(b, w) + Part(stream'[s], b, w)
         /\ Part(stream[s], b, w) \in Nat /\ Part(stream'[s], b, w) \in Nat
<1>1. PICK f : f = [x \in Streams |-> Part(stream[x], b, w)] OBVIOUS
<1>2. PICK g : g = [x \in Streams |-> Part(stream'[x], b, w)] OBVIOUS
<1>3. \A x \in Streams : f[x] \in Nat /\ g[x] \in Nat BY <1>1, <1>2, PartType DEF TypeOK
<1>4. \A x \in Streams \ {s} : g[x] = f[x] BY <1>1, <1>2, OwnSlot
<1>5. IsFiniteSet(Streams) BY BudgetAssumption
<1>6. Total(g, Streams) + f[s] = Total(f, Streams) + g[s] BY <1>3, <1>4, <1>5, TotalChange
<1>7. Total(f, Streams) \in Nat /\ Total(g, Streams) \in Nat BY <1>3, <1>5, TotalNat
<1>8. Leased(b, w) = Total(f, Streams) BY <1>1, LeasedIsTotal
<1>9. Leased(b, w)' = Total(g, Streams) BY <1>2 DEF Leased, Holds, Part, InRow
<1>10. f[s] = Part(stream[s], b, w) /\ g[s] = Part(stream'[s], b, w) BY <1>1, <1>2
<1>11. QED BY <1>3, <1>6, <1>7, <1>8, <1>9, <1>10

\* No lease, nothing leased.
LEMMA QuietLeases ==
  ASSUME TypeOK, \A s \in Streams : stream[s].pc = "new", NEW b, NEW w
  PROVE  Leased(b, w) = 0
<1>1. PICK f : f = [x \in Streams |-> Part(stream[x], b, w)] OBVIOUS
<1>2. \A x \in Streams : f[x] = 0 BY <1>1, NoLease DEF TypeOK
<1>3. Total(f, Streams) = 0 BY <1>2, TotalZero
<1>4. QED BY <1>1, <1>3, LeasedIsTotal

-----------------------------------------------------------------------------
(* Reservations back the leases.                                            *)

\* A process that does not run has no streams.
DownIsQuiet == ~up => \A s \in Streams : stream[s].pc = "new"

LEMMA StepQuiet == TypeOK /\ DownIsQuiet /\ [Next]_vars => DownIsQuiet'
<1> SUFFICES ASSUME TypeOK, DownIsQuiet, [Next]_vars PROVE DownIsQuiet' OBVIOUS
<1>1. CASE StartUp BY <1>1 DEF StartUp, DownIsQuiet
<1>2. CASE Crash BY <1>2 DEF Crash, DownIsQuiet, Fresh
<1>3. ASSUME NEW s \in Streams, Settle(s) \/ Use(s) PROVE DownIsQuiet'
  <2>1. up' = up BY <1>3, OwnSlot
  <2>2. up \/ stream[s].pc # "new"
    BY <1>3 DEF Settle, Use, Stamp, Grant, Refuse, ReserveError, Consume, ConsumeError,
       Close, CloseError, Route, Finish, Cancel, Ask, Transfer
  <2>3. up BY <2>2 DEF DownIsQuiet
  <2>4. QED BY <2>1, <2>3 DEF DownIsQuiet
<1>4. CASE UNCHANGED <<up, stream>> BY <1>4 DEF DownIsQuiet
<1>5. QED
  BY <1>1, <1>2, <1>3, <1>4 DEF Next, Operate, Tick, PutConfig, DeleteConfig, vars

BackedInv == DownIsQuiet /\ ReservedBacksLeases

LEMMA StepBacked == TypeOK /\ TypeOK' /\ BackedInv /\ [Next]_vars => BackedInv'
<1> SUFFICES ASSUME TypeOK, TypeOK', BackedInv, [Next]_vars PROVE ReservedBacksLeases'
  BY StepQuiet DEF BackedInv
<1>1. CASE StartUp
  <2> SUFFICES ASSUME NEW b \in Budgets, NEW w \in Rows
               PROVE  usage'[b][w].reserved >= Leased(b, w)'
    BY DEF ReservedBacksLeases
  <2>1. stream' = stream /\ usage'[b][w].reserved = 0 BY <1>1 DEF StartUp
  <2>2. Leased(b, w) = 0 BY <1>1, QuietLeases DEF StartUp, BackedInv, DownIsQuiet
  <2>3. Leased(b, w)' = 0 BY <2>1, <2>2 DEF Leased, Holds
  <2>4. QED BY <2>1, <2>3
<1>2. CASE Crash BY <1>2 DEF Crash, ReservedBacksLeases
<1>3. ASSUME NEW s \in Streams, Settle(s) \/ Use(s) PROVE ReservedBacksLeases'
  <2> SUFFICES ASSUME up', NEW b \in Budgets, NEW w \in Rows
               PROVE  usage'[b][w].reserved >= Leased(b, w)'
    BY DEF ReservedBacksLeases
  <2>1. up BY <1>3, OwnSlot
  <2>2. usage[b][w].reserved >= Leased(b, w) BY <2>1 DEF BackedInv, ReservedBacksLeases
  <2>3. /\ Leased(b, w) \in Nat /\ Leased(b, w)' \in Nat
        /\ Leased(b, w)' + Part(stream[s], b, w) = Leased(b, w) + Part(stream'[s], b, w)
        /\ Part(stream[s], b, w) \in Nat /\ Part(stream'[s], b, w) \in Nat
    BY <1>3, LeasedStep
  <2>4. usage[b][w].reserved \in Nat /\ usage'[b][w].reserved \in Nat BY DEF TypeOK
  <2>5. \/ usage'[b][w].reserved =
             usage[b][w].reserved + Part(stream'[s], b, w) - Part(stream[s], b, w)
        \/ usage' = usage /\ Part(stream'[s], b, w) = 0
    BY <1>3, LeaseStep
  <2>6. QED BY <2>2, <2>3, <2>4, <2>5
<1>4. CASE UNCHANGED <<up, stream, usage>>
  BY <1>4 DEF BackedInv, ReservedBacksLeases, Leased, Holds
<1>5. QED
  BY <1>1, <1>2, <1>3, <1>4 DEF Next, Operate, Tick, PutConfig, DeleteConfig, vars

LEMMA InitBacked == Init => BackedInv
<1> SUFFICES ASSUME Init PROVE BackedInv OBVIOUS
<1>1. ~up /\ \A s \in Streams : stream[s].pc = "new" BY DEF Init, Fresh
<1>2. QED BY <1>1 DEF BackedInv, DownIsQuiet, ReservedBacksLeases

\* Every live lease finds its rows reserved, whichever calls fail, are cancelled
\* or cut off by a crash, and however the operator changes the windows.
THEOREM LeasesAreBacked == Spec => []ReservedBacksLeases
BY InitBacked, StepBacked, TypeCorrect, PTL DEF Spec, BackedInv

-----------------------------------------------------------------------------
(* Without failures nothing but leases is reserved.                         *)

NobodyCancelled == \A s \in Streams : stream[s].cancelled = FALSE

ExactInv == DownIsQuiet /\ NothingElseReserved /\ NobodyCancelled

LEMMA StepUncancelled ==
  ASSUME "cancel" \notin Faults, TypeOK, NobodyCancelled, [Next]_vars
  PROVE  NobodyCancelled'
<1>1. stream \in [Streams -> StreamType] BY DEF TypeOK
<1>2. Fresh.cancelled = FALSE BY DEF Fresh
<1>3. CASE Crash BY <1>2, <1>3 DEF Crash, NobodyCancelled
<1>4. ASSUME NEW s \in Streams, Settle(s) \/ Use(s) PROVE NobodyCancelled'
  <2>1. stream[s].cancelled = FALSE BY DEF NobodyCancelled
  <2>2. stream'[s].cancelled = FALSE
    <3>1. CASE Stamp(s) BY <1>1, <1>2, <2>1, <3>1 DEF Stamp, StreamType
    <3>2. CASE Grant(s) BY <1>1, <1>2, <2>1, <3>2 DEF Grant, StreamType
    <3>3. CASE Refuse(s) BY <1>1, <1>2, <2>1, <3>3 DEF Refuse, StreamType
    <3>4. CASE Consume(s) BY <1>1, <1>2, <2>1, <3>4 DEF Consume, StreamType
    <3>5. CASE ConsumeError(s) BY <1>1, <1>2, <2>1, <3>5 DEF ConsumeError, StreamType
    <3>6. CASE Close(s) BY <1>1, <1>2, <2>1, <3>6 DEF Close, Fresh
    <3>7. CASE ReserveError(s) \/ CloseError(s) \/ Finish(s)
      BY <1>1, <1>2, <3>7 DEF ReserveError, CloseError, Finish
    <3>8. CASE Route(s) BY <1>1, <3>8 DEF Route, Fresh
    <3>9. ASSUME NEW n \in 1 .. MaxChunk, Ask(s, n) PROVE stream'[s].cancelled = FALSE
      BY <1>1, <2>1, <3>9 DEF Ask, StreamType
    <3>10. ASSUME NEW n \in 0 .. MaxChunk, Transfer(s, n) PROVE stream'[s].cancelled = FALSE
      BY <1>1, <2>1, <3>10 DEF Transfer, StreamType
    <3>11. QED
      BY <1>4, <3>1, <3>2, <3>3, <3>4, <3>5, <3>6, <3>7, <3>8, <3>9, <3>10
         DEF Settle, Use, Cancel
  <2>3. \A x \in Streams \ {s} : stream'[x] = stream[x] BY <1>4, OwnSlot
  <2>4. QED BY <2>2, <2>3 DEF NobodyCancelled
<1>5. CASE UNCHANGED stream BY <1>5 DEF NobodyCancelled
<1>6. QED
  BY <1>3, <1>4, <1>5 DEF Next, Operate, StartUp, Tick, PutConfig, DeleteConfig, vars

\* A lease whose rows are backed finds what it holds covered.
LEMMA BackedIsCovered ==
  ASSUME TypeOK, BackedInv, NEW s \in Streams,
         stream[s].pc # "new"
  PROVE  Covered(stream[s].held, stream[s].at, stream[s].remaining)
<1> SUFFICES ASSUME NEW b \in DOMAIN stream[s].held
             PROVE  usage[b][RowOf(stream[s].held[b], stream[s].at)].reserved
                      >= stream[s].remaining
  BY DEF Covered
<1>1. PICK w : w = RowOf(stream[s].held[b], stream[s].at) OBVIOUS
<1>2. stream[s] \in StreamType BY DEF TypeOK
<1>3. b \in Budgets /\ w \in Rows BY <1>1, <1>2, LeaseRow
<1>4. up BY DEF BackedInv, DownIsQuiet
<1>5. usage[b][w].reserved >= Leased(b, w) BY <1>3, <1>4 DEF BackedInv, ReservedBacksLeases
<1>6. PICK f : f = [x \in Streams |-> Part(stream[x], b, w)] OBVIOUS
<1>7. \A x \in Streams : f[x] \in Nat BY <1>6, PartType DEF TypeOK
<1>8. IsFiniteSet(Streams) BY BudgetAssumption
<1>9. f[s] <= Total(f, Streams) /\ Total(f, Streams) \in Nat
  BY <1>7, <1>8, TotalElement, TotalNat
<1>10. f[s] = stream[s].remaining BY <1>1, <1>6 DEF Part, InRow
<1>11. Leased(b, w) = Total(f, Streams) BY <1>6, LeasedIsTotal
<1>12. usage[b][w].reserved \in Nat /\ f[s] \in Nat BY <1>3, <1>7 DEF TypeOK
<1>13. QED BY <1>1, <1>5, <1>9, <1>10, <1>11, <1>12

LEMMA StepExact ==
  ASSUME Faults \subseteq {"crash"}, TypeOK, TypeOK', ExactInv, [Next]_vars
  PROVE  ExactInv'
<1>1. DownIsQuiet' BY StepQuiet DEF ExactInv
<1>2. NobodyCancelled' BY StepUncancelled DEF ExactInv
<1>3. NothingElseReserved'
  <2>1. BackedInv
    <3>1. \A b \in Budgets, w \in Rows : usage[b][w].reserved \in Nat BY DEF TypeOK
    <3>2. QED BY <3>1 DEF ExactInv, BackedInv, NothingElseReserved, ReservedBacksLeases
  <2>2. CASE StartUp
    <3> SUFFICES ASSUME NEW b \in Budgets, NEW w \in Rows
                 PROVE  usage'[b][w].reserved = Leased(b, w)'
      BY DEF NothingElseReserved
    <3>1. stream' = stream /\ usage'[b][w].reserved = 0 BY <2>2 DEF StartUp
    <3>2. Leased(b, w) = 0 BY <2>2, QuietLeases DEF StartUp, ExactInv, DownIsQuiet
    <3>3. Leased(b, w)' = 0 BY <3>1, <3>2 DEF Leased, Holds
    <3>4. QED BY <3>1, <3>3
  <2>3. CASE Crash BY <2>3 DEF Crash, NothingElseReserved
  <2>4. ASSUME NEW s \in Streams, Settle(s) \/ Use(s) PROVE NothingElseReserved'
    <3> SUFFICES ASSUME up', NEW b \in Budgets, NEW w \in Rows
                 PROVE  usage'[b][w].reserved = Leased(b, w)'
      BY DEF NothingElseReserved
    <3>1. up BY <2>4, OwnSlot
    <3>2. usage[b][w].reserved = Leased(b, w) BY <3>1 DEF ExactInv, NothingElseReserved
    <3>3. ~CloseError(s)
      <4> SUFFICES ASSUME CloseError(s) PROVE FALSE OBVIOUS
      <4>1. stream[s].pc # "new" BY DEF CloseError
      <4>2. Covered(stream[s].held, stream[s].at, stream[s].remaining)
        BY <2>1, <4>1, BackedIsCovered
      <4>3. stream[s].cancelled = FALSE BY DEF ExactInv, NobodyCancelled
      <4>4. QED BY <4>2, <4>3 DEF CloseError
    <3>4. /\ Leased(b, w) \in Nat /\ Leased(b, w)' \in Nat
          /\ Leased(b, w)' + Part(stream[s], b, w) = Leased(b, w) + Part(stream'[s], b, w)
          /\ Part(stream[s], b, w) \in Nat /\ Part(stream'[s], b, w) \in Nat
      BY <2>4, LeasedStep
    <3>5. usage'[b][w].reserved =
            usage[b][w].reserved + Part(stream'[s], b, w) - Part(stream[s], b, w)
      BY <2>4, <3>3, LeaseStep
    <3>6. QED BY <3>2, <3>4, <3>5
  <2>5. CASE UNCHANGED <<up, stream, usage>>
    BY <2>5 DEF ExactInv, NothingElseReserved, Leased, Holds
  <2>6. QED
    BY <2>2, <2>3, <2>4, <2>5 DEF Next, Operate, Tick, PutConfig, DeleteConfig, vars
<1>4. QED BY <1>1, <1>2, <1>3 DEF ExactInv

LEMMA InitExact == Init => ExactInv
<1> SUFFICES ASSUME Init PROVE ExactInv OBVIOUS
<1>1. ~up /\ \A s \in Streams : stream[s].pc = "new" /\ stream[s].cancelled = FALSE
  BY DEF Init, Fresh
<1>2. QED BY <1>1 DEF ExactInv, DownIsQuiet, NothingElseReserved, NobodyCancelled

\* Without cancelled requests and failing calls every path through Read, Write
\* and Available returns what it did not use, over crashes and restarts.
THEOREM NothingStaysReserved ==
  ASSUME Faults \subseteq {"crash"}
  PROVE  Spec => []NothingElseReserved
<1>1. ExactInv /\ TypeOK /\ TypeOK' /\ [Next]_vars => ExactInv' BY StepExact
<1>2. ExactInv => NothingElseReserved BY DEF ExactInv
<1>3. QED BY <1>1, <1>2, InitExact, TypeCorrect, PTL DEF Spec

-----------------------------------------------------------------------------
(* What was transferred stays charged. A Close returns what its lease still *)
(* holds, so the charge of a row must cover that beside what was moved.     *)

\* Only between Transfer and Consume is anything pending.
PendingMoves == \A s \in Streams : stream[s].pc # "consuming" => stream[s].pending = 0

\* With a store that answers only a cancelled request fails to consume.
AbortsCancelled == \A s \in Streams : stream[s].pc = "aborting" => stream[s].cancelled = TRUE

Spares(b, w) == Total([s \in Streams |-> Spare(stream[s], b, w)], Streams)

MovedCovered ==
  \A b \in Budgets, w \in Rows : moved[b][w] + Spares(b, w) <= Charged(b, w)

SpentInv == BackedInv /\ PendingMoves /\ AbortsCancelled /\ MovedCovered

\* A stream's step charges what it moves beside what its lease has to spare.
LEMMA SpendStep ==
  ASSUME TypeOK, TypeOK', SpentInv, NEW s \in Streams, Settle(s) \/ Use(s),
         NEW b \in Budgets, NEW w \in Rows
  PROVE  moved'[b][w] + Spare(stream'[s], b, w) + Charged(b, w)
           <= moved[b][w] + Spare(stream[s], b, w) + Charged(b, w)'
<1> DEFINE st == stream[s]
           nx == stream'[s]
           Covers == moved'[b][w] + Spare(nx, b, w) + Charged(b, w)
                       <= moved[b][w] + Spare(st, b, w) + Charged(b, w)'
<1>1. st \in StreamType /\ nx \in StreamType /\ LeaseShape(st) /\ LeaseShape(nx) BY DEF TypeOK
<1>2. /\ usage[b][w].reserved \in Nat /\ usage[b][w].used \in Nat /\ moved[b][w] \in Nat
      /\ usage'[b][w].reserved \in Nat /\ usage'[b][w].used \in Nat /\ moved'[b][w] \in Nat
      /\ moved[b] \in [Rows -> Nat]
  BY DEF TypeOK
<1>3. /\ Spare(st, b, w) \in Nat /\ Spare(nx, b, w) \in Nat
      /\ st.want \in Nat /\ st.pending \in Nat /\ st.remaining \in Nat
  BY <1>1, PartType, BudgetAssumption DEF StreamType
<1>4. /\ st.pc # "consuming" => st.pending = 0
      /\ st.pc = "aborting" => st.cancelled = TRUE
  BY DEF SpentInv, PendingMoves, AbortsCancelled
<1>5. stream \in [Streams -> StreamType] BY DEF TypeOK
<1>6. ASSUME UNCHANGED <<usage, moved>>,
             nx.pc \notin {"holding", "consuming", "closing", "aborting"}
      PROVE  Covers
  <2>1. Spare(nx, b, w) = 0 BY <1>1, <1>6, NoLease
  <2>2. QED BY <1>2, <1>3, <1>6, <2>1 DEF Charged
<1>7. Fresh.pc = "new" BY DEF Fresh
<1>8. CASE Stamp(s)
  <2>1. nx.pc \in {"new", "stamped"} BY <1>1, <1>5, <1>7, <1>8 DEF Stamp, StreamType
  <2>2. QED BY <1>6, <1>8, <2>1 DEF Stamp
<1>9. CASE Grant(s)
  <2> DEFINE held == [x \in st.ids |-> records[x]]
  <2>1. /\ st.pc = "stamped" /\ usage' = MoveRows(held, st.at, 0, st.want)
        /\ moved' = moved
    BY <1>9 DEF Grant
  <2>2. /\ nx.held = held /\ nx.at = st.at /\ nx.remaining = st.want /\ nx.pending = st.pending
        /\ nx.pc \in {"holding", "closing"}
    BY <1>1, <1>5, <1>9 DEF Grant, StreamType
  <2> HIDE DEF held
  <2>3. usage'[b][w] = IF InRow(nx, b, w)
                         THEN [used |-> usage[b][w].used + 0,
                               reserved |-> usage[b][w].reserved + st.want]
                         ELSE usage[b][w]
    BY <2>1, <2>2, MovedAt DEF InRow
  <2>4. st.pending = 0 BY <1>4, <2>1
  <2>5. QED BY <1>2, <1>3, <2>1, <2>2, <2>3, <2>4 DEF Spare, Charged
<1>10. CASE Refuse(s)
  <2>1. nx.pc \in {"new", "asking"} BY <1>1, <1>5, <1>7, <1>10 DEF Refuse, StreamType
  <2>2. QED BY <1>6, <1>10, <2>1 DEF Refuse
<1>11. CASE ReserveError(s)
  BY <1>6, <1>5, <1>7, <1>11 DEF ReserveError
<1>12. CASE Consume(s)
  <2>1. usage' = MoveRows(st.held, st.at, st.pending, -st.pending) /\ moved' = moved
    BY <1>12 DEF Consume
  <2>2. /\ nx.held = st.held /\ nx.at = st.at /\ nx.remaining = st.remaining - st.pending
        /\ nx.pending = 0 /\ nx.pc = "closing" /\ st.pc = "consuming"
    BY <1>1, <1>5, <1>12 DEF Consume, StreamType
  <2>3. usage'[b][w] = IF InRow(st, b, w)
                         THEN [used |-> usage[b][w].used + st.pending,
                               reserved |-> usage[b][w].reserved + (-st.pending)]
                         ELSE usage[b][w]
    BY <2>1, MovedAt DEF InRow
  <2>4. Charged(b, w)' = Charged(b, w) BY <1>2, <1>3, <2>3 DEF Charged
  <2>5. Spare(nx, b, w) = Spare(st, b, w) BY <1>3, <2>2 DEF Spare, InRow
  <2>6. Charged(b, w) \in Nat BY <1>2 DEF Charged
  <2>7. QED BY <1>2, <1>3, <2>1, <2>2, <2>4, <2>5, <2>6
<1>13. CASE ConsumeError(s)
  <2>1. nx.pc = "aborting" /\ UNCHANGED <<usage, moved>>
    BY <1>1, <1>5, <1>13 DEF ConsumeError, StreamType
  <2>2. Spare(nx, b, w) = 0 BY <2>1 DEF Spare
  <2>3. QED BY <1>2, <1>3, <2>1, <2>2 DEF Charged
<1>14. CASE Close(s)
  <2>1. /\ usage' = MoveRows(st.held, st.at, 0, -st.remaining) /\ moved' = moved
        /\ st.pc \in {"closing", "aborting"}
    BY <1>14 DEF Close
  <2>2. nx.pc \in {"new", "idle"}
    BY <1>1, <1>5, <1>7, <1>14 DEF Close, Fresh
  <2>3. Spare(nx, b, w) = 0 BY <1>1, <2>2, NoLease
  <2>4. usage'[b][w] = IF InRow(st, b, w)
                         THEN [used |-> usage[b][w].used + 0,
                               reserved |-> usage[b][w].reserved + (-st.remaining)]
                         ELSE usage[b][w]
    BY <2>1, MovedAt DEF InRow
  <2>5. st.pc = "aborting" => st.remaining = 0
    BY <1>4, <1>14 DEF Close
  <2>6. st.pending = 0 BY <1>4, <2>1
  <2>7. QED BY <1>2, <1>3, <2>1, <2>3, <2>4, <2>5, <2>6 DEF Spare, Charged
<1>15. CASE CloseError(s)
  BY <1>6, <1>5, <1>7, <1>15 DEF CloseError
<1>16. CASE Route(s)
  <2>1. nx.pc \in {"unmetered", "admit"} BY <1>5, <1>16 DEF Route, Fresh
  <2>2. QED BY <1>6, <1>16, <2>1 DEF Route
<1>17. CASE Finish(s)
  BY <1>6, <1>5, <1>7, <1>17 DEF Finish
<1>18. CASE Cancel(s)
  <2>1. /\ nx.held = st.held /\ nx.at = st.at /\ nx.remaining = st.remaining
        /\ nx.pc = st.pc /\ nx.pending = st.pending
        /\ UNCHANGED <<usage, moved>>
    BY <1>1, <1>5, <1>18 DEF Cancel, StreamType
  <2>2. Spare(nx, b, w) = Spare(st, b, w) BY <2>1 DEF Spare, InRow
  <2>3. QED BY <1>2, <1>3, <2>1, <2>2 DEF Charged
<1>19. ASSUME NEW n \in 1 .. MaxChunk, Ask(s, n) PROVE Covers
  <2>1. nx.pc = "asking" BY <1>1, <1>5, <1>19 DEF Ask, StreamType
  <2>2. QED BY <1>6, <1>19, <2>1 DEF Ask
<1>20. ASSUME NEW n \in 0 .. MaxChunk, Transfer(s, n) PROVE Covers
  <2>1. /\ nx.held = st.held /\ nx.at = st.at /\ nx.remaining = st.remaining
        /\ nx.pc = "consuming" /\ nx.pending = n /\ usage' = usage /\ st.pc = "holding"
        /\ n <= st.remaining
    BY <1>1, <1>5, <1>20 DEF Transfer, StreamType
  <2>2. moved'[b][w] = IF InRow(st, b, w) THEN moved[b][w] + n ELSE moved[b][w]
    BY <1>2, <1>20 DEF Transfer, InRow
  <2>3. st.pending = 0 BY <1>4, <2>1
  <2>4. n \in Nat OBVIOUS
  <2>5. Charged(b, w)' = Charged(b, w) /\ Charged(b, w) \in Nat BY <1>2, <2>1 DEF Charged
  <2>6. InRow(nx, b, w) <=> InRow(st, b, w) BY <2>1 DEF InRow
  <2>7. QED BY <1>2, <1>3, <2>1, <2>2, <2>3, <2>4, <2>5, <2>6 DEF Spare
<1>21. QED
  BY <1>8, <1>9, <1>10, <1>11, <1>12, <1>13, <1>14, <1>15, <1>16, <1>17, <1>18, <1>19, <1>20
     DEF Settle, Use

\* Only Transfer makes something pending, and only a cancelled request aborts: a
\* backed lease is covered, and the store answers.
LEMMA SpendShape ==
  ASSUME "store" \notin Faults, TypeOK, TypeOK', SpentInv, NEW s \in Streams, Settle(s) \/ Use(s)
  PROVE  /\ stream'[s].pc # "consuming" => stream'[s].pending = 0
         /\ stream'[s].pc = "aborting" => stream'[s].cancelled = TRUE
<1> DEFINE st == stream[s]
           nx == stream'[s]
           Shape == /\ nx.pc # "consuming" => nx.pending = 0
                    /\ nx.pc = "aborting" => nx.cancelled = TRUE
<1>1. st \in StreamType /\ nx \in StreamType /\ LeaseShape(st) /\ LeaseShape(nx) BY DEF TypeOK
<1>2. /\ st.pc # "consuming" => st.pending = 0
      /\ st.pc = "aborting" => st.cancelled = TRUE
  BY DEF SpentInv, PendingMoves, AbortsCancelled
<1>3. stream \in [Streams -> StreamType] BY DEF TypeOK
<1>4. ASSUME nx.pc \notin {"holding", "consuming", "closing", "aborting"} PROVE Shape
  <2>1. nx.remaining = 0 /\ nx.pending \in Nat
    BY <1>1, <1>4, BudgetAssumption DEF LeaseShape, StreamType
  <2>2. QED BY <1>1, <1>4, <2>1 DEF LeaseShape
<1>5. Fresh.pc = "new" BY DEF Fresh
<1>6. CASE Grant(s)
  <2>1. nx.pc \in {"holding", "closing"} /\ nx.pending = st.pending /\ st.pc = "stamped"
    BY <1>1, <1>3, <1>6 DEF Grant, StreamType
  <2>2. QED BY <1>2, <2>1
<1>7. CASE ConsumeError(s)
  <2>1. /\ nx.pc = "aborting" /\ nx.pending = 0 /\ nx.cancelled = st.cancelled
        /\ st.pc = "consuming"
    BY <1>1, <1>3, <1>7 DEF ConsumeError, StreamType
  <2>2. Covered(st.held, st.at, st.pending)
    <3>1. Covered(st.held, st.at, st.remaining) BY <2>1, BackedIsCovered DEF SpentInv
    <3>2. st.pending <= st.remaining /\ st.pending \in Nat /\ st.remaining \in Nat
      BY <1>1, BudgetAssumption DEF LeaseShape, StreamType
    <3>3. \A d \in DOMAIN st.held : usage[d][RowOf(st.held[d], st.at)].reserved \in Nat
      BY <1>1, LeaseRow DEF TypeOK
    <3>4. QED BY <3>1, <3>2, <3>3 DEF Covered
  <2>3. st.cancelled \in BOOLEAN BY <1>1 DEF StreamType
  <2>4. st.cancelled = TRUE BY <1>7, <2>2, <2>3 DEF ConsumeError
  <2>5. QED BY <2>1, <2>4
<1>8. CASE Cancel(s)
  <2>1. nx.pc = st.pc /\ nx.pending = st.pending /\ nx.cancelled = TRUE
    BY <1>1, <1>3, <1>8 DEF Cancel, StreamType
  <2>2. QED BY <1>2, <2>1
<1>9. CASE Consume(s)
  <2>1. nx.pc = "closing" /\ nx.pending = 0 BY <1>1, <1>3, <1>9 DEF Consume, StreamType
  <2>2. QED BY <2>1
<1>10. ASSUME NEW n \in 0 .. MaxChunk, Transfer(s, n) PROVE Shape
  <2>1. nx.pc = "consuming" BY <1>1, <1>3, <1>10 DEF Transfer, StreamType
  <2>2. QED BY <2>1
<1>11. ASSUME NEW n \in 1 .. MaxChunk, Ask(s, n) PROVE Shape
  <2>1. nx.pc = "asking" BY <1>1, <1>3, <1>11 DEF Ask, StreamType
  <2>2. QED BY <1>4, <2>1
<1>12. CASE Stamp(s) \/ Refuse(s)
  <2>1. CASE Stamp(s)
    <3>1. nx.pc \in {"new", "stamped"} BY <1>1, <1>3, <1>5, <2>1 DEF Stamp, StreamType
    <3>2. QED BY <1>4, <3>1
  <2>2. CASE Refuse(s)
    <3>1. nx.pc \in {"new", "asking"} BY <1>1, <1>3, <1>5, <2>2 DEF Refuse, StreamType
    <3>2. QED BY <1>4, <3>1
  <2>3. QED BY <1>12, <2>1, <2>2
<1>13. CASE ReserveError(s) \/ CloseError(s) \/ Finish(s)
  BY <1>3, <1>4, <1>5, <1>13 DEF ReserveError, CloseError, Finish
<1>14. CASE Route(s) \/ Close(s)
  <2>1. CASE Route(s)
    <3>1. nx.pc \in {"unmetered", "admit"} BY <1>3, <2>1 DEF Route, Fresh
    <3>2. QED BY <1>4, <3>1
  <2>2. CASE Close(s)
    <3>1. nx.pc \in {"new", "idle"} BY <1>1, <1>3, <1>5, <2>2 DEF Close, Fresh
    <3>2. QED BY <1>4, <3>1
  <2>3. QED BY <1>14, <2>1, <2>2
<1>15. QED
  BY <1>6, <1>7, <1>8, <1>9, <1>10, <1>11, <1>12, <1>13, <1>14 DEF Settle, Use

\* The sum of what leases have to spare changes by what the stream's lease does.
LEMMA SparesStep ==
  ASSUME TypeOK, TypeOK', NEW s \in Streams, Settle(s) \/ Use(s), NEW b, NEW w
  PROVE  /\ Spares(b, w) \in Nat /\ Spares(b, w)' \in Nat
         /\ Spares(b, w)' + Spare(stream[s], b, w) = Spares(b, w) + Spare(stream'[s], b, w)
         /\ Spare(stream[s], b, w) \in Nat /\ Spare(stream'[s], b, w) \in Nat
<1>1. PICK f : f = [x \in Streams |-> Spare(stream[x], b, w)] OBVIOUS
<1>2. PICK g : g = [x \in Streams |-> Spare(stream'[x], b, w)] OBVIOUS
<1>3. \A x \in Streams : f[x] \in Nat /\ g[x] \in Nat BY <1>1, <1>2, PartType DEF TypeOK
<1>4. \A x \in Streams \ {s} : g[x] = f[x] BY <1>1, <1>2, OwnSlot
<1>5. IsFiniteSet(Streams) BY BudgetAssumption
<1>6. Total(g, Streams) + f[s] = Total(f, Streams) + g[s] BY <1>3, <1>4, <1>5, TotalChange
<1>7. Total(f, Streams) \in Nat /\ Total(g, Streams) \in Nat BY <1>3, <1>5, TotalNat
<1>8. Spares(b, w) = Total(f, Streams) /\ Spares(b, w)' = Total(g, Streams)
  BY <1>1, <1>2 DEF Spares
<1>9. f[s] = Spare(stream[s], b, w) /\ g[s] = Spare(stream'[s], b, w) BY <1>1, <1>2
<1>10. QED BY <1>3, <1>6, <1>7, <1>8, <1>9

LEMMA SparesType ==
  ASSUME TypeOK, NEW b, NEW w
  PROVE  Spares(b, w) \in Nat
<1>1. PICK f : f = [x \in Streams |-> Spare(stream[x], b, w)] OBVIOUS
<1>2. \A x \in Streams : f[x] \in Nat BY <1>1, PartType DEF TypeOK
<1>3. IsFiniteSet(Streams) BY BudgetAssumption
<1>4. Total(f, Streams) \in Nat BY <1>2, <1>3, TotalNat
<1>5. QED BY <1>1, <1>4 DEF Spares

\* Streams that are all new have nothing to spare.
LEMMA QuietSpares ==
  ASSUME TypeOK, \A s \in Streams : stream[s].pc = "new", NEW b, NEW w
  PROVE  Spares(b, w) = 0
<1>1. PICK f : f = [x \in Streams |-> Spare(stream[x], b, w)] OBVIOUS
<1>2. \A x \in Streams : f[x] = 0 BY <1>1, NoLease DEF TypeOK
<1>3. Total(f, Streams) = 0 BY <1>2, TotalZero
<1>4. QED BY <1>1, <1>3 DEF Spares

LEMMA StepSpent ==
  ASSUME "store" \notin Faults, TypeOK, TypeOK', SpentInv, [Next]_vars
  PROVE  SpentInv'
<1>1. BackedInv' BY StepBacked DEF SpentInv
<1>2. CASE StartUp
  <2>1. stream' = stream /\ moved' = moved BY <1>2 DEF StartUp
  <2>2. \A b \in Budgets, w \in Rows : Charged(b, w)' = Charged(b, w)
    <3>1. \A b \in Budgets, w \in Rows :
            usage'[b][w].used = Charged(b, w) /\ usage'[b][w].reserved = 0
      BY <1>2 DEF StartUp
    <3>2. \A b \in Budgets, w \in Rows : Charged(b, w) \in Nat BY DEF TypeOK, Charged
    <3>3. QED BY <3>1, <3>2 DEF Charged
  <2>3. MovedCovered' BY <2>1, <2>2 DEF SpentInv, MovedCovered, Spares
  <2>4. QED BY <1>1, <2>1, <2>3 DEF SpentInv, PendingMoves, AbortsCancelled
<1>3. CASE Crash
  <2>1. usage' = usage /\ moved' = moved BY <1>3 DEF Crash
  <2>2. \A s \in Streams : stream'[s].pc = "new" /\ stream'[s].pending = 0
    BY <1>3 DEF Crash, Fresh
  <2>3. MovedCovered'
    <3> SUFFICES ASSUME NEW b \in Budgets, NEW w \in Rows
                 PROVE  moved'[b][w] + Spares(b, w)' <= Charged(b, w)'
      BY DEF MovedCovered
    <3>1. PICK f : f = [x \in Streams |-> Spare(stream'[x], b, w)] OBVIOUS
    <3>2. \A x \in Streams : f[x] = 0 BY <2>2, <3>1, NoLease DEF TypeOK
    <3>3. Total(f, Streams) = 0 BY <3>2, TotalZero
    <3>4. Spares(b, w)' = 0 BY <3>1, <3>3 DEF Spares
    <3>5. Spares(b, w) \in Nat BY SparesType
    <3>6. moved[b][w] + Spares(b, w) <= Charged(b, w) BY DEF SpentInv, MovedCovered
    <3>7. moved[b][w] \in Nat /\ Charged(b, w) \in Nat BY DEF TypeOK, Charged
    <3>8. Charged(b, w)' = Charged(b, w) BY <2>1 DEF Charged
    <3>9. QED BY <2>1, <3>4, <3>5, <3>6, <3>7, <3>8
  <2>4. QED BY <1>1, <2>2, <2>3 DEF SpentInv, PendingMoves, AbortsCancelled
<1>4. ASSUME NEW s \in Streams, Settle(s) \/ Use(s) PROVE SpentInv'
  <2>1. \A x \in Streams \ {s} : stream'[x] = stream[x] BY <1>4, OwnSlot
  <2>2. ASSUME NEW b \in Budgets, NEW w \in Rows
        PROVE  moved'[b][w] + Spares(b, w)' <= Charged(b, w)'
    <3>1. moved[b][w] + Spares(b, w) <= Charged(b, w) BY DEF SpentInv, MovedCovered
    <3>2. moved'[b][w] + Spare(stream'[s], b, w) + Charged(b, w)
            <= moved[b][w] + Spare(stream[s], b, w) + Charged(b, w)'
      BY <1>4, SpendStep
    <3>3. /\ Spares(b, w) \in Nat /\ Spares(b, w)' \in Nat
          /\ Spares(b, w)' + Spare(stream[s], b, w) = Spares(b, w) + Spare(stream'[s], b, w)
          /\ Spare(stream[s], b, w) \in Nat /\ Spare(stream'[s], b, w) \in Nat
      BY <1>4, SparesStep
    <3>4. /\ moved[b][w] \in Nat /\ Charged(b, w) \in Nat
          /\ moved'[b][w] \in Nat /\ Charged(b, w)' \in Nat
      BY DEF TypeOK, Charged
    <3>5. QED BY <3>1, <3>2, <3>3, <3>4
  <2>4. /\ stream'[s].pc # "consuming" => stream'[s].pending = 0
        /\ stream'[s].pc = "aborting" => stream'[s].cancelled = TRUE
    BY <1>4, SpendShape
  <2>5. PendingMoves' BY <2>1, <2>4 DEF SpentInv, PendingMoves
  <2>6. AbortsCancelled' BY <2>1, <2>4 DEF SpentInv, AbortsCancelled
  <2>7. QED BY <1>1, <2>2, <2>5, <2>6 DEF SpentInv, MovedCovered
<1>5. ASSUME UNCHANGED <<usage, moved, stream>> PROVE SpentInv'
  BY <1>1, <1>5 DEF SpentInv, PendingMoves, AbortsCancelled, MovedCovered, Spares, Charged
<1>6. QED
  BY <1>2, <1>3, <1>4, <1>5 DEF Next, Operate, Tick, PutConfig, DeleteConfig, vars

LEMMA InitSpent == Init => SpentInv
<1> SUFFICES ASSUME Init PROVE SpentInv OBVIOUS
<1>1. \A s \in Streams : stream[s].pc = "new" /\ stream[s].pending = 0 BY DEF Init, Fresh
<1>2. TypeOK BY InitType
<1>3. \A b \in Budgets, w \in Rows : moved[b][w] = 0 /\ Charged(b, w) = 0 BY DEF Init, Charged
<1>4. \A b \in Budgets, w \in Rows : Spares(b, w) = 0 BY <1>1, <1>2, QuietSpares
<1>5. QED BY <1>1, <1>3, <1>4, InitBacked DEF SpentInv, PendingMoves, AbortsCancelled, MovedCovered

\* No byte that was transferred leaves the charge of its row, through crashes,
\* restarts, cancellations and changes of configuration. (With a store that may
\* fail this is false: budget_store_error.)
THEOREM NothingIsForgotten ==
  ASSUME "store" \notin Faults
  PROVE  Spec => []NoUndershoot
<1>1. SpentInv /\ TypeOK /\ TypeOK' /\ [Next]_vars => SpentInv' BY StepSpent
<1>2. TypeOK /\ SpentInv => NoUndershoot
  <2> SUFFICES ASSUME TypeOK, SpentInv, NEW b \in Budgets, NEW w \in Rows
               PROVE  moved[b][w] <= Charged(b, w)
    BY DEF NoUndershoot
  <2>1. Spares(b, w) \in Nat BY SparesType
  <2>2. moved[b][w] \in Nat /\ Charged(b, w) \in Nat BY DEF TypeOK, Charged
  <2>3. QED BY <2>1, <2>2 DEF SpentInv, MovedCovered
<1>3. QED BY <1>1, <1>2, InitSpent, TypeCorrect, PTL DEF Spec

-----------------------------------------------------------------------------
(* Rolling windows. A grant counts every row from the truncated cutoff of   *)
(* its stamp. A window that holds the row of the stamp may begin earlier,   *)
(* but no row that is ever charged lies between, since these are minutes.   *)

Window(c, t) == {w \in Rows : t - c.length <= w /\ w <= t}

\* Configurations in force are among the options.
Configured == \A b \in DOMAIN records : records[b] \in Options[b]

\* Rows of a rolling budget are charged at starts of minutes only.
OnMinutes ==
  \A b \in Budgets : AlwaysRolling(b) =>
    \A w \in Rows : Charged(b, w) # 0 => \E k \in Int : w = Minute * k

RollingInv == LimitInv /\ Configured /\ OnMinutes /\ RollingWithinLimit

LEMMA WindowCounted ==
  ASSUME NEW c \in Config, NEW at \in Instants, NEW t \in Rows, NEW w \in Window(c, t),
         NEW k \in Int, w = Minute * k, Truncate(at) <= t
  PROVE  w \in Counted(c, at)
<1> DEFINE x == at - c.length
           q == x \div Minute
           r == at % Minute
<1>0. /\ Minute \in Nat \ {0} /\ at \in Int /\ c.length \in Nat /\ t \in Int /\ w \in Int
      /\ w \in Rows /\ t - c.length <= w
  BY BudgetAssumption DEF Config, Instants, Rows, Window
<1>1. x \in Int BY <1>0
<1>2. x = Minute * q + (x % Minute) /\ x % Minute \in 0 .. (Minute - 1) /\ q \in Int
  BY <1>0, <1>1, DivMod
<1>3. r \in 0 .. (Minute - 1) BY <1>0, DivMod
<1>4. at - r <= t BY DEF Truncate
<1>5. x < w + Minute BY <1>0, <1>3, <1>4
<1>6. Truncate(x) = Minute * q
  <2>1. PICK y \in Int : y = x % Minute BY <1>2
  <2>2. PICK z \in Int : z = Minute * q BY <1>0, <1>2
  <2>3. x = z + y BY <1>2, <2>1, <2>2
  <2>4. x - y = z BY <1>1, <2>3
  <2>5. QED BY <2>1, <2>2, <2>4 DEF Truncate
<1>7. Counted(c, at) = {y \in Rows : y >= Truncate(x)} BY DEF Counted
<1> HIDE DEF x, q, r
<1>8. Minute * q < Minute * k + Minute
  <2>1. Minute * q \in Int /\ Minute * k \in Int BY <1>0, <1>2
  <2>2. QED BY <1>0, <1>1, <1>2, <1>5, <2>1
<1>9. Minute * (k + 1) = Minute * k + Minute BY <1>0
<1>10. ASSUME q >= k + 1 PROVE Minute * q >= Minute * (k + 1) BY <1>0, <1>2, <1>10
<1>11. q <= k BY <1>0, <1>2, <1>8, <1>9, <1>10
<1>12. Minute * q <= Minute * k BY <1>0, <1>2, <1>11
<1>13. QED BY <1>0, <1>6, <1>7, <1>12

\* Where every charge falls or stays and no limit falls, windows stay within it.
LEMMA RollingKept ==
  ASSUME TypeOK, TypeOK', OnMinutes, RollingWithinLimit,
         \A b \in Budgets, w \in Rows : Charged(b, w)' <= Charged(b, w),
         \A b \in Budgets : high[b] <= high'[b]
  PROVE  OnMinutes' /\ RollingWithinLimit'
<1>1. \A b \in Budgets, w \in Rows : Charged(b, w) \in Nat /\ Charged(b, w)' \in Nat
  BY DEF TypeOK, Charged
<1>2. OnMinutes'
  <2>1. \A b \in Budgets, w \in Rows : Charged(b, w)' # 0 => Charged(b, w) # 0 BY <1>1
  <2>2. QED BY <2>1 DEF OnMinutes, AlwaysRolling
<1>3. RollingWithinLimit'
  <2> SUFFICES ASSUME NEW b \in Budgets, AlwaysRolling(b), NEW c \in Options[b], NEW t \in Rows
               PROVE  Total([w \in Rows |-> Charged(b, w)'], Window(c, t)) <= high'[b]
    BY DEF RollingWithinLimit, AlwaysRolling, Window
  <2>1. PICK f : f = [w \in Rows |-> Charged(b, w)] OBVIOUS
  <2>2. PICK g : g = [w \in Rows |-> Charged(b, w)'] OBVIOUS
  <2>3. PICK W : W = Window(c, t) OBVIOUS
  <2>4. W \subseteq Rows BY <2>3 DEF Window
  <2>5. IsFiniteSet(Rows) BY RowsFinite
  <2>6. IsFiniteSet(W) BY <2>4, <2>5, FS_Subset
  <2>7. \A w \in W : g[w] \in Nat /\ f[w] \in Nat /\ g[w] <= f[w] BY <1>1, <2>1, <2>2, <2>4
  <2>8. Total(g, W) <= Total(f, W) BY <2>6, <2>7, TotalMonotone
  <2>9. Total(f, W) \in Nat /\ Total(g, W) \in Nat BY <2>6, <2>7, TotalNat
  <2>10. Total(f, W) <= high[b] BY <2>1, <2>3 DEF RollingWithinLimit, Window
  <2>11. high[b] \in Nat /\ high'[b] \in Nat BY DEF TypeOK
  <2>12. QED BY <2>2, <2>3, <2>8, <2>9, <2>10, <2>11
<1>4. QED BY <1>2, <1>3

LEMMA GrantRolling ==
  ASSUME TypeOK, TypeOK', RollingInv, NEW s \in Streams, Grant(s)
  PROVE  OnMinutes' /\ RollingWithinLimit'
<1> DEFINE st == stream[s]
           held == [x \in st.ids |-> records[x]]
<1>1. /\ st.at \in Instants /\ st.want \in Nat /\ st.ids \subseteq DOMAIN records
      /\ usage' = MoveRows(held, st.at, 0, st.want) /\ high' = high
      /\ \A b \in st.ids : Fits(b, st.at, st.want)
  <2>1. st \in StreamType BY DEF TypeOK
  <2>2. st.at \in Instants /\ st.want \in Nat BY <2>1, BudgetAssumption DEF StreamType
  <2>3. /\ st.ids \subseteq DOMAIN records
        /\ usage' = MoveRows(held, st.at, 0, st.want) /\ high' = high
        /\ \A b \in st.ids : Fits(b, st.at, st.want)
    BY DEF Grant
  <2>4. QED BY <2>2, <2>3
<1>2. \A b \in Budgets, w \in Rows :
        /\ Charged(b, w) \in Nat /\ Charged(b, w)' \in Nat
        /\ usage[b][w].used \in Nat /\ usage[b][w].reserved \in Nat
  BY DEF TypeOK, Charged
<1>3. \A b \in Budgets, w \in Rows :
        Charged(b, w)' = IF b \in DOMAIN held /\ RowOf(held[b], st.at) = w
                           THEN Charged(b, w) + st.want ELSE Charged(b, w)
  <2> SUFFICES ASSUME NEW b \in Budgets, NEW w \in Rows
               PROVE  Charged(b, w)' = IF b \in DOMAIN held /\ RowOf(held[b], st.at) = w
                                         THEN Charged(b, w) + st.want ELSE Charged(b, w)
    OBVIOUS
  <2>1. usage'[b][w] = IF b \in DOMAIN held /\ RowOf(held[b], st.at) = w
                         THEN [used |-> usage[b][w].used + 0,
                               reserved |-> usage[b][w].reserved + st.want]
                         ELSE usage[b][w]
    BY <1>1, MovedAt
  <2> HIDE DEF held
  <2>2. QED BY <1>1, <1>2, <2>1 DEF Charged
<1>4. DOMAIN held = st.ids /\ \A b \in st.ids : held[b] = records[b] OBVIOUS
<1> HIDE DEF held
<1>5. \A b \in st.ids : b \in Budgets /\ records[b] \in Options[b] /\ records[b] \in Config
  BY <1>1, InventoryFacts DEF RollingInv, Configured, TypeOK
<1>6. ASSUME NEW b \in Budgets, AlwaysRolling(b), b \in st.ids
      PROVE  /\ RowOf(held[b], st.at) = Truncate(st.at)
             /\ \E k \in Int : Truncate(st.at) = Minute * k
  <2>1. records[b].window = "rolling" BY <1>5, <1>6 DEF AlwaysRolling
  <2>2. RowOf(held[b], st.at) = Truncate(st.at) BY <1>4, <1>6, <2>1 DEF RowOf
  <2>3. st.at \in Int /\ Minute \in Nat \ {0} BY <1>1, BudgetAssumption DEF Instants
  <2>4. /\ st.at = Minute * (st.at \div Minute) + (st.at % Minute)
        /\ st.at % Minute \in 0 .. (Minute - 1) /\ st.at \div Minute \in Int
    BY <2>3, DivMod
  <2>5. PICK k \in Int : k = st.at \div Minute BY <2>4
  <2>6. Minute * k \in Int BY <2>3
  <2>7. Truncate(st.at) = Minute * k BY <2>3, <2>4, <2>5, <2>6 DEF Truncate
  <2>8. QED BY <2>2, <2>7
<1>7. OnMinutes'
  <2> SUFFICES ASSUME NEW b \in Budgets, AlwaysRolling(b), NEW w \in Rows, Charged(b, w)' # 0
               PROVE  \E k \in Int : w = Minute * k
    BY DEF OnMinutes, AlwaysRolling
  <2>1. CASE b \in st.ids /\ RowOf(held[b], st.at) = w BY <1>6, <2>1
  <2>2. CASE ~(b \in st.ids /\ RowOf(held[b], st.at) = w)
    <3>1. Charged(b, w) # 0 BY <1>3, <1>4, <2>2
    <3>2. QED BY <3>1 DEF RollingInv, OnMinutes
  <2>3. QED BY <2>1, <2>2
<1>8. RollingWithinLimit'
  <2> SUFFICES ASSUME NEW b \in Budgets, AlwaysRolling(b), NEW c \in Options[b], NEW t \in Rows
               PROVE  Total([w \in Rows |-> Charged(b, w)'], Window(c, t)) <= high[b]
    BY <1>1 DEF RollingWithinLimit, AlwaysRolling, Window
  <2>1. PICK f : f = [w \in Rows |-> Charged(b, w)] OBVIOUS
  <2>2. PICK g : g = [w \in Rows |-> Charged(b, w)'] OBVIOUS
  <2>3. PICK W : W = Window(c, t) OBVIOUS
  <2>4. W \subseteq Rows BY <2>3 DEF Window
  <2>5. IsFiniteSet(Rows) BY RowsFinite
  <2>6. IsFiniteSet(W) BY <2>4, <2>5, FS_Subset
  <2>7. Total(f, W) <= high[b] BY <2>1, <2>3 DEF RollingInv, RollingWithinLimit, Window
  <2>8. CASE b \notin st.ids \/ RowOf(held[b], st.at) \notin W
    <3>1. \A w \in W : g[w] \in Nat /\ f[w] \in Nat /\ g[w] <= f[w]
      <4>1. \A w \in W : Charged(b, w)' = Charged(b, w) BY <1>3, <1>4, <2>4, <2>8
      <4>2. QED BY <1>2, <2>1, <2>2, <2>4, <4>1
    <3>2. Total(g, W) <= Total(f, W) BY <2>6, <3>1, TotalMonotone
    <3>3. Total(f, W) \in Nat /\ Total(g, W) \in Nat BY <2>6, <3>1, TotalNat
    <3>4. high[b] \in Nat BY DEF TypeOK
    <3>5. QED BY <2>2, <2>3, <2>7, <3>2, <3>3, <3>4
  <2>9. CASE b \in st.ids /\ RowOf(held[b], st.at) \in W
    <3>1. PICK row : row = RowOf(held[b], st.at) OBVIOUS
    <3>2. PICK C : C = Counted(records[b], st.at) OBVIOUS
    <3>3. C \subseteq Rows BY <3>2 DEF Counted
    <3>4. IsFiniteSet(C) BY <2>5, <3>3, FS_Subset
    <3>5. row = Truncate(st.at) /\ row \in Rows /\ row <= t
      BY <1>6, <2>3, <2>4, <2>9, <3>1 DEF Window
    <3>6. records[b] \in Config /\ records[b].window = "rolling"
          /\ records[b].length = c.length
      BY <1>5, <2>9 DEF AlwaysRolling
    <3>7. W = Window(records[b], t) BY <2>3, <3>6 DEF Window
    <3>8. \A w \in W : g[w] = 0 \/ w \in C
      <4> SUFFICES ASSUME NEW w \in W, g[w] # 0 PROVE w \in C OBVIOUS
      <4>1. w \in Rows /\ Charged(b, w)' # 0 BY <2>2, <2>4
      <4>2. PICK k \in Int : w = Minute * k BY <1>7, <4>1 DEF OnMinutes, AlwaysRolling
      <4>3. w \in Window(records[b], t) BY <3>7
      <4>4. w \in Counted(records[b], st.at)
        BY <1>1, <3>5, <3>6, <4>2, <4>3, WindowCounted
      <4>5. QED BY <3>2, <4>4
    <3>9. \A w \in C : f[w] \in Nat /\ g[w] \in Nat BY <1>2, <2>1, <2>2, <3>3
    <3>10. row \in C
      <4>1. row \in W BY <2>9, <3>1
      <4>2. PICK k \in Int : row = Minute * k BY <1>6, <2>9, <3>5
      <4>3. row \in Window(records[b], t) BY <3>7, <4>1
      <4>4. row \in Counted(records[b], st.at)
        BY <1>1, <3>5, <3>6, <4>2, <4>3, WindowCounted
      <4>5. QED BY <3>2, <4>4
    <3>11. \A w \in C \ {row} : g[w] = f[w]
      <4>1. \A w \in C \ {row} : Charged(b, w)' = Charged(b, w) BY <1>3, <3>1, <3>3
      <4>2. QED BY <2>1, <2>2, <3>3, <4>1
    <3>12. g[row] = f[row] + st.want
      <4>1. Charged(b, row)' = Charged(b, row) + st.want BY <1>3, <1>4, <2>9, <3>1, <3>5
      <4>2. QED BY <2>1, <2>2, <3>5, <4>1
    <3>13. Total(g, C) + f[row] = Total(f, C) + g[row]
      BY <3>4, <3>9, <3>10, <3>11, TotalChange
    <3>14. Total(g, W) <= Total(g, C) BY <3>4, <3>8, <3>9, TotalCover
    <3>15. /\ Total(g, C) \in Nat /\ Total(f, C) \in Nat
      BY <3>4, <3>9, TotalNat
    <3>16. Total(g, W) \in Nat
      <4>1. \A w \in W : g[w] \in Nat BY <1>2, <2>2, <2>4
      <4>2. QED BY <2>6, <4>1, TotalNat
    <3>17. Total(f, C) + st.want <= records[b].limit
      <4>1. Fits(b, st.at, st.want) BY <1>1, <2>9
      <4>2. ChargeAt(b, records[b], st.at) = Total(f, C) BY <2>1, <3>2, <3>6 DEF ChargeAt
      <4>3. QED BY <4>1, <4>2 DEF Fits
    <3>18. records[b].limit <= high[b] /\ records[b].limit \in Nat /\ high[b] \in Nat
      BY <1>1, <2>9, <3>6 DEF RollingInv, LimitInv, LimitKnown, Config, TypeOK
    <3>19. f[row] \in Nat /\ g[row] \in Nat BY <3>9, <3>10
    <3>20. Total(g, W) <= high[b]
      BY <1>1, <3>12, <3>13, <3>14, <3>15, <3>16, <3>17, <3>18, <3>19
    <3>21. QED BY <2>2, <2>3, <3>20
  <2>10. QED BY <2>8, <2>9
<1>9. QED BY <1>7, <1>8

LEMMA StepConfigured == TypeOK /\ Configured /\ [Next]_vars => Configured'
<1> SUFFICES ASSUME TypeOK, Configured, [Next]_vars PROVE Configured' OBVIOUS
<1>1. CASE StartUp BY <1>1, BudgetAssumption DEF StartUp, Configured
<1>2. ASSUME NEW b \in Budgets, NEW c \in Options[b], PutConfig(b, c) PROVE Configured'
  BY <1>2 DEF PutConfig, Configured
<1>3. ASSUME NEW b \in Budgets, DeleteConfig(b) PROVE Configured'
  BY <1>3 DEF DeleteConfig, Configured
<1>4. ASSUME NEW s \in Streams, Settle(s) \/ Use(s) PROVE Configured'
  BY <1>4, OwnSlot DEF Configured
<1>5. CASE UNCHANGED records BY <1>5 DEF Configured
<1>6. QED BY <1>1, <1>2, <1>3, <1>4, <1>5 DEF Next, Operate, Crash, Tick, vars

LEMMA StepRolling == TypeOK /\ TypeOK' /\ RollingInv /\ [Next]_vars => RollingInv'
<1> SUFFICES ASSUME TypeOK, TypeOK', RollingInv, [Next]_vars
             PROVE  OnMinutes' /\ RollingWithinLimit'
  BY StepLimit, StepConfigured DEF RollingInv
<1>0. /\ \A b \in Budgets, w \in Rows :
           /\ Charged(b, w) \in Nat
           /\ usage[b][w].used \in Nat /\ usage[b][w].reserved \in Nat
      /\ \A b \in Budgets : high[b] \in Nat
  BY DEF TypeOK, Charged
<1>1. ASSUME \A b \in Budgets, w \in Rows : Charged(b, w)' <= Charged(b, w),
             \A b \in Budgets : high[b] <= high'[b]
      PROVE  OnMinutes' /\ RollingWithinLimit'
  BY <1>1, RollingKept DEF RollingInv
<1>2. CASE StartUp
  <2>1. records' \in Inventories /\ high' = Raise(high, records')
    BY <1>2 DEF TypeOK, StartUp
  <2>2. \A b \in Budgets : high[b] <= high'[b] BY <2>1, RaiseFacts
  <2>3. \A b \in Budgets, w \in Rows :
          usage'[b][w].used = Charged(b, w) /\ usage'[b][w].reserved = 0
    BY <1>2 DEF StartUp
  <2>4. \A b \in Budgets, w \in Rows : Charged(b, w)' <= Charged(b, w)
    BY <1>0, <2>3 DEF Charged
  <2>5. QED BY <1>1, <2>2, <2>4
<1>3. ASSUME NEW b \in Budgets, NEW c \in Options[b], PutConfig(b, c)
      PROVE  OnMinutes' /\ RollingWithinLimit'
  <2>1. records' \in Inventories /\ high' = Raise(high, records') /\ usage' = usage
    BY <1>3 DEF TypeOK, PutConfig
  <2>2. \A d \in Budgets : high[d] <= high'[d] BY <2>1, RaiseFacts
  <2>3. \A d \in Budgets, w \in Rows : Charged(d, w)' <= Charged(d, w)
    BY <1>0, <2>1 DEF Charged
  <2>4. QED BY <1>1, <2>2, <2>3
<1>4. ASSUME NEW s \in Streams, Consume(s) \/ Close(s)
      PROVE  OnMinutes' /\ RollingWithinLimit'
  <2> DEFINE st == stream[s]
  <2>1. st.pending \in Nat /\ st.remaining \in Nat BY BudgetAssumption DEF TypeOK, StreamType
  <2>2. ASSUME NEW b \in Budgets, NEW w \in Rows PROVE Charged(b, w)' <= Charged(b, w)
    <3>1. CASE Consume(s)
      <4>1. \/ usage'[b] = usage[b]
            \/ \E x : usage'[b] = [usage[b] EXCEPT ![x] =
                 [used |-> @.used + st.pending, reserved |-> @.reserved + (-st.pending)]]
        BY <3>1 DEF Consume, MoveRows
      <4>2. QED BY <2>1, <4>1, MovedRow
    <3>2. CASE Close(s)
      <4>1. \/ usage'[b] = usage[b]
            \/ \E x : usage'[b] = [usage[b] EXCEPT ![x] =
                 [used |-> @.used + 0, reserved |-> @.reserved + (-st.remaining)]]
        BY <3>2 DEF Close, MoveRows
      <4>2. QED BY <2>1, <4>1, MovedRow
    <3>3. QED BY <1>4, <3>1, <3>2
  <2>3. high' = high BY <1>4 DEF Consume, Close
  <2>4. \A b \in Budgets : high[b] <= high'[b] BY <1>0, <2>3
  <2>5. QED BY <1>1, <2>2, <2>4
<1>5. ASSUME NEW s \in Streams, Grant(s) PROVE OnMinutes' /\ RollingWithinLimit'
  BY <1>5, GrantRolling
<1>6. CASE UNCHANGED <<usage, high>>
  <2>1. \A b \in Budgets, w \in Rows : Charged(b, w)' <= Charged(b, w)
    BY <1>0, <1>6 DEF Charged
  <2>2. \A b \in Budgets : high[b] <= high'[b] BY <1>0, <1>6
  <2>3. QED BY <1>1, <2>1, <2>2
<1>7. QED
  BY <1>2, <1>3, <1>4, <1>5, <1>6 DEF Next, Operate, Settle, Use, vars, Crash, Tick,
     DeleteConfig, Route, Ask, Stamp, Refuse, ReserveError, Transfer, ConsumeError,
     CloseError, Finish, Cancel

LEMMA InitRolling == Init => RollingInv
<1> SUFFICES ASSUME Init PROVE RollingInv OBVIOUS
<1>1. \A b \in Budgets, w \in Rows : Charged(b, w) = 0 BY DEF Init, Charged
<1>2. \A b \in Budgets : high[b] = 0 BY DEF Init
<1>3. LimitInv
  <2>1. DOMAIN records = {} BY DEF Init, Empty
  <2>2. QED BY <1>1, <1>2, <2>1 DEF LimitInv, RowWithinLimit, LimitKnown
<1>4. Configured BY DEF Init, Empty, Configured
<1>5. OnMinutes BY <1>1 DEF OnMinutes
<1>6. RollingWithinLimit
  <2> SUFFICES ASSUME NEW b \in Budgets, NEW W \in SUBSET Rows
               PROVE  Total([w \in Rows |-> Charged(b, w)], W) <= high[b]
    BY DEF RollingWithinLimit
  <2>1. PICK f : f = [w \in Rows |-> Charged(b, w)] OBVIOUS
  <2>2. \A w \in W : f[w] = 0 BY <1>1, <2>1
  <2>3. Total(f, W) = 0 BY <2>2, TotalZero
  <2>4. QED BY <1>2, <2>1, <2>3
<1>7. QED BY <1>3, <1>4, <1>5, <1>6 DEF RollingInv

\* No window of a rolling budget that ends with a minute is charged beyond the
\* highest limit, for every length and every number of streams that read the
\* clock before they lock.
THEOREM RollingLimit == Spec => []RollingWithinLimit
BY InitRolling, StepRolling, TypeCorrect, PTL DEF Spec, RollingInv

-----------------------------------------------------------------------------
(* The import happens once.                                                 *)

\* A start after the first brings back nothing that was deleted: budgets appear
\* only while the manager runs.
THEOREM ImportsOnce == Spec => OnlyOperatorCreates
<1>1. TypeOK /\ [Next]_vars =>
        [DOMAIN records' \subseteq DOMAIN records \/ up \/ ~initialized]_vars
  <2> SUFFICES ASSUME TypeOK, [Next]_vars
               PROVE  DOMAIN records' \subseteq DOMAIN records \/ up \/ ~initialized
    OBVIOUS
  <2>1. CASE StartUp BY <2>1 DEF StartUp
  <2>2. ASSUME NEW b \in Budgets, NEW c \in Options[b], PutConfig(b, c) PROVE up
    BY <2>2 DEF PutConfig
  <2>3. ASSUME NEW b \in Budgets, DeleteConfig(b) PROVE up BY <2>3 DEF DeleteConfig
  <2>4. ASSUME NEW s \in Streams, Settle(s) \/ Use(s) PROVE records' = records
    BY <2>4, OwnSlot
  <2>5. CASE UNCHANGED records BY <2>5
  <2>6. QED BY <2>1, <2>2, <2>3, <2>4, <2>5 DEF Next, Operate, Crash, Tick, vars
<1>2. QED BY <1>1, TypeCorrect, PTL DEF Spec, OnlyOperatorCreates

=============================================================================
