------------------------- MODULE MaintenanceProofs --------------------------
(* Theorems about the goroutines that work on the store in the background,    *)
(* for every set of events and clocks, all lengths of hours and days, every   *)
(* retention setting and every bound: the maintenance runner, and the         *)
(* recorder of traffic events with the jobs on its tables.                    *)
(*                                                                            *)
(* No row shows more than was recorded in its bucket (Covered), for what is   *)
(* rebuilt is the sum of rows that do not. What is retired is not rebuilt,    *)
(* because a mark is never below the watermark of the tier its bucket is      *)
(* built from (TablesOK); each transaction is shown to keep both and to take  *)
(* nothing back (Onward). What queries show is a sum over four spans of time, *)
(* so a retention keeps it when each bucket it retires is the sum of the rows *)
(* it stands for (SumBlocks).                                                 *)
EXTENDS Scheduler, Telemetry, DataTheorems

-----------------------------------------------------------------------------
(* The maintenance runner.                                                    *)

(* A worker exists from the start on and ends only when the runner is         *)
(* stopped; the store is closed only when it is stopped and the worker has    *)
(* ended or was never started, and then cannot be any more.                   *)
RunnerInv ==
  /\ runner \in [started : BOOLEAN, stopped : BOOLEAN] /\ storeOpen \in BOOLEAN
  /\ worker \in {"none", "waiting", "listing", "visiting", "ended"}
  /\ ~storeOpen => runner.stopped = TRUE /\ worker \in {"none", "ended"}

LEMMA RunnerStep == RunnerInv /\ [SchedulerNext]_schedulerVars => RunnerInv'
<1>1. SUFFICES ASSUME RunnerInv, [SchedulerNext]_schedulerVars PROVE RunnerInv' OBVIOUS
<1>2. CASE StartRunner BY <1>1, <1>2 DEF StartRunner, RunnerInv
<1>3. CASE StopRunner BY <1>1, <1>3 DEF StopRunner, RunnerInv
<1>4. CASE CloseStore BY <1>1, <1>4 DEF CloseStore, RunnerInv
<1>5. CASE BeginJob BY <1>1, <1>5 DEF BeginJob, RunnerInv
<1>6. CASE EndWorker BY <1>1, <1>6 DEF EndWorker, RunnerInv
<1>7. CASE ListPage BY <1>1, <1>7 DEF ListPage, EndRound, RunnerInv
<1>8. CASE GiveUp BY <1>1, <1>8 DEF GiveUp, EndRound, RunnerInv
<1>9. CASE VisitNext BY <1>1, <1>9 DEF VisitNext, Visit, EndRound, RunnerInv
<1>10. CASE EndPage BY <1>1, <1>10 DEF EndPage, EndRound, RunnerInv
<1>11. CASE UNCHANGED <<runner, worker, storeOpen>> BY <1>1, <1>11 DEF RunnerInv
<1>12. QED
  BY <1>1, <1>2, <1>3, <1>4, <1>5, <1>6, <1>7, <1>8, <1>9, <1>10, <1>11
     DEF SchedulerNext, schedulerVars, AddSource, DropSource, ComesDue, RefreshedByHand

(* Once the store is closed no job runs and none will, also when Stop came    *)
(* before Start or while the worker was starting a pass.                      *)
THEOREM RunnerIsQuiet == SchedulerSpec => []QuietAfterStop
<1>1. SchedulerInit => RunnerInv BY DEF SchedulerInit, RunnerInv
<1>2. RunnerInv => QuietAfterStop BY DEF RunnerInv, QuietAfterStop
<1>3. QED BY <1>1, <1>2, RunnerStep, PTL DEF SchedulerSpec

-----------------------------------------------------------------------------
(* The tables of traffic: multiples of a width. *)

LEMMA TruncFacts ==
  ASSUME NEW m \in Nat, NEW w \in Nat \ {0}
  PROVE  /\ Trunc(m, w) \in Nat /\ Trunc(m, w) <= m /\ m < Trunc(m, w) + w
         /\ Trunc(m, w) % w = 0
<1>1. m = w * (m \div w) + (m % w) /\ m % w \in 0 .. w - 1 /\ m \div w \in Nat OBVIOUS
<1>2. Trunc(m, w) = m - (m % w) BY <1>1 DEF Trunc
<1>3. Trunc(m, w) \in Nat BY <1>1 DEF Trunc
<1>4. ((m \div w) * w) % w = 0 BY <1>1
<1>5. QED BY <1>1, <1>2, <1>3, <1>4 DEF Trunc

LEMMA MultipleForm ==
  ASSUME NEW a \in Nat, NEW w \in Nat \ {0}
  PROVE  a % w = 0 <=> \E k \in Nat : a = k * w
<1>1. a = (a \div w) * w + (a % w) /\ a \div w \in Nat OBVIOUS
<1>2. a % w = 0 => a = (a \div w) * w BY <1>1
<1>3. \A k \in Nat : (k * w) % w = 0 OBVIOUS
<1>4. QED BY <1>1, <1>2, <1>3

LEMMA MultipleApart ==
  ASSUME NEW j \in Nat, NEW k \in Nat, NEW w \in Nat \ {0}, j < k
  PROVE  j * w + w <= k * w
<1> DEFINE d == k - j - 1
<1>1. d \in Nat /\ k = j + 1 + d OBVIOUS
<1> HIDE DEF d
<1>2. k * w = j * w + w + d * w /\ d * w \in Nat /\ j * w \in Nat BY <1>1
<1>3. QED BY <1>2

(* Multiples are a width apart. *)
LEMMA MultiplesApart ==
  ASSUME NEW a \in Nat, NEW b \in Nat, NEW w \in Nat \ {0}, a % w = 0, b % w = 0, a < b
  PROVE  a + w <= b
<1>1. PICK j \in Nat : a = j * w BY MultipleForm
<1>2. PICK k \in Nat : b = k * w BY MultipleForm
<1>3. j < k
  <2>1. SUFFICES ASSUME ~(j < k) PROVE FALSE OBVIOUS
  <2>2. k = j \/ k < j BY <2>1
  <2>3. k < j => k * w + w <= j * w BY MultipleApart
  <2>4. k * w \in Nat /\ j * w \in Nat OBVIOUS
  <2>5. QED BY <1>1, <1>2, <2>2, <2>3, <2>4
<1>4. QED BY <1>1, <1>2, <1>3, MultipleApart

LEMMA TruncLargest ==
  ASSUME NEW a \in Nat, NEW m \in Nat, NEW w \in Nat \ {0}, a % w = 0, a <= m
  PROVE  a <= Trunc(m, w)
<1>1. /\ Trunc(m, w) \in Nat /\ m < Trunc(m, w) + w /\ Trunc(m, w) % w = 0
  BY TruncFacts
<1>2. Trunc(m, w) < a => Trunc(m, w) + w <= a BY <1>1, MultiplesApart
<1>3. QED BY <1>1, <1>2

LEMMA MultipleOfMultiple ==
  ASSUME NEW a \in Nat, NEW v \in Nat \ {0}, NEW w \in Nat \ {0}, a % w = 0, w % v = 0
  PROVE  a % v = 0
<1>1. PICK j \in Nat : a = j * w BY MultipleForm
<1>2. PICK k \in Nat : w = k * v BY MultipleForm
<1>3. a = (j * k) * v /\ j * k \in Nat BY <1>1, <1>2
<1>4. QED BY <1>3, MultipleForm

LEMMA MultipleNext ==
  ASSUME NEW a \in Nat, NEW w \in Nat \ {0}, a % w = 0
  PROVE  (a + w) % w = 0
<1>1. PICK j \in Nat : a = j * w BY MultipleForm
<1>2. a + w = (j + 1) * w /\ j + 1 \in Nat BY <1>1
<1>3. a + w \in Nat OBVIOUS
<1>4. QED BY <1>2, <1>3, MultipleForm

-----------------------------------------------------------------------------
(* Sums of rows over a span of time.                                          *)

Span(D, a, b) == {m \in D : a <= m /\ m < b}

LEMMA SpanFinite ==
  ASSUME NEW D \in SUBSET Minutes, NEW a, NEW b
  PROVE  IsFiniteSet(Span(D, a, b)) /\ Span(D, a, b) \subseteq D /\ D \subseteq Nat
<1>1. IsFiniteSet(Minutes) /\ Minutes \subseteq Nat
  BY RollupsAssumption, FS_Interval DEF Minutes
<1>2. Span(D, a, b) \in SUBSET Minutes BY DEF Span
<1>3. QED BY <1>1, <1>2, FS_Subset DEF Span

LEMMA SumSpan ==
  ASSUME NEW D, NEW f \in [D -> Nat], NEW a, NEW b
  PROVE  Sum(f, a, b) = Total(f, Span(D, a, b)) /\ DOMAIN f = D
BY DEF Sum, Span

LEMMA SumNat ==
  ASSUME NEW D \in SUBSET Minutes, NEW f \in [D -> Nat], NEW a, NEW b
  PROVE  Sum(f, a, b) \in Nat
<1>1. IsFiniteSet(Span(D, a, b)) /\ \A m \in Span(D, a, b) : f[m] \in Nat BY SpanFinite
<1>2. QED BY <1>1, SumSpan, TotalNat

LEMMA SumSplit ==
  ASSUME NEW D \in SUBSET Minutes, NEW f \in [D -> Nat],
         NEW a \in Nat, NEW b \in Nat, NEW c \in Nat, a <= b, b <= c
  PROVE  Sum(f, a, c) = Sum(f, a, b) + Sum(f, b, c)
<1> DEFINE S == Span(D, a, b)
           T == Span(D, b, c)
<1>1. IsFiniteSet(S) /\ IsFiniteSet(T) /\ S \subseteq D /\ T \subseteq D /\ D \subseteq Nat
  BY SpanFinite
<1>2. \A m \in D : m \in Nat BY <1>1
<1>3. Span(D, a, c) = S \cup T /\ S \cap T = {} BY <1>2 DEF Span
<1>4. \A m \in S \cup T : f[m] \in Nat BY <1>1
<1> HIDE DEF S, T
<1>5. Total(f, S \cup T) = Total(f, S) + Total(f, T) BY <1>1, <1>3, <1>4, TotalUnion
<1>6. QED BY <1>3, <1>5, SumSpan DEF S, T

LEMMA SumAtMost ==
  ASSUME NEW D \in SUBSET Minutes, NEW f \in [D -> Nat], NEW g \in [D -> Nat],
         NEW a, NEW b, \A m \in D : a <= m /\ m < b => f[m] <= g[m]
  PROVE  Sum(f, a, b) <= Sum(g, a, b)
<1> DEFINE S == Span(D, a, b)
<1>1. IsFiniteSet(S) BY SpanFinite
<1>2. \A m \in S : f[m] \in Nat /\ g[m] \in Nat /\ f[m] <= g[m] BY DEF Span
<1> HIDE DEF S
<1>3. Total(f, S) <= Total(g, S) BY <1>1, <1>2, TotalMonotone
<1>4. QED BY <1>3, SumSpan DEF S

LEMMA SumSame ==
  ASSUME NEW D \in SUBSET Minutes, NEW f \in [D -> Nat], NEW g \in [D -> Nat],
         NEW a, NEW b, \A m \in D : a <= m /\ m < b => f[m] = g[m]
  PROVE  Sum(f, a, b) = Sum(g, a, b)
<1>1. \A m \in D : a <= m /\ m < b => f[m] <= g[m] /\ g[m] <= f[m] OBVIOUS
<1>2. Sum(f, a, b) <= Sum(g, a, b) /\ Sum(g, a, b) <= Sum(f, a, b) BY <1>1, SumAtMost
<1>3. Sum(f, a, b) \in Nat /\ Sum(g, a, b) \in Nat BY SumNat
<1>4. QED BY <1>2, <1>3

LEMMA SumSingle ==
  ASSUME NEW D \in SUBSET Minutes, NEW f \in [D -> Nat], NEW b \in D
  PROVE  Sum(f, b, b + 1) = f[b]
<1>1. IsFiniteSet(Span(D, b, b + 1)) /\ D \subseteq Nat BY SpanFinite
<1>2. \A m \in D : m \in Nat BY <1>1
<1>3. Span(D, b, b + 1) = {b} BY <1>2 DEF Span
<1>4. Total(f, {}) = 0 BY TotalZero
<1>5. IsFiniteSet({b}) /\ {b} \ {b} = {} /\ \A m \in {b} : f[m] \in Nat BY FS_Singleton
<1>6. Total(f, {b}) = f[b] + Total(f, {b} \ {b}) BY <1>5, TotalSplit
<1>7. f[b] + 0 = f[b] OBVIOUS
<1>8. QED BY <1>3, <1>4, <1>5, <1>6, <1>7, SumSpan

Multiples(w) == {m \in Minutes : m % w = 0}

(* Coarse rows that are each the sum of the fine rows of their bucket have    *)
(* the same sum over a span of whole buckets.                                 *)
LEMMA SumBlocks ==
  ASSUME NEW D \in SUBSET Minutes, NEW g \in [D -> Nat], NEW w \in Nat \ {0},
         NEW f \in [Multiples(w) -> Nat],
         NEW a \in Nat, NEW b \in Nat, a % w = 0, b % w = 0,
         \A c \in Multiples(w) : a <= c /\ c < b => f[c] = Sum(g, c, c + w)
  PROVE  Sum(f, a, b) = Sum(g, a, b)
<1> DEFINE S == Span(Multiples(w), a, b)
           T == Span(D, a, b)
           B == [c \in S |-> Span(D, c, c + w)]
<1>1. /\ IsFiniteSet(S) /\ IsFiniteSet(T) /\ S \subseteq Multiples(w) /\ T \subseteq D
      /\ D \subseteq Nat /\ Multiples(w) \subseteq Nat
  BY SpanFinite DEF Multiples
<1>2. ASSUME NEW c \in S PROVE c \in Nat /\ c % w = 0 /\ a <= c /\ c < b /\ c + w <= b
  <2>1. c \in Nat /\ c % w = 0 /\ a <= c /\ c < b BY <1>1 DEF Span, Multiples
  <2>2. QED BY <2>1, MultiplesApart
<1>3. \A c \in S : f[c] \in Nat BY <1>1
<1>4. \A y \in T : g[y] \in Nat BY <1>1
<1>5. ASSUME NEW c \in S PROVE B[c] \subseteq T /\ f[c] = Total(g, B[c])
  <2>1. B[c] = Span(D, c, c + w) OBVIOUS
  <2>2. \A m \in D : m \in Nat BY <1>1
  <2>3. Span(D, c, c + w) \subseteq T BY <1>2, <2>2 DEF Span
  <2>4. f[c] = Sum(g, c, c + w) BY <1>1, <1>2
  <2>5. QED BY <2>1, <2>3, <2>4, SumSpan
<1>6. ASSUME NEW c \in S, NEW e \in S, c # e PROVE B[c] \cap B[e] = {}
  <2>1. c < e => c + w <= e BY <1>2, MultiplesApart
  <2>2. e < c => e + w <= c BY <1>2, MultiplesApart
  <2>3. c < e \/ e < c BY <1>2, <1>6
  <2>4. \A m \in D : m \in Nat BY <1>1
  <2>5. c + w \in Nat /\ e + w \in Nat /\ c \in Nat /\ e \in Nat BY <1>2
  <2>6. B[c] = Span(D, c, c + w) /\ B[e] = Span(D, e, e + w) OBVIOUS
  <2>7. QED BY <2>1, <2>2, <2>3, <2>4, <2>5, <2>6 DEF Span
<1>7. ASSUME NEW y \in T PROVE \E c \in S : y \in B[c]
  <2>1. y \in Nat /\ y \in D /\ a <= y /\ y < b BY <1>1 DEF Span
  <2>2. /\ Trunc(y, w) \in Nat /\ Trunc(y, w) <= y /\ y < Trunc(y, w) + w
        /\ Trunc(y, w) % w = 0 /\ a <= Trunc(y, w)
    BY <2>1, TruncFacts, TruncLargest
  <2>3. Trunc(y, w) \in Minutes
    <3>1. y \in 0 .. LastMinute /\ LastMinute \in Nat BY <2>1, RollupsAssumption DEF Minutes
    <3>2. QED BY <2>2, <3>1 DEF Minutes
  <2>4. Trunc(y, w) \in S BY <2>1, <2>2, <2>3 DEF Span, Multiples
  <2>5. y \in B[Trunc(y, w)] BY <2>1, <2>2, <2>4 DEF Span
  <2>6. QED BY <2>4, <2>5
<1> HIDE DEF S, T, B
<1>8. Total(f, S) = Total(g, T)
  <2>1. \A c, e \in S : c # e => B[c] \cap B[e] = {} BY <1>6
  <2>2. \A c \in S : B[c] \subseteq T /\ f[c] = Total(g, B[c]) BY <1>5
  <2>3. \A y \in T : \E c \in S : y \in B[c] BY <1>7
  <2>4. IsFiniteSet(S) /\ IsFiniteSet(T) BY <1>1
  <2>5. QED BY <1>3, <1>4, <2>1, <2>2, <2>3, <2>4, TotalPartition
<1>9. QED BY <1>8, SumSpan DEF S, T

-----------------------------------------------------------------------------
(* The tables.                                                                *)

Tables ==
  [raw : [Minutes -> Nat], minute : [Minutes -> Nat], hour : [Hours -> Nat], day : [Days -> Nat],
   dirtyMinutes : SUBSET Minutes, dirtyHours : SUBSET Hours, dirtyDays : SUBSET Days,
   rawBefore : Minutes, minuteBefore : Hours, hourBefore : Days, dayBefore : Days]

(* A mark is never below the watermark of the tier its bucket is built from. *)
TablesOK(d) ==
  /\ d \in Tables
  /\ d.dayBefore <= d.hourBefore /\ d.hourBefore <= d.minuteBefore /\ d.minuteBefore <= d.rawBefore
  /\ \A h \in d.dirtyHours : d.minuteBefore <= h
  /\ \A x \in d.dirtyDays : d.hourBefore <= x

(* No row shows more than was recorded in its bucket.                         *)
Covered(d, R) ==
  /\ \A m \in Minutes : d.raw[m] <= R[m] /\ d.minute[m] <= R[m]
  /\ \A h \in Hours : d.hour[h] <= Sum(R, h, h + HourLength)
  /\ \A x \in Days : d.day[x] <= Sum(R, x, x + DayLength)

(* The tables go from d to r without going back. *)
Onward(d, r) ==
  /\ d.rawBefore <= r.rawBefore /\ d.minuteBefore <= r.minuteBefore
  /\ d.hourBefore <= r.hourBefore /\ d.dayBefore <= r.dayBefore
  /\ \A m \in Minutes : r.minuteBefore <= m /\ m < d.rawBefore => r.minute[m] = d.minute[m]
  /\ \A h \in Hours : r.hourBefore <= h /\ h < d.minuteBefore => r.hour[h] = d.hour[h]
  /\ \A x \in Days : r.dayBefore <= x /\ x < d.hourBefore => r.day[x] = d.day[x]

LEMMA TimeFacts ==
  /\ Minutes \subseteq Nat /\ Hours \subseteq Minutes /\ Days \subseteq Minutes
  /\ Hours = Multiples(HourLength) /\ Days = Multiples(DayLength) /\ Days \subseteq Hours
  /\ HourLength \in Nat \ {0} /\ DayLength \in Nat \ {0} /\ LastMinute \in Nat
  /\ \A h \in Hours : h \in Nat /\ h % HourLength = 0
  /\ \A x \in Days : x \in Nat /\ x % DayLength = 0 /\ x % HourLength = 0
<1>1. /\ HourLength \in Nat \ {0} /\ DayLength \in Nat \ {0} /\ LastMinute \in Nat
      /\ DayLength % HourLength = 0
  BY RollupsAssumption
<1>2. Minutes \subseteq Nat BY <1>1 DEF Minutes
<1>3. /\ Hours \subseteq Minutes /\ Days \subseteq Minutes
      /\ Hours = Multiples(HourLength) /\ Days = Multiples(DayLength)
  BY DEF Hours, Days, Multiples
<1>4. \A h \in Hours : h \in Nat /\ h % HourLength = 0 BY <1>2 DEF Hours
<1>5. ASSUME NEW x \in Days PROVE x \in Minutes /\ x \in Nat /\ x % DayLength = 0 /\ x % HourLength = 0
  <2>1. x \in Minutes /\ x \in Nat /\ x % DayLength = 0 BY <1>2 DEF Days
  <2>2. x % HourLength = 0 BY <1>1, <2>1, MultipleOfMultiple
  <2>3. QED BY <2>1, <2>2
<1>6. Days \subseteq Hours BY <1>5 DEF Hours
<1>7. QED BY <1>1, <1>2, <1>3, <1>4, <1>5, <1>6

LEMMA TruncMinute ==
  ASSUME NEW m \in Minutes, NEW w \in Nat \ {0}
  PROVE  Trunc(m, w) \in Multiples(w) /\ Trunc(m, w) <= m
<1>1. m \in Nat /\ m <= LastMinute /\ LastMinute \in Nat BY RollupsAssumption DEF Minutes
<1>2. Trunc(m, w) \in Nat /\ Trunc(m, w) <= m /\ Trunc(m, w) % w = 0 BY <1>1, TruncFacts
<1>3. QED BY <1>1, <1>2 DEF Minutes, Multiples

LEMMA RebuiltFacts ==
  ASSUME NEW C \in SUBSET Minutes, NEW D \in SUBSET Minutes, NEW coarse \in [C -> Nat],
         NEW fine \in [D -> Nat], NEW redo, NEW w
  PROVE  /\ Rebuilt(coarse, fine, redo, w) \in [C -> Nat]
         /\ \A b \in C : Rebuilt(coarse, fine, redo, w)[b]
                           = IF b \in redo THEN Sum(fine, b, b + w) ELSE coarse[b]
<1>1. \A b \in C : Sum(fine, b, b + w) \in Nat BY SumNat
<1>2. QED BY <1>1 DEF Rebuilt

LEMMA WithinFacts ==
  ASSUME NEW D, NEW rows \in [D -> Nat], NEW from, NEW until
  PROVE  /\ Within(rows, from, until) \in [D -> Nat]
         /\ \A b \in D : Within(rows, from, until)[b]
                           = IF from <= b /\ b < until THEN rows[b] ELSE 0
BY DEF Within

(* Marks are buckets, not below a watermark that nothing redone is below.     *)
LEMMA MarkFacts ==
  ASSUME NEW before, NEW after, NEW redo \in SUBSET Minutes, NEW w \in Nat \ {0},
         NEW low \in Nat, low % w = 0, \A b \in redo : low <= b
  PROVE  /\ Marks(before, after, redo, w) \subseteq Multiples(w)
         /\ \A x \in Marks(before, after, redo, w) : low <= x
<1>1. ASSUME NEW b \in redo PROVE Trunc(b, w) \in Multiples(w) /\ low <= Trunc(b, w)
  <2>1. b \in Minutes /\ b \in Nat BY TimeFacts
  <2>2. QED BY <2>1, TruncMinute, TruncLargest
<1>2. QED BY <1>1 DEF Marks

(* The sums of hours are those of their minutes.                              *)
LEMMA DayCovered ==
  ASSUME NEW R \in [Minutes -> Nat], NEW hour \in [Hours -> Nat],
         \A h \in Hours : hour[h] <= Sum(R, h, h + HourLength), NEW x \in Days
  PROVE  Sum(hour, x, x + DayLength) <= Sum(R, x, x + DayLength)
<1> DEFINE exact == [h \in Hours |-> Sum(R, h, h + HourLength)]
<1>1. exact \in [Hours -> Nat] BY SumNat
<1>2. \A h \in Hours : exact[h] = Sum(R, h, h + HourLength) /\ hour[h] <= exact[h] OBVIOUS
<1> HIDE DEF exact
<1>3. Sum(hour, x, x + DayLength) <= Sum(exact, x, x + DayLength)
  BY <1>1, <1>2, TimeFacts, SumAtMost
<1>4. Sum(exact, x, x + DayLength) = Sum(R, x, x + DayLength)
  <2>1. /\ x \in Nat /\ x + DayLength \in Nat /\ x % HourLength = 0
        /\ (x + DayLength) % HourLength = 0
    <3>1. x \in Nat /\ x % DayLength = 0 /\ x % HourLength = 0 /\ DayLength \in Nat \ {0}
          /\ HourLength \in Nat \ {0} /\ DayLength % HourLength = 0
      BY TimeFacts, RollupsAssumption
    <3>2. (x + DayLength) % DayLength = 0 BY <3>1, MultipleNext
    <3>3. x + DayLength \in Nat BY <3>1
    <3>4. (x + DayLength) % HourLength = 0 BY <3>1, <3>2, <3>3, MultipleOfMultiple
    <3>5. QED BY <3>1, <3>3, <3>4
  <2>2. exact \in [Multiples(HourLength) -> Nat] BY <1>1, TimeFacts
  <2>3. \A c \in Multiples(HourLength) : exact[c] = Sum(R, c, c + HourLength) BY <1>2, TimeFacts
  <2>4. HourLength \in Nat \ {0} BY TimeFacts
  <2>5. QED BY <2>1, <2>2, <2>3, <2>4, SumBlocks
<1>5. QED BY <1>3, <1>4

-----------------------------------------------------------------------------
(* What each transaction makes of the tables, field by field.                 *)

(* A record of eleven fields is what its fields are.                          *)
LEMMA SameTables ==
  ASSUME NEW S1, NEW S2, NEW S3, NEW S4, NEW S5, NEW S6, NEW S7, NEW S8, NEW S9, NEW S10, NEW S11,
         NEW r \in [raw : S1, minute : S2, hour : S3, day : S4,
                    dirtyMinutes : S5, dirtyHours : S6, dirtyDays : S7,
                    rawBefore : S8, minuteBefore : S9, hourBefore : S10, dayBefore : S11]
  PROVE  r = [raw |-> r.raw, minute |-> r.minute, hour |-> r.hour, day |-> r.day,
              dirtyMinutes |-> r.dirtyMinutes, dirtyHours |-> r.dirtyHours, dirtyDays |-> r.dirtyDays,
              rawBefore |-> r.rawBefore, minuteBefore |-> r.minuteBefore,
              hourBefore |-> r.hourBefore, dayBefore |-> r.dayBefore]
OBVIOUS

RedoMinutes(d, from, until) ==
  {m \in d.dirtyMinutes : Later(from, d.rawBefore) <= m /\ m < until}

LEMMA RollupMinuteShape ==
  ASSUME NEW d \in Tables, NEW from, NEW until, NEW redo,
         redo = RedoMinutes(d, from, until)
  PROVE  RollupMinute(d, from, until)
           = [raw |-> d.raw, minute |-> Rebuilt(d.minute, d.raw, redo, 1), hour |-> d.hour, day |-> d.day,
              dirtyMinutes |-> d.dirtyMinutes \ redo,
              dirtyHours |-> d.dirtyHours
                               \cup Marks(d.minute, Rebuilt(d.minute, d.raw, redo, 1), redo, HourLength),
              dirtyDays |-> d.dirtyDays,
              rawBefore |-> d.rawBefore, minuteBefore |-> d.minuteBefore,
              hourBefore |-> d.hourBefore, dayBefore |-> d.dayBefore]
<1>1. RollupMinute(d, from, until)
       \in [raw : {d.raw}, minute : {Rebuilt(d.minute, d.raw, redo, 1)}, hour : {d.hour},
            day : {d.day}, dirtyMinutes : {d.dirtyMinutes \ redo},
            dirtyHours : {d.dirtyHours \cup Marks(d.minute, Rebuilt(d.minute, d.raw, redo, 1), redo, HourLength)},
            dirtyDays : {d.dirtyDays}, rawBefore : {d.rawBefore},
            minuteBefore : {d.minuteBefore}, hourBefore : {d.hourBefore},
            dayBefore : {d.dayBefore}]
  BY DEF RollupMinute, WithMinutes, Tables, RedoMinutes
<1>2. QED BY <1>1, SameTables

LEMMA RollupHourShape ==
  ASSUME NEW d \in Tables, NEW until, NEW redo, redo = {h \in d.dirtyHours : h < until}
  PROVE  RollupHour(d, until)
           = [raw |-> d.raw, minute |-> d.minute,
              hour |-> Rebuilt(d.hour, d.minute, redo, HourLength), day |-> d.day,
              dirtyMinutes |-> d.dirtyMinutes, dirtyHours |-> d.dirtyHours \ redo,
              dirtyDays |-> d.dirtyDays
                              \cup Marks(d.hour, Rebuilt(d.hour, d.minute, redo, HourLength), redo, DayLength),
              rawBefore |-> d.rawBefore, minuteBefore |-> d.minuteBefore,
              hourBefore |-> d.hourBefore, dayBefore |-> d.dayBefore]
<1>1. RollupHour(d, until)
       \in [raw : {d.raw}, minute : {d.minute},
            hour : {Rebuilt(d.hour, d.minute, redo, HourLength)}, day : {d.day},
            dirtyMinutes : {d.dirtyMinutes}, dirtyHours : {d.dirtyHours \ redo},
            dirtyDays : {d.dirtyDays \cup Marks(d.hour, Rebuilt(d.hour, d.minute, redo, HourLength), redo, DayLength)},
            rawBefore : {d.rawBefore}, minuteBefore : {d.minuteBefore},
            hourBefore : {d.hourBefore}, dayBefore : {d.dayBefore}]
  BY DEF RollupHour, WithHours, Tables
<1>2. QED BY <1>1, SameTables

LEMMA RollupDayShape ==
  ASSUME NEW d \in Tables, NEW until, NEW redo, redo = {x \in d.dirtyDays : x < until}
  PROVE  RollupDay(d, until)
           = [raw |-> d.raw, minute |-> d.minute, hour |-> d.hour,
              day |-> Rebuilt(d.day, d.hour, redo, DayLength),
              dirtyMinutes |-> d.dirtyMinutes, dirtyHours |-> d.dirtyHours,
              dirtyDays |-> d.dirtyDays \ redo,
              rawBefore |-> d.rawBefore, minuteBefore |-> d.minuteBefore,
              hourBefore |-> d.hourBefore, dayBefore |-> d.dayBefore]
<1>1. RollupDay(d, until)
       \in [raw : {d.raw}, minute : {d.minute}, hour : {d.hour},
            day : {Rebuilt(d.day, d.hour, redo, DayLength)},
            dirtyMinutes : {d.dirtyMinutes}, dirtyHours : {d.dirtyHours},
            dirtyDays : {d.dirtyDays \ redo}, rawBefore : {d.rawBefore},
            minuteBefore : {d.minuteBefore}, hourBefore : {d.hourBefore},
            dayBefore : {d.dayBefore}]
  BY DEF RollupDay, Tables
<1>2. QED BY <1>1, SameTables

LEMMA RetireRawShape ==
  ASSUME NEW d \in Tables, NEW cut, NEW raw, NEW redo, raw = Later(d.rawBefore, cut),
         redo = RedoMinutes(d, d.rawBefore, raw)
  PROVE  RetireRaw(d, cut)
           = [raw |-> Within(d.raw, raw, LastMinute + 1),
              minute |-> Rebuilt(d.minute, d.raw, redo, 1), hour |-> d.hour, day |-> d.day,
              dirtyMinutes |-> d.dirtyMinutes \ redo,
              dirtyHours |-> d.dirtyHours
                               \cup Marks(d.minute, Rebuilt(d.minute, d.raw, redo, 1), redo, HourLength),
              dirtyDays |-> d.dirtyDays,
              rawBefore |-> raw, minuteBefore |-> d.minuteBefore,
              hourBefore |-> d.hourBefore, dayBefore |-> d.dayBefore]
<1>1. RetireRaw(d, cut)
       \in [raw : {Within(d.raw, raw, LastMinute + 1)},
            minute : {Rebuilt(d.minute, d.raw, redo, 1)}, hour : {d.hour}, day : {d.day},
            dirtyMinutes : {d.dirtyMinutes \ redo},
            dirtyHours : {d.dirtyHours \cup Marks(d.minute, Rebuilt(d.minute, d.raw, redo, 1), redo, HourLength)},
            dirtyDays : {d.dirtyDays}, rawBefore : {raw},
            minuteBefore : {d.minuteBefore}, hourBefore : {d.hourBefore},
            dayBefore : {d.dayBefore}]
  BY DEF RetireRaw, RollupMinute, WithMinutes, Tables, RedoMinutes
<1>2. QED BY <1>1, SameTables

MinuteCut(d, cut)    == Sooner(Later(d.minuteBefore, cut), d.rawBefore)
HoursRedone(d, cut)  == In(Hours, d.minuteBefore, MinuteCut(d, cut))
HoursRebuilt(d, cut) == Rebuilt(d.hour, d.minute, HoursRedone(d, cut), HourLength)
MinutesKept(d, cut)  == Within(d.minute, MinuteCut(d, cut), d.rawBefore)
MinutesGone(d, cut)  == Minutes \ In(Minutes, MinuteCut(d, cut), d.rawBefore)
HoursDirty(d, cut)   == In(d.dirtyHours
                             \cup Marks(d.minute, MinutesKept(d, cut), MinutesGone(d, cut), HourLength),
                           MinuteCut(d, cut), d.rawBefore)
DaysMarked(d, cut)   == Marks(d.hour, HoursRebuilt(d, cut), HoursRedone(d, cut), DayLength)

LEMMA RetireMinutesShape ==
  ASSUME NEW d \in Tables, NEW cut
  PROVE  RetireMinutes(d, cut)
           = [raw |-> d.raw, minute |-> MinutesKept(d, cut), hour |-> HoursRebuilt(d, cut),
              day |-> d.day, dirtyMinutes |-> d.dirtyMinutes, dirtyHours |-> HoursDirty(d, cut),
              dirtyDays |-> d.dirtyDays \cup DaysMarked(d, cut),
              rawBefore |-> d.rawBefore, minuteBefore |-> MinuteCut(d, cut),
              hourBefore |-> d.hourBefore, dayBefore |-> d.dayBefore]
<1>1. RetireMinutes(d, cut)
       \in [raw : {d.raw}, minute : {MinutesKept(d, cut)}, hour : {HoursRebuilt(d, cut)},
            day : {d.day}, dirtyMinutes : {d.dirtyMinutes}, dirtyHours : {HoursDirty(d, cut)},
            dirtyDays : {d.dirtyDays \cup DaysMarked(d, cut)}, rawBefore : {d.rawBefore},
            minuteBefore : {MinuteCut(d, cut)}, hourBefore : {d.hourBefore},
            dayBefore : {d.dayBefore}]
  BY DEF RetireMinutes, CompactHour, WithHours, WithMinutes, Tables, In,
         MinutesKept, MinutesGone, HoursRebuilt, HoursRedone, HoursDirty, DaysMarked, MinuteCut
<1>2. QED BY <1>1, SameTables

HoursKept(d, hour) == Within(d.hour, hour, d.minuteBefore)
HoursGone(d, hour) == Hours \ In(Hours, hour, d.minuteBefore)
DaysDirty(d, hour) == In(d.dirtyDays \cup Marks(d.hour, HoursKept(d, hour), HoursGone(d, hour), DayLength),
                         hour, d.minuteBefore)

LEMMA RetireHoursShape ==
  ASSUME NEW d \in Tables, NEW cut, NEW hour, NEW redo,
         hour = Sooner(Later(d.hourBefore, cut), d.minuteBefore),
         redo = In(Days, d.hourBefore, hour)
  PROVE  RetireHours(d, cut)
           = [raw |-> d.raw, minute |-> d.minute, hour |-> HoursKept(d, hour),
              day |-> Rebuilt(d.day, d.hour, redo, DayLength),
              dirtyMinutes |-> d.dirtyMinutes, dirtyHours |-> d.dirtyHours,
              dirtyDays |-> DaysDirty(d, hour),
              rawBefore |-> d.rawBefore, minuteBefore |-> d.minuteBefore,
              hourBefore |-> hour, dayBefore |-> d.dayBefore]
<1> DEFINE day == Rebuilt(d.day, d.hour, redo, DayLength)
           kept == HoursKept(d, hour)
           gone == HoursGone(d, hour)
           compacted == CompactDay(d, d.hourBefore, hour)
<1>1. RetireHours(d, cut)
       = [WithHours(compacted, kept, gone) EXCEPT
            !.dirtyDays = In(@, hour, d.minuteBefore), !.hourBefore = hour]
  BY DEF RetireHours, HoursKept, HoursGone
<1>2. compacted = [d EXCEPT !.day = day] BY DEF CompactDay, In
<1>3. DaysDirty(d, hour) = In(d.dirtyDays \cup Marks(d.hour, kept, gone, DayLength), hour, d.minuteBefore)
  BY DEF DaysDirty
<1> HIDE DEF day, kept, gone, compacted
<1>4. compacted
       \in [raw : {d.raw}, minute : {d.minute}, hour : {d.hour}, day : {day},
            dirtyMinutes : {d.dirtyMinutes}, dirtyHours : {d.dirtyHours},
            dirtyDays : {d.dirtyDays}, rawBefore : {d.rawBefore},
            minuteBefore : {d.minuteBefore}, hourBefore : {d.hourBefore},
            dayBefore : {d.dayBefore}]
  BY <1>2 DEF Tables
<1>5. RetireHours(d, cut)
       \in [raw : {d.raw}, minute : {d.minute},
            hour : {kept},
            day : {day},
            dirtyMinutes : {d.dirtyMinutes}, dirtyHours : {d.dirtyHours},
            dirtyDays : {DaysDirty(d, hour)},
            rawBefore : {d.rawBefore}, minuteBefore : {d.minuteBefore},
            hourBefore : {hour}, dayBefore : {d.dayBefore}]
  BY <1>1, <1>3, <1>4 DEF WithHours
<1>6. QED BY <1>5, SameTables DEF day, kept

LEMMA RetireDaysShape ==
  ASSUME NEW d \in Tables, NEW cut, NEW day, day = Sooner(Later(d.dayBefore, cut), d.hourBefore)
  PROVE  RetireDays(d, cut)
           = [raw |-> d.raw, minute |-> d.minute, hour |-> d.hour,
              day |-> Within(d.day, day, d.hourBefore),
              dirtyMinutes |-> d.dirtyMinutes, dirtyHours |-> d.dirtyHours, dirtyDays |-> d.dirtyDays,
              rawBefore |-> d.rawBefore, minuteBefore |-> d.minuteBefore,
              hourBefore |-> d.hourBefore, dayBefore |-> day]
<1>1. RetireDays(d, cut)
       \in [raw : {d.raw}, minute : {d.minute}, hour : {d.hour},
            day : {Within(d.day, day, d.hourBefore)}, dirtyMinutes : {d.dirtyMinutes},
            dirtyHours : {d.dirtyHours}, dirtyDays : {d.dirtyDays},
            rawBefore : {d.rawBefore}, minuteBefore : {d.minuteBefore},
            hourBefore : {d.hourBefore}, dayBefore : {day}]
  BY DEF RetireDays, Tables
<1>2. QED BY <1>1, SameTables

-----------------------------------------------------------------------------
(* Each transaction keeps the tables right, never takes them back, and shows  *)
(* no bucket more than was recorded in it.                                    *)

LEMMA TablesTypes ==
  ASSUME NEW d, TablesOK(d)
  PROVE  /\ d \in Tables
         /\ d.raw \in [Minutes -> Nat] /\ d.minute \in [Minutes -> Nat]
         /\ d.hour \in [Hours -> Nat] /\ d.day \in [Days -> Nat]
         /\ d.dirtyMinutes \subseteq Minutes /\ d.dirtyHours \subseteq Hours /\ d.dirtyDays \subseteq Days
         /\ d.rawBefore \in Minutes /\ d.minuteBefore \in Hours
         /\ d.hourBefore \in Days /\ d.dayBefore \in Days
         /\ d.rawBefore \in Nat /\ d.minuteBefore \in Nat /\ d.hourBefore \in Nat /\ d.dayBefore \in Nat
         /\ d.dayBefore <= d.hourBefore /\ d.hourBefore <= d.minuteBefore
         /\ d.minuteBefore <= d.rawBefore
<1>1. d \in Tables /\ d.dayBefore <= d.hourBefore /\ d.hourBefore <= d.minuteBefore
      /\ d.minuteBefore <= d.rawBefore
  BY DEF TablesOK
<1>2. QED BY <1>1, TimeFacts DEF Tables

LEMMA RollupMinuteOK ==
  ASSUME NEW d, TablesOK(d), NEW from \in Nat, NEW until, NEW r, r = RollupMinute(d, from, until),
         NEW R \in [Minutes -> Nat]
  PROVE  TablesOK(r) /\ Onward(d, r) /\ (Covered(d, R) => Covered(r, R))
<1> DEFINE redo == RedoMinutes(d, from, until)
           rows == Rebuilt(d.minute, d.raw, redo, 1)
           marks == Marks(d.minute, rows, redo, HourLength)
<1>1. \A m \in redo : m \in Minutes /\ m \in Nat /\ d.rawBefore <= m
  <2>1. d.rawBefore \in Nat /\ d.dirtyMinutes \subseteq Minutes BY TablesTypes
  <2>2. d.rawBefore <= Later(from, d.rawBefore) /\ Later(from, d.rawBefore) \in Nat BY <2>1 DEF Later
  <2>3. Minutes \subseteq Nat BY TimeFacts
  <2> SUFFICES ASSUME NEW m \in redo PROVE m \in Minutes /\ m \in Nat /\ d.rawBefore <= m OBVIOUS
  <2>4. m \in d.dirtyMinutes /\ Later(from, d.rawBefore) <= m BY DEF RedoMinutes
  <2>5. m \in Nat BY <2>1, <2>3, <2>4
  <2>6. QED BY <2>1, <2>2, <2>4, <2>5
<1>2. rows \in [Minutes -> Nat]
      /\ \A b \in Minutes : rows[b] = IF b \in redo THEN d.raw[b] ELSE d.minute[b]
  <2>1. /\ rows \in [Minutes -> Nat]
        /\ \A b \in Minutes : rows[b] = IF b \in redo THEN Sum(d.raw, b, b + 1) ELSE d.minute[b]
    BY TablesTypes, RebuiltFacts, SMTT(30)
  <2>2. \A b \in Minutes : Sum(d.raw, b, b + 1) = d.raw[b] BY TablesTypes, SumSingle
  <2>3. QED BY <2>1, <2>2
<1>3. marks \subseteq Hours /\ \A h \in marks : d.minuteBefore <= h
  <2>1. redo \in SUBSET Minutes /\ d.minuteBefore \in Nat /\ d.minuteBefore % HourLength = 0
    BY <1>1, TablesTypes, TimeFacts
  <2>2. \A b \in redo : d.minuteBefore <= b BY <1>1, TablesTypes
  <2>3. HourLength \in Nat \ {0} BY TimeFacts
  <2>4. QED BY <2>1, <2>2, <2>3, MarkFacts, TimeFacts
<1>4. r = [raw |-> d.raw, minute |-> rows, hour |-> d.hour, day |-> d.day,
           dirtyMinutes |-> d.dirtyMinutes \ redo, dirtyHours |-> d.dirtyHours \cup marks,
           dirtyDays |-> d.dirtyDays,
           rawBefore |-> d.rawBefore, minuteBefore |-> d.minuteBefore,
           hourBefore |-> d.hourBefore, dayBefore |-> d.dayBefore]
  <2>1. d \in Tables BY TablesTypes
  <2>2. redo = RedoMinutes(d, from, until) OBVIOUS
  <2> HIDE DEF redo
  <2>3. QED BY <2>1, <2>2, RollupMinuteShape
<1> HIDE DEF redo, rows, marks
<1>5. TablesOK(r)
  <2>1. r \in Tables BY <1>2, <1>3, <1>4, TablesTypes DEF Tables
  <2>2. QED BY <1>3, <1>4, <2>1, TablesTypes DEF TablesOK
<1>6. Onward(d, r)
  <2>1. \A m \in Minutes : m < d.rawBefore => rows[m] = d.minute[m]
    BY <1>1, <1>2, TablesTypes, TimeFacts
  <2>2. QED BY <1>4, <2>1, TablesTypes DEF Onward
<1>7. Covered(d, R) => Covered(r, R) BY <1>2, <1>4 DEF Covered
<1>8. QED BY <1>5, <1>6, <1>7

LEMMA RollupHourOK ==
  ASSUME NEW d, TablesOK(d), NEW until, NEW r, r = RollupHour(d, until), NEW R \in [Minutes -> Nat]
  PROVE  TablesOK(r) /\ Onward(d, r) /\ (Covered(d, R) => Covered(r, R))
<1> DEFINE redo == {h \in d.dirtyHours : h < until}
           rows == Rebuilt(d.hour, d.minute, redo, HourLength)
           marks == Marks(d.hour, rows, redo, DayLength)
<1>1. \A h \in redo : h \in Hours /\ h \in Minutes /\ h \in Nat /\ d.minuteBefore <= h
  BY TablesTypes, TimeFacts DEF TablesOK
<1>2. rows \in [Hours -> Nat]
      /\ \A b \in Hours : rows[b] = IF b \in redo THEN Sum(d.minute, b, b + HourLength) ELSE d.hour[b]
  <2>1. d.hour \in [Hours -> Nat] /\ d.minute \in [Minutes -> Nat] BY TablesTypes
  <2>2. Hours \in SUBSET Minutes /\ Minutes \in SUBSET Minutes BY TimeFacts
  <2> HIDE DEF redo
  <2>3. \A b \in Hours : Sum(d.minute, b, b + HourLength) \in Nat BY <2>1, <2>2, SumNat
  <2>4. QED BY <2>1, <2>3 DEF Rebuilt
<1>3. marks \subseteq Days /\ \A x \in marks : d.hourBefore <= x
  <2>1. redo \in SUBSET Minutes /\ d.hourBefore \in Nat /\ d.hourBefore % DayLength = 0
    BY <1>1, TablesTypes, TimeFacts
  <2>2. \A b \in redo : d.hourBefore <= b BY <1>1, TablesTypes
  <2>3. DayLength \in Nat \ {0} BY TimeFacts
  <2>4. QED BY <2>1, <2>2, <2>3, MarkFacts, TimeFacts
<1>4. r = [raw |-> d.raw, minute |-> d.minute, hour |-> rows, day |-> d.day,
           dirtyMinutes |-> d.dirtyMinutes, dirtyHours |-> d.dirtyHours \ redo,
           dirtyDays |-> d.dirtyDays \cup marks,
           rawBefore |-> d.rawBefore, minuteBefore |-> d.minuteBefore,
           hourBefore |-> d.hourBefore, dayBefore |-> d.dayBefore]
  <2>1. d \in Tables BY TablesTypes
  <2>2. redo = {h \in d.dirtyHours : h < until} OBVIOUS
  <2> HIDE DEF redo
  <2>3. QED BY <2>1, <2>2, RollupHourShape
<1> HIDE DEF redo, rows, marks
<1>5. TablesOK(r)
  <2>1. r \in Tables BY <1>2, <1>3, <1>4, TablesTypes DEF Tables
  <2>2. QED BY <1>3, <1>4, <2>1, TablesTypes DEF TablesOK
<1>6. Onward(d, r)
  <2>1. \A h \in Hours : h < d.minuteBefore => rows[h] = d.hour[h]
    BY <1>1, <1>2, TablesTypes, TimeFacts
  <2>2. QED BY <1>4, <2>1, TablesTypes DEF Onward
<1>7. ASSUME Covered(d, R) PROVE Covered(r, R)
  <2>1. \A m \in Minutes : d.minute[m] <= R[m] BY <1>7 DEF Covered
  <2>2. \A h \in Hours : Sum(d.minute, h, h + HourLength) <= Sum(R, h, h + HourLength)
    BY <2>1, TablesTypes, SumAtMost
  <2>3. QED BY <1>2, <1>4, <1>7, <2>2 DEF Covered
<1>8. QED BY <1>5, <1>6, <1>7

LEMMA RollupDayOK ==
  ASSUME NEW d, TablesOK(d), NEW until, NEW r, r = RollupDay(d, until), NEW R \in [Minutes -> Nat]
  PROVE  TablesOK(r) /\ Onward(d, r) /\ (Covered(d, R) => Covered(r, R))
<1> DEFINE redo == {x \in d.dirtyDays : x < until}
           rows == Rebuilt(d.day, d.hour, redo, DayLength)
<1>1. \A x \in redo : x \in Days /\ x \in Nat /\ d.hourBefore <= x
  BY TablesTypes, TimeFacts DEF TablesOK
<1>2. rows \in [Days -> Nat]
      /\ \A b \in Days : rows[b] = IF b \in redo THEN Sum(d.hour, b, b + DayLength) ELSE d.day[b]
  <2>1. d.day \in [Days -> Nat] /\ d.hour \in [Hours -> Nat] BY TablesTypes
  <2>2. Days \in SUBSET Minutes /\ Hours \in SUBSET Minutes BY TimeFacts
  <2> HIDE DEF redo
  <2>3. \A b \in Days : Sum(d.hour, b, b + DayLength) \in Nat BY <2>1, <2>2, SumNat
  <2>4. QED BY <2>1, <2>3 DEF Rebuilt
<1>3. r = [raw |-> d.raw, minute |-> d.minute, hour |-> d.hour, day |-> rows,
           dirtyMinutes |-> d.dirtyMinutes, dirtyHours |-> d.dirtyHours,
           dirtyDays |-> d.dirtyDays \ redo,
           rawBefore |-> d.rawBefore, minuteBefore |-> d.minuteBefore,
           hourBefore |-> d.hourBefore, dayBefore |-> d.dayBefore]
  <2>1. d \in Tables BY TablesTypes
  <2>2. redo = {x \in d.dirtyDays : x < until} OBVIOUS
  <2> HIDE DEF redo
  <2>3. QED BY <2>1, <2>2, RollupDayShape
<1> HIDE DEF redo, rows
<1>4. TablesOK(r)
  <2>1. r \in Tables BY <1>2, <1>3, TablesTypes DEF Tables
  <2>2. QED BY <1>3, <2>1, TablesTypes DEF TablesOK
<1>5. Onward(d, r)
  <2>1. \A x \in Days : x < d.hourBefore => rows[x] = d.day[x]
    BY <1>1, <1>2, TablesTypes, TimeFacts
  <2>2. QED BY <1>3, <2>1, TablesTypes DEF Onward
<1>6. ASSUME Covered(d, R) PROVE Covered(r, R)
  <2>1. \A h \in Hours : d.hour[h] <= Sum(R, h, h + HourLength) BY <1>6 DEF Covered
  <2>2. \A x \in Days : Sum(d.hour, x, x + DayLength) <= Sum(R, x, x + DayLength)
    BY <2>1, TablesTypes, DayCovered
  <2>3. QED BY <1>2, <1>3, <1>6, <2>2 DEF Covered
<1>7. QED BY <1>4, <1>5, <1>6

(* The cuts keep the watermarks in order, so that each is where it was or at  *)
(* its cut.                                                                   *)
LEMMA RetireRawOK ==
  ASSUME NEW d, TablesOK(d), NEW cut \in Minutes, NEW r, r = RetireRaw(d, cut),
         NEW R \in [Minutes -> Nat]
  PROVE  /\ TablesOK(r) /\ Onward(d, r) /\ (Covered(d, R) => Covered(r, R))
         /\ cut <= r.rawBefore /\ r.minuteBefore = d.minuteBefore
         /\ r.hourBefore = d.hourBefore /\ r.dayBefore = d.dayBefore
         /\ r.day = d.day /\ r.hour = d.hour
         /\ \A m \in Minutes : r.rawBefore <= m => r.raw[m] = d.raw[m]
         /\ \A m \in Minutes : d.rawBefore <= m /\ m < r.rawBefore
              => r.minute[m] = IF m \in d.dirtyMinutes THEN d.raw[m] ELSE d.minute[m]
<1> DEFINE raw == Later(d.rawBefore, cut)
           redo == RedoMinutes(d, d.rawBefore, raw)
           rows == Rebuilt(d.minute, d.raw, redo, 1)
           marks == Marks(d.minute, rows, redo, HourLength)
           left == Within(d.raw, raw, LastMinute + 1)
           e == RollupMinute(d, d.rawBefore, raw)
<1>1. raw \in Minutes /\ raw \in Nat /\ d.rawBefore <= raw /\ cut <= raw
  <2>1. d.rawBefore \in Minutes /\ d.rawBefore \in Nat BY TablesTypes
  <2>2. cut \in Nat BY TimeFacts
  <2>3. QED BY <2>1, <2>2 DEF Later
<1>2. TablesOK(e) /\ Onward(d, e) /\ (Covered(d, R) => Covered(e, R))
  <2>1. d.rawBefore \in Nat BY TablesTypes
  <2> HIDE DEF raw
  <2>2. QED BY <2>1, RollupMinuteOK
<1>3. d \in Tables BY TablesTypes
<1>4. /\ e.raw = d.raw /\ e.minute = rows /\ e.hour = d.hour /\ e.day = d.day
      /\ e.dirtyMinutes = d.dirtyMinutes \ redo /\ e.dirtyHours = d.dirtyHours \cup marks
      /\ e.dirtyDays = d.dirtyDays
      /\ e.rawBefore = d.rawBefore /\ e.minuteBefore = d.minuteBefore
      /\ e.hourBefore = d.hourBefore /\ e.dayBefore = d.dayBefore
  <2>1. redo = RedoMinutes(d, d.rawBefore, raw) OBVIOUS
  <2> HIDE DEF redo, raw
  <2>2. QED BY <1>3, <2>1, RollupMinuteShape
<1>5. /\ r = [raw |-> left, minute |-> rows, hour |-> d.hour, day |-> d.day,
              dirtyMinutes |-> d.dirtyMinutes \ redo, dirtyHours |-> d.dirtyHours \cup marks,
              dirtyDays |-> d.dirtyDays,
              rawBefore |-> raw, minuteBefore |-> d.minuteBefore,
              hourBefore |-> d.hourBefore, dayBefore |-> d.dayBefore]
  BY <1>3, RetireRawShape
<1>6. left \in [Minutes -> Nat]
      /\ \A m \in Minutes : left[m] <= d.raw[m] /\ (raw <= m => left[m] = d.raw[m])
  <2>1. d.raw \in [Minutes -> Nat] BY TablesTypes
  <2>2. /\ left \in [Minutes -> Nat]
        /\ \A m \in Minutes : left[m] = IF raw <= m /\ m < LastMinute + 1 THEN d.raw[m] ELSE 0
    BY <2>1 DEF Within
  <2>3. \A m \in Minutes : m < LastMinute + 1 BY RollupsAssumption DEF Minutes
  <2>4. QED BY <2>1, <2>2, <2>3
<1>7. \A m \in Minutes : d.rawBefore <= m /\ m < raw
        => rows[m] = IF m \in d.dirtyMinutes THEN d.raw[m] ELSE d.minute[m]
  <2>1. d.minute \in [Minutes -> Nat] /\ d.raw \in [Minutes -> Nat] BY TablesTypes
  <2>2. \A m \in Minutes : Sum(d.raw, m, m + 1) = d.raw[m] BY <2>1, SumSingle
  <2>3. \A m \in Minutes : d.rawBefore <= m /\ m < raw => (m \in redo <=> m \in d.dirtyMinutes)
    BY DEF RedoMinutes, Later
  <2> HIDE DEF redo, raw
  <2>4. QED BY <2>1, <2>2, <2>3 DEF Rebuilt
<1> HIDE DEF raw, redo, rows, marks, left, e
<1>8. /\ r.minute = e.minute /\ r.hour = e.hour /\ r.day = e.day
      /\ r.dirtyMinutes = e.dirtyMinutes /\ r.dirtyHours = e.dirtyHours /\ r.dirtyDays = e.dirtyDays
      /\ r.minuteBefore = e.minuteBefore /\ r.hourBefore = e.hourBefore /\ r.dayBefore = e.dayBefore
      /\ r.raw = left /\ r.rawBefore = raw /\ e.raw = d.raw /\ e.rawBefore = d.rawBefore
  BY <1>4, <1>5
<1>9. TablesOK(r)
  <2>1. r \in Tables
    <3>1. /\ e.minute \in [Minutes -> Nat] /\ e.hour \in [Hours -> Nat] /\ e.day \in [Days -> Nat]
          /\ e.dirtyMinutes \subseteq Minutes /\ e.dirtyHours \subseteq Hours /\ e.dirtyDays \subseteq Days
          /\ e.minuteBefore \in Hours /\ e.hourBefore \in Days /\ e.dayBefore \in Days
      BY <1>2, TablesTypes
    <3>2. r = [raw |-> r.raw, minute |-> r.minute, hour |-> r.hour, day |-> r.day,
               dirtyMinutes |-> r.dirtyMinutes, dirtyHours |-> r.dirtyHours,
               dirtyDays |-> r.dirtyDays, rawBefore |-> r.rawBefore,
               minuteBefore |-> r.minuteBefore, hourBefore |-> r.hourBefore,
               dayBefore |-> r.dayBefore]
      BY <1>5
    <3>3. QED BY <1>1, <1>6, <1>8, <3>1, <3>2 DEF Tables
  <2>2. r.minuteBefore <= r.rawBefore
    <3>1. d.minuteBefore \in Nat /\ d.rawBefore \in Nat /\ d.minuteBefore <= d.rawBefore BY TablesTypes
    <3>2. r.minuteBefore = d.minuteBefore BY <1>5
    <3>3. QED BY <1>1, <1>8, <3>1, <3>2
  <2>3. QED BY <1>2, <1>8, <2>1, <2>2 DEF TablesOK
<1>10. Onward(d, r) BY <1>1, <1>2, <1>8 DEF Onward
<1>11. ASSUME Covered(d, R) PROVE Covered(r, R)
  <2>1. Covered(e, R) BY <1>2, <1>11
  <2>2. \A m \in Minutes : r.raw[m] <= R[m]
    <3>1. \A m \in Minutes : d.raw[m] <= R[m] /\ d.raw[m] \in Nat /\ R[m] \in Nat /\ left[m] \in Nat
      BY <1>6, <1>11, TablesTypes DEF Covered
    <3>2. QED BY <1>6, <1>8, <3>1
  <2>3. QED BY <1>8, <2>1, <2>2 DEF Covered
<1>12. QED BY <1>1, <1>5, <1>6, <1>7, <1>9, <1>10, <1>11

LEMMA RetireMinutesOK ==
  ASSUME NEW d, TablesOK(d), NEW cut \in Hours, cut <= d.rawBefore, NEW r, r = RetireMinutes(d, cut),
         NEW R \in [Minutes -> Nat]
  PROVE  /\ TablesOK(r) /\ Onward(d, r) /\ (Covered(d, R) => Covered(r, R))
         /\ cut <= r.minuteBefore /\ r.rawBefore = d.rawBefore
         /\ r.hourBefore = d.hourBefore /\ r.dayBefore = d.dayBefore
         /\ r.day = d.day /\ r.raw = d.raw
         /\ \A h \in Hours : d.minuteBefore <= h /\ h < r.minuteBefore
              => r.hour[h] = Sum(d.minute, h, h + HourLength)
<1> DEFINE minute == MinuteCut(d, cut)
           redo == HoursRedone(d, cut)
           hour == HoursRebuilt(d, cut)
           rows == MinutesKept(d, cut)
           dirty == HoursDirty(d, cut)
           marks == DaysMarked(d, cut)
<1>1. minute \in Hours /\ minute \in Nat /\ d.minuteBefore <= minute /\ cut <= minute
      /\ minute <= d.rawBefore
  <2>1. d.minuteBefore \in Hours /\ d.minuteBefore \in Nat /\ d.rawBefore \in Nat
        /\ d.minuteBefore <= d.rawBefore
    BY TablesTypes
  <2>2. cut \in Nat BY TimeFacts
  <2>3. minute = Later(d.minuteBefore, cut) BY <2>1, <2>2 DEF Sooner, Later, MinuteCut
  <2>4. QED BY <2>1, <2>2, <2>3 DEF Later
<1>2. d \in Tables BY TablesTypes
<1>3. r = [raw |-> d.raw, minute |-> rows, hour |-> hour, day |-> d.day,
           dirtyMinutes |-> d.dirtyMinutes, dirtyHours |-> dirty, dirtyDays |-> d.dirtyDays \cup marks,
           rawBefore |-> d.rawBefore, minuteBefore |-> minute,
           hourBefore |-> d.hourBefore, dayBefore |-> d.dayBefore]
  BY <1>2, RetireMinutesShape
<1>4. rows \in [Minutes -> Nat] /\ \A m \in Minutes :
        rows[m] <= d.minute[m] /\ (minute <= m /\ m < d.rawBefore => rows[m] = d.minute[m])
  <2>1. d.minute \in [Minutes -> Nat] BY TablesTypes
  <2>2. /\ rows \in [Minutes -> Nat]
        /\ \A m \in Minutes : rows[m] = IF minute <= m /\ m < d.rawBefore THEN d.minute[m] ELSE 0
    BY <2>1 DEF Within, MinutesKept
  <2>3. QED BY <2>1, <2>2
<1>5. \A h \in redo : h \in Hours /\ h \in Minutes /\ h \in Nat /\ d.minuteBefore <= h
  BY TimeFacts DEF In, HoursRedone
<1>6. hour \in [Hours -> Nat]
      /\ \A b \in Hours : hour[b] = IF b \in redo THEN Sum(d.minute, b, b + HourLength) ELSE d.hour[b]
  <2>1. d.hour \in [Hours -> Nat] /\ d.minute \in [Minutes -> Nat] BY TablesTypes
  <2>2. Hours \in SUBSET Minutes /\ Minutes \in SUBSET Minutes BY TimeFacts
  <2>3. \A b \in Hours : Sum(d.minute, b, b + HourLength) \in Nat BY <2>1, <2>2, SumNat
  <2>4. QED BY <2>1, <2>3 DEF Rebuilt, HoursRebuilt
<1>7. dirty \subseteq Hours /\ \A h \in dirty : minute <= h
  <2> DEFINE gone == MinutesGone(d, cut)
  <2>1. Marks(d.minute, rows, gone, HourLength) \subseteq Hours
    <3>1. HourLength \in Nat \ {0} /\ \A b \in Minutes : Trunc(b, HourLength) \in Hours
      BY TimeFacts, TruncMinute
    <3>2. \A b \in gone : b \in Minutes BY DEF MinutesGone
    <3> HIDE DEF rows, gone
    <3>3. QED BY <3>1, <3>2 DEF Marks
  <2>2. d.dirtyHours \subseteq Hours BY TablesTypes
  <2>3. QED BY <2>1, <2>2 DEF In, HoursDirty
<1>8. marks \subseteq Days /\ \A x \in marks : d.hourBefore <= x
  <2>1. redo \in SUBSET Minutes /\ d.hourBefore \in Nat /\ d.hourBefore % DayLength = 0
    BY <1>5, TablesTypes, TimeFacts
  <2>2. \A b \in redo : d.hourBefore <= b BY <1>5, TablesTypes
  <2>3. DayLength \in Nat \ {0} BY TimeFacts
  <2>4. QED BY <2>1, <2>2, <2>3, MarkFacts, TimeFacts DEF DaysMarked
<1>9. \A h \in Hours : d.minuteBefore <= h /\ h < minute => h \in redo
  BY DEF HoursRedone, In
<1> HIDE DEF redo, rows, marks, dirty, hour, minute
<1>10. TablesOK(r)
  <2>1. r \in Tables BY <1>1, <1>3, <1>4, <1>6, <1>7, <1>8, TablesTypes DEF Tables
  <2>2. d.hourBefore <= minute
    <3>1. d.hourBefore \in Nat /\ d.minuteBefore \in Nat /\ d.hourBefore <= d.minuteBefore BY TablesTypes
    <3>2. QED BY <1>1, <3>1
  <2>3. QED BY <1>1, <1>3, <1>7, <1>8, <2>1, <2>2, TablesTypes DEF TablesOK
<1>11. Onward(d, r)
  <2>1. \A h \in Hours : h < d.minuteBefore => hour[h] = d.hour[h]
    BY <1>5, <1>6, TablesTypes, TimeFacts
  <2>2. QED BY <1>1, <1>3, <1>4, <2>1, TablesTypes DEF Onward
<1>12. ASSUME Covered(d, R) PROVE Covered(r, R)
  <2>1. \A m \in Minutes : d.minute[m] <= R[m] BY <1>12 DEF Covered
  <2>2. \A h \in Hours : Sum(d.minute, h, h + HourLength) <= Sum(R, h, h + HourLength)
    BY <2>1, TablesTypes, SumAtMost
  <2>3. \A m \in Minutes : rows[m] <= R[m]
    <3>1. \A m \in Minutes : d.minute[m] \in Nat /\ R[m] \in Nat /\ rows[m] \in Nat BY <1>4, TablesTypes
    <3>2. QED BY <1>4, <2>1, <3>1
  <2>4. QED BY <1>3, <1>6, <1>12, <2>2, <2>3 DEF Covered
<1>13. QED BY <1>1, <1>3, <1>6, <1>10, <1>11, <1>12, <1>9

LEMMA RetireHoursOK ==
  ASSUME NEW d, TablesOK(d), NEW cut \in Days, cut <= d.minuteBefore, NEW r, r = RetireHours(d, cut),
         NEW R \in [Minutes -> Nat]
  PROVE  /\ TablesOK(r) /\ Onward(d, r) /\ (Covered(d, R) => Covered(r, R))
         /\ cut <= r.hourBefore /\ r.rawBefore = d.rawBefore /\ r.minuteBefore = d.minuteBefore
         /\ r.dayBefore = d.dayBefore /\ r.raw = d.raw /\ r.minute = d.minute
         /\ \A x \in Days : d.hourBefore <= x /\ x < r.hourBefore
              => r.day[x] = Sum(d.hour, x, x + DayLength)
<1> DEFINE hour == Sooner(Later(d.hourBefore, cut), d.minuteBefore)
           redo == In(Days, d.hourBefore, hour)
           day == Rebuilt(d.day, d.hour, redo, DayLength)
           rows == HoursKept(d, hour)
           dirty == DaysDirty(d, hour)
<1>1. hour \in Days /\ hour \in Nat /\ d.hourBefore <= hour /\ cut <= hour /\ hour <= d.minuteBefore
  <2>1. d.hourBefore \in Days /\ d.hourBefore \in Nat /\ d.minuteBefore \in Nat
        /\ d.hourBefore <= d.minuteBefore
    BY TablesTypes
  <2>2. cut \in Nat BY TimeFacts
  <2>3. hour = Later(d.hourBefore, cut) BY <2>1, <2>2 DEF Sooner, Later
  <2>4. QED BY <2>1, <2>2, <2>3 DEF Later
<1>2. d \in Tables BY TablesTypes
<1>3. r = [raw |-> d.raw, minute |-> d.minute, hour |-> rows, day |-> day,
           dirtyMinutes |-> d.dirtyMinutes, dirtyHours |-> d.dirtyHours, dirtyDays |-> dirty,
           rawBefore |-> d.rawBefore, minuteBefore |-> d.minuteBefore,
           hourBefore |-> hour, dayBefore |-> d.dayBefore]
  BY <1>2, RetireHoursShape
<1>4. rows \in [Hours -> Nat] /\ \A h \in Hours :
        rows[h] <= d.hour[h] /\ (hour <= h /\ h < d.minuteBefore => rows[h] = d.hour[h])
  <2>1. d.hour \in [Hours -> Nat] BY TablesTypes
  <2>2. /\ rows \in [Hours -> Nat]
        /\ \A h \in Hours : rows[h] = IF hour <= h /\ h < d.minuteBefore THEN d.hour[h] ELSE 0
    BY <2>1 DEF Within, HoursKept
  <2>3. QED BY <2>1, <2>2
<1>5. day \in [Days -> Nat]
      /\ \A b \in Days : day[b] = IF b \in redo THEN Sum(d.hour, b, b + DayLength) ELSE d.day[b]
  <2>1. d.day \in [Days -> Nat] /\ d.hour \in [Hours -> Nat] BY TablesTypes
  <2>2. Days \in SUBSET Minutes /\ Hours \in SUBSET Minutes BY TimeFacts
  <2>3. \A b \in Days : Sum(d.hour, b, b + DayLength) \in Nat BY <2>1, <2>2, SumNat
  <2> HIDE DEF redo
  <2>4. QED BY <2>1, <2>3 DEF Rebuilt
<1>6. \A x \in redo : x \in Nat /\ d.hourBefore <= x BY TimeFacts DEF In
<1>7. dirty \subseteq Days /\ \A x \in dirty : hour <= x
  <2> DEFINE gone == HoursGone(d, hour)
  <2>1. Marks(d.hour, rows, gone, DayLength) \subseteq Days
    <3>1. DayLength \in Nat \ {0} /\ \A b \in Minutes : Trunc(b, DayLength) \in Days
      BY TimeFacts, TruncMinute
    <3>2. \A b \in gone : b \in Minutes BY DEF HoursGone, Hours
    <3> HIDE DEF rows, gone
    <3>3. QED BY <3>1, <3>2 DEF Marks
  <2>2. d.dirtyDays \subseteq Days BY TablesTypes
  <2>3. QED BY <2>1, <2>2 DEF In, DaysDirty
<1>8. \A x \in Days : d.hourBefore <= x /\ x < hour => x \in redo
  BY DEF In
<1> HIDE DEF redo, rows, dirty, hour, day
<1>9. TablesOK(r)
  <2>1. r \in Tables BY <1>1, <1>3, <1>4, <1>5, <1>7, TablesTypes DEF Tables
  <2>2. d.dayBefore <= hour
    <3>1. d.dayBefore \in Nat /\ d.hourBefore \in Nat /\ d.dayBefore <= d.hourBefore BY TablesTypes
    <3>2. QED BY <1>1, <3>1
  <2>3. QED BY <1>1, <1>3, <1>7, <2>1, <2>2, TablesTypes DEF TablesOK
<1>10. Onward(d, r)
  <2>1. \A x \in Days : x < d.hourBefore => day[x] = d.day[x] BY <1>5, <1>6, TablesTypes, TimeFacts
  <2>2. QED BY <1>1, <1>3, <1>4, <2>1, TablesTypes DEF Onward
<1>11. ASSUME Covered(d, R) PROVE Covered(r, R)
  <2>1. \A h \in Hours : d.hour[h] <= Sum(R, h, h + HourLength) BY <1>11 DEF Covered
  <2>2. \A x \in Days : Sum(d.hour, x, x + DayLength) <= Sum(R, x, x + DayLength)
    BY <2>1, TablesTypes, DayCovered
  <2>3. \A h \in Hours : rows[h] <= Sum(R, h, h + HourLength)
    <3>1. \A h \in Hours : d.hour[h] \in Nat /\ rows[h] \in Nat BY <1>4, TablesTypes
    <3>2. \A h \in Hours : Sum(R, h, h + HourLength) \in Nat BY SumNat
    <3>3. QED BY <1>4, <2>1, <3>1, <3>2
  <2>4. QED BY <1>3, <1>5, <1>11, <2>2, <2>3 DEF Covered
<1>12. QED BY <1>1, <1>3, <1>5, <1>9, <1>10, <1>11, <1>8

LEMMA RetireDaysOK ==
  ASSUME NEW d, TablesOK(d), NEW cut \in Days, cut <= d.hourBefore, NEW r, r = RetireDays(d, cut),
         NEW R \in [Minutes -> Nat]
  PROVE  /\ TablesOK(r) /\ Onward(d, r) /\ (Covered(d, R) => Covered(r, R))
         /\ r.rawBefore = d.rawBefore /\ r.minuteBefore = d.minuteBefore
         /\ r.hourBefore = d.hourBefore /\ r.raw = d.raw /\ r.minute = d.minute /\ r.hour = d.hour
<1> DEFINE day == Sooner(Later(d.dayBefore, cut), d.hourBefore)
           rows == Within(d.day, day, d.hourBefore)
<1>1. day \in Days /\ day \in Nat /\ d.dayBefore <= day /\ day <= d.hourBefore
  <2>1. d.dayBefore \in Days /\ d.dayBefore \in Nat /\ d.hourBefore \in Nat
        /\ d.dayBefore <= d.hourBefore
    BY TablesTypes
  <2>2. cut \in Nat BY TimeFacts
  <2>3. day = Later(d.dayBefore, cut) BY <2>1, <2>2 DEF Sooner, Later
  <2>4. QED BY <2>1, <2>2, <2>3 DEF Later
<1>2. d \in Tables BY TablesTypes
<1>3. r = [raw |-> d.raw, minute |-> d.minute, hour |-> d.hour, day |-> rows,
           dirtyMinutes |-> d.dirtyMinutes, dirtyHours |-> d.dirtyHours, dirtyDays |-> d.dirtyDays,
           rawBefore |-> d.rawBefore, minuteBefore |-> d.minuteBefore,
           hourBefore |-> d.hourBefore, dayBefore |-> day]
  BY <1>2, RetireDaysShape
<1>4. rows \in [Days -> Nat] /\ \A x \in Days :
        rows[x] <= d.day[x] /\ (day <= x /\ x < d.hourBefore => rows[x] = d.day[x])
  <2>1. d.day \in [Days -> Nat] BY TablesTypes
  <2>2. /\ rows \in [Days -> Nat]
        /\ \A x \in Days : rows[x] = IF day <= x /\ x < d.hourBefore THEN d.day[x] ELSE 0
    BY <2>1 DEF Within
  <2>3. QED BY <2>1, <2>2
<1> HIDE DEF rows, day
<1>5. TablesOK(r)
  <2>1. r \in Tables BY <1>1, <1>3, <1>4, TablesTypes DEF Tables
  <2>2. QED BY <1>1, <1>3, <2>1, TablesTypes DEF TablesOK
<1>6. Onward(d, r) BY <1>1, <1>3, <1>4, TablesTypes DEF Onward
<1>7. ASSUME Covered(d, R) PROVE Covered(r, R)
  <2>1. \A x \in Days : rows[x] <= Sum(R, x, x + DayLength)
    <3>1. \A x \in Days : d.day[x] \in Nat /\ rows[x] \in Nat BY <1>4, TablesTypes
    <3>2. \A x \in Days : Sum(R, x, x + DayLength) \in Nat BY SumNat
    <3>3. \A x \in Days : d.day[x] <= Sum(R, x, x + DayLength) BY <1>7 DEF Covered
    <3>4. QED BY <1>4, <3>1, <3>2, <3>3
  <2>2. QED BY <1>3, <1>7, <2>1 DEF Covered
<1>8. QED BY <1>3, <1>5, <1>6, <1>7

-----------------------------------------------------------------------------
(* What queries show, through a retention.                                    *)

LEMMA ShownNat ==
  ASSUME NEW d, TablesOK(d)
  PROVE  /\ Sum(d.raw, d.rawBefore, LastMinute + 1) \in Nat
         /\ Sum(d.minute, d.minuteBefore, d.rawBefore) \in Nat
         /\ Sum(d.hour, d.hourBefore, d.minuteBefore) \in Nat
         /\ Sum(d.day, d.dayBefore, d.hourBefore) \in Nat
<1>1. Minutes \in SUBSET Minutes /\ Hours \in SUBSET Minutes /\ Days \in SUBSET Minutes BY TimeFacts
<1>2. /\ d.raw \in [Minutes -> Nat] /\ d.minute \in [Minutes -> Nat]
      /\ d.hour \in [Hours -> Nat] /\ d.day \in [Days -> Nat]
  BY TablesTypes
<1>3. QED BY <1>1, <1>2, SumNat

(* A minute that is retired is rebuilt, or was right already.                 *)
LEMMA RetireRawShown ==
  ASSUME NEW d, TablesOK(d), NEW cut \in Minutes, NEW r, r = RetireRaw(d, cut),
         \A m \in Minutes : d.rawBefore <= m => m \in d.dirtyMinutes \/ d.minute[m] = d.raw[m]
  PROVE  Shown(r) = Shown(d)
<1> DEFINE rb == d.rawBefore
           mb == d.minuteBefore
           to == r.rawBefore
           end == LastMinute + 1
<1>1. d.raw \in [Minutes -> Nat] BY TablesTypes
<1>2. /\ TablesOK(r) /\ Onward(d, r) /\ r.minuteBefore = mb
      /\ r.hourBefore = d.hourBefore /\ r.dayBefore = d.dayBefore /\ r.day = d.day /\ r.hour = d.hour
      /\ \A m \in Minutes : to <= m => r.raw[m] = d.raw[m]
      /\ \A m \in Minutes : rb <= m /\ m < to
           => r.minute[m] = IF m \in d.dirtyMinutes THEN d.raw[m] ELSE d.minute[m]
  BY <1>1, RetireRawOK
<1>3. d.minute \in [Minutes -> Nat] /\ r.raw \in [Minutes -> Nat] /\ r.minute \in [Minutes -> Nat]
  BY <1>2, TablesTypes
<1>4. /\ rb \in Nat /\ mb \in Nat /\ to \in Nat /\ end \in Nat /\ mb <= rb /\ rb <= to /\ to <= end
      /\ Minutes \in SUBSET Minutes
  <2>1. rb \in Nat /\ mb \in Nat /\ mb <= rb BY TablesTypes
  <2>2. to \in Minutes /\ to \in Nat BY <1>2, TablesTypes
  <2>3. rb <= to BY <1>2 DEF Onward
  <2>4. LastMinute \in Nat BY RollupsAssumption
  <2>5. QED BY <2>1, <2>2, <2>3, <2>4 DEF Minutes
<1>5. \A m \in Minutes : mb <= m /\ m < rb => r.minute[m] = d.minute[m] BY <1>2 DEF Onward
<1>6. \A m \in Minutes : rb <= m /\ m < to => r.minute[m] = d.raw[m] BY <1>2
<1>7. \A m \in Minutes : to <= m => r.raw[m] = d.raw[m] BY <1>2
<1> HIDE DEF rb, mb, to, end
<1>8. Sum(d.raw, rb, end) = Sum(d.raw, rb, to) + Sum(d.raw, to, end)
  <2>1. d.raw \in [Minutes -> Nat] /\ Minutes \in SUBSET Minutes BY <1>1, <1>4
  <2>2. rb \in Nat /\ to \in Nat /\ end \in Nat /\ rb <= to /\ to <= end BY <1>4
  <2>3. QED BY <2>1, <2>2, SumSplit
<1>9. Sum(r.minute, mb, to) = Sum(r.minute, mb, rb) + Sum(r.minute, rb, to)
  <2>1. r.minute \in [Minutes -> Nat] /\ Minutes \in SUBSET Minutes BY <1>3, <1>4
  <2>2. mb \in Nat /\ rb \in Nat /\ to \in Nat /\ mb <= rb /\ rb <= to BY <1>4
  <2>3. QED BY <2>1, <2>2, SumSplit
<1>10. Sum(r.raw, to, end) = Sum(d.raw, to, end)
  <2>1. r.raw \in [Minutes -> Nat] /\ d.raw \in [Minutes -> Nat] /\ Minutes \in SUBSET Minutes BY <1>1, <1>3, <1>4
  <2>2. QED BY <1>7, <2>1, SumSame
<1>11. Sum(r.minute, mb, rb) = Sum(d.minute, mb, rb)
  <2>1. r.minute \in [Minutes -> Nat] /\ d.minute \in [Minutes -> Nat] /\ Minutes \in SUBSET Minutes BY <1>3, <1>4
  <2>2. QED BY <1>5, <2>1, SumSame
<1>12. Sum(r.minute, rb, to) = Sum(d.raw, rb, to)
  <2>1. r.minute \in [Minutes -> Nat] /\ d.raw \in [Minutes -> Nat] /\ Minutes \in SUBSET Minutes
    BY <1>1, <1>3, <1>4
  <2>2. QED BY <1>6, <2>1, SumSame
<1>13. /\ Sum(d.raw, rb, to) \in Nat /\ Sum(d.raw, to, end) \in Nat /\ Sum(d.minute, mb, rb) \in Nat
  BY <1>1, <1>3, <1>4, SumNat
<1>14. /\ Sum(d.hour, d.hourBefore, mb) \in Nat /\ Sum(d.day, d.dayBefore, d.hourBefore) \in Nat
  BY ShownNat DEF mb
<1>15. Shown(d) = Sum(d.raw, rb, end) + Sum(d.minute, mb, rb)
                    + Sum(d.hour, d.hourBefore, mb) + Sum(d.day, d.dayBefore, d.hourBefore)
  BY DEF Shown, rb, mb, end
<1>16. Shown(r) = Sum(r.raw, to, end) + Sum(r.minute, mb, to)
                    + Sum(d.hour, d.hourBefore, mb) + Sum(d.day, d.dayBefore, d.hourBefore)
  BY <1>2 DEF Shown, to, end
<1>17. QED BY <1>8, <1>9, <1>10, <1>11, <1>12, <1>13, <1>14, <1>15, <1>16

LEMMA RetireMinutesShown ==
  ASSUME NEW d, TablesOK(d), NEW cut \in Hours, cut <= d.rawBefore, NEW r, r = RetireMinutes(d, cut)
  PROVE  Shown(r) = Shown(d)
<1> DEFINE rb == d.rawBefore
           mb == d.minuteBefore
           hb == d.hourBefore
           to == r.minuteBefore
<1>1. d.raw \in [Minutes -> Nat] /\ d.minute \in [Minutes -> Nat] /\ d.hour \in [Hours -> Nat]
  BY TablesTypes
<1>2. /\ TablesOK(r) /\ Onward(d, r) /\ r.rawBefore = rb
      /\ r.hourBefore = hb /\ r.dayBefore = d.dayBefore /\ r.day = d.day /\ r.raw = d.raw
      /\ \A h \in Hours : mb <= h /\ h < to => r.hour[h] = Sum(d.minute, h, h + HourLength)
  BY <1>1, RetireMinutesOK
<1>3. r.minute \in [Minutes -> Nat] /\ r.hour \in [Hours -> Nat] BY <1>2, TablesTypes
<1>4. /\ rb \in Nat /\ mb \in Nat /\ hb \in Nat /\ to \in Nat /\ hb <= mb /\ mb <= to /\ to <= rb
      /\ mb % HourLength = 0 /\ to % HourLength = 0
  <2>1. rb \in Nat /\ mb \in Nat /\ hb \in Nat /\ hb <= mb /\ mb \in Hours BY TablesTypes
  <2>2. to \in Hours /\ to \in Nat /\ to <= rb BY <1>2, TablesTypes
  <2>3. mb <= to BY <1>2 DEF Onward
  <2>4. QED BY <2>1, <2>2, <2>3, TimeFacts
<1>5. \A m \in Minutes : to <= m /\ m < rb => r.minute[m] = d.minute[m] BY <1>2 DEF Onward
<1>6. \A h \in Hours : hb <= h /\ h < mb => r.hour[h] = d.hour[h] BY <1>2 DEF Onward
<1>7. Minutes \in SUBSET Minutes /\ Hours \in SUBSET Minutes /\ Hours = Multiples(HourLength)
      /\ HourLength \in Nat \ {0}
  BY TimeFacts
<1>8. \A h \in Hours : mb <= h /\ h < to => r.hour[h] = Sum(d.minute, h, h + HourLength) BY <1>2
<1> HIDE DEF rb, mb, hb, to
<1>9. Sum(d.minute, mb, rb) = Sum(d.minute, mb, to) + Sum(d.minute, to, rb)
  <2>1. d.minute \in [Minutes -> Nat] /\ Minutes \in SUBSET Minutes BY <1>1, <1>4, <1>7
  <2>2. mb \in Nat /\ to \in Nat /\ rb \in Nat /\ mb <= to /\ to <= rb BY <1>4
  <2>3. QED BY <2>1, <2>2, SumSplit
<1>10. Sum(r.hour, hb, to) = Sum(r.hour, hb, mb) + Sum(r.hour, mb, to)
  <2>1. r.hour \in [Hours -> Nat] /\ Hours \in SUBSET Minutes BY <1>3, <1>4, <1>7
  <2>2. hb \in Nat /\ mb \in Nat /\ to \in Nat /\ hb <= mb /\ mb <= to BY <1>4
  <2>3. QED BY <2>1, <2>2, SumSplit
<1>11. Sum(r.minute, to, rb) = Sum(d.minute, to, rb)
  <2>1. r.minute \in [Minutes -> Nat] /\ d.minute \in [Minutes -> Nat] /\ Minutes \in SUBSET Minutes
    BY <1>1, <1>3, <1>7
  <2>2. QED BY <1>5, <2>1, SumSame
<1>12. Sum(r.hour, hb, mb) = Sum(d.hour, hb, mb)
  <2>1. r.hour \in [Hours -> Nat] /\ d.hour \in [Hours -> Nat] /\ Hours \in SUBSET Minutes BY <1>1, <1>3, <1>7
  <2>2. QED BY <1>6, <2>1, SumSame
<1>13. Sum(r.hour, mb, to) = Sum(d.minute, mb, to)
  <2>1. /\ d.minute \in [Minutes -> Nat] /\ Minutes \in SUBSET Minutes /\ HourLength \in Nat \ {0}
        /\ r.hour \in [Multiples(HourLength) -> Nat]
    BY <1>1, <1>3, <1>7
  <2>2. mb \in Nat /\ to \in Nat /\ mb % HourLength = 0 /\ to % HourLength = 0 BY <1>4
  <2>3. \A h \in Multiples(HourLength) : mb <= h /\ h < to => r.hour[h] = Sum(d.minute, h, h + HourLength)
    BY <1>7, <1>8
  <2>4. QED BY <2>1, <2>2, <2>3, SumBlocks
<1>14. Sum(d.minute, mb, to) \in Nat /\ Sum(d.minute, to, rb) \in Nat /\ Sum(d.hour, hb, mb) \in Nat
  BY <1>1, <1>7, SumNat
<1>15. Sum(d.raw, rb, LastMinute + 1) \in Nat /\ Sum(d.day, d.dayBefore, hb) \in Nat
  BY ShownNat DEF rb, hb
<1>16. Shown(d) = Sum(d.raw, rb, LastMinute + 1) + Sum(d.minute, mb, rb)
                    + Sum(d.hour, hb, mb) + Sum(d.day, d.dayBefore, hb)
  BY DEF Shown, rb, mb, hb
<1>17. Shown(r) = Sum(d.raw, rb, LastMinute + 1) + Sum(r.minute, to, rb)
                    + Sum(r.hour, hb, to) + Sum(d.day, d.dayBefore, hb)
  BY <1>2 DEF Shown, to
<1>18. QED BY <1>9, <1>10, <1>11, <1>12, <1>13, <1>14, <1>15, <1>16, <1>17

LEMMA RetireHoursShown ==
  ASSUME NEW d, TablesOK(d), NEW cut \in Days, cut <= d.minuteBefore, NEW r, r = RetireHours(d, cut)
  PROVE  Shown(r) = Shown(d)
<1> DEFINE mb == d.minuteBefore
           hb == d.hourBefore
           db0 == d.dayBefore
           to == r.hourBefore
<1>1. d.raw \in [Minutes -> Nat] /\ d.hour \in [Hours -> Nat] /\ d.day \in [Days -> Nat]
  BY TablesTypes
<1>2. /\ TablesOK(r) /\ Onward(d, r) /\ r.rawBefore = d.rawBefore /\ r.minuteBefore = mb
      /\ r.dayBefore = db0 /\ r.raw = d.raw /\ r.minute = d.minute
      /\ \A x \in Days : hb <= x /\ x < to => r.day[x] = Sum(d.hour, x, x + DayLength)
  BY <1>1, RetireHoursOK
<1>3. r.hour \in [Hours -> Nat] /\ r.day \in [Days -> Nat] BY <1>2, TablesTypes
<1>4. /\ mb \in Nat /\ hb \in Nat /\ db0 \in Nat /\ to \in Nat /\ db0 <= hb /\ hb <= to /\ to <= mb
      /\ hb % DayLength = 0 /\ to % DayLength = 0
  <2>1. mb \in Nat /\ hb \in Nat /\ db0 \in Nat /\ db0 <= hb /\ hb \in Days BY TablesTypes
  <2>2. to \in Days /\ to \in Nat /\ to <= mb BY <1>2, TablesTypes
  <2>3. hb <= to BY <1>2 DEF Onward
  <2>4. QED BY <2>1, <2>2, <2>3, TimeFacts
<1>5. \A h \in Hours : to <= h /\ h < mb => r.hour[h] = d.hour[h] BY <1>2 DEF Onward
<1>6. \A x \in Days : db0 <= x /\ x < hb => r.day[x] = d.day[x] BY <1>2 DEF Onward
<1>7. Days \in SUBSET Minutes /\ Hours \in SUBSET Minutes /\ Days = Multiples(DayLength)
      /\ DayLength \in Nat \ {0}
  BY TimeFacts
<1>8. \A x \in Days : hb <= x /\ x < to => r.day[x] = Sum(d.hour, x, x + DayLength) BY <1>2
<1> HIDE DEF mb, hb, db0, to
<1>9. Sum(d.hour, hb, mb) = Sum(d.hour, hb, to) + Sum(d.hour, to, mb)
  <2>1. d.hour \in [Hours -> Nat] /\ Hours \in SUBSET Minutes BY <1>1, <1>7
  <2>2. hb \in Nat /\ to \in Nat /\ mb \in Nat /\ hb <= to /\ to <= mb BY <1>4
  <2>3. QED BY <2>1, <2>2, SumSplit
<1>10. Sum(r.day, db0, to) = Sum(r.day, db0, hb) + Sum(r.day, hb, to)
  <2>1. r.day \in [Days -> Nat] /\ Days \in SUBSET Minutes BY <1>3, <1>4, <1>7
  <2>2. db0 \in Nat /\ hb \in Nat /\ to \in Nat /\ db0 <= hb /\ hb <= to BY <1>4
  <2>3. QED BY <2>1, <2>2, SumSplit
<1>11. Sum(r.hour, to, mb) = Sum(d.hour, to, mb)
  <2>1. r.hour \in [Hours -> Nat] /\ d.hour \in [Hours -> Nat] /\ Hours \in SUBSET Minutes BY <1>1, <1>3, <1>7
  <2>2. QED BY <1>5, <2>1, SumSame
<1>12. Sum(r.day, db0, hb) = Sum(d.day, db0, hb)
  <2>1. r.day \in [Days -> Nat] /\ d.day \in [Days -> Nat] /\ Days \in SUBSET Minutes BY <1>1, <1>3, <1>7
  <2>2. QED BY <1>6, <2>1, SumSame
<1>13. Sum(r.day, hb, to) = Sum(d.hour, hb, to)
  <2>1. /\ d.hour \in [Hours -> Nat] /\ Hours \in SUBSET Minutes /\ DayLength \in Nat \ {0}
        /\ r.day \in [Multiples(DayLength) -> Nat]
    BY <1>1, <1>3, <1>7
  <2>2. hb \in Nat /\ to \in Nat /\ hb % DayLength = 0 /\ to % DayLength = 0 BY <1>4
  <2>3. \A x \in Multiples(DayLength) : hb <= x /\ x < to => r.day[x] = Sum(d.hour, x, x + DayLength)
    BY <1>7, <1>8
  <2>4. QED BY <2>1, <2>2, <2>3, SumBlocks
<1>14. Sum(d.hour, hb, to) \in Nat /\ Sum(d.hour, to, mb) \in Nat /\ Sum(d.day, db0, hb) \in Nat
  BY <1>1, <1>7, SumNat
<1>15. Sum(d.raw, d.rawBefore, LastMinute + 1) \in Nat /\ Sum(d.minute, mb, d.rawBefore) \in Nat
  BY ShownNat DEF mb
<1>16. Shown(d) = Sum(d.raw, d.rawBefore, LastMinute + 1) + Sum(d.minute, mb, d.rawBefore)
                    + Sum(d.hour, hb, mb) + Sum(d.day, db0, hb)
  BY DEF Shown, mb, hb, db0
<1>17. Shown(r) = Sum(d.raw, d.rawBefore, LastMinute + 1) + Sum(d.minute, mb, d.rawBefore)
                    + Sum(r.hour, to, mb) + Sum(r.day, db0, to)
  BY <1>2 DEF Shown, to
<1>18. QED BY <1>9, <1>10, <1>11, <1>12, <1>13, <1>14, <1>15, <1>16, <1>17

(* Unless a day is retired. *)
LEMMA RetireDaysShown ==
  ASSUME NEW d, TablesOK(d), NEW cut \in Days, cut <= d.hourBefore, NEW r, r = RetireDays(d, cut),
         r.dayBefore = d.dayBefore
  PROVE  Shown(r) = Shown(d)
<1>1. d.raw \in [Minutes -> Nat] /\ d.day \in [Days -> Nat] BY TablesTypes
<1>2. /\ TablesOK(r) /\ Onward(d, r) /\ r.rawBefore = d.rawBefore /\ r.minuteBefore = d.minuteBefore
      /\ r.hourBefore = d.hourBefore /\ r.raw = d.raw /\ r.minute = d.minute /\ r.hour = d.hour
  BY <1>1, RetireDaysOK
<1>3. r.day \in [Days -> Nat] BY <1>2, TablesTypes
<1>4. \A x \in Days : d.dayBefore <= x /\ x < d.hourBefore => r.day[x] = d.day[x]
  BY <1>2 DEF Onward
<1>5. Days \in SUBSET Minutes BY TimeFacts
<1>6. Sum(r.day, d.dayBefore, d.hourBefore) = Sum(d.day, d.dayBefore, d.hourBefore)
  BY <1>1, <1>3, <1>4, <1>5, SumSame
<1>7. QED BY <1>2, <1>6 DEF Shown

-----------------------------------------------------------------------------
(* The four transactions of one retention.                                    *)

LEMMA OnwardTwice ==
  ASSUME NEW d, NEW e, NEW r, TablesOK(d), TablesOK(e), TablesOK(r), Onward(d, e), Onward(e, r)
  PROVE  Onward(d, r)
<1>1. /\ d.rawBefore \in Nat /\ d.minuteBefore \in Nat /\ d.hourBefore \in Nat /\ d.dayBefore \in Nat
      /\ e.rawBefore \in Nat /\ e.minuteBefore \in Nat /\ e.hourBefore \in Nat /\ e.dayBefore \in Nat
      /\ r.rawBefore \in Nat /\ r.minuteBefore \in Nat /\ r.hourBefore \in Nat /\ r.dayBefore \in Nat
  BY TablesTypes
<1>2. \A m \in Minutes : m \in Nat BY TimeFacts
<1>3. \A h \in Hours : h \in Nat BY TimeFacts
<1>4. \A x \in Days : x \in Nat BY TimeFacts
<1>5. QED BY <1>1, <1>2, <1>3, <1>4 DEF Onward

LEMMA RetainOK ==
  ASSUME NEW d, TablesOK(d), NEW rawCut \in Minutes, NEW minuteCut \in Minutes, NEW hourCut \in Minutes,
         NEW dayCut \in Minutes, minuteCut <= rawCut, hourCut <= minuteCut, dayCut <= hourCut,
         NEW r, r = RetainTrafficTiers(d, rawCut, minuteCut, hourCut, dayCut),
         NEW R \in [Minutes -> Nat]
  PROVE  /\ TablesOK(r) /\ Onward(d, r) /\ (Covered(d, R) => Covered(r, R))
         /\ ( /\ r.dayBefore = d.dayBefore
              /\ \A m \in Minutes : d.rawBefore <= m => m \in d.dirtyMinutes \/ d.minute[m] = d.raw[m] )
            => Shown(r) = Shown(d)
<1> DEFINE hours == Trunc(minuteCut, HourLength)
           days == Trunc(hourCut, DayLength)
           last == Trunc(dayCut, DayLength)
           d1 == RetireRaw(d, rawCut)
           d2 == RetireMinutes(d1, hours)
           d3 == RetireHours(d2, days)
<1>1. rawCut \in Nat /\ minuteCut \in Nat /\ hourCut \in Nat /\ dayCut \in Nat BY TimeFacts
<1>2. /\ hours \in Hours /\ hours <= minuteCut /\ days \in Days /\ days <= hourCut
      /\ last \in Days /\ last <= dayCut
  <2>1. HourLength \in Nat \ {0} /\ DayLength \in Nat \ {0}
        /\ Hours = Multiples(HourLength) /\ Days = Multiples(DayLength)
    BY TimeFacts
  <2>2. QED BY <2>1, TruncMinute
<1>3. hours \in Nat /\ days \in Nat /\ last \in Nat /\ days % HourLength = 0 /\ last % DayLength = 0
  BY <1>2, TimeFacts
<1>4. days <= hours
  <2>1. HourLength \in Nat \ {0} /\ days <= minuteCut BY <1>1, <1>2, <1>3, TimeFacts
  <2> HIDE DEF days
  <2>2. QED BY <1>1, <1>3, <2>1, TruncLargest
<1>5. last <= days
  <2>1. DayLength \in Nat \ {0} /\ last <= hourCut BY <1>1, <1>2, <1>3, TimeFacts
  <2> HIDE DEF last
  <2>2. QED BY <1>1, <1>3, <2>1, TruncLargest
<1>6. r = RetireDays(d3, last) BY DEF RetainTrafficTiers
<1> HIDE DEF hours, days, last
<1>7. /\ TablesOK(d1) /\ Onward(d, d1) /\ (Covered(d, R) => Covered(d1, R))
      /\ rawCut <= d1.rawBefore /\ d1.dayBefore = d.dayBefore
  BY RetireRawOK
<1> HIDE DEF d1
<1>8. hours <= d1.rawBefore
  <2>1. d1.rawBefore \in Nat BY <1>7, TablesTypes
  <2>2. QED BY <1>1, <1>2, <1>3, <1>7, <2>1
<1>9. /\ TablesOK(d2) /\ Onward(d1, d2) /\ (Covered(d1, R) => Covered(d2, R))
      /\ hours <= d2.minuteBefore /\ d2.dayBefore = d1.dayBefore
  BY <1>2, <1>7, <1>8, RetireMinutesOK
<1> HIDE DEF d2
<1>10. days <= d2.minuteBefore
  <2>1. d2.minuteBefore \in Nat BY <1>9, TablesTypes
  <2>2. QED BY <1>3, <1>4, <1>9, <2>1
<1>11. /\ TablesOK(d3) /\ Onward(d2, d3) /\ (Covered(d2, R) => Covered(d3, R))
       /\ days <= d3.hourBefore /\ d3.dayBefore = d2.dayBefore
  BY <1>2, <1>9, <1>10, RetireHoursOK
<1> HIDE DEF d3
<1>12. last <= d3.hourBefore
  <2>1. d3.hourBefore \in Nat BY <1>11, TablesTypes
  <2>2. QED BY <1>3, <1>5, <1>11, <2>1
<1>13. TablesOK(r) /\ Onward(d3, r) /\ (Covered(d3, R) => Covered(r, R))
  BY <1>2, <1>6, <1>11, <1>12, RetireDaysOK
<1>14. Onward(d, r)
  <2>1. Onward(d, d2) BY <1>7, <1>9, OnwardTwice
  <2>2. Onward(d, d3) BY <1>9, <1>11, <2>1, OnwardTwice
  <2>3. QED BY <1>11, <1>13, <2>2, OnwardTwice
<1>15. ASSUME r.dayBefore = d.dayBefore,
              \A m \in Minutes : d.rawBefore <= m => m \in d.dirtyMinutes \/ d.minute[m] = d.raw[m]
       PROVE  Shown(r) = Shown(d)
  <2>1. Shown(d1) = Shown(d) BY <1>15, RetireRawShown DEF d1
  <2>2. Shown(d2) = Shown(d1) BY <1>2, <1>7, <1>8, RetireMinutesShown DEF d2
  <2>3. Shown(d3) = Shown(d2) BY <1>2, <1>9, <1>10, RetireHoursShown DEF d3
  <2>4. r.dayBefore = d3.dayBefore BY <1>7, <1>9, <1>11, <1>15
  <2>5. Shown(r) = Shown(d3) BY <1>2, <1>6, <1>11, <1>12, <2>4, RetireDaysShown
  <2>6. QED BY <2>1, <2>2, <2>3, <2>5
<1>16. QED BY <1>7, <1>9, <1>11, <1>13, <1>14, <1>15

-----------------------------------------------------------------------------
(* A batch of events.                                                         *)

(* Each event of a batch is counted at one minute.                            *)
LEMMA CountedFacts ==
  ASSUME NEW rows \in [Minutes -> Nat], NEW events \in Seq(Minutes)
  PROVE  /\ Counted(rows, events) \in [Minutes -> Nat]
         /\ \A m \in Minutes : rows[m] <= Counted(rows, events)[m]
         /\ Sum(Counted(rows, events), 0, LastMinute + 1) = Sum(rows, 0, LastMinute + 1) + Len(events)
<1> DEFINE T == 1 .. Len(events)
           at == [m \in Minutes |-> Cardinality(Fibre(events, T, m))]
           after == Counted(rows, events)
<1>1. Len(events) \in Nat /\ DOMAIN events = T /\ \A i \in T : events[i] \in Minutes OBVIOUS
<1>2. IsFiniteSet(T) /\ Cardinality(T) = Len(events) BY <1>1, FS_Interval
<1>3. IsFiniteSet(Minutes) BY RollupsAssumption, FS_Interval DEF Minutes
<1>4. \A m \in Minutes : at[m] = Cardinality(Fibre(events, T, m)) OBVIOUS
<1>5. after = [m \in Minutes |-> rows[m] + at[m]]
  BY <1>1 DEF Counted, Fibre
<1> HIDE DEF T, at, after
<1>6. (\A m \in Minutes : at[m] \in Nat) /\ Total(at, Minutes) = Len(events)
  <2>1. IsFiniteSet(T) /\ IsFiniteSet(Minutes) BY <1>2, <1>3
  <2>2. \A i \in T : events[i] \in Minutes BY <1>1
  <2>3. (\A m \in Minutes : at[m] \in Nat) /\ Total(at, Minutes) = Cardinality(T)
    BY <1>4, <2>1, <2>2, TotalFibres
  <2>4. QED BY <1>2, <2>3
<1>7. \A m \in Minutes : rows[m] \in Nat /\ at[m] \in Nat /\ after[m] = rows[m] + at[m]
  BY <1>5, <1>6
<1>8. after \in [Minutes -> Nat] BY <1>5, <1>6
<1>9. Total(after, Minutes) = Total(rows, Minutes) + Total(at, Minutes) BY <1>3, <1>7, TotalPlus
<1>10. Span(Minutes, 0, LastMinute + 1) = Minutes BY RollupsAssumption DEF Span, Minutes
<1>11. /\ Sum(after, 0, LastMinute + 1) = Total(after, Minutes)
       /\ Sum(rows, 0, LastMinute + 1) = Total(rows, Minutes)
  BY <1>8, <1>10, SumSpan
<1>12. \A m \in Minutes : rows[m] <= after[m] BY <1>7
<1>13. QED BY <1>6, <1>8, <1>9, <1>11, <1>12 DEF after

Stored(d, events) ==
  [d EXCEPT !.raw = Counted(@, events), !.dirtyMinutes = @ \cup {events[i] : i \in DOMAIN events}]

LEMMA RecordOK ==
  ASSUME NEW d, TablesOK(d), NEW events \in Seq(Minutes), NEW r, r = Stored(d, events),
         NEW R \in [Minutes -> Nat], Covered(d, R)
  PROVE  TablesOK(r) /\ Onward(d, r) /\ Covered(r, Counted(R, events))
<1> DEFINE after == Counted(R, events)
<1>1. \A i \in DOMAIN events : events[i] \in Minutes OBVIOUS
<1>2. d \in Tables /\ d.raw \in [Minutes -> Nat] BY TablesTypes
<1>3. Counted(d.raw, events) \in [Minutes -> Nat] BY <1>2, CountedFacts
<1>4. after \in [Minutes -> Nat] /\ \A m \in Minutes : R[m] <= after[m] BY CountedFacts
<1>5. r \in Tables
  <2> DEFINE raw == Counted(d.raw, events)
             seen == {events[i] : i \in DOMAIN events}
  <2>1. seen \subseteq Minutes /\ raw \in [Minutes -> Nat] BY <1>1, <1>3
  <2>2. r = [d EXCEPT !.raw = raw, !.dirtyMinutes = @ \cup seen] BY DEF Stored
  <2> HIDE DEF raw, seen
  <2>3. QED BY <1>2, <2>1, <2>2 DEF Tables
<1>6. /\ r.raw = Counted(d.raw, events) /\ r.minute = d.minute /\ r.hour = d.hour /\ r.day = d.day
      /\ r.dirtyHours = d.dirtyHours /\ r.dirtyDays = d.dirtyDays
      /\ r.rawBefore = d.rawBefore /\ r.minuteBefore = d.minuteBefore
      /\ r.hourBefore = d.hourBefore /\ r.dayBefore = d.dayBefore
  BY <1>2 DEF Tables, Stored
<1>7. TablesOK(r) BY <1>5, <1>6 DEF TablesOK
<1>8. Onward(d, r)
  <2>1. /\ d.rawBefore \in Nat /\ d.minuteBefore \in Nat /\ d.hourBefore \in Nat /\ d.dayBefore \in Nat
    BY TablesTypes
  <2>2. QED BY <1>6, <2>1 DEF Onward
<1>9. \A m \in Minutes : r.raw[m] <= after[m]
  <2>1. \A m \in Minutes : d.raw[m] <= R[m] /\ d.raw[m] \in Nat /\ R[m] \in Nat BY <1>2 DEF Covered
  <2>2. \A m \in Minutes : Cardinality({i \in DOMAIN events : events[i] = m}) \in Nat
    <3> SUFFICES ASSUME NEW m \in Minutes
                 PROVE  Cardinality({i \in DOMAIN events : events[i] = m}) \in Nat
      OBVIOUS
    <3>1. IsFiniteSet(1 .. Len(events)) /\ DOMAIN events = 1 .. Len(events)
      <4>1. Len(events) \in Nat /\ DOMAIN events = 1 .. Len(events) OBVIOUS
      <4>2. 1 \in Int /\ Len(events) \in Int BY <4>1
      <4>3. IsFiniteSet(1 .. Len(events)) BY <4>2, FS_Interval
      <4>4. QED BY <4>1, <4>3
    <3>2. IsFiniteSet({i \in DOMAIN events : events[i] = m}) BY <3>1, FS_Subset
    <3>3. QED BY <3>2, FS_CardinalityType
  <2>3. QED BY <1>6, <2>1, <2>2 DEF Counted
<1> HIDE DEF after
<1>10. \A m \in Minutes : r.minute[m] <= after[m]
  <2>1. \A m \in Minutes : d.minute[m] <= R[m] /\ d.minute[m] \in Nat /\ R[m] \in Nat /\ after[m] \in Nat
    BY <1>4, TablesTypes DEF Covered
  <2>2. QED BY <1>4, <1>6, <2>1
<1>11. Minutes \in SUBSET Minutes BY TimeFacts
<1>12. \A h \in Hours : r.hour[h] <= Sum(after, h, h + HourLength)
  <2> SUFFICES ASSUME NEW h \in Hours PROVE r.hour[h] <= Sum(after, h, h + HourLength) OBVIOUS
  <2>1. d.hour[h] <= Sum(R, h, h + HourLength) BY DEF Covered
  <2>2. Sum(R, h, h + HourLength) <= Sum(after, h, h + HourLength) BY <1>4, <1>11, SumAtMost
  <2>3. Sum(R, h, h + HourLength) \in Nat /\ Sum(after, h, h + HourLength) \in Nat
    BY <1>4, <1>11, SumNat
  <2>4. d.hour[h] \in Nat BY TablesTypes
  <2>5. QED BY <1>6, <2>1, <2>2, <2>3, <2>4
<1>13. \A x \in Days : r.day[x] <= Sum(after, x, x + DayLength)
  <2> SUFFICES ASSUME NEW x \in Days PROVE r.day[x] <= Sum(after, x, x + DayLength) OBVIOUS
  <2>1. d.day[x] <= Sum(R, x, x + DayLength) BY DEF Covered
  <2>2. Sum(R, x, x + DayLength) <= Sum(after, x, x + DayLength) BY <1>4, <1>11, SumAtMost
  <2>3. Sum(R, x, x + DayLength) \in Nat /\ Sum(after, x, x + DayLength) \in Nat
    BY <1>4, <1>11, SumNat
  <2>4. d.day[x] \in Nat BY TablesTypes
  <2>5. QED BY <1>6, <2>1, <2>2, <2>3, <2>4
<1>14. Covered(r, after) BY <1>9, <1>10, <1>12, <1>13 DEF Covered
<1>15. QED BY <1>7, <1>8, <1>14 DEF after

-----------------------------------------------------------------------------
(* The job's clocks and cuts.                                                 *)

JobType == [step : {"idle", "minutes", "retain", "hours", "days"}, now : Minutes]

LEMMA CutFacts ==
  ASSUME job \in JobType, NEW a \in Nat, NEW b \in Nat, a <= b
  PROVE  Cut(a) \in Minutes /\ Cut(b) \in Minutes /\ Cut(b) <= Cut(a)
<1>1. job.now \in 0 .. LastMinute /\ LastMinute \in Nat BY RollupsAssumption DEF JobType, Minutes
<1>2. QED BY <1>1 DEF Cut, Minutes

(* Each coarser tier is cut no later than the finer one. *)
LEMMA CutsInOrder ==
  ASSUME job \in JobType, keep \in Keeps
  PROVE  /\ Cut(keep.raw) \in Minutes /\ Cut(MinuteKeep) \in Minutes
         /\ Cut(HourKeep) \in Minutes /\ Cut(DayKeep) \in Minutes
         /\ Cut(MinuteKeep) <= Cut(keep.raw) /\ Cut(HourKeep) <= Cut(MinuteKeep)
         /\ Cut(DayKeep) <= Cut(HourKeep)
<1>1. keep.raw \in Nat /\ keep.minute \in Nat /\ keep.hour \in Nat /\ keep.day \in Nat
  BY RollupsAssumption
<1>2. MinuteKeep \in Nat /\ keep.raw <= MinuteKeep BY <1>1 DEF MinuteKeep, Later
<1>3. HourKeep \in Nat /\ MinuteKeep <= HourKeep BY <1>1, <1>2 DEF HourKeep, Later
<1>4. DayKeep \in Nat /\ HourKeep <= DayKeep BY <1>1, <1>3 DEF DayKeep, Later
<1>5. Cut(keep.raw) \in Minutes /\ Cut(MinuteKeep) \in Minutes /\ Cut(MinuteKeep) <= Cut(keep.raw)
  BY <1>1, <1>2, CutFacts
<1>6. Cut(HourKeep) \in Minutes /\ Cut(HourKeep) <= Cut(MinuteKeep) BY <1>2, <1>3, CutFacts
<1>7. Cut(DayKeep) \in Minutes /\ Cut(DayKeep) <= Cut(HourKeep) BY <1>3, <1>4, CutFacts
<1>8. QED BY <1>5, <1>6, <1>7

-----------------------------------------------------------------------------
(* The invariant: the tables, the recorder's books, and what was written.     *)

StoreOK ==
  /\ TablesOK(db) /\ recorded \in [Minutes -> Nat] /\ Covered(db, recorded)
  /\ keep \in Keeps /\ job \in JobType

(* A worker that has drained finds no caller behind it.                       *)
RecorderOK ==
  /\ queue \in Seq(Minutes) /\ Len(queue) <= Capacity /\ batch \in Seq(Minutes)
  /\ writer \in {"select", "collect", "write", "drain", "done"}
  /\ stopping \in {"no", "refusing", "signalled", "returned"} /\ uncounted \in Nat
  /\ stats \in [accepted : Nat, written : Nat, failed : Nat]
  /\ lost \in [accepted : Nat, written : Nat]
  /\ stats.accepted + uncounted = stats.written + stats.failed + Len(queue) + Len(batch)
  /\ stopping # "no" => uncounted = 0
  /\ writer \in {"drain", "done"} => stopping \in {"signalled", "returned"}
  /\ writer = "done" => queue = <<>> /\ batch = <<>>
  /\ stopping = "returned" => writer = "done"

TelemetryInv == StoreOK /\ RecorderOK /\ WrittenIsStored

(* A step leaves the tables alone, or is one of the transactions. *)
TablesStill ==
  /\ UNCHANGED <<db, recorded>> /\ keep' \in Keeps /\ job' \in JobType
  /\ ~(job.step = "retain" /\ job'.step = "hours")

Commits == RecordTrafficBatch(batch) \/ JobMinutes \/ JobRetain \/ JobHours \/ JobDays

LEMMA StoreMoves ==
  ASSUME StoreOK, [TelemetryNext]_telemetryVars
  PROVE  TablesStill \/ Commits
<1>1. keep \in Keeps /\ job \in JobType BY DEF StoreOK
<1>2. JobTimes \subseteq Minutes /\ 0 \in Minutes BY RollupsAssumption DEF Minutes
<1>3. NoJob \in JobType BY <1>2 DEF NoJob, JobType
<1>4. CASE UNCHANGED rollupVars BY <1>1, <1>4 DEF rollupVars, TablesStill
<1>5. CASE RestartJob BY <1>3, <1>5 DEF RestartJob, TablesStill, NoJob
<1>6. CASE JobFails BY <1>1, <1>3, <1>6 DEF JobFails, TablesStill, NoJob
<1>7. ASSUME NEW now \in JobTimes, StartJob(now) PROVE TablesStill
  <2>1. job' = [step |-> "minutes", now |-> now] /\ now \in Minutes /\ job.step = "idle"
        /\ UNCHANGED <<db, recorded, keep>>
    BY <1>2, <1>7 DEF StartJob
  <2>2. QED BY <1>1, <2>1 DEF TablesStill, JobType
<1>8. AsyncNext => UNCHANGED rollupVars \/ RestartJob \/ RecordTrafficBatch(batch)
  BY DEF AsyncNext, Record, Counts, StopRefuses, StopSignals, StopReturns, Take, Collect,
         Write, WriteFails, Drain, Done, Restart
<1>9. JobNext => Commits \/ JobFails \/ \E now \in JobTimes : StartJob(now)
  BY DEF JobNext, Commits
<1>10. [TelemetryNext]_telemetryVars => AsyncNext \/ JobNext \/ UNCHANGED rollupVars
  BY DEF TelemetryNext, telemetryVars
<1>11. QED BY <1>4, <1>5, <1>6, <1>7, <1>8, <1>9, <1>10 DEF Commits

(* Every transaction keeps the store right and takes no table back. *)
LEMMA CommitStep ==
  ASSUME StoreOK, batch \in Seq(Minutes), Commits
  PROVE  StoreOK' /\ Onward(db, db')
<1>1. TablesOK(db) /\ recorded \in [Minutes -> Nat] /\ Covered(db, recorded)
      /\ keep \in Keeps /\ job \in JobType
  BY DEF StoreOK
<1>2. NoJob \in JobType
  <2>1. 0 \in Minutes BY RollupsAssumption DEF Minutes
  <2>2. QED BY <2>1 DEF NoJob, JobType
<1>3. ASSUME NEW step \in {"retain", "hours", "days"}, job' = [job EXCEPT !.step = step]
      PROVE  job' \in JobType
  BY <1>1, <1>3 DEF JobType
<1>4. CASE RecordTrafficBatch(batch)
  <2>1. /\ db' = Stored(db, batch) /\ recorded' = Counted(recorded, batch)
        /\ UNCHANGED <<keep, job>>
    BY <1>4 DEF RecordTrafficBatch, Stored
  <2>2. TablesOK(db') /\ Onward(db, db') /\ Covered(db', Counted(recorded, batch))
    BY <1>1, <2>1, RecordOK
  <2>3. recorded' \in [Minutes -> Nat] BY <1>1, <2>1, CountedFacts
  <2>4. QED BY <1>1, <2>1, <2>2, <2>3 DEF StoreOK
<1>5. CASE JobMinutes
  <2>1. /\ db' = RollupMinute(db, 0, job.now) /\ job' = [job EXCEPT !.step = "retain"]
        /\ UNCHANGED <<recorded, keep>>
    BY <1>5 DEF JobMinutes, Advance
  <2>2. PICK from \in Nat : db' = RollupMinute(db, from, job.now) BY <2>1
  <2>3. TablesOK(db') /\ Onward(db, db') /\ Covered(db', recorded)
    BY <1>1, <2>2, RollupMinuteOK
  <2>4. job' \in JobType BY <1>3, <2>1
  <2>5. QED BY <1>1, <2>1, <2>3, <2>4 DEF StoreOK
<1>6. CASE JobRetain
  <2>1. /\ db' = RetainTrafficTiers(db, Cut(keep.raw), Cut(MinuteKeep), Cut(HourKeep), Cut(DayKeep))
        /\ job' = [job EXCEPT !.step = "hours"] /\ UNCHANGED <<recorded, keep>>
    BY <1>6 DEF JobRetain, Advance
  <2>2. TablesOK(db') /\ Onward(db, db') /\ Covered(db', recorded)
    BY <1>1, <2>1, CutsInOrder, RetainOK
  <2>3. job' \in JobType BY <1>3, <2>1
  <2>4. QED BY <1>1, <2>1, <2>2, <2>3 DEF StoreOK
<1>7. CASE JobHours
  <2>1. /\ db' = RollupHour(db, Trunc(job.now, HourLength)) /\ job' = [job EXCEPT !.step = "days"]
        /\ UNCHANGED <<recorded, keep>>
    BY <1>7 DEF JobHours, Advance
  <2>2. TablesOK(db') /\ Onward(db, db') /\ Covered(db', recorded) BY <1>1, <2>1, RollupHourOK
  <2>3. job' \in JobType BY <1>3, <2>1
  <2>4. QED BY <1>1, <2>1, <2>2, <2>3 DEF StoreOK
<1>8. CASE JobDays
  <2>1. /\ db' = RollupDay(db, Trunc(job.now, DayLength)) /\ job' = NoJob
        /\ UNCHANGED <<recorded, keep>>
    BY <1>8 DEF JobDays
  <2>2. TablesOK(db') /\ Onward(db, db') /\ Covered(db', recorded) BY <1>1, <2>1, RollupDayOK
  <2>3. QED BY <1>1, <1>2, <2>1, <2>2 DEF StoreOK
<1>9. QED BY <1>4, <1>5, <1>6, <1>7, <1>8 DEF Commits

LEMMA StoreStep ==
  ASSUME StoreOK, batch \in Seq(Minutes), [TelemetryNext]_telemetryVars
  PROVE  StoreOK' /\ Onward(db, db')
<1>1. CASE TablesStill
  <2>1. StoreOK' BY <1>1 DEF TablesStill, StoreOK
  <2>2. db' = db BY <1>1 DEF TablesStill
  <2>3. /\ db.rawBefore \in Nat /\ db.minuteBefore \in Nat
        /\ db.hourBefore \in Nat /\ db.dayBefore \in Nat
    BY TablesTypes DEF StoreOK
  <2>4. QED BY <2>1, <2>2, <2>3 DEF Onward
<1>2. CASE Commits BY <1>2, CommitStep
<1>3. QED BY <1>1, <1>2, StoreMoves

-----------------------------------------------------------------------------
(* The recorder's books.                                                      *)

LEMMA RecorderStep ==
  ASSUME RecorderOK, [TelemetryNext]_telemetryVars
  PROVE  RecorderOK'
<1> USE DEF RecorderOK
<1>1. stats.accepted \in Nat /\ stats.written \in Nat /\ stats.failed \in Nat
      /\ lost.accepted \in Nat /\ lost.written \in Nat /\ Len(queue) \in Nat /\ Len(batch) \in Nat
      /\ uncounted \in Nat /\ Len(queue) <= Capacity
      /\ stats.accepted + uncounted = stats.written + stats.failed + Len(queue) + Len(batch)
  OBVIOUS
<1>2. CASE UNCHANGED asyncVars BY <1>2 DEF asyncVars
<1>3. ASSUME NEW m \in EventTimes, Record(m) PROVE RecorderOK'
  <2>1. m \in Minutes BY RollupsAssumption DEF Minutes
  <2>2. /\ stopping = "no" /\ Len(queue) < Capacity
        /\ queue' = Append(queue, m) /\ uncounted' = uncounted + 1
        /\ UNCHANGED <<batch, writer, stopping, stats, lost>>
    BY <1>3 DEF Record
  <2>3. queue' \in Seq(Minutes) /\ Len(queue') = Len(queue) + 1 BY <2>1, <2>2
  <2>4. Capacity \in Nat BY TelemetryAssumption
  <2>5. writer \notin {"drain", "done"} BY <2>2
  <2> HIDE DEF RecorderOK
  <2>6. uncounted' = uncounted + 1 /\ Len(queue') = Len(queue) + 1 /\ Len(queue) < Capacity
    BY <2>2, <2>3
  <2>7. uncounted' \in Nat /\ Len(queue') <= Capacity BY <1>1, <2>4, <2>6
  <2>8. stats.accepted + uncounted' = stats.written + stats.failed + Len(queue') + Len(batch)
    <3>1. PICK a \in Nat : a = stats.accepted BY <1>1
    <3>2. PICK u \in Nat : u = uncounted BY <1>1
    <3>3. PICK w \in Nat : w = stats.written BY <1>1
    <3>4. PICK f \in Nat : f = stats.failed BY <1>1
    <3>5. PICK q \in Nat : q = Len(queue) BY <1>1
    <3>6. PICK n \in Nat : n = Len(batch) BY <1>1
    <3>7. a + u = w + f + q + n BY <1>1, <3>1, <3>2, <3>3, <3>4, <3>5, <3>6
    <3>8. a + (u + 1) = w + f + (q + 1) + n BY <3>7
    <3>9. uncounted' = u + 1 /\ Len(queue') = q + 1 BY <2>6, <3>2, <3>5
    <3>10. QED BY <3>1, <3>3, <3>4, <3>6, <3>8, <3>9
  <2> HIDE DEF RecorderOK
  <2>9. /\ batch \in Seq(Minutes) /\ writer \in {"select", "collect", "write", "drain", "done"}
        /\ stats \in [accepted : Nat, written : Nat, failed : Nat]
        /\ lost \in [accepted : Nat, written : Nat]
    BY DEF RecorderOK
  <2>10. QED BY <2>2, <2>3, <2>5, <2>8, <2>9, <2>7 DEF RecorderOK
<1>4. CASE Counts
  <2>1. /\ stats' = [stats EXCEPT !.accepted = @ + 1] /\ uncounted > 0 /\ uncounted' = uncounted - 1
        /\ UNCHANGED <<queue, batch, writer, stopping, lost>>
    BY <1>4 DEF Counts
  <2>2. stats \in [accepted : Nat, written : Nat, failed : Nat] /\ uncounted \in Nat OBVIOUS
  <2> HIDE DEF RecorderOK
  <2>3. stats' \in [accepted : Nat, written : Nat, failed : Nat] /\ stats'.accepted = stats.accepted + 1
        /\ stats'.written = stats.written /\ stats'.failed = stats.failed
    BY <2>1, <2>2
  <2>4. uncounted' \in Nat /\ stats'.accepted + uncounted' = stats.accepted + uncounted
    BY <1>1, <2>1, <2>2, <2>3
  <2>5. stopping = "no" BY <2>1 DEF RecorderOK
  <2>6. QED BY <1>1, <2>1, <2>3, <2>4, <2>5 DEF RecorderOK
<1>5. CASE StopRefuses BY <1>5 DEF StopRefuses
<1>6. CASE StopSignals BY <1>6 DEF StopSignals
<1>7. CASE StopReturns BY <1>7 DEF StopReturns
<1>8. CASE Take
  <2>1. /\ queue # <<>> /\ writer \in {"select", "collect", "drain"}
        /\ batch' = Append(batch, Head(queue)) /\ queue' = Tail(queue)
        /\ writer' = IF writer = "select" THEN "collect" ELSE writer
        /\ UNCHANGED <<stopping, uncounted, stats, lost>>
    BY <1>8 DEF Take
  <2>2. Head(queue) \in Minutes /\ queue' \in Seq(Minutes) /\ Len(queue') = Len(queue) - 1 BY <2>1
  <2>3. batch' \in Seq(Minutes) /\ Len(batch') = Len(batch) + 1 BY <2>1, <2>2
  <2>4. Capacity \in Nat BY TelemetryAssumption
  <2> HIDE DEF RecorderOK
  <2>5. Len(queue') = Len(queue) - 1 /\ Len(batch') = Len(batch) + 1 BY <2>2, <2>3
  <2>6. stats.accepted + uncounted = stats.written + stats.failed + Len(queue') + Len(batch')
    BY <1>1, <2>5
  <2>7. writer' # "done" /\ (writer' = "drain" => writer = "drain") /\ Len(queue') <= Capacity
    BY <1>1, <2>1, <2>2, <2>4
  <2>8. writer' \in {"select", "collect", "write", "drain", "done"} /\ stopping # "returned"
    BY <2>1 DEF RecorderOK
  <2> HIDE DEF RecorderOK
  <2>9. /\ stopping \in {"no", "refusing", "signalled", "returned"} /\ uncounted \in Nat
        /\ stats \in [accepted : Nat, written : Nat, failed : Nat]
        /\ lost \in [accepted : Nat, written : Nat]
        /\ stopping # "no" => uncounted = 0
        /\ writer = "drain" => stopping \in {"signalled", "returned"}
    BY DEF RecorderOK
  <2>10. UNCHANGED <<stopping, uncounted, stats, lost>> BY <2>1
  <2>11. QED BY <2>2, <2>3, <2>6, <2>7, <2>8, <2>9, <2>10 DEF RecorderOK
<1>9. CASE Collect BY <1>9 DEF Collect
<1>10. ASSUME NEW count \in {"written", "failed"}, Collected, Wrote(count) PROVE RecorderOK'
  <2>1. stats' = [stats EXCEPT ![count] = @ + Len(batch)] /\ batch' = <<>>
        /\ writer' = (IF writer = "write" THEN "select" ELSE "drain")
        /\ UNCHANGED <<queue, stopping, uncounted, lost>>
    BY <1>10 DEF Wrote
  <2>2. writer = "write" \/ writer = "drain" BY <1>10 DEF Collected
  <2>3. stats' \in [accepted : Nat, written : Nat, failed : Nat] /\ stats'.accepted = stats.accepted
        /\ stats'.written + stats'.failed = stats.written + stats.failed + Len(batch)
    <3>1. stats \in [accepted : Nat, written : Nat, failed : Nat] OBVIOUS
    <3> HIDE DEF RecorderOK
    <3>2. Len(batch) \in Nat BY <1>1
    <3>3. PICK w \in Nat : w = stats.written BY <3>1
    <3>4. PICK f \in Nat : f = stats.failed BY <3>1
    <3>5. PICK n \in Nat : n = Len(batch) BY <3>2
    <3>6. /\ w + n \in Nat /\ f + n \in Nat
          /\ (w + n) + f = w + f + n /\ w + (f + n) = w + f + n
      BY <3>3, <3>4, <3>5
    <3>7. CASE count = "written"
      <4>1. /\ stats' \in [accepted : Nat, written : Nat, failed : Nat]
            /\ stats'.accepted = stats.accepted /\ stats'.failed = f /\ stats'.written = w + n
        BY <2>1, <3>1, <3>3, <3>4, <3>5, <3>6, <3>7
      <4>2. QED BY <3>3, <3>4, <3>5, <3>6, <4>1
    <3>8. CASE count = "failed"
      <4>1. /\ stats' \in [accepted : Nat, written : Nat, failed : Nat]
            /\ stats'.accepted = stats.accepted /\ stats'.written = w /\ stats'.failed = f + n
        BY <2>1, <3>1, <3>3, <3>4, <3>5, <3>6, <3>8
      <4>2. QED BY <3>3, <3>4, <3>5, <3>6, <4>1
    <3>9. QED BY <3>7, <3>8
  <2>4. batch' \in Seq(Minutes) /\ Len(batch') = 0 BY <2>1
  <2>5. QED BY <1>1, <2>1, <2>2, <2>3, <2>4
<1>11. CASE Drain BY <1>11 DEF Drain
<1>12. CASE Done BY <1>12 DEF Done
<1>13. CASE Restart
  <2>1. /\ queue' = <<>> /\ batch' = <<>> /\ writer' = "select" /\ stopping' = "no" /\ uncounted' = 0
        /\ stats' = [accepted |-> 0, written |-> 0, failed |-> 0]
        /\ lost' = [accepted |-> lost.accepted + stats.accepted + uncounted,
                    written |-> lost.written + stats.written]
    BY <1>13 DEF Restart, NoStats
  <2>2. lost' \in [accepted : Nat, written : Nat] BY <1>1, <2>1
  <2>3. queue' \in Seq(Minutes) /\ batch' \in Seq(Minutes) /\ Len(queue') = 0 /\ Len(batch') = 0
    BY <2>1
  <2>4. Capacity \in Nat BY TelemetryAssumption
  <2>5. stats' \in [accepted : Nat, written : Nat, failed : Nat] /\ stats'.accepted = 0
        /\ stats'.written = 0 /\ stats'.failed = 0
    BY <2>1
  <2>6. QED BY <2>1, <2>2, <2>3, <2>4, <2>5
<1>14. \/ UNCHANGED asyncVars \/ \E m \in EventTimes : Record(m)
       \/ Counts \/ StopRefuses \/ StopSignals \/ StopReturns \/ Take \/ Collect
       \/ (Collected /\ Wrote("written")) \/ (Collected /\ Wrote("failed"))
       \/ Drain \/ Done \/ Restart
  BY DEF TelemetryNext, AsyncNext, Write, WriteFails, telemetryVars
<1>15. QED
  BY <1>2, <1>3, <1>4, <1>5, <1>6, <1>7, <1>8, <1>9, <1>10, <1>11, <1>12, <1>13, <1>14

(* Only a batch that is written changes what was written or recorded, and     *)
(* both by its length.                                                        *)
LEMMA WrittenStep ==
  ASSUME StoreOK, RecorderOK, WrittenIsStored, [TelemetryNext]_telemetryVars
  PROVE  WrittenIsStored'
<1>1. /\ stats.accepted \in Nat /\ stats.written \in Nat /\ stats.failed \in Nat
      /\ stats \in [accepted : Nat, written : Nat, failed : Nat]
      /\ lost.written \in Nat /\ batch \in Seq(Minutes) /\ Len(batch) \in Nat
  BY DEF RecorderOK
<1>2. recorded \in [Minutes -> Nat] BY DEF StoreOK
<1>3. CASE recorded' = recorded /\ lost'.written + stats'.written = lost.written + stats.written
  BY <1>3 DEF WrittenIsStored
<1>4. CASE Write
  <2>1. /\ recorded' = Counted(recorded, batch) /\ lost' = lost
        /\ stats' = [stats EXCEPT !["written"] = @ + Len(batch)]
    BY <1>4 DEF Write, RecordTrafficBatch, Wrote
  <2>2. stats'.written = stats.written + Len(batch) BY <1>1, <2>1
  <2>3. Sum(recorded', 0, LastMinute + 1) = Sum(recorded, 0, LastMinute + 1) + Len(batch)
    BY <1>1, <1>2, <2>1, CountedFacts
  <2>4. QED BY <1>1, <2>1, <2>2, <2>3 DEF WrittenIsStored
<1>5. CASE WriteFails
  <2>1. /\ recorded' = recorded /\ lost' = lost /\ stats' = [stats EXCEPT !["failed"] = @ + Len(batch)]
    BY <1>5 DEF WriteFails, Wrote, rollupVars
  <2>2. QED BY <1>1, <1>3, <2>1
<1>6. CASE Counts
  <2>1. /\ recorded' = recorded /\ lost' = lost /\ stats' = [stats EXCEPT !.accepted = @ + 1]
    BY <1>6 DEF Counts, rollupVars
  <2>2. QED BY <1>1, <1>3, <2>1
<1>7. CASE Restart
  <2>1. /\ recorded' = recorded /\ stats'.written = 0 /\ lost'.written = lost.written + stats.written
    BY <1>7 DEF Restart, RestartJob, NoStats
  <2>2. QED BY <1>1, <1>3, <2>1
<1>8. \/ recorded' = recorded /\ stats' = stats /\ lost' = lost
      \/ Write \/ WriteFails \/ Counts \/ Restart
  BY DEF TelemetryNext, AsyncNext, JobNext, Record, StopRefuses, StopSignals, StopReturns, Take, Collect,
         Drain, Done, StartJob, JobMinutes, JobRetain, JobHours, JobDays, JobFails, Advance,
         telemetryVars, rollupVars, asyncVars
<1>9. QED BY <1>3, <1>4, <1>5, <1>6, <1>7, <1>8

-----------------------------------------------------------------------------

LEMMA TelemetryStart == TelemetryInit => TelemetryInv
<1> SUFFICES ASSUME TelemetryInit PROVE TelemetryInv OBVIOUS
<1>1. /\ recorded = Empty(Minutes) /\ keep \in Keeps /\ job = NoJob
      /\ db = [raw |-> Empty(Minutes), minute |-> Empty(Minutes),
               hour |-> Empty(Hours), day |-> Empty(Days),
               dirtyMinutes |-> {}, dirtyHours |-> {}, dirtyDays |-> {},
               rawBefore |-> 0, minuteBefore |-> 0, hourBefore |-> 0, dayBefore |-> 0]
  BY DEF TelemetryInit, RollupsInit
<1>2. 0 \in Minutes /\ 0 \in Hours /\ 0 \in Days
  <2>1. 0 \in Minutes BY RollupsAssumption DEF Minutes
  <2>2. 0 % HourLength = 0 /\ 0 % DayLength = 0 BY RollupsAssumption
  <2>3. QED BY <2>1, <2>2 DEF Hours, Days
<1>3. Empty(Minutes) \in [Minutes -> Nat] /\ Empty(Hours) \in [Hours -> Nat] /\ Empty(Days) \in [Days -> Nat]
      /\ (\A m \in Minutes : Empty(Minutes)[m] = 0) /\ (\A h \in Hours : Empty(Hours)[h] = 0)
      /\ (\A x \in Days : Empty(Days)[x] = 0)
  BY DEF Empty
<1>4. TablesOK(db) BY <1>1, <1>2, <1>3 DEF TablesOK, Tables
<1>5. Minutes \in SUBSET Minutes OBVIOUS
<1>6. Covered(db, recorded)
  <2>1. /\ \A h \in Hours : Sum(recorded, h, h + HourLength) \in Nat
        /\ \A x \in Days : Sum(recorded, x, x + DayLength) \in Nat
    BY <1>1, <1>3, <1>5, SumNat
  <2>2. QED BY <1>1, <1>3, <2>1 DEF Covered
<1>7. StoreOK BY <1>1, <1>2, <1>3, <1>4, <1>6 DEF StoreOK, NoJob, JobType
<1>8. RecorderOK
  <2>1. Capacity \in Nat BY TelemetryAssumption
  <2>2. QED BY <2>1 DEF TelemetryInit, AsyncInit, NoStats, RecorderOK
<1>9. WrittenIsStored
  <2>1. \A m \in Span(Minutes, 0, LastMinute + 1) : recorded[m] = 0 BY <1>1, <1>3 DEF Span
  <2>2. Total(recorded, Span(Minutes, 0, LastMinute + 1)) = 0 BY <2>1, TotalZero
  <2>3. Sum(recorded, 0, LastMinute + 1) = 0 BY <1>1, <1>3, <2>2, SumSpan
  <2>4. QED BY <2>3 DEF TelemetryInit, AsyncInit, NoStats, WrittenIsStored
<1>10. QED BY <1>7, <1>8, <1>9 DEF TelemetryInv

LEMMA TelemetryStep ==
  TelemetryInv /\ [TelemetryNext]_telemetryVars => TelemetryInv' /\ Onward(db, db')
<1> SUFFICES ASSUME TelemetryInv, [TelemetryNext]_telemetryVars
             PROVE  TelemetryInv' /\ Onward(db, db')
  OBVIOUS
<1>1. StoreOK /\ RecorderOK /\ WrittenIsStored /\ batch \in Seq(Minutes)
  BY DEF TelemetryInv, RecorderOK
<1>2. StoreOK' /\ Onward(db, db') BY <1>1, StoreStep
<1>3. RecorderOK' BY <1>1, RecorderStep
<1>4. WrittenIsStored' BY <1>1, WrittenStep
<1>5. QED BY <1>2, <1>3, <1>4 DEF TelemetryInv

LEMMA TelemetryInvAccounts == TelemetryInv => EventsAccounted
<1> SUFFICES ASSUME TelemetryInv PROVE EventsAccounted OBVIOUS
<1>1. StoreOK /\ RecorderOK /\ WrittenIsStored BY DEF TelemetryInv
<1>2. RollupsTypeOK BY <1>1, TablesTypes DEF StoreOK, JobType, RollupsTypeOK
<1>3. TelemetryTypeOK BY <1>1, <1>2 DEF RecorderOK, TelemetryTypeOK
<1>4. Accounted
  <2>1. stopping = "returned" => uncounted = 0 /\ Len(queue) = 0 /\ Len(batch) = 0
    BY <1>1 DEF RecorderOK
  <2>2. stats.accepted \in Nat /\ stats.written \in Nat /\ stats.failed \in Nat BY <1>1 DEF RecorderOK
  <2>3. stats.accepted + uncounted = stats.written + stats.failed + Len(queue) + Len(batch)
    BY <1>1 DEF RecorderOK
  <2>4. QED BY <2>1, <2>2, <2>3 DEF Accounted
<1>5. CountedOnce
  <2>1. Covered(db, recorded) BY <1>1 DEF StoreOK
  <2>2. QED BY <2>1 DEF Covered, CountedOnce, Authoritative
<1>6. QED BY <1>1, <1>3, <1>4, <1>5 DEF EventsAccounted

(* From the queue to the summaries every event counts once, for any traffic,  *)
(* any lengths of hours and days, and any interleaving of recorder, rollups,  *)
(* retention, failures and restarts.                                          *)
THEOREM EventsAreAccounted == TelemetrySpec => []EventsAccounted
<1>1. QED BY TelemetryStart, TelemetryStep, TelemetryInvAccounts, PTL DEF TelemetrySpec

LEMMA RetiredStep ==
  TelemetryInv /\ [TelemetryNext]_telemetryVars
    => [/\ db.rawBefore <= db'.rawBefore /\ db.minuteBefore <= db'.minuteBefore
        /\ db.hourBefore <= db'.hourBefore /\ db.dayBefore <= db'.dayBefore
        /\ \A m \in Minutes : db'.minuteBefore <= m /\ m < db.rawBefore => db'.minute[m] = db.minute[m]
        /\ \A h \in Hours : db'.hourBefore <= h /\ h < db.minuteBefore => db'.hour[h] = db.hour[h]
        /\ \A x \in Days : db'.dayBefore <= x /\ x < db.hourBefore => db'.day[x] = db.day[x]]_db
BY TelemetryStep DEF Onward

(* Only the retention of the job takes it from "retain" to "hours". *)
LEMMA MovesStep ==
  TelemetryInv /\ [TelemetryNext]_telemetryVars
    => [/\ job.step = "retain" /\ job'.step = "hours" /\ db'.dayBefore = db.dayBefore
        /\ \A m \in Minutes : db.rawBefore <= m
             => m \in db.dirtyMinutes \/ db.minute[m] = db.raw[m]
        => Shown(db') = Shown(db)]_<<db, job>>
<1> SUFFICES ASSUME TelemetryInv, [TelemetryNext]_telemetryVars,
                    job.step = "retain", job'.step = "hours", db'.dayBefore = db.dayBefore,
                    \A m \in Minutes : db.rawBefore <= m
                      => m \in db.dirtyMinutes \/ db.minute[m] = db.raw[m]
             PROVE  Shown(db') = Shown(db)
  OBVIOUS
<1>1. /\ StoreOK /\ TablesOK(db) /\ job \in JobType /\ keep \in Keeps
      /\ recorded \in [Minutes -> Nat]
  BY DEF TelemetryInv, StoreOK
<1>2. Commits BY <1>1, StoreMoves DEF TablesStill
<1>3. JobRetain
  BY <1>2 DEF Commits, RecordTrafficBatch, JobMinutes, JobHours, JobDays, Advance, NoJob
<1>4. db' = RetainTrafficTiers(db, Cut(keep.raw), Cut(MinuteKeep), Cut(HourKeep), Cut(DayKeep))
  BY <1>3 DEF JobRetain, Advance
<1>5. QED BY <1>1, <1>4, CutsInOrder, RetainOK

(* Retention only goes forward, rebuilds nothing that is retired, and moves   *)
(* usage between the tiers without changing what queries show.                *)
THEOREM RetentionGoesForward == TelemetrySpec => RetentionAdvances
<1>1. TelemetrySpec => RetiredForGood
  BY TelemetryStart, TelemetryStep, RetiredStep, PTL DEF TelemetrySpec, RetiredForGood
<1>2. TelemetrySpec => RetentionMoves
  BY TelemetryStart, TelemetryStep, MovesStep, PTL DEF TelemetrySpec, RetentionMoves
<1>3. QED BY <1>1, <1>2, PTL DEF RetentionAdvances
=============================================================================
