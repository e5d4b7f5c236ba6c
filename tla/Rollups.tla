------------------------------ MODULE Rollups -------------------------------
(* Stored usage in four tiers: raw events, and rows per minute, hour and day. *)
(* A trigger of the schema marks the minute of an inserted event dirty, and   *)
(* the hour (the day) of an inserted or deleted minute (hour) row; a rollup   *)
(* rebuilds the dirty buckets from the finer tier. Retention moves four       *)
(* watermarks: below one, a tier's rows have been replaced by coarser ones.   *)
(* An event is one count at its minute, its bytes, cost and dimensions are    *)
(* sums of the same kind. The job runs rollups and retention as four          *)
(* transactions, between which events keep arriving.                          *)
EXTENDS Naturals, FiniteSets, Sequences, Sums

CONSTANTS HourLength, DayLength,     \* in minutes
          LastMinute,                \* times are 0 .. LastMinute
          EventTimes, JobTimes,      \* bound: the minutes of events, the clocks of runs
          Keeps                      \* settings: [raw, minute, hour, day], how long each tier is kept

ASSUME RollupsAssumption ==
  /\ HourLength \in Nat \ {0} /\ DayLength \in Nat \ {0} /\ DayLength % HourLength = 0
  /\ LastMinute \in Nat /\ EventTimes \subseteq 0 .. LastMinute /\ JobTimes \subseteq 0 .. LastMinute
  /\ Keeps \subseteq [raw : Nat \ {0}, minute : Nat, hour : Nat, day : Nat]

Minutes == 0 .. LastMinute
Hours   == {m \in Minutes : m % HourLength = 0}
Days    == {m \in Minutes : m % DayLength = 0}

VARIABLES db,        \* the tables: raw, minute, hour, day; dirty marks; watermarks
          recorded,  \* observed: every event a committed batch held
          keep,      \* the retention setting of this process
          job        \* the run of TrafficJob: [step, now]

rollupVars == <<db, recorded, keep, job>>

Trunc(m, width) == (m \div width) * width
Later(a, b) == IF a > b THEN a ELSE b
Sooner(a, b) == IF a < b THEN a ELSE b
Sum(rows, from, until) == Total(rows, {m \in DOMAIN rows : from <= m /\ m < until})

Empty(buckets) == [b \in buckets |-> 0]

NoJob == [step |-> "idle", now |-> 0]

RollupsInit ==
  /\ db = [raw |-> Empty(Minutes), minute |-> Empty(Minutes),
           hour |-> Empty(Hours), day |-> Empty(Days),
           dirtyMinutes |-> {}, dirtyHours |-> {}, dirtyDays |-> {},
           rawBefore |-> 0, minuteBefore |-> 0, hourBefore |-> 0, dayBefore |-> 0]
  /\ recorded = Empty(Minutes)
  /\ keep \in Keeps
  /\ job = NoJob

-----------------------------------------------------------------------------
(* What the statements of a transaction do to the tables. *)

(* Mutant: a rebuilt row is added to the old one. *)
BugRebuilt(coarse, fine, redo, width) ==
  [b \in DOMAIN coarse |-> IF b \in redo THEN coarse[b] + Sum(fine, b, b + width) ELSE coarse[b]]

(* The rows of redo are deleted and built again from the finer tier. *)
Rebuilt(coarse, fine, redo, width) ==
  [b \in DOMAIN coarse |-> IF b \in redo THEN Sum(fine, b, b + width) ELSE coarse[b]]

(* The coarser buckets that the triggers mark when before becomes after in redo. *)
Marks(before, after, redo, width) ==
  {Trunc(b, width) : b \in {x \in redo : before[x] > 0 \/ after[x] > 0}}

WithMinutes(d, rows, redo) ==
  [d EXCEPT !.minute = rows, !.dirtyHours = @ \cup Marks(d.minute, rows, redo, HourLength)]
WithHours(d, rows, redo) ==
  [d EXCEPT !.hour = rows, !.dirtyDays = @ \cup Marks(d.hour, rows, redo, DayLength)]

RollupMinute(d, from, until) ==
  LET redo == {m \in d.dirtyMinutes : Later(from, d.rawBefore) <= m /\ m < until}
  IN  [WithMinutes(d, Rebuilt(d.minute, d.raw, redo, 1), redo) EXCEPT !.dirtyMinutes = @ \ redo]

RollupHour(d, until) ==
  LET redo == {h \in d.dirtyHours : h < until}
  IN  [WithHours(d, Rebuilt(d.hour, d.minute, redo, HourLength), redo) EXCEPT !.dirtyHours = @ \ redo]

RollupDay(d, until) ==
  LET redo == {x \in d.dirtyDays : x < until}
  IN  [d EXCEPT !.day = Rebuilt(@, d.hour, redo, DayLength), !.dirtyDays = @ \ redo]

CompactHour(d, from, until) ==
  LET redo == {h \in Hours : from <= h /\ h < until}
  IN  WithHours(d, Rebuilt(d.hour, d.minute, redo, HourLength), redo)

CompactDay(d, from, until) ==
  [d EXCEPT !.day = Rebuilt(@, d.hour, {x \in Days : from <= x /\ x < until}, DayLength)]

Within(rows, from, until) == [b \in DOMAIN rows |-> IF from <= b /\ b < until THEN rows[b] ELSE 0]
In(buckets, from, until)  == {b \in buckets : from <= b /\ b < until}

(* One transaction of retention, up to the cuts asked for. The rows it keeps  *)
(* are not touched, so the triggers mark only what stood above the deleted.   *)
RetireRaw(d, cut) ==
  LET raw == Later(d.rawBefore, cut)
  IN  [RollupMinute(d, d.rawBefore, raw) EXCEPT
         !.raw = Within(@, raw, LastMinute + 1), !.rawBefore = raw]

(* Mutant: marks of retired hours stay, and a rollup rebuilds them from nothing. *)
BugRetireMinutes(d, cut) ==
  LET minute == Sooner(Later(d.minuteBefore, cut), d.rawBefore)
      compacted == CompactHour(d, d.minuteBefore, minute)
      rows == Within(d.minute, minute, d.rawBefore)
  IN  [WithMinutes(compacted, rows, Minutes \ In(Minutes, minute, d.rawBefore)) EXCEPT
         !.minuteBefore = minute]

RetireMinutes(d, cut) ==
  LET minute == Sooner(Later(d.minuteBefore, cut), d.rawBefore)
      compacted == CompactHour(d, d.minuteBefore, minute)
      rows == Within(d.minute, minute, d.rawBefore)
  IN  [WithMinutes(compacted, rows, Minutes \ In(Minutes, minute, d.rawBefore)) EXCEPT
         !.minuteBefore = minute, !.dirtyHours = In(@, minute, d.rawBefore)]

(* Mutant: days are compacted from what is left of the hours. *)
BugRetireHours(d, cut) ==
  LET hour == Sooner(Later(d.hourBefore, cut), d.minuteBefore)
      rows == Within(d.hour, hour, d.minuteBefore)
      kept == WithHours(d, rows, Hours \ In(Hours, hour, d.minuteBefore))
  IN  [CompactDay(kept, d.hourBefore, hour) EXCEPT
         !.dirtyDays = In(@, hour, d.minuteBefore), !.hourBefore = hour]

RetireHours(d, cut) ==
  LET hour == Sooner(Later(d.hourBefore, cut), d.minuteBefore)
      compacted == CompactDay(d, d.hourBefore, hour)
      rows == Within(d.hour, hour, d.minuteBefore)
  IN  [WithHours(compacted, rows, Hours \ In(Hours, hour, d.minuteBefore)) EXCEPT
         !.dirtyDays = In(@, hour, d.minuteBefore), !.hourBefore = hour]

RetireDays(d, cut) ==
  LET day == Sooner(Later(d.dayBefore, cut), d.hourBefore)
  IN  [d EXCEPT !.day = Within(@, day, d.hourBefore), !.dayBefore = day]

RetainTrafficTiers(d, rawCut, minuteCut, hourCut, dayCut) ==
  RetireDays(RetireHours(RetireMinutes(RetireRaw(d, rawCut),
                                       Trunc(minuteCut, HourLength)),
                         Trunc(hourCut, DayLength)),
             Trunc(dayCut, DayLength))

-----------------------------------------------------------------------------
(* Events, written as one transaction; one below the watermark fails it. *)

Storable(events) == \A i \in DOMAIN events : events[i] >= db.rawBefore

Counted(rows, events) ==
  [m \in Minutes |-> rows[m] + Cardinality({i \in DOMAIN events : events[i] = m})]

(* Mutant: without the transaction, events below the watermark are left out. *)
BugRecordTrafficBatch(events) ==
  LET kept == SelectSeq(events, LAMBDA m : m >= db.rawBefore) IN
  /\ db' = [db EXCEPT !.raw = Counted(@, kept),
                      !.dirtyMinutes = @ \cup {kept[i] : i \in DOMAIN kept}]
  /\ recorded' = Counted(recorded, kept)
  /\ UNCHANGED <<keep, job>>

RecordTrafficBatch(events) ==
  /\ Storable(events)
  /\ db' = [db EXCEPT !.raw = Counted(@, events),
                      !.dirtyMinutes = @ \cup {events[i] : i \in DOMAIN events}]
  /\ recorded' = Counted(recorded, events)
  /\ UNCHANGED <<keep, job>>

-----------------------------------------------------------------------------
(* The job. Its clock is the wall clock, which may be set back. *)

StartJob(now) ==
  /\ job.step = "idle"
  /\ job' = [step |-> "minutes", now |-> now]
  /\ UNCHANGED <<db, recorded, keep>>

Advance(step, d) ==
  /\ db' = d /\ job' = [job EXCEPT !.step = step]
  /\ UNCHANGED <<recorded, keep>>

JobMinutes == job.step = "minutes" /\ Advance("retain", RollupMinute(db, 0, job.now))

(* Each tier is kept at least as long as the finer one. *)
Cut(age) == IF job.now > age THEN job.now - age ELSE 0
MinuteKeep == Later(keep.minute, keep.raw)
HourKeep   == Later(keep.hour, MinuteKeep)
DayKeep    == Later(keep.day, HourKeep)

JobRetain ==
  /\ job.step = "retain"
  /\ Advance("hours", RetainTrafficTiers(db, Cut(keep.raw), Cut(MinuteKeep), Cut(HourKeep), Cut(DayKeep)))

JobHours == job.step = "hours" /\ Advance("days", RollupHour(db, Trunc(job.now, HourLength)))
JobDays  ==
  /\ job.step = "days"
  /\ db' = RollupDay(db, Trunc(job.now, DayLength)) /\ job' = NoJob
  /\ UNCHANGED <<recorded, keep>>

(* A step that fails has changed nothing, and ends the run. *)
JobFails ==
  /\ job.step # "idle" /\ job' = NoJob
  /\ UNCHANGED <<db, recorded, keep>>

(* The process ends, wherever its job is, and starts with a setting. *)
RestartJob ==
  /\ keep' \in Keeps /\ job' = NoJob
  /\ UNCHANGED <<db, recorded>>

JobNext ==
  \/ \E now \in JobTimes : StartJob(now)
  \/ JobMinutes \/ JobRetain \/ JobHours \/ JobDays \/ JobFails

-----------------------------------------------------------------------------
(* What is promised. *)

RollupsTypeOK ==
  /\ db.raw \in [Minutes -> Nat] /\ db.minute \in [Minutes -> Nat]
  /\ db.hour \in [Hours -> Nat] /\ db.day \in [Days -> Nat]
  /\ db.dirtyMinutes \subseteq Minutes /\ db.dirtyHours \subseteq Hours /\ db.dirtyDays \subseteq Days
  /\ db.rawBefore \in Minutes /\ db.minuteBefore \in Hours
  /\ db.hourBefore \in Days /\ db.dayBefore \in Days
  /\ db.dayBefore <= db.hourBefore /\ db.hourBefore <= db.minuteBefore
  /\ db.minuteBefore <= db.rawBefore
  /\ job.step \in {"idle", "minutes", "retain", "hours", "days"} /\ job.now \in Minutes

(* The queries read raw events from their watermark on, and each coarser tier *)
(* between its own watermark and the finer tier's (canonicalTraffic).         *)
Authoritative(read(_, _)) ==
  /\ \A m \in Minutes : db.rawBefore <= m => read(db.raw[m], recorded[m])
  /\ \A m \in Minutes : db.minuteBefore <= m /\ m < db.rawBefore => read(db.minute[m], recorded[m])
  /\ \A h \in Hours : db.hourBefore <= h /\ h < db.minuteBefore
       => read(db.hour[h], Sum(recorded, h, h + HourLength))
  /\ \A x \in Days : db.dayBefore <= x /\ x < db.hourBefore
       => read(db.day[x], Sum(recorded, x, x + DayLength))

(* No query counts an event twice, however rollups, late events, failed steps *)
(* and restarts interleave (RetainTrafficTiers with the four rollups).        *)
CountedOnce == Authoritative(LAMBDA shown, real : shown <= real)

(* "Rows are neither omitted nor counted twice as retention advances": what a *)
(* query shows of a bucket is what was recorded in it.                        *)
SummaryExact == Authoritative(LAMBDA shown, real : shown = real)

Shown(d) ==
  Sum(d.raw, d.rawBefore, LastMinute + 1) + Sum(d.minute, d.minuteBefore, d.rawBefore)
    + Sum(d.hour, d.hourBefore, d.minuteBefore) + Sum(d.day, d.dayBefore, d.hourBefore)

(* Retention moves usage from tier to tier and loses none of it but the days  *)
(* it retires, provided each minute it is about to retire still has its mark  *)
(* or its row: what SummaryExact lacks is that proviso, which a rollup and an *)
(* earlier retention break between them.                                      *)
RetentionMoves ==
  [][/\ job.step = "retain" /\ job'.step = "hours" /\ db'.dayBefore = db.dayBefore
     /\ \A m \in Minutes : db.rawBefore <= m
          => m \in db.dirtyMinutes \/ db.minute[m] = db.raw[m]
     => Shown(db') = Shown(db)]_<<db, job>>

(* A watermark never moves back, and a row that queries read and whose finer  *)
(* rows are gone is not rebuilt, whatever the clock and the settings do.      *)
RetiredForGood ==
  [][/\ db.rawBefore <= db'.rawBefore /\ db.minuteBefore <= db'.minuteBefore
     /\ db.hourBefore <= db'.hourBefore /\ db.dayBefore <= db'.dayBefore
     /\ \A m \in Minutes : db'.minuteBefore <= m /\ m < db.rawBefore => db'.minute[m] = db.minute[m]
     /\ \A h \in Hours : db'.hourBefore <= h /\ h < db.minuteBefore => db'.hour[h] = db.hour[h]
     /\ \A x \in Days : db'.dayBefore <= x /\ x < db.hourBefore => db'.day[x] = db.day[x]]_db

(* Retention only goes forward, and moves usage without changing it.          *)
RetentionAdvances == RetiredForGood /\ RetentionMoves
=============================================================================
