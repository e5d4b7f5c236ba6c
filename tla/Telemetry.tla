----------------------------- MODULE Telemetry ------------------------------
(* The recorder that keeps the store off the request path. A request puts its *)
(* event in a bounded queue or drops it (a counter left out here, as are the  *)
(* checks of the event itself); one worker collects batches                   *)
(* and writes each as one transaction (module Rollups), never twice. A stop   *)
(* refuses new events, drains the queue and joins the worker. A crash loses   *)
(* what is in memory.                                                         *)
EXTENDS Rollups

CONSTANTS Capacity, BatchSize,
          MaxEvents                  \* bound: events accepted over all processes

ASSUME TelemetryAssumption ==
  Capacity \in Nat \ {0} /\ BatchSize \in 1 .. Capacity /\ MaxEvents \in Nat

VARIABLES queue, batch,   \* events, each its minute
          writer,         \* "select", "collect", "write", "drain", "done"
          stopping,       \* "no", "refusing" (stopped set), "signalled", "returned"
          uncounted,      \* callers between the send to the queue and the count
          stats,          \* accepted, written, failed
          lost            \* observed: events accepted or written by earlier processes

asyncVars     == <<queue, batch, writer, stopping, uncounted, stats, lost>>
telemetryVars == <<rollupVars, asyncVars>>

NoStats == [accepted |-> 0, written |-> 0, failed |-> 0]

AsyncInit ==
  /\ queue = <<>> /\ batch = <<>> /\ writer = "select"   \* Start, at boot
  /\ stopping = "no" /\ uncounted = 0 /\ stats = NoStats
  /\ lost = [accepted |-> 0, written |-> 0]

-----------------------------------------------------------------------------
(* Callers. They hold the read lock from the check to the count. *)

(* Mutant: an event is sent without looking whether the recorder stopped. *)
BugRecord(m) ==
  /\ lost.accepted + stats.accepted + uncounted < MaxEvents
  /\ Len(queue) < Capacity
  /\ queue' = Append(queue, m) /\ uncounted' = uncounted + 1
  /\ UNCHANGED <<rollupVars, batch, writer, stopping, stats, lost>>

Record(m) ==
  /\ stopping = "no"
  /\ lost.accepted + stats.accepted + uncounted < MaxEvents
  /\ Len(queue) < Capacity
  /\ queue' = Append(queue, m) /\ uncounted' = uncounted + 1
  /\ UNCHANGED <<rollupVars, batch, writer, stopping, stats, lost>>

(* Mutant: an event that was dropped is counted as accepted. *)
BugCounts ==
  /\ uncounted' = uncounted - 1 /\ stats' = [stats EXCEPT !.accepted = @ + 1]
  /\ UNCHANGED <<rollupVars, queue, batch, writer, stopping, lost>>

Counts ==
  /\ uncounted > 0
  /\ uncounted' = uncounted - 1 /\ stats' = [stats EXCEPT !.accepted = @ + 1]
  /\ UNCHANGED <<rollupVars, queue, batch, writer, stopping, lost>>

-----------------------------------------------------------------------------
(* Stop: the write lock, the signal, the join. *)

StopRefuses ==
  /\ stopping = "no" /\ uncounted = 0
  /\ stopping' = "refusing"
  /\ UNCHANGED <<rollupVars, queue, batch, writer, uncounted, stats, lost>>

StopSignals ==
  /\ stopping = "refusing" /\ stopping' = "signalled"
  /\ UNCHANGED <<rollupVars, queue, batch, writer, uncounted, stats, lost>>

StopReturns ==
  /\ stopping = "signalled" /\ writer = "done"
  /\ stopping' = "returned"
  /\ UNCHANGED <<rollupVars, queue, batch, writer, uncounted, stats, lost>>

-----------------------------------------------------------------------------
(* The worker. *)

Take ==
  /\ writer \in {"select", "collect", "drain"} /\ queue # <<>>
  /\ writer = "drain" \/ Len(batch) < BatchSize
  /\ batch' = Append(batch, Head(queue)) /\ queue' = Tail(queue)
  /\ writer' = IF writer = "select" THEN "collect" ELSE writer
  /\ UNCHANGED <<rollupVars, stopping, uncounted, stats, lost>>

(* The batch is full or the queue was found empty, once. *)
Collect ==
  /\ writer = "collect" /\ (Len(batch) = BatchSize \/ queue = <<>>)
  /\ writer' = "write"
  /\ UNCHANGED <<rollupVars, queue, batch, stopping, uncounted, stats, lost>>

Collected ==
  \/ writer = "write"
  \/ writer = "drain" /\ batch # <<>> /\ queue = <<>>

Wrote(count) ==
  /\ stats' = [stats EXCEPT ![count] = @ + Len(batch)]
  /\ batch' = <<>> /\ writer' = IF writer = "write" THEN "select" ELSE "drain"
  /\ UNCHANGED <<queue, stopping, uncounted, lost>>

Write == Collected /\ RecordTrafficBatch(batch) /\ Wrote("written")

(* The store refuses the batch, or fails or times out. *)
WriteFails == Collected /\ Wrote("failed") /\ UNCHANGED rollupVars

(* Mutant: the signal is looked at only when an event comes. *)
BugWaits ==
  /\ writer = "select" /\ stopping \in {"signalled", "returned"} /\ queue # <<>>
  /\ writer' = "drain"
  /\ UNCHANGED <<rollupVars, queue, batch, stopping, uncounted, stats, lost>>

Drain ==
  /\ writer = "select" /\ stopping \in {"signalled", "returned"}
  /\ writer' = "drain"
  /\ UNCHANGED <<rollupVars, queue, batch, stopping, uncounted, stats, lost>>

Done ==
  /\ writer = "drain" /\ queue = <<>> /\ batch = <<>>
  /\ writer' = "done"
  /\ UNCHANGED <<rollupVars, queue, batch, stopping, uncounted, stats, lost>>

(* The process ends, in order or not, and another one starts. *)
Restart ==
  /\ RestartJob
  /\ queue' = <<>> /\ batch' = <<>> /\ writer' = "select"
  /\ stopping' = "no" /\ uncounted' = 0 /\ stats' = NoStats
  /\ lost' = [accepted |-> lost.accepted + stats.accepted + uncounted,
              written |-> lost.written + stats.written]

AsyncNext ==
  \/ \E m \in EventTimes : Record(m)
  \/ Counts
  \/ StopRefuses \/ StopSignals \/ StopReturns
  \/ Take \/ Collect \/ Write \/ WriteFails \/ Drain \/ Done \/ Restart

TelemetryInit == RollupsInit /\ AsyncInit
TelemetryNext == AsyncNext \/ (JobNext /\ UNCHANGED asyncVars)

TelemetryFairness ==
  /\ WF_telemetryVars(StopSignals \/ StopReturns)
  /\ WF_telemetryVars(Counts)
  /\ WF_telemetryVars(Take \/ Collect \/ Write \/ WriteFails \/ Drain \/ Done)

TelemetrySpec == TelemetryInit /\ [][TelemetryNext]_telemetryVars /\ TelemetryFairness

-----------------------------------------------------------------------------
(* What is promised. *)

TelemetryTypeOK ==
  /\ RollupsTypeOK
  /\ queue \in Seq(Minutes) /\ Len(queue) <= Capacity /\ batch \in Seq(Minutes)
  /\ writer \in {"select", "collect", "write", "drain", "done"}
  /\ stopping \in {"no", "refusing", "signalled", "returned"} /\ uncounted \in Nat
  /\ stats \in [accepted : Nat, written : Nat, failed : Nat]

(* Every event let in is written, failed, queued or in the worker's batch,    *)
(* once; and when Stop has returned it is written or failed: no event raced   *)
(* in behind the drain (Async.Record, Stop, run).                             *)
Accounted ==
  /\ stats.accepted + uncounted = stats.written + stats.failed + Len(queue) + Len(batch)
  /\ stopping = "returned" => stats.accepted = stats.written + stats.failed

(* What is counted written is in the database, whole batches at a time, and   *)
(* nothing else is.                                                           *)
WrittenIsStored == Sum(recorded, 0, LastMinute + 1) = lost.written + stats.written

(* Stop returns, unless the process ends first. *)
StopEnds == stopping = "refusing" ~> stopping \in {"returned", "no"}

(* From the queue to the summaries every event counts once: in the statistics *)
(* of the recorder, in the raw table, and in what a query shows.              *)
EventsAccounted == TelemetryTypeOK /\ Accounted /\ WrittenIsStored /\ CountedOnce
=============================================================================
