----------------------------- MODULE Scheduler ------------------------------
(* The maintenance runner and its job that refreshes sources. The runner has  *)
(* one worker and is used once: started, stopped, and joined before the store *)
(* is closed. The job lists sources in the order of their ids, page by page   *)
(* from where the last one stopped, and tries those that are due. What one    *)
(* refresh does is in module Sources; here it is recorded, after which the    *)
(* source is no longer due, or not.                                           *)
EXTENDS Naturals, FiniteSets

CONSTANTS LastSource,                \* ids are 1 .. LastSource
          PageSize, MaxPages, MaxRefreshes

ASSUME SchedulerAssumption ==
  /\ LastSource \in Nat \ {0} /\ PageSize \in Nat \ {0}
  /\ MaxPages \in Nat \ {0} /\ MaxRefreshes \in Nat \ {0}

Ids == 1 .. LastSource

VARIABLES present, due,     \* the sources in the store, those whose time has come
          runner,           \* [started, stopped]
          worker,           \* what its goroutine does
          cursor,           \* SourceJob.after, 0 for none
          round,            \* the run of the job
          storeOpen,
          tried             \* observed: the source this step tried, 0 for none

inventory     == <<present, due>>
schedulerVars == <<inventory, runner, worker, cursor, round, storeOpen, tried>>

NoRound == [after |-> 0, page |-> {}, dueThen |-> {}, full |-> FALSE, pages |-> 0, refreshes |-> 0]

SchedulerInit ==
  /\ present \in SUBSET Ids /\ due = present
  /\ runner = [started |-> FALSE, stopped |-> FALSE]
  /\ worker = "none" /\ cursor = 0 /\ round = NoRound
  /\ storeOpen = TRUE /\ tried = 0

-----------------------------------------------------------------------------
(* The runner. *)

(* Mutant: a runner that was stopped first is started all the same. *)
BugStartRunner ==
  /\ ~runner.started
  /\ runner' = [runner EXCEPT !.started = TRUE]
  /\ worker' = "waiting" /\ tried' = 0
  /\ UNCHANGED <<inventory, cursor, round, storeOpen>>

StartRunner ==
  /\ ~runner.started /\ ~runner.stopped
  /\ runner' = [runner EXCEPT !.started = TRUE]
  /\ worker' = "waiting" /\ tried' = 0
  /\ UNCHANGED <<inventory, cursor, round, storeOpen>>

StopRunner ==
  /\ ~runner.stopped
  /\ runner' = [runner EXCEPT !.stopped = TRUE] /\ tried' = 0
  /\ UNCHANGED <<inventory, worker, cursor, round, storeOpen>>

(* Stop returns when the worker has ended; only then is the store closed.     *)
CloseStore ==
  /\ runner.stopped /\ worker \in {"none", "ended"} /\ storeOpen
  /\ storeOpen' = FALSE /\ tried' = 0
  /\ UNCHANGED <<inventory, runner, worker, cursor, round>>

(* A run of the jobs, at once and then with every tick of the interval.       *)
BeginJob ==
  /\ worker = "waiting" /\ ~runner.stopped
  /\ worker' = "listing" /\ round' = [NoRound EXCEPT !.after = cursor] /\ tried' = 0
  /\ UNCHANGED <<inventory, runner, cursor, storeOpen>>

EndWorker ==
  /\ worker = "waiting" /\ runner.stopped
  /\ worker' = "ended" /\ tried' = 0
  /\ UNCHANGED <<inventory, runner, cursor, round, storeOpen>>

-----------------------------------------------------------------------------
(* SourceJob.Run. *)

Beyond(after) == {i \in present : i > after}
Page(after)   == {i \in Beyond(after) : Cardinality({k \in Beyond(after) : k < i}) < PageSize}

EndRound == worker' = "waiting" /\ round' = NoRound

ListPage ==
  /\ worker = "listing" /\ tried' = 0
  /\ LET page == Page(round.after)
     IN  IF page = {}
         THEN cursor' = 0 /\ EndRound
         ELSE /\ worker' = "visiting"
              /\ round' = [round EXCEPT !.page = page, !.dueThen = due, !.pages = @ + 1,
                                    !.full = Cardinality(page) = PageSize]
              /\ UNCHANGED cursor
  /\ UNCHANGED <<inventory, runner, storeOpen>>

(* The list cannot be read, or the context ends: by its timeout or by Stop.   *)
GiveUp ==
  /\ worker \in {"listing", "visiting"} /\ tried' = 0
  /\ EndRound
  /\ UNCHANGED <<inventory, runner, cursor, storeOpen>>

(* The next record of the page. The refresh of one that was due when it was   *)
(* listed is recorded, or meets a conflict, another refresh, or a deletion.   *)
(* Mutant: the pass starts over after the last refresh it may make. *)
BugVisit(i) ==
  /\ worker = "visiting" /\ i \in round.page /\ \A k \in round.page : i <= k
  /\ tried' = IF i \in round.dueThen THEN i ELSE 0
  /\ due' \in IF i \in round.dueThen THEN {due, due \ {i}} ELSE {due}
  /\ IF i \in round.dueThen /\ round.refreshes + 1 >= MaxRefreshes
     THEN EndRound /\ cursor' = 0
     ELSE /\ round' = [round EXCEPT !.page = @ \ {i}, !.after = i,
                                !.refreshes = @ + IF i \in round.dueThen THEN 1 ELSE 0]
          /\ cursor' = i
          /\ UNCHANGED worker
  /\ UNCHANGED <<present, runner, storeOpen>>

Visit(i) ==
  /\ worker = "visiting" /\ i \in round.page /\ \A k \in round.page : i <= k
  /\ tried' = IF i \in round.dueThen THEN i ELSE 0
  /\ due' \in IF i \in round.dueThen THEN {due, due \ {i}} ELSE {due}
  /\ cursor' = i
  /\ IF i \in round.dueThen /\ round.refreshes + 1 >= MaxRefreshes
     THEN EndRound
     ELSE /\ round' = [round EXCEPT !.page = @ \ {i}, !.after = i,
                                !.refreshes = @ + IF i \in round.dueThen THEN 1 ELSE 0]
          /\ UNCHANGED worker
  /\ UNCHANGED <<present, runner, storeOpen>>

(* A short page was the last; otherwise the next page, if one more is allowed. *)
EndPage ==
  /\ worker = "visiting" /\ round.page = {} /\ tried' = 0
  /\ cursor' = IF round.full THEN cursor ELSE 0
  /\ IF round.full /\ round.pages < MaxPages
     THEN worker' = "listing" /\ UNCHANGED round
     ELSE EndRound
  /\ UNCHANGED <<inventory, runner, storeOpen>>

-----------------------------------------------------------------------------
(* The operator and the clock. *)

AddSource(i) ==
  /\ i \notin present
  /\ present' = present \cup {i} /\ due' = due \cup {i} /\ tried' = 0
  /\ UNCHANGED <<runner, worker, cursor, round, storeOpen>>

DropSource(i) ==
  /\ i \in present
  /\ present' = present \ {i} /\ due' = due \ {i} /\ tried' = 0
  /\ UNCHANGED <<runner, worker, cursor, round, storeOpen>>

ComesDue(i) ==
  /\ i \in present \ due
  /\ due' = due \cup {i} /\ tried' = 0
  /\ UNCHANGED <<present, runner, worker, cursor, round, storeOpen>>

RefreshedByHand(i) ==
  /\ i \in due
  /\ due' = due \ {i} /\ tried' = 0
  /\ UNCHANGED <<present, runner, worker, cursor, round, storeOpen>>

VisitNext == \E i \in Ids : Visit(i)

SchedulerNext ==
  \/ StartRunner \/ StopRunner \/ CloseStore \/ BeginJob \/ EndWorker
  \/ ListPage \/ GiveUp \/ VisitNext \/ EndPage
  \/ \E i \in Ids : AddSource(i) \/ DropSource(i) \/ ComesDue(i) \/ RefreshedByHand(i)

(* The goroutine runs on and its ticker ticks; a pass may end early again and *)
(* again, but of the pages it asks for and the records it reaches some are    *)
(* read and tried: a refresh has twenty seconds, a run of the job thirty.     *)
SchedulerFairness ==
  /\ WF_schedulerVars(StartRunner) /\ WF_schedulerVars(BeginJob) /\ WF_schedulerVars(EndWorker)
  /\ WF_schedulerVars(EndPage)
  /\ SF_schedulerVars(ListPage) /\ SF_schedulerVars(VisitNext)

SchedulerSpec == SchedulerInit /\ [][SchedulerNext]_schedulerVars /\ SchedulerFairness

-----------------------------------------------------------------------------
(* Once Stop has returned and the store is closed, no job runs and none will: *)
(* also when Stop came before Start, or while the worker was starting a pass. *)
QuietAfterStop == ~storeOpen => worker \in {"none", "ended"}

(* No source starves: one that stays in the store and due is tried again and  *)
(* again, however many others are due before it in every window, whatever is  *)
(* added or deleted under the cursor, until the runner is stopped.            *)
NoSourceStarves ==
  \A i \in Ids : []<>(tried = i \/ i \notin due \/ runner.stopped)
=============================================================================
