------------------------------ MODULE Alerts --------------------------------
(* The alert dispatcher. One goroutine carries events from the bus to a       *)
(* queue, one looks up the rules and the webhooks and queues a task for every *)
(* webhook an event selects, and workers deliver the tasks with retries,      *)
(* logging every attempt. No queue blocks: what does not fit is counted       *)
(* dropped. Rules and webhooks are edited meanwhile by the admin API. A stop  *)
(* cancels the goroutines and joins them, leaving the queues as they are.     *)
(* Whether a webhook's address or answer is accepted is an outcome of Send.   *)
EXTENDS Events

CONSTANTS Dispatcher,             \* the listener that is the dispatcher
          Hooks, Rules,
          Workers,
          QueueCapacity, MaxAttempts,
          MaxEdits                \* bound

ASSUME AlertsAssumption ==
  /\ Dispatcher \in Listeners /\ IsFiniteSet(Workers)
  /\ QueueCapacity \in Nat \ {0} /\ MaxAttempts \in Nat \ {0} /\ MaxEdits \in Nat

VARIABLES hooks,        \* [Hooks -> {"absent", "off", "on"}]
          rules,        \* [Rules -> [on, hooks]], no hooks: no rule
          log,          \* rows of webhook_deliveries: [hook, event, attempt, ok]
          edits,
          carrier,      \* the subscribe goroutine: "top", "range", "wait", "done"
          pending,      \* d.events
          router,       \* [step, event, selected]
          deliveries,   \* d.deliveries: tasks [hook, event]
          works,        \* [Workers -> [step, hook, event, attempt, result]]
          stop,         \* "no", "cancelled", "joined"
          counts,       \* the statistics
          missed, handled,  \* observed: events the dispatcher had no stream for, events routed
          sent          \* observed: the tasks a receiver answered with success, those of
                        \* which the dispatcher saw it, and whether one of these was sent again

configVars     == <<hooks, rules, log, edits>>
dispatcherVars == <<carrier, pending, router, deliveries, works, stop, counts, missed, handled, sent>>
alertVars      == <<busVars, configVars, dispatcherVars>>

Idle == [step |-> "idle", hook |-> "", event |-> 0, attempt |-> 0, result |-> ""]
NoRoute == [step |-> "idle", event |-> 0, selected |-> {}]

AlertsInit ==
  /\ EventsInit
  /\ hooks = [h \in Hooks |-> "on"] /\ log = {} /\ edits = 0
  /\ rules = [r \in Rules |-> [on |-> TRUE, hooks |-> Hooks]]
  /\ carrier = "top" /\ pending = <<>> /\ router = NoRoute /\ deliveries = <<>>
  /\ works = [w \in Workers |-> Idle]
  /\ stop = "no"
  /\ counts = [eventDrop |-> 0, taskDrop |-> 0, succeeded |-> 0, failed |-> 0]
  /\ missed = 0 /\ handled = [events |-> 0, tasks |-> 0]
  /\ sent = [answered |-> {}, seen |-> {}, again |-> FALSE]

Cancelled == stop # "no"

-----------------------------------------------------------------------------
(* The admin API, one edit at a time under routingMu. *)

Edit ==
  /\ edits < MaxEdits /\ edits' = edits + 1
  /\ UNCHANGED <<busVars, dispatcherVars>>

PutWebhook(h) ==
  /\ Edit
  /\ \E state \in {"off", "on"} : state # hooks[h] /\ hooks' = [hooks EXCEPT ![h] = state]
  /\ UNCHANGED <<rules, log>>

Resolves(selected) == \A h \in selected : hooks[h] # "absent"

PutAlertRule(r) ==
  /\ Edit
  /\ \E on \in BOOLEAN, selected \in SUBSET Hooks \ {{}} :
       /\ Resolves(selected)
       /\ rules' = [rules EXCEPT ![r] = [on |-> on, hooks |-> selected]]
  /\ UNCHANGED <<hooks, log>>

DeleteAlertRule(r) ==
  /\ Edit /\ rules[r].hooks # {}
  /\ rules' = [rules EXCEPT ![r] = [on |-> TRUE, hooks |-> {}]]
  /\ UNCHANGED <<hooks, log>>

(* Mutant: the rules are not looked through. *)
BugDeleteWebhook(h) ==
  /\ Edit /\ hooks[h] # "absent"
  /\ hooks' = [hooks EXCEPT ![h] = "absent"]
  /\ log' = {row \in log : row.hook # h}
  /\ UNCHANGED rules

(* Its deliveries go with it. *)
DeleteWebhook(h) ==
  /\ Edit /\ hooks[h] # "absent"
  /\ \A r \in Rules : h \notin rules[r].hooks
  /\ hooks' = [hooks EXCEPT ![h] = "absent"]
  /\ log' = {row \in log : row.hook # h}
  /\ UNCHANGED rules

-----------------------------------------------------------------------------
(* From the bus to the queue. *)

PublishEvent ==
  /\ Publish
  /\ missed' = IF streams'[Dispatcher].state = "open" THEN missed ELSE missed + 1
  /\ UNCHANGED <<configVars, carrier, pending, router, deliveries, works, stop, counts, handled, sent>>

CarrierKeeps == UNCHANGED <<configVars, router, deliveries, works, stop, missed, handled, sent>>

Attach ==
  /\ carrier = "top" /\ ~Cancelled
  /\ \/ Subscribe(Dispatcher) /\ carrier' = "range"
     \/ ~MaySubscribe /\ carrier' = "wait" /\ UNCHANGED busVars
  /\ UNCHANGED <<pending, counts>> /\ CarrierKeeps

AttachAgain ==
  /\ carrier = "wait"
  /\ carrier' \in IF Cancelled THEN {"top", "done"} ELSE {"top"}
  /\ UNCHANGED <<busVars, pending, counts>> /\ CarrierKeeps

Carry ==
  /\ carrier = "range" /\ Receive(Dispatcher)
  /\ LET e == Head(streams[Dispatcher].buffer) IN
       IF Len(pending) < QueueCapacity
       THEN pending' = Append(pending, e) /\ UNCHANGED counts
       ELSE counts' = [counts EXCEPT !.eventDrop = @ + 1] /\ UNCHANGED pending
  /\ UNCHANGED carrier /\ CarrierKeeps

Detached ==
  /\ carrier = "range" /\ EndOfStream(Dispatcher) /\ carrier' = "top"
  /\ UNCHANGED <<pending, counts>> /\ CarrierKeeps

CarrierEnds ==
  /\ carrier = "top" /\ Cancelled /\ carrier' = "done"
  /\ UNCHANGED <<busVars, pending, counts>> /\ CarrierKeeps

-----------------------------------------------------------------------------
(* From the queue to tasks. Rules and webhooks are two reads. *)

RouterKeeps == UNCHANGED <<busVars, configVars, carrier, works, stop, missed, sent>>

TakeEvent ==
  /\ router.step = "idle" /\ pending # <<>>
  /\ router' = [step |-> "rules", event |-> Head(pending), selected |-> {}]
  /\ pending' = Tail(pending)
  /\ UNCHANGED <<deliveries, counts, handled>> /\ RouterKeeps

ReadRules ==
  /\ router.step = "rules"
  /\ router' = [router EXCEPT !.step = "hooks",
                  !.selected = UNION {rules[r].hooks : r \in {x \in Rules : rules[x].on}}]
  /\ UNCHANGED <<pending, deliveries, counts, handled>> /\ RouterKeeps

ReadHooks ==
  /\ router.step = "hooks"
  /\ router' = [router EXCEPT !.step = "send", !.selected = {h \in @ : hooks[h] = "on"}]
  /\ UNCHANGED <<pending, deliveries, counts, handled>> /\ RouterKeeps

(* Mutant: a failed lookup forgets the event without counting it. *)
BugLookupFails ==
  /\ router.step \in {"rules", "hooks"}
  /\ router' = NoRoute
  /\ UNCHANGED <<pending, deliveries, counts, handled>> /\ RouterKeeps

LookupFails ==
  /\ router.step \in {"rules", "hooks"}
  /\ router' = NoRoute /\ counts' = [counts EXCEPT !.eventDrop = @ + 1]
  /\ UNCHANGED <<pending, deliveries, handled>> /\ RouterKeeps

QueueTask ==
  /\ router.step = "send"
  /\ \E h \in router.selected :
       /\ router' = [router EXCEPT !.selected = @ \ {h}]
       /\ IF Len(deliveries) < QueueCapacity
          THEN /\ deliveries' = Append(deliveries, [hook |-> h, event |-> router.event])
               /\ handled' = [handled EXCEPT !.tasks = @ + 1] /\ UNCHANGED counts
          ELSE counts' = [counts EXCEPT !.taskDrop = @ + 1] /\ UNCHANGED <<deliveries, handled>>
  /\ UNCHANGED pending /\ RouterKeeps

Routed ==
  /\ router.step = "send" /\ router.selected = {}
  /\ router' = NoRoute /\ handled' = [handled EXCEPT !.events = @ + 1]
  /\ UNCHANGED <<pending, deliveries, counts>> /\ RouterKeeps

RouterEnds ==
  /\ router.step = "idle" /\ Cancelled
  /\ router' = [router EXCEPT !.step = "done"]
  /\ UNCHANGED <<pending, deliveries, counts, handled>> /\ RouterKeeps

-----------------------------------------------------------------------------
(* From tasks to deliveries. *)

WorkerKeeps == UNCHANGED <<busVars, hooks, rules, edits, carrier, pending, router, stop, missed, handled>>

TakeTask(w) ==
  /\ works[w].step = "idle" /\ deliveries # <<>>
  /\ works' = [works EXCEPT ![w] = [Idle EXCEPT !.step = "send", !.attempt = 1,
                   !.hook = Head(deliveries).hook, !.event = Head(deliveries).event]]
  /\ deliveries' = Tail(deliveries)
  /\ UNCHANGED <<log, counts, sent>> /\ WorkerKeeps

(* One attempt: success, an error worth a retry, or another. A receiver whose *)
(* success is lost, or comes after the time of the attempt, has answered, and *)
(* the dispatcher sees an error worth a retry.                                *)
Send(w) ==
  /\ works[w].step = "send"
  /\ \E result \in {"ok", "retry", "final"}, answered \in BOOLEAN :
       /\ result = "ok" => answered
       /\ result = "final" => ~answered
       /\ works' = [works EXCEPT ![w].step = "log", ![w].result = result]
       /\ LET it == [hook |-> works[w].hook, event |-> works[w].event] IN
            sent' = [answered |-> IF answered THEN sent.answered \cup {it} ELSE sent.answered,
                     seen     |-> IF result = "ok" THEN sent.seen \cup {it} ELSE sent.seen,
                     again    |-> sent.again \/ it \in sent.seen]
  /\ UNCHANGED <<deliveries, log, counts>> /\ WorkerKeeps

Ended(w, count) ==
  /\ counts' = [counts EXCEPT ![count] = @ + 1]
  /\ works' = [works EXCEPT ![w] = Idle]

(* Mutant: a delivery that succeeded is retried until the attempts run out. *)
BugAfter(w) ==
  CASE works[w].attempt = MaxAttempts -> Ended(w, "failed")
    [] OTHER -> works' = [works EXCEPT ![w].step = "wait"] /\ UNCHANGED counts

After(w) ==
  CASE works[w].result = "ok" -> Ended(w, "succeeded")
    [] works[w].result = "final" \/ (works[w].result = "retry" /\ works[w].attempt = MaxAttempts) ->
         Ended(w, "failed")
    [] OTHER -> works' = [works EXCEPT ![w].step = "wait"] /\ UNCHANGED counts

(* The row needs its webhook; a store that fails leaves no row either. *)
Log(w) ==
  /\ works[w].step = "log"
  /\ \/ /\ hooks[works[w].hook] # "absent"
        /\ log' = log \cup {[hook |-> works[w].hook, event |-> works[w].event,
                             attempt |-> works[w].attempt, ok |-> works[w].result = "ok"]}
     \/ UNCHANGED log
  /\ After(w)
  /\ UNCHANGED <<deliveries, sent>> /\ WorkerKeeps

(* The wait ends with its timer or with the stop. *)
WaitEnds(w) ==
  /\ works[w].step = "wait"
  /\ \/ /\ works' = [works EXCEPT ![w].step = "send", ![w].attempt = @ + 1, ![w].result = ""]
        /\ UNCHANGED counts
     \/ Cancelled /\ Ended(w, "failed")
  /\ UNCHANGED <<deliveries, log, sent>> /\ WorkerKeeps

WorkerEnds(w) ==
  /\ works[w].step = "idle" /\ Cancelled
  /\ works' = [works EXCEPT ![w].step = "done"]
  /\ UNCHANGED <<deliveries, log, counts, sent>> /\ WorkerKeeps

-----------------------------------------------------------------------------
(* Stop cancels, the bus closes the dispatcher's stream, and the goroutines are joined. *)

StopKeeps == UNCHANGED <<configVars, carrier, pending, router, deliveries, works, counts, missed, handled, sent>>

Cancel == stop = "no" /\ stop' = "cancelled" /\ UNCHANGED busVars /\ StopKeeps

(* Mutant: the stream is closed only while something is in it. *)
BugCloseStream ==
  Cancelled /\ streams[Dispatcher].buffer # <<>> /\ Unsubscribe(Dispatcher) /\ UNCHANGED stop /\ StopKeeps

CloseStream == Cancelled /\ Unsubscribe(Dispatcher) /\ UNCHANGED stop /\ StopKeeps

Joined ==
  /\ stop = "cancelled" /\ carrier = "done" /\ router.step = "done"
  /\ \A w \in Workers : works[w].step = "done"
  /\ stop' = "joined" /\ UNCHANGED busVars /\ StopKeeps

Carrier == Attach \/ AttachAgain \/ Carry \/ Detached \/ CarrierEnds
Router  == TakeEvent \/ ReadRules \/ ReadHooks \/ LookupFails \/ QueueTask \/ Routed \/ RouterEnds
Worker(w) == TakeTask(w) \/ Send(w) \/ Log(w) \/ WaitEnds(w) \/ WorkerEnds(w)

AlertsNext ==
  \/ PublishEvent \/ Carrier \/ Router \/ Cancel \/ CloseStream \/ Joined
  \/ \E h \in Hooks : PutWebhook(h) \/ DeleteWebhook(h)
  \/ \E r \in Rules : PutAlertRule(r) \/ DeleteAlertRule(r)
  \/ \E w \in Workers : Worker(w)
  \/ \E l \in Listeners \ {Dispatcher} :
       ServeStream(l) /\ UNCHANGED <<configVars, dispatcherVars>>

(* The scheduler runs every goroutine of the dispatcher. Of two ready cases   *)
(* of a select it may take either: the queues feed one another and run dry    *)
(* after a stop, so nothing stronger is needed.                               *)
AlertsFairness ==
  /\ WF_alertVars(Carrier) /\ WF_alertVars(Router)
  /\ \A w \in Workers : WF_alertVars(Worker(w))
  /\ WF_alertVars(CloseStream \/ Joined)

AlertsSpec == AlertsInit /\ [][AlertsNext]_alertVars /\ AlertsFairness

-----------------------------------------------------------------------------
(* What is promised. *)

AlertsTypeOK ==
  /\ EventsTypeOK
  /\ Len(pending) <= QueueCapacity /\ Len(deliveries) <= QueueCapacity
  /\ carrier \in {"top", "range", "wait", "done"} /\ stop \in {"no", "cancelled", "joined"}
  /\ \A w \in Workers : works[w].attempt \in 0 .. MaxAttempts

(* A rule never names a webhook that is gone (validateAlertRule,              *)
(* deleteWebhook).                                                            *)
RulesResolve == \A r \in Rules : Resolves(rules[r].hooks)

(* Every event the bus published is in the dispatcher, was routed, or is      *)
(* counted dropped, but for those published while it had no stream; every     *)
(* task it queued is queued, in delivery, or counted succeeded or failed.     *)
EventsConserved ==
  LET busy == IF router.step \in {"rules", "hooks", "send"} THEN 1 ELSE 0
      at(steps) == Cardinality({w \in Workers : works[w].step \in steps})
  IN  /\ published = missed + Len(streams[Dispatcher].buffer) + Len(pending) + busy
                     + handled.events + counts.eventDrop
      /\ handled.tasks = Len(deliveries) + at({"send", "log", "wait"})
                         + counts.succeeded + counts.failed

(* Once the dispatcher has seen a receiver answer an event with success it    *)
(* does not send it there again, however deliveries, edits and the stop       *)
(* interleave, and the log tells no other story: a row of success is of the   *)
(* last attempt, and of one the receiver answered. (A success that was lost   *)
(* is retried, and then answered again: docs/alerts.md has receivers          *)
(* deduplicate by the Idempotency-Key.)                                       *)
DeliveredOnce ==
  /\ ~sent.again /\ sent.seen \subseteq sent.answered
  /\ \A row \in log : row.ok =>
       /\ [hook |-> row.hook, event |-> row.event] \in sent.seen
       /\ \A other \in log : other.hook = row.hook /\ other.event = row.event
                               => other.attempt <= row.attempt

(* Stop returns: every goroutine sees the cancellation, whatever it waits for. *)
StopJoins == stop = "cancelled" ~> stop = "joined"

(* From the bus to the receivers: no holes in a stream, no event and no task  *)
(* uncounted, no rule without its webhooks, no delivery sent again after the  *)
(* dispatcher saw its success.                                                *)
AlertsSound == AlertsTypeOK /\ NoHoles /\ RulesResolve /\ EventsConserved /\ DeliveredOnce
=============================================================================
