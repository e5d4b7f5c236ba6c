------------------------------ MODULE Sources -------------------------------
(* Proxy sources: the operator creates, edits and deletes them; a refresh,    *)
(* asked for by an operator or by the scheduler, reads the source, fetches    *)
(* outside the store for up to twenty seconds, then reconciles the endpoints  *)
(* and the source's record in one transaction. Endpoints are named by their   *)
(* identity (protocol, host, port), a list by the set of those it names.      *)
EXTENDS Naturals, FiniteSets

CONSTANTS SourceIds, SourceDocs,   \* documents: where and how a list is read
          Identities,
          Refreshers,              \* concurrent calls of Refresh
          NoSource, NoEndpoint,
          Operator,                \* the owner of an endpoint that no source gave
          MaxSourceRevision, MaxNow

ASSUME SourcesAssumption ==
  /\ MaxSourceRevision \in Nat \ {0} /\ MaxNow \in Nat \ {0}
  /\ Operator \notin SourceIds /\ NoEndpoint \notin SourceIds \cup {Operator}
  /\ NoSource \notin [revision : Nat, doc : SourceDocs, enabled : BOOLEAN, refreshed : Nat]

VARIABLES sources,     \* proxy_sources: NoSource or [revision, doc, enabled, refreshed]
          owner,       \* endpoints by identity: the source that gave it last
          active,      \* Refresher.active: the sources marked as being refreshed
          refresh,     \* the calls of Refresh, and what they were asked and have read
          edit,        \* an update between its read and its write
          now

sourceVars == <<sources, owner, active, refresh, edit, now>>

NotRefreshing == [step |-> "none"]
NotEditing    == [step |-> "none"]
Sources       == [revision : 1..MaxSourceRevision, doc : SourceDocs, enabled : BOOLEAN,
                  refreshed : 0..MaxNow]

SourcesInit ==
  /\ sources = [s \in SourceIds |-> NoSource]
  /\ owner = [i \in Identities |-> NoEndpoint]
  /\ active = {}
  /\ refresh = [w \in Refreshers |-> NotRefreshing]
  /\ edit = NotEditing
  /\ now = 1

-----------------------------------------------------------------------------
(* PutSource, a compare and swap: it holds of the rows it changes.            *)

Matches(s, expected) == sources[s] # NoSource /\ sources[s].revision = expected

(* Mutant: the update is not conditional. *)
BugPutSource(s, source, expected) ==
  /\ sources[s] # NoSource
  /\ sources[s].revision < MaxSourceRevision
  /\ sources' = [sources EXCEPT ![s] = [source EXCEPT !.revision = sources[s].revision + 1]]

PutSource(s, source, expected) ==
  /\ Matches(s, expected)
  /\ expected < MaxSourceRevision
  /\ sources' = [sources EXCEPT ![s] = [source EXCEPT !.revision = expected + 1]]

(* Mutant: a new record has no revision. *)
BugCreateSource(s, doc) ==
  /\ sources[s] = NoSource
  /\ sources' = [sources EXCEPT ![s] = [revision |-> 0, doc |-> doc, enabled |-> TRUE, refreshed |-> 0]]
  /\ UNCHANGED <<owner, active, refresh, edit, now>>

CreateSource(s, doc) ==
  /\ sources[s] = NoSource
  /\ sources' = [sources EXCEPT ![s] = [revision |-> 1, doc |-> doc, enabled |-> TRUE, refreshed |-> 0]]
  /\ UNCHANGED <<owner, active, refresh, edit, now>>

(* updateSource reads the record, takes the refresh time over into the new    *)
(* document, and writes under the revision the operator has seen.             *)
ReadForUpdate(s, doc, enabled, seen) ==
  /\ edit = NotEditing
  /\ sources[s] # NoSource /\ seen <= sources[s].revision
  /\ edit' = [step |-> "read", id |-> s, expected |-> seen, renewed |-> FALSE,
              source |-> [sources[s] EXCEPT !.doc = doc, !.enabled = enabled]]
  /\ UNCHANGED <<sources, owner, active, refresh, now>>

(* Mutant: the refresh time is left at zero. *)
BugUpdateSource ==
  /\ edit.step = "read"
  /\ PutSource(edit.id, [edit.source EXCEPT !.refreshed = 0], edit.expected)
  /\ edit' = NotEditing
  /\ UNCHANGED <<owner, active, refresh, now>>

UpdateSource ==
  /\ edit.step = "read"
  /\ PutSource(edit.id, edit.source, edit.expected)
  /\ edit' = NotEditing
  /\ UNCHANGED <<owner, active, refresh, now>>

RefuseUpdate ==            \* a conflict, no such source, or a store error
  /\ edit.step = "read"
  /\ edit' = NotEditing
  /\ UNCHANGED <<sources, owner, active, refresh, now>>

(* Nothing follows the deletion: endpoints keep the name of their source, and *)
(* what is running meets whatever is created next under the same id.          *)
DeleteSource(s) ==
  /\ sources[s] # NoSource
  /\ sources' = [sources EXCEPT ![s] = NoSource]
  /\ refresh' = [w \in Refreshers |-> IF refresh[w].step = "fetching" /\ refresh[w].id = s
                   THEN [refresh[w] EXCEPT !.renewed = TRUE] ELSE refresh[w]]
  /\ edit' = IF edit.step # "none" /\ edit.id = s THEN [edit EXCEPT !.renewed = TRUE] ELSE edit
  /\ UNCHANGED <<owner, active, now>>

-----------------------------------------------------------------------------
(* Refresh: the call marks its source, or is refused because it is marked;    *)
(* the mark goes with the call, whatever the call comes to.                   *)

Asked(s, revision) == [step |-> "begun", id |-> s, revision |-> revision, at |-> now]

(* Mutant: the mark is not looked at. *)
BugBegin(w, s, revision) ==
  /\ refresh[w] = NotRefreshing
  /\ active' = active \cup {s}
  /\ refresh' = [refresh EXCEPT ![w] = Asked(s, revision)]
  /\ UNCHANGED <<sources, owner, edit, now>>

Begin(w, s, revision) ==
  /\ refresh[w] = NotRefreshing
  /\ s \notin active
  /\ active' = active \cup {s}
  /\ refresh' = [refresh EXCEPT ![w] = Asked(s, revision)]
  /\ UNCHANGED <<sources, owner, edit, now>>

ReadSource(w) ==
  LET call == refresh[w]
  IN  /\ call.step = "begun"
      /\ Matches(call.id, call.revision) /\ sources[call.id].enabled
      /\ refresh' = [refresh EXCEPT ![w] = [step |-> "fetching", id |-> call.id, renewed |-> FALSE,
                                            read |-> sources[call.id], at |-> call.at]]
      /\ UNCHANGED <<sources, owner, active, edit, now>>

Returning(w) == refresh' = [refresh EXCEPT ![w] = [step |-> "ending", id |-> refresh[w].id]]

(* The record of a failure is the one that was read, with the time.           *)
Failed(w) == [refresh[w].read EXCEPT !.refreshed = refresh[w].at]

(* The fetch, the read of the file or the parse failed; what is recorded is   *)
(* written back if the source is still at the revision that was read.         *)
RecordFailure(w) ==
  /\ refresh[w].step = "fetching"
  /\ PutSource(refresh[w].id, Failed(w), refresh[w].read.revision)
  /\ Returning(w)
  /\ UNCHANGED <<owner, active, edit, now>>

(* What a body parses to, in any of the formats; an empty one is a failure.   *)
Lists == SUBSET Identities \ {{}}

(* Import: every endpoint of the list is created or attributed to the source, *)
(* whoever gave it before; the others stay.                                   *)
TakenOver(s, list) == [i \in Identities |-> IF i \in list THEN s ELSE owner[i]]

(* Mutant: the transaction takes the source as it is now. *)
BugReconcile(w, list) ==
  LET s == refresh[w].id
  IN  /\ refresh[w].step = "fetching"
      /\ sources[s] # NoSource
      /\ PutSource(s, [sources[s] EXCEPT !.refreshed = refresh[w].at], sources[s].revision)
      /\ owner' = TakenOver(s, list)
      /\ Returning(w)
      /\ UNCHANGED <<active, edit, now>>

(* One transaction: the source is still at the revision that was asked for,   *)
(* its list is imported, and the record is written.                           *)
Reconcile(w, list) ==
  LET s == refresh[w].id
  IN  /\ refresh[w].step = "fetching"
      /\ Matches(s, refresh[w].read.revision)
      /\ PutSource(s, [sources[s] EXCEPT !.refreshed = refresh[w].at], sources[s].revision)
      /\ owner' = TakenOver(s, list)
      /\ Returning(w)
      /\ UNCHANGED <<active, edit, now>>

(* No such source, another revision, a disabled one; a conflict, a store      *)
(* error at any statement, a cancelled context: rolled back, nothing recorded.*)
RollBack(w) ==
  /\ refresh[w].step \in {"begun", "fetching"}
  /\ Returning(w)
  /\ UNCHANGED <<sources, owner, active, edit, now>>

(* Mutant: a return forgets the mark. *)
BugEndRefresh(w) ==
  /\ refresh[w].step = "ending"
  /\ refresh' = [refresh EXCEPT ![w] = NotRefreshing]
  /\ UNCHANGED <<sources, owner, active, edit, now>>

EndRefresh(w) ==
  /\ refresh[w].step = "ending"
  /\ active' = active \ {refresh[w].id}
  /\ refresh' = [refresh EXCEPT ![w] = NotRefreshing]
  /\ UNCHANGED <<sources, owner, edit, now>>

-----------------------------------------------------------------------------
(* The operator's own endpoints, and time. *)

AddEndpoint(i) ==
  /\ owner[i] = NoEndpoint
  /\ owner' = [owner EXCEPT ![i] = Operator]
  /\ UNCHANGED <<sources, active, refresh, edit, now>>

DropEndpoint(i) ==
  /\ owner[i] # NoEndpoint
  /\ owner' = [owner EXCEPT ![i] = NoEndpoint]
  /\ UNCHANGED <<sources, active, refresh, edit, now>>

SourceTick ==
  /\ now < MaxNow /\ now' = now + 1
  /\ UNCHANGED <<sources, owner, active, refresh, edit>>

SourcesNext ==
  \/ \E s \in SourceIds, doc \in SourceDocs : CreateSource(s, doc)
  \/ \E s \in SourceIds, doc \in SourceDocs, enabled \in BOOLEAN, seen \in 1..MaxSourceRevision :
       ReadForUpdate(s, doc, enabled, seen)
  \/ UpdateSource
  \/ RefuseUpdate
  \/ \E s \in SourceIds : DeleteSource(s)
  \/ \E w \in Refreshers, s \in SourceIds, revision \in 1..MaxSourceRevision : Begin(w, s, revision)
  \/ \E w \in Refreshers : ReadSource(w) \/ RecordFailure(w) \/ RollBack(w) \/ EndRefresh(w)
  \/ \E w \in Refreshers, list \in Lists : Reconcile(w, list)
  \/ \E i \in Identities : AddEndpoint(i) \/ DropEndpoint(i)
  \/ SourceTick

SourcesSpec == SourcesInit /\ [][SourcesNext]_sourceVars

-----------------------------------------------------------------------------
SourcesTypeOK ==
  /\ \A s \in SourceIds : sources[s] \in Sources \cup {NoSource}
  /\ owner \in [Identities -> SourceIds \cup {Operator, NoEndpoint}]
  /\ \A w \in Refreshers : refresh[w].step = "fetching" =>
       refresh[w].id \in SourceIds /\ refresh[w].read \in Sources /\ refresh[w].at \in 1..now
  /\ edit # NotEditing => edit.id \in SourceIds /\ edit.source \in Sources
  /\ now \in 1..MaxNow

Running == {w \in Refreshers : refresh[w] # NotRefreshing}

OneFetchEach == \A v, w \in Running : refresh[v].id = refresh[w].id => v = w

MarksAreRefreshes == active = {refresh[w].id : w \in Running}

(* A source is fetched by one refresh at a time, whoever asks and whatever is *)
(* edited, deleted or created in the meantime; a source is marked exactly     *)
(* while a call for it runs, so no way a call ends keeps the source from ever *)
(* being refreshed again; and what the refreshes and the edit hold is always  *)
(* a source as it may be written back.                                        *)
SingleFlight == SourcesTypeOK /\ OneFetchEach /\ MarksAreRefreshes

Committed(w) == refresh[w].step = "fetching" /\ refresh'[w].step = "ending"

(* An endpoint is attributed to a source only from a list that was fetched    *)
(* with the document the source has at that moment, and only while the source *)
(* is enabled: an edit or a disabling that has returned is never overtaken by *)
(* the fetch it met. A source deleted and created again under its id is the   *)
(* exception, for its revision starts anew and matches.                       *)
ImportsAreCurrent ==
  [][\A i \in Identities :
       owner'[i] # owner[i] /\ owner'[i] \in SourceIds =>
         \E w \in Refreshers : /\ Committed(w) /\ refresh[w].id = owner'[i]
                               /\ \/ refresh[w].renewed
                                  \/ /\ sources[owner'[i]].enabled
                                     /\ sources[owner'[i]].doc = refresh[w].read.doc]_sourceVars

(* A refresh, failed or not, leaves the operator's document as it finds it.   *)
EditsSurvive ==
  [][\A w \in Refreshers :
       Committed(w) /\ ~refresh[w].renewed =>
         \A s \in SourceIds : sources[s] # NoSource =>
           sources'[s].doc = sources[s].doc /\ sources'[s].enabled = sources[s].enabled]_sourceVars

(* An edit never takes back the time of a refresh, though it reads that time  *)
(* before and outside its own write.                                          *)
RefreshTimesSurvive ==
  [][edit.step = "read" /\ edit' = NotEditing /\ ~edit.renewed =>
       \A s \in SourceIds : sources[s] # NoSource =>
         sources'[s].refreshed = sources[s].refreshed]_sourceVars

(* Refreshes and edits that interleave never undo one another.                *)
RefreshesAreCurrent == ImportsAreCurrent /\ EditsSurvive /\ RefreshTimesSurvive
=============================================================================
