------------------------------ MODULE Runtime -------------------------------
(* Activation of the saved inventory, rollback, the revisions kept in memory  *)
(* and in the table runtime_snapshots, the requests that are evaluated under  *)
(* one revision and routed later, and the test of a chain.                    *)
(*                                                                            *)
(* Of the saved inventory two things matter here: whether it compiles, and    *)
(* one chain with its revision (module Inventory has the rest). A bundle is   *)
(* [chain, fits]; `fits` is what the configuration check says of it. One      *)
(* activation runs at a time, under runtimeControl.mu, in three steps: load   *)
(* and compile, commit to the store, publish to memory.                       *)
EXTENDS Naturals, FiniteSets

CONSTANTS Documents,      \* documents the chain may have
          NoChain,        \* there is no row for the chain
          Callers,        \* concurrent requests
          Retained,       \* maxRuntimeHistory = retainedRoutingSnapshots = 100
          MaxRevision,    \* bound on activations
          MaxChainRevision

(* With one retained the store would delete the revision that still runs when *)
(* it activates the next.                                                     *)
ASSUME RuntimeAssumption ==
  /\ NoChain \notin Documents
  /\ Retained \in Nat \ {0, 1} /\ MaxRevision \in Nat /\ MaxChainRevision \in Nat \ {0}

SavedChains   == Documents \cup {NoChain}
Snapshot == [chain : SavedChains, fits : BOOLEAN]
Fitting  == {b \in Snapshot : b.fits}

VARIABLES saved,         \* the saved inventory: [revision, chain, fits]
          snapshots,     \* runtime_snapshots: revision -> bundle
          currentRow,    \* the revision with is_current = 1, 0 without one
          activation,    \* the holder of runtimeControl.mu
          current,       \* routingRuntime.current and record
          history,       \* routingRuntime.history: revision -> bundle
          calls,         \* requests between Evaluate and Route
          chainTest,     \* a test of the chain that runs
          chainHealth    \* Server.chainHealth of the chain

stored  == <<snapshots, currentRow>>
runtime == <<current, history>>
testing == <<chainTest, chainHealth>>
runtimeVars == <<saved, stored, activation, runtime, calls, testing>>

NoActivation == [step |-> "none"]
NoTest       == [step |-> "none"]
Untested     == [revision |-> 0]
Waiting      == [at |-> "none"]

RuntimeInit ==
  /\ \E b \in Fitting :          \* the configuration file, revision 0
       /\ saved = [revision |-> 0, chain |-> NoChain, fits |-> TRUE]
       /\ current = [revision |-> 0, bundle |-> b]
       /\ history = [n \in {0} |-> b]
  /\ snapshots = [n \in {} |-> NoChain] /\ currentRow = 0
  /\ activation = NoActivation
  /\ calls = [r \in Callers |-> Waiting]
  /\ chainTest = NoTest /\ chainHealth = Untested

-----------------------------------------------------------------------------
(* The operator edits the inventory. *)

SaveChain(doc) ==
  /\ saved.revision < MaxChainRevision
  /\ saved' = [saved EXCEPT !.revision = @ + 1, !.chain = doc]
  /\ UNCHANGED <<stored, activation, runtime, calls, testing>>

(* A test that runs is no longer about what will be shown. *)
Disturbed == IF chainTest = NoTest THEN NoTest ELSE [chainTest EXCEPT !.disturbed = TRUE]

(* Mutant: the old result stays. *)
BugDropChain ==
  /\ saved.revision > 0
  /\ saved' = [saved EXCEPT !.revision = 0, !.chain = NoChain]
  /\ chainTest' = Disturbed
  /\ UNCHANGED <<stored, activation, runtime, calls, chainHealth>>

DropChain ==
  /\ saved.revision > 0
  /\ saved' = [saved EXCEPT !.revision = 0, !.chain = NoChain]
  /\ chainHealth' = Untested
  /\ chainTest' = Disturbed
  /\ UNCHANGED <<stored, activation, runtime, calls>>

EditOthers ==
  /\ saved' = [saved EXCEPT !.fits = ~@]
  /\ UNCHANGED <<stored, activation, runtime, calls, testing>>

SavedBundle == [chain |-> saved.chain, fits |-> saved.fits]

-----------------------------------------------------------------------------
(* ActivateRuntime, RollbackRuntime: what runs before the store. *)

(* Mutant: an old or unsound bundle is activated unseen. *)
BugCompile(bundle, expected) ==
  /\ activation = NoActivation
  /\ activation' = [step |-> "compiled", bundle |-> bundle, expected |-> expected]
  /\ UNCHANGED <<saved, stored, runtime, calls, testing>>

Compile(bundle, expected) ==
  /\ activation = NoActivation
  /\ bundle.fits
  /\ activation' = [step |-> "compiled", bundle |-> bundle, expected |-> expected]
  /\ UNCHANGED <<saved, stored, runtime, calls, testing>>

ActivateRuntime(expected) == Compile(SavedBundle, expected)

RollbackRuntime(expected, target) ==
  /\ target >= 1 /\ target # expected
  /\ target \in DOMAIN snapshots
  /\ Compile(snapshots[target], expected)

(* One transaction: the revision must be current, the next one becomes so,    *)
(* and what is older than the retained ones is deleted.                       *)
Keep(n) == {m \in DOMAIN snapshots : m > n - Retained} \cup {n}

(* Mutant: the expected revision is not compared. *)
BugStoreActivates ==
  /\ activation.step = "compiled"
  /\ currentRow < MaxRevision
  /\ currentRow' = currentRow + 1
  /\ snapshots' = [m \in Keep(currentRow + 1) |->
                     IF m = currentRow + 1 THEN activation.bundle ELSE snapshots[m]]
  /\ activation' = [activation EXCEPT !.step = "stored"]
  /\ UNCHANGED <<saved, runtime, calls, testing>>

StoreActivates ==
  /\ activation.step = "compiled"
  /\ activation.expected = currentRow
  /\ currentRow < MaxRevision
  /\ currentRow' = currentRow + 1
  /\ snapshots' = [m \in Keep(currentRow + 1) |->
                     IF m = currentRow + 1 THEN activation.bundle ELSE snapshots[m]]
  /\ activation' = [activation EXCEPT !.step = "stored"]
  /\ UNCHANGED <<saved, runtime, calls, testing>>

(* A stale revision or an error: the operator is told, nothing has changed. *)
StoreRefuses ==
  /\ activation.step = "compiled"
  /\ activation' = NoActivation
  /\ UNCHANGED <<saved, stored, runtime, calls, testing>>

(* Mutant: one revision too few. *)
BugYounger(n) == {m \in DOMAIN history : m > n - Retained + 1}

(* Mutant: memory forgets nothing. *)
BugForever(n) == DOMAIN history

Younger(n) == {m \in DOMAIN history : m > n - Retained}

Publish ==
  /\ activation.step = "stored"
  /\ LET n == activation.expected + 1
     IN  /\ current' = [revision |-> n, bundle |-> activation.bundle]
         /\ history' = [m \in Younger(n) \cup {n} |->
                          IF m = n THEN activation.bundle ELSE history[m]]
  /\ activation' = NoActivation
  /\ chainTest' = Disturbed
  /\ UNCHANGED <<saved, stored, calls, chainHealth>>

(* The process ends at any step; the next one loads the current row, or keeps *)
(* to its configuration when there is none.                                   *)
RuntimeRestart ==
  /\ activation' = NoActivation
  /\ current' = IF currentRow = 0 THEN [revision |-> 0, bundle |-> current.bundle]
                ELSE [revision |-> currentRow, bundle |-> snapshots[currentRow]]
  /\ history' = [n \in {current'.revision} |-> current'.bundle]
  /\ calls' = [r \in Callers |-> Waiting]
  /\ chainTest' = NoTest /\ chainHealth' = Untested
  /\ UNCHANGED <<saved, stored>>

-----------------------------------------------------------------------------
(* A request: router.Evaluate under the current snapshot, router.Route under  *)
(* the snapshot of the decision's revision.                                   *)

Evaluate(r) ==
  /\ calls[r].at = "none"
  /\ calls' = [calls EXCEPT ![r] = [at |-> "evaluated", revision |-> current.revision,
                                    bundle |-> current.bundle]]
  /\ UNCHANGED <<saved, stored, activation, runtime, testing>>

(* Mutant: the current snapshot routes. *)
BugRoute(r) ==
  /\ calls[r].at = "evaluated"
  /\ calls' = [calls EXCEPT ![r] =
                 [at |-> "routed", bundle |-> @.bundle, routed |-> current.bundle]]
  /\ UNCHANGED <<saved, stored, activation, runtime, testing>>

Route(r) ==
  /\ calls[r].at = "evaluated"
  /\ calls' = [calls EXCEPT ![r] =
       IF @.revision \in DOMAIN history
       THEN [at |-> "routed", bundle |-> @.bundle, routed |-> history[@.revision]]
       ELSE [at |-> "denied"]]
  /\ UNCHANGED <<saved, stored, activation, runtime, testing>>

(* Mutant: a call keeps its place. *)
BugEnd(r) ==
  /\ calls[r].at \in {"routed", "denied"}
  /\ calls' = [calls EXCEPT ![r] = [at |-> "ended"]]
  /\ UNCHANGED <<saved, stored, activation, runtime, testing>>

End(r) ==
  /\ calls[r].at \in {"routed", "denied"}
  /\ calls' = [calls EXCEPT ![r] = Waiting]
  /\ UNCHANGED <<saved, stored, activation, runtime, testing>>

-----------------------------------------------------------------------------
(* The test of a chain: refused unless the saved document is the active one,  *)
(* then up to thirty seconds against whatever is current meanwhile.           *)

ChainActive == saved.revision > 0 /\ current.bundle.chain = saved.chain

StartChainTest ==
  /\ chainTest = NoTest
  /\ ChainActive
  /\ chainTest' = [step |-> "read", revision |-> saved.revision, of |-> saved.chain,
                   disturbed |-> FALSE]
  /\ UNCHANGED <<saved, stored, activation, runtime, calls, chainHealth>>

(* The tester takes the chain of the current snapshot; without one it fails. *)
TestChain ==
  /\ chainTest.step = "read"
  /\ chainTest' = [step |-> "tested", revision |-> chainTest.revision,
                   of |-> current.bundle.chain, disturbed |-> chainTest.disturbed]
  /\ UNCHANGED <<saved, stored, activation, runtime, calls, chainHealth>>

ReportChainTest ==
  /\ chainTest.step = "tested"
  /\ chainHealth' = chainTest
  /\ chainTest' = NoTest
  /\ UNCHANGED <<saved, stored, activation, runtime, calls>>

(* chainResponse: the result is shown for the same revision while it runs. *)
HealthShown == ChainActive /\ chainHealth.revision = saved.revision

-----------------------------------------------------------------------------
RuntimeNext ==
  \/ \E doc \in Documents : SaveChain(doc)
  \/ DropChain
  \/ EditOthers
  \/ \E n \in 0..MaxRevision : ActivateRuntime(n)
  \/ \E n, target \in 0..MaxRevision : RollbackRuntime(n, target)
  \/ StoreActivates
  \/ StoreRefuses
  \/ Publish
  \/ RuntimeRestart
  \/ \E r \in Callers : Evaluate(r) \/ Route(r) \/ End(r)
  \/ StartChainTest
  \/ TestChain
  \/ ReportChainTest

RuntimeSpec == RuntimeInit /\ [][RuntimeNext]_runtimeVars

-----------------------------------------------------------------------------
RuntimeTypeOK ==
  /\ saved \in [revision : 0..MaxChainRevision, chain : SavedChains, fits : BOOLEAN]
  /\ currentRow \in 0..MaxRevision
  /\ DOMAIN snapshots \subseteq 1..MaxRevision
  /\ currentRow > 0 => currentRow \in DOMAIN snapshots
  /\ current \in [revision : 0..MaxRevision, bundle : Snapshot]
  /\ DOMAIN history \subseteq 0..MaxRevision
  /\ activation.step \in {"none", "compiled", "stored"}
  /\ \A r \in Callers : calls[r].at \in {"none", "evaluated", "routed", "denied"}

(* Memory never runs ahead of the table, and names another revision than the  *)
(* current row only between the commit and the publication of an activation.  *)
(* What runs is what the table has under its revision.                        *)
PublishedIsStored ==
  /\ current.revision # currentRow =>
       activation.step = "stored" /\ currentRow = current.revision + 1
  /\ current.revision > 0 => /\ current.revision \in DOMAIN snapshots
                             /\ current.bundle = snapshots[current.revision]

(* Every revision a request may still be routed under is one the operator may *)
(* still roll back to, with the same content.                                 *)
HistoryIsStored ==
  activation.step # "stored" =>
    \A n \in DOMAIN history \ {0} : n \in DOMAIN snapshots /\ history[n] = snapshots[n]

(* A request is routed with the bundle it was evaluated under, never another. *)
RoutedAsEvaluated ==
  \A r \in Callers : calls[r].at = "routed" => calls[r].routed = calls[r].bundle

(* It is denied for its age only after as many activations as are retained.   *)
DeniedOnlyWhenOld ==
  [][\A r \in Callers :
       calls[r].at = "evaluated" /\ calls'[r].at = "denied" =>
         current.revision - calls[r].revision >= Retained]_runtimeVars

(* A health shown for a chain was measured on the document that is saved,     *)
(* unless an activation or a deletion came between: the test uses whatever is *)
(* current by then, and a chain that is created again is at revision 1 again. *)
HealthOfThisChain ==
  HealthShown => chainHealth.of = saved.chain \/ chainHealth.disturbed

(* The gateway implements Revisions, activations, rollbacks, failures and     *)
(* restarts included.                                                         *)
Promised == INSTANCE Revisions WITH active <- current, Runnable <- Fitting
AdvancesByOne == Promised!RevisionsSpec

(* The revision that runs, those kept for requests and for rollbacks, and the *)
(* health shown of a chain agree with the table and with what is saved.       *)
RevisionsAgree ==
  /\ RuntimeTypeOK
  /\ PublishedIsStored /\ HistoryIsStored /\ RoutedAsEvaluated /\ HealthOfThisChain

(* Revisions follow one another as the abstract register promises, and a      *)
(* request is denied for its age only when so many have followed.             *)
RevisionsAdvance == AdvancesByOne /\ DeniedOnlyWhenOld
=============================================================================
