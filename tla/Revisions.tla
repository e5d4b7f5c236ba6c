----------------------------- MODULE Revisions ------------------------------
(* What an activation promises: the active revision only ever advances by     *)
(* one, each time to a bundle the gateway can run.                            *)
EXTENDS Naturals

CONSTANT Runnable       \* the bundles the configuration check accepts

VARIABLE active         \* [revision, bundle]

FirstRevision == active.revision = 0 /\ active.bundle \in Runnable

Advance == \E b \in Runnable : active' = [revision |-> active.revision + 1, bundle |-> b]

RevisionsSpec == FirstRevision /\ [][Advance]_active
=============================================================================
