-------------------------- MODULE CompositionClaims --------------------------
(***************************************************************************)
(* What the repository's documents and comments say of the controller and  *)
(* the code does not do.  Each run of this module finds a behaviour that   *)
(* refutes one of these claims.                                            *)
(***************************************************************************)
EXTENDS CompositionController

\* composition.go:320: "we don't need to set resources here as they are
\* already set when a resource is created/updated".  Whenever Observe reports
\* up-to-date, status.managed lists the resources of the release.
ManagedIsCurrent ==
    [][pc = "observe.status" /\ pc' = "report.uptodate" =>
          cr'.managed = Digest(rel.now)]_vars

\* README.md:144-146: annotating a composition pauses it after the next Helm
\* upgrade.
PauseTakesEffect ==
    (<>[](phase = "live" /\ cr.pauseAnn)) => <>(GracefullyPaused(cr))

\* composition.go:183: "Composition stuck install or upgrade in progress.
\* Rolling back to previous release before re-attempting."  An install or an
\* upgrade that was interrupted does not stay that way.
StuckIsRolledBack ==
    rel.status \in Interrupted ~> (rel.status \notin Interrupted \/ Frozen)

\* cdc-flow.puml:12-13: on delete the release is uninstalled, then its RBAC is.
\* When a composition that was reported deployed goes with its release, its
\* roles and bindings go too, however often the deletion had to be tried.
DeleteRemovesRBAC ==
    phase = "gone" /\ rel.status = "absent" /\ cr.digest # None =>
        rbac.objects = {}

\* cdc-flow.puml:9-13: a delete ends with the release uninstalled.
DeleteCompletes == phase = "deleting" ~> phase = "gone"

\* composition.go:487: "Composition created", with the condition Available,
\* is said of a composition whose release is deployed.
CreatedIsDeployed ==
    [][pc = "create.status" /\ pc' = "create.unpause" =>
          rel.status = "deployed"]_vars

=============================================================================
