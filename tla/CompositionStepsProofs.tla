------------------------ MODULE CompositionStepsProofs ------------------------
(***************************************************************************)
(* What the claims StuckIsRolledBack and DeleteCompletes of                *)
(* CompositionClaims come to in general: the runs refute them by one       *)
(* behaviour of a small instance, the theorem NoWayOut says that from the  *)
(* states those behaviours reach there is no way back, for every value of  *)
(* the constants.                                                          *)
(***************************************************************************)
EXTENDS CompositionLifecycleProofs

-----------------------------------------------------------------------------
(* The release *)

\* What state the release is in while Helm works on it, and that a release
\* has a revision.
HelmState ==
    /\ pc = "observe.rollback" => rel.status \in Interrupted
    /\ pc = "observe.rollingback" => rel.status = "pending-rollback"
    /\ pc = "create.installing" => rel.status = "pending-install"
    /\ pc \in {"observe.upgrading", "create.upgrading"} => rel.status = "pending-upgrade"
    /\ rel.status # "absent" => rel.now \in Content

\* The worker waits for Helm.
HelmBusy == {"observe.rollingback", "observe.upgrading",
             "create.installing", "create.upgrading"}

\* The steps of an operation that Helm has no part in.
ReleaseKept == /\ UNCHANGED rel
               /\ pc' \notin HelmBusy
               /\ pc' = "observe.rollback" => rel.status \in Interrupted

LEMMA WritesKeepRelease ==
    ASSUME \/ ObserveUpdate \/ ObserveUnavailable \/ ObserveStatus
           \/ CreateUpdate \/ CreateStatus \/ CreateUnpause
           \/ UpdateRecord \/ UpdatePause \/ DeleteUpdate
    PROVE  ReleaseKept
  BY DEF ReleaseKept, HelmBusy, ObserveUpdate, ObserveUnavailable, ObserveStatus,
     CreateUpdate, CreateStatus, CreateUnpause, UpdateRecord, UpdatePause,
     DeleteUpdate, Write, WriteLast, WriteThen, Goto, Return, Fail

LEMMA WalksKeepRelease ==
    ASSUME ObserveRBAC \/ CreateRBAC \/ DeleteRBAC
    PROVE  ReleaseKept
  BY DEF ReleaseKept, HelmBusy, ObserveRBAC, CreateRBAC, DeleteRBAC, ApplyRBACThen,
     Goto, Fail

LEMMA LookupsKeepRelease ==
    ASSUME ObserveLookup \/ UpdateLookup
    PROVE  ReleaseKept
  BY DEF ReleaseKept, HelmBusy, ObserveLookup, UpdateLookup, Goto, Return, Fail

\* The runtime and the user leave the release alone.
LEMMA OthersKeepRelease ==
    ASSUME TypeOK,
           \/ Dispatch \/ Finalize \/ (\E e \in Event : Serve(e))
           \/ Resync \/ Crash \/ User \/ UNCHANGED vars
    PROVE  UNCHANGED rel /\ (pc' = pc \/ ReleaseKept)
  <1>1. CASE Dispatch \/ Finalize \/ Resync \/ Crash
    BY <1>1 DEF Dispatch, Finalize, Resync, Crash, Fail, ReleaseKept, HelmBusy
  <1>2. ASSUME NEW e \in Event, Serve(e) PROVE ReleaseKept
    <2>1. DeleteStart(e) \/ ObserveStart(e) \/ CreateStart(e) \/ UpdateStart(e)
      BY <1>2, ServeCases
    <2> QED
      BY <2>1 DEF DeleteStart, ObserveStart, CreateStart, UpdateStart, ReleaseKept,
                  HelmBusy
  <1>3. CASE User \/ UNCHANGED vars
    BY <1>3 DEF User, EditSpec, TogglePause, Edit, DeleteComposition, ChangeChart, vars
  <1> QED
    BY <1>1, <1>2, <1>3 DEF ReleaseKept

\* The steps that Helm has a part in.
HelmActs == \/ ObserveRollback \/ ObserveRolledBack \/ ObserveUpgrade
            \/ ObserveUpgraded \/ CreateHelm \/ CreateInstalled
            \/ CreateUpgraded \/ DeleteUninstall

LEMMA ReleaseMoves ==
    ASSUME TypeOK, [Next]_vars
    PROVE  HelmActs \/ (UNCHANGED rel /\ (pc' = pc \/ ReleaseKept))
  BY WritesKeepRelease, WalksKeepRelease, LookupsKeepRelease, OthersKeepRelease
     DEF Next, Worker, HandlerStep, HelmActs, ReleaseKept

LEMMA InitHelmState == Init => HelmState
  BY DEF Init, HelmState, NoRelease

\* Helm starts from a rendered content, goes back to a revision there was, and
\* ends what it has started; no other step touches the release.
LEMMA HelmStateStep ==
    ASSUME IInv, HelmState, [Next]_vars
    PROVE  HelmState'
  <1> USE DEF HelmState, Release, Interrupted
  <1>0. TypeOK /\ WorldOK /\ WorkerOK /\ PackageKnown /\ rel \in Release
    BY TypeParts DEF IInv, TypeOK
  <1>1. CASE UNCHANGED rel /\ (pc' = pc \/ ReleaseKept)
    BY <1>1 DEF ReleaseKept, HelmBusy
  <1>2. CASE ObserveRollback
    BY <1>0, <1>2 DEF ObserveRollback, Revise, Goto, Fail
  <1>3. CASE ObserveRolledBack
    BY <1>0, <1>3 DEF ObserveRolledBack, Deployed, Forbidden, Broken, Recorded, Goto, Fail
  <1>4. CASE ObserveUpgrade
    <2>1. Rendered \in Content
      BY <1>0, <1>4, ContentType
         DEF ObserveUpgrade, PackageKnown, WorkerOK, Running, Report
    <2> QED
      BY <1>4, <2>1 DEF ObserveUpgrade, Revise, Compare, Return, Goto
  <1>5. CASE ObserveUpgraded
    BY <1>0, <1>5 DEF ObserveUpgraded, Deployed, Forbidden, Broken, Recorded, Compare,
                Return, Goto
  <1>6. CASE CreateHelm
    <2>1. Rendered \in Content
      BY <1>0, <1>6, ContentType
         DEF CreateHelm, PackageKnown, WorkerOK, Running, Report
    <2> QED
      BY <1>6, <2>1 DEF CreateHelm, Revise, Goto, Fail
  <1>7. CASE CreateInstalled
    BY <1>0, <1>7 DEF CreateInstalled, Deployed, Forbidden, Broken, Recorded, Goto, Fail
  <1>8. CASE CreateUpgraded
    BY <1>0, <1>8 DEF CreateUpgraded, Deployed, Forbidden, Broken, Recorded, Goto
  <1>9. CASE DeleteUninstall
    BY <1>0, <1>9 DEF DeleteUninstall, Uninstalled, HalfUninstalled, NoRelease, Recorded,
                Goto, Fail
  <1> QED
    BY <1>0, <1>1, <1>2, <1>3, <1>4, <1>5, <1>6, <1>7, <1>8, <1>9, ReleaseMoves
       DEF HelmActs

\* Helm's own state and the step of the worker agree, and a release that
\* exists has the revision its permissions can be read from.
THEOREM StepsKnown == Spec => []HelmState
  BY Inductive, InitHelmState, HelmStateStep, PTL DEF Spec

-----------------------------------------------------------------------------
(* The states there is no way out of *)

\* A wedged release nobody works on any more: Observe, Create and Helm refuse
\* it, and neither a retry nor a resync helps.
Stuck == Wedged /\ pc \notin {"observe.rollingback", "create.installing"}

\* A deletion that lacks the permissions to uninstall, while no operation that
\* could still grant something is under way.
Abandoned == Stranded /\ pc \in {"idle", "finalize"} \cup Report \cup DeleteStep

\* Helm starts no rollback and no install of a wedged release.
LEMMA StuckStep ==
    ASSUME IInv, LifecycleInv, HelmState, Stuck, [Next]_vars
    PROVE  Stuck' \/ phase = "deleting"
  <1> USE DEF Stuck, Wedged, HelmState, Interrupted, Pending
  <1>0. TypeOK /\ rel \in Release
    BY DEF IInv, TypeOK
  <1>1. CASE UNCHANGED rel /\ (pc' = pc \/ ReleaseKept)
    BY <1>1 DEF ReleaseKept, HelmBusy
  <1>2. CASE ObserveRollback
    BY <1>2 DEF ObserveRollback, Fail
  <1>3. CASE ObserveUpgrade
    BY <1>3 DEF ObserveUpgrade, Goto
  <1>4. CASE CreateHelm
    BY <1>4 DEF CreateHelm, Goto, Fail
  <1>5. CASE ObserveRolledBack \/ ObserveUpgraded \/ CreateInstalled \/ CreateUpgraded
    BY <1>5 DEF ObserveRolledBack, ObserveUpgraded, CreateInstalled, CreateUpgraded
  <1>6. CASE DeleteUninstall
    BY <1>6 DEF DeleteUninstall, DeleteStep, LifecycleInv, DeletionIsAsked
  <1> QED
    BY <1>0, <1>1, <1>2, <1>3, <1>4, <1>5, <1>6, ReleaseMoves DEF HelmActs

\* Delete grants nothing, and no other operation is begun.
LEMMA AbandonedStep ==
    ASSUME IInv, HelmState, Abandoned, [Next]_vars
    PROVE  Abandoned' \/ phase' = "gone"
  <1> USE DEF Abandoned, Stranded, Allowed
  <1>0. /\ TypeOK /\ rel \in Release /\ rbac \in Store
        /\ phase = "deleting" /\ rel.status # "absent"
        /\ pc \notin {"delete.rbac", "delete.update"}
        /\ pc \notin ObserveStep \cup CreateStep \cup UpdateStep
    BY DEF IInv, TypeOK, UninstalledFirst, Report, DeleteStep, ObserveStep, CreateStep,
           UpdateStep
  <1>1. CASE DeleteUninstall /\ UNCHANGED <<phase, chart>>
    <2>1. /\ pc' = "idle" /\ rel'.status # "absent" /\ rel'.now = rel.now
          /\ rbac' = rbac \/ \E ns : rbac' = DropNamespaces(rbac, ns)
      BY <1>0, <1>1 DEF DeleteUninstall, HalfUninstalled, Recorded, Release, Fail
    <2>2. Needs[rel.now] \in SUBSET Resource
      BY <1>0, RenderAssumption DEF HelmState
    <2>3. ~Covered(Needs[rel.now], rbac')
      BY <1>0, <2>1, <2>2, DropGrantsNothing
    <2> QED
      BY <1>0, <1>1, <2>1, <2>3
  <1>2. CASE Dispatch \/ Finalize
    BY <1>0, <1>2 DEF Dispatch, Finalize, Fail
  <1>3. ASSUME NEW e \in Event, Serve(e) PROVE Abandoned'
    BY <1>0, <1>3, ServeCases DEF Serve, DeleteStart, DeleteStep
  <1>4. CASE Resync \/ Crash
    BY <1>0, <1>4 DEF Resync, Crash
  <1>5. CASE User \/ UNCHANGED vars
    BY <1>0, <1>5 DEF User, EditSpec, TogglePause, Edit, DeleteComposition, ChangeChart,
                      vars
  <1>6. HandlerStep => DeleteUninstall /\ UNCHANGED <<phase, chart>>
    BY <1>0 DEF HandlerStep, ObserveUpdate, ObserveLookup, ObserveRollback,
       ObserveRolledBack, ObserveRBAC, ObserveUpgrade, ObserveUpgraded,
       ObserveUnavailable, ObserveStatus, CreateUpdate, CreateRBAC, CreateHelm,
       CreateInstalled, CreateUpgraded, CreateStatus, CreateUnpause, UpdateLookup,
       UpdateRecord, UpdatePause, DeleteRBAC, DeleteUpdate, ObserveStep, CreateStep,
       UpdateStep
  <1> QED
    BY <1>1, <1>2, <1>3, <1>4, <1>5, <1>6 DEF Next, Worker

\* A wedged release stays wedged until the composition is deleted, although
\* composition.go:183 announces a rollback and another attempt; a deletion that
\* has lost the permissions to uninstall stays without them until a pause makes
\* Delete give up the finalizer.  No retry, resync, restart or edit helps.
THEOREM NoWayOut ==
    Spec => [][/\ Stuck => Stuck' \/ phase = "deleting"
               /\ Abandoned => Abandoned' \/ phase' = "gone"]_vars
  <1>1. IInv /\ LifecycleInv /\ HelmState /\ [Next]_vars
            => [/\ Stuck => Stuck' \/ phase = "deleting"
                /\ Abandoned => Abandoned' \/ phase' = "gone"]_vars
    BY StuckStep, AbandonedStep
  <1> QED
    BY <1>1, Inductive, LifecycleKept, StepsKnown, PTL DEF Spec

=============================================================================
