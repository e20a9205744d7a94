------------------------- MODULE CompositionHandler -------------------------
(***************************************************************************)
(* The four operations of the composition handler (Observe, Create,        *)
(* Update, Delete) on ONE composition, cut into the steps the outside      *)
(* world can tell apart: a write to the API server, a walk of the RBAC     *)
(* installer, the beginning and the end of a Helm operation.  Between two  *)
(* steps a user may edit the composition, the chart may change, or the     *)
(* controller may crash (CompositionController).                           *)
(*                                                                         *)
(* Helm, the API server and the chart inspector are external: they are     *)
(* modelled by what the handler relies on.                                 *)
(***************************************************************************)
EXTENDS RBACPolicy

CONSTANTS
    Specs,        \* values of the composition's spec
    Charts,       \* chart versions a definition can point to
    Manifests,    \* rendered manifests
    Manifest,     \* the manifest Helm renders from a content
    Needs,        \* the resources that manifest consists of
    None,         \* no digest, no manifest, no chart, no content
    MaxRetries    \* retries of a failing event before it is dropped

(***************************************************************************)
(* What a Helm revision is rendered from: a chart version, the spec as     *)
(* values, and the injected value global.gracefullyPaused.                 *)
(***************************************************************************)
Content == [chart : Charts, spec : Specs, paused : BOOLEAN]

ASSUME RenderAssumption ==
    /\ None \notin Charts \cup Manifests \cup Content
    /\ Manifest \in [Content -> Manifests]
    /\ Needs \in [Content -> SUBSET Resource]
    /\ MaxRetries \in Nat

VARIABLES
    phase,    \* the composition is live, being deleted, or gone
    cr,       \* the composition in the API server
    chart,    \* the chart version the composition definition points to
    rel,      \* the Helm release: its latest revision and the one before
    rbac,     \* the permissions in the cluster
    queue,    \* the events that wait for the worker
    retries,  \* how often each event has been retried
    pc,       \* the step the worker is about to take
    w,        \* the worker's locals
    budget    \* how many failures and edits are still to come

vars == <<phase, cr, chart, rel, rbac, queue, retries, pc, w, budget>>

-----------------------------------------------------------------------------
(* State *)

Event       == {"Observe", "Create", "Update", "Delete"}
Disturbance == {"failure", "edit"}
Condition   == {"Unknown", "Unavailable", "Available", "GracefullyPaused"}

(***************************************************************************)
(* pauseAnn and pausedTime are the annotations krateo.io/gracefully-paused *)
(* and krateo.io/gracefully-paused-time, named is the label                *)
(* krateo.io/release-name.  digest and managed are status.digest (the hash *)
(* is taken to be injective, so a digest is the manifest it is the hash    *)
(* of) and status.managed (the resources of that manifest).  The other     *)
(* status fields are written and never read.                               *)
(***************************************************************************)
Composition == [spec : Specs, pauseAnn : BOOLEAN, pausedTime : BOOLEAN,
                named : BOOLEAN, digest : Manifests \cup {None},
                managed : Manifests \cup {None}, cond : Condition]

\* Faulty variant of Interrupted: an interrupted upgrade is not recognised.
InterruptedInstall == {"pending-install"}

Interrupted == {"pending-install", "pending-upgrade"}
Pending     == {"pending-install", "pending-upgrade", "pending-rollback"}
Status      == Pending \cup {"absent", "deployed", "failed", "uninstalling"}

Release == [status : Status, now : Content \cup {None}, prev : Content \cup {None}]

NoRelease == [status |-> "absent", now |-> None, prev |-> None]

ObserveStep == {"observe.update", "observe.lookup", "observe.rollback",
                "observe.rollingback", "observe.rbac", "observe.upgrade",
                "observe.upgrading", "observe.unavailable", "observe.status"}
CreateStep  == {"create.update", "create.rbac", "create.helm",
                "create.installing", "create.upgrading", "create.status",
                "create.unpause"}
UpdateStep  == {"update.lookup", "update.record", "update.pause"}
DeleteStep  == {"delete.uninstall", "delete.rbac", "delete.update"}
Report      == {"report.uptodate", "report.missing", "report.outdated"}
Control     == {"idle", "finalize"} \cup Report
                   \cup ObserveStep \cup CreateStep \cup UpdateStep \cup DeleteStep

\* The worker is inside an operation.
Running == pc \notin {"idle"} \cup Report

(***************************************************************************)
(* The locals of the running operation, None while there is none.  fresh   *)
(* says that the resourceVersion mg carries is still the server's; pkg is  *)
(* the package info, held the release read before the operation changed it *)
(* (in Create and Update: the release they report), seen the resources the *)
(* RBAC was generated from.                                                *)
(***************************************************************************)
Work == [op : Event, mg : Composition, fresh : BOOLEAN,
         pkg : Charts \cup {None}, held : Content \cup {None},
         seen : SUBSET Resource]

Begin(e, mg) == [op |-> e, mg |-> mg, fresh |-> TRUE,
                 pkg |-> None, held |-> None, seen |-> {}]

-----------------------------------------------------------------------------
(* How a step ends *)

Spend(k) == /\ budget[k] > 0
            /\ budget' = [budget EXCEPT ![k] = @ - 1]

NoFault == UNCHANGED budget

\* One more request that the network or a server lets down.
Fault == Spend("failure")

Goto(step) == pc' = step /\ UNCHANGED <<queue, retries>>

\* The handler returns without an error; the runtime forgets the event.
Return(step) == /\ pc' = step
                /\ w' = None
                /\ retries' = [retries EXCEPT ![w.op] = 0]
                /\ UNCHANGED queue

\* Faulty variant of Fail: nobody counts the retries against the limit.
FailForever == /\ pc' = "idle"
               /\ w' = None
               /\ queue' = queue \cup {w.op}
               /\ retries' = [retries EXCEPT ![w.op] = @ + 1]

\* The handler returns an error: the event is queued again until it has been
\* retried MaxRetries times, then dropped.
Fail == /\ pc' = "idle"
        /\ w' = None
        /\ IF retries[w.op] < MaxRetries
           THEN /\ queue' = queue \cup {w.op}
                /\ retries' = [retries EXCEPT ![w.op] = @ + 1]
           ELSE /\ queue' = queue
                /\ retries' = [retries EXCEPT ![w.op] = 0]

\* Faulty variant of Accepted: the copy is written without a resourceVersion.
AlwaysAccepted == TRUE

(***************************************************************************)
(* tools.Update and tools.UpdateStatus write the object with the           *)
(* resourceVersion it was read at: the server refuses the write when       *)
(* anything has changed in between.  When the request fails, the write may *)
(* have been applied and only the answer lost.                             *)
(***************************************************************************)
Accepted == w.fresh

WriteThen(new, Next0) ==
    \/ Accepted /\ cr' = new /\ Next0 /\ NoFault
    \/ ~Accepted /\ cr' = cr /\ Fail /\ NoFault
    \/ Accepted /\ cr' \in {cr, new} /\ Fail /\ Fault

\* The operation goes on with the object the server returned.
Write(new, step) ==
    WriteThen(new, w' = [w EXCEPT !.mg = new, !.fresh = TRUE] /\ Goto(step))

WriteLast(new, step) == WriteThen(new, Return(step))

-----------------------------------------------------------------------------
(* Helpers the operations share *)

\* Faulty variant of LabelName: the label is not written.
LeaveUnnamed(mg) == mg

\* SetReleaseName: the label is written once and kept.
LabelName(mg) == [mg EXCEPT !.named = TRUE]

\* Every operation starts with this test and skips its work when it holds.
GracefullyPaused(mg) == mg.pausedTime /\ mg.pauseAnn

ClearPausedTime(mg) == [mg EXCEPT !.pausedTime = FALSE]

\* DecodeMinRelease and ComputeReleaseDigest: a nil release has no digest and
\* no resources.
Digest(content) == IF content = None THEN None ELSE Manifest[content]

\* setStatus with condition type Available; the managed resources are left
\* alone when there are none to set.
SetStatus(mg, managed, digest) ==
    [mg EXCEPT !.managed = IF managed = None THEN @ ELSE managed,
               !.digest  = digest,
               !.cond    = "Available"]

\* The values of this operation: its package info, its copy of the spec and
\* of the pause annotation.
Rendered == [chart |-> w.pkg, spec |-> w.mg.spec, paused |-> w.mg.pauseAnn]

\* The inspector reads the composition and its definition itself, now.
Inspected == [chart |-> chart, spec |-> cr.spec, paused |-> cr.pauseAnn]

(***************************************************************************)
(* The answer is an array that is decoded element by element until there   *)
(* are no more: a body that breaks off after an element is taken for a     *)
(* shorter list.                                                           *)
(***************************************************************************)
Answered(listed) == IF listed = Needs[Inspected] THEN NoFault ELSE Fault

\* The release is a new revision that supersedes the latest one.
Revise(status, content) ==
    [status |-> status, now |-> content, prev |-> rel.now]

\* Helm may use what the RBAC of this composition grants it, and no more.
Allowed == Covered(Needs[rel.now], rbac)

(***************************************************************************)
(* At the end of an upgrade or a rollback Helm deletes what the manifest   *)
(* has no longer, and only logs what it fails to delete: a namespace of an *)
(* earlier revision goes or stays (the permission to delete it can come    *)
(* from the controller's own role, which is not in this repository).       *)
(***************************************************************************)
Pruned ==
    \E ns \in SUBSET (rbac.namespaces \ ShippedNamespaces(Needs[rel.now])) :
        rbac' = DropNamespaces(rbac, ns)

Recorded(status) == [rel EXCEPT !.status = status]

Deployed == Allowed /\ Pruned /\ rel' = Recorded("deployed") /\ NoFault

\* Helm gives up on a revision for want of a permission ...
Forbidden == ~Allowed /\ UNCHANGED rbac /\ rel' = Recorded("failed") /\ NoFault

\* ... or because a request fails: one of the revision, the one that records
\* the failure, or the very last one of a revision that is complete.
Broken ==
    /\ \/ UNCHANGED rbac /\ rel' \in {rel, Recorded("failed")}
       \/ /\ Allowed /\ Pruned
          /\ rel' \in {rel, Recorded("failed"), Recorded("deployed")}
    /\ Fault

\* Faulty variant of ApplyRBACThen: its error is only logged.
ApplyRBACOrNot(OnSuccess, OnFailure) ==
    LET policy == Generate(Needs[Inspected])
    IN  /\ \/ rbac' = Apply(rbac, policy, ApplySteps(policy)) /\ NoFault
           \/ UNCHANGED rbac /\ Fault
        /\ w' = [w EXCEPT !.seen = Needs[Inspected]]
        /\ OnSuccess

(***************************************************************************)
(* rbgen.Generate and ApplyRBAC; the rest is what follows on success and   *)
(* on failure.  A walk that fails has stopped anywhere, also at its end:   *)
(* the answer to its last request can be lost.                             *)
(***************************************************************************)
ApplyRBACThen(OnSuccess, OnFailure) ==
    \E listed \in SUBSET Needs[Inspected] :
        LET policy == Generate(listed)
            steps  == ApplySteps(policy)
        IN  \/ /\ rbac' = Apply(rbac, policy, steps)
               /\ w' = [w EXCEPT !.seen = listed]
               /\ OnSuccess
               /\ Answered(listed)
            \/ /\ \E done \in Progress(steps) : rbac' = Apply(rbac, policy, done)
               /\ OnFailure
               /\ Fault

-----------------------------------------------------------------------------
(* Observe *)

\* Faulty variant of ObserveStart: the graceful pause is not looked at.
ObserveUngated(e) ==
    /\ pc' = "observe.update"
    /\ w' = Begin(e, LabelName(cr))
    /\ UNCHANGED <<cr, rel, rbac, retries, budget>>

(***************************************************************************)
(* A paused composition is reported up to date before anything is written. *)
(* Otherwise the pause time goes and the release name comes, in the copy.  *)
(***************************************************************************)
ObserveStart(e) ==
    /\ IF GracefullyPaused(LabelName(cr))
       THEN /\ pc' = "report.uptodate"
            /\ retries' = [retries EXCEPT ![e] = 0]
            /\ w' = None
       ELSE /\ pc' = "observe.update"
            /\ w' = Begin(e, ClearPausedTime(LabelName(cr)))
            /\ UNCHANGED retries
    /\ UNCHANGED <<cr, rel, rbac, budget>>

ObserveUpdate ==
    /\ pc = "observe.update"
    /\ Write(w.mg, "observe.lookup")
    /\ UNCHANGED <<rel, rbac>>

(***************************************************************************)
(* The package info is read, the definition's labels are written (they are *)
(* not modelled, the conflict the write can meet is), the release is read. *)
(***************************************************************************)
ObserveLookup ==
    /\ pc = "observe.lookup"
    /\ \/ /\ Accepted
          /\ NoFault
          /\ \/ /\ rel.status = "absent"
                /\ Return("report.missing")
             \/ /\ rel.status \in Interrupted
                /\ w' = [w EXCEPT !.pkg = chart, !.held = rel.now]
                /\ Goto("observe.rollback")
             \/ /\ rel.status \notin Interrupted \cup {"absent"}
                /\ w' = [w EXCEPT !.pkg = chart, !.held = rel.now]
                /\ Goto("observe.rbac")
       \/ ~Accepted /\ Fail /\ NoFault
       \/ Fail /\ Fault
    /\ UNCHANGED <<cr, rel, rbac>>

\* Helm rolls back to the revision before the latest one, if there is one.
ObserveRollback ==
    /\ pc = "observe.rollback"
    /\ \/ /\ rel.prev # None
          /\ rel' = Revise("pending-rollback", rel.prev)
          /\ UNCHANGED w
          /\ Goto("observe.rollingback")
          /\ NoFault
       \/ rel.prev = None /\ UNCHANGED rel /\ Fail /\ NoFault
       \/ UNCHANGED rel /\ Fail /\ Fault
    /\ UNCHANGED <<cr, rbac>>

ObserveRolledBack ==
    /\ pc = "observe.rollingback"
    /\ \/ /\ Deployed
          /\ w' = [w EXCEPT !.held = rel.now]
          /\ Goto("observe.rbac")
       \/ Forbidden /\ Fail
       \/ Broken /\ Fail
    /\ UNCHANGED cr

ObserveRBAC ==
    /\ pc = "observe.rbac"
    /\ ApplyRBACThen(Goto("observe.upgrade"),
                     Goto("observe.unavailable") /\ UNCHANGED w)
    /\ UNCHANGED <<cr, rel>>

(***************************************************************************)
(* The digest of the new revision is compared with status.digest, or, when *)
(* that is empty, with the digest of the release found before; then the    *)
(* chart versions of the two releases are compared.                        *)
(***************************************************************************)
PreviousDigest == IF w.mg.digest = None THEN Digest(w.held) ELSE w.mg.digest

Outdated == \/ Digest(rel.now) # PreviousDigest
            \/ w.held.chart # rel.now.chart

Compare == IF Outdated THEN Return("report.outdated")
                       ELSE Goto("observe.status") /\ UNCHANGED w

(***************************************************************************)
(* Helm refuses to upgrade a release another operation is in progress on.  *)
(* It may find that a deployed release would not change and make no        *)
(* revision: composition_test.go counts on it.                             *)
(***************************************************************************)
ObserveUpgrade ==
    /\ pc = "observe.upgrade"
    /\ \/ /\ rel.status \in Pending
          /\ UNCHANGED <<rel, w>>
          /\ Goto("observe.unavailable")
          /\ NoFault
       \/ /\ rel.status \notin Pending
          /\ rel' = Revise("pending-upgrade", Rendered)
          /\ Goto("observe.upgrading") /\ UNCHANGED w
          /\ NoFault
       \/ /\ rel.status = "deployed" /\ rel.now = Rendered
          /\ UNCHANGED rel
          /\ Compare
          /\ NoFault
       \/ /\ UNCHANGED <<rel, w>>
          /\ Goto("observe.unavailable")
          /\ Fault
    /\ UNCHANGED <<cr, rbac>>

ObserveUpgraded ==
    /\ pc = "observe.upgrading"
    /\ \/ Deployed /\ Compare
       \/ Forbidden /\ Goto("observe.unavailable") /\ UNCHANGED w
       \/ Broken /\ Goto("observe.unavailable") /\ UNCHANGED w
    /\ UNCHANGED cr

\* The failure is published if the write succeeds, and is an error anyway.
ObserveUnavailable ==
    LET unavailable == [w.mg EXCEPT !.cond = "Unavailable"]
    IN  /\ pc = "observe.unavailable"
        /\ WriteThen(unavailable, Fail)
        /\ UNCHANGED <<rel, rbac>>

\* Faulty variant of ObserveStatus: the status is patched into whatever the
\* server holds.
ObservePatchStatus ==
    /\ pc = "observe.status"
    /\ cr' = SetStatus(cr, None, Digest(rel.now))
    /\ Return("report.uptodate")
    /\ NoFault
    /\ UNCHANGED <<rel, rbac>>

\* No resources are given to setStatus here.
ObserveStatus ==
    /\ pc = "observe.status"
    /\ WriteLast(SetStatus(w.mg, None, Digest(rel.now)), "report.uptodate")
    /\ UNCHANGED <<rel, rbac>>

-----------------------------------------------------------------------------
(* Create *)

CreateStart(e) ==
    /\ IF GracefullyPaused(cr)
       THEN /\ pc' = "idle"
            /\ retries' = [retries EXCEPT ![e] = 0]
            /\ w' = None
       ELSE /\ pc' = "create.update"
            /\ w' = Begin(e, LabelName(cr))
            /\ UNCHANGED retries
    /\ UNCHANGED <<cr, rel, rbac, budget>>

\* The write is followed by the read of the package info.
CreateUpdate ==
    /\ pc = "create.update"
    /\ WriteThen(w.mg, w' = [w EXCEPT !.pkg = chart] /\ Goto("create.rbac"))
    /\ UNCHANGED <<rel, rbac>>

CreateRBAC ==
    /\ pc = "create.rbac"
    /\ ApplyRBACThen(Goto("create.helm"), Fail)
    /\ UNCHANGED <<cr, rel>>

(***************************************************************************)
(* A release that exists is upgraded instead of installed.  The error of   *)
(* that upgrade is overwritten before it is looked at, so an upgrade that  *)
(* cannot start leaves a nil release and the operation goes on.            *)
(***************************************************************************)
CreateHelm ==
    /\ pc = "create.helm"
    /\ \/ /\ rel.status = "absent"
          /\ rel' = Revise("pending-install", Rendered)
          /\ UNCHANGED w /\ Goto("create.installing")
          /\ NoFault
       \/ /\ rel.status \notin Pending \cup {"absent"}
          /\ rel' = Revise("pending-upgrade", Rendered)
          /\ UNCHANGED w /\ Goto("create.upgrading")
          /\ NoFault
       \/ /\ rel.status \in Pending
          /\ UNCHANGED rel
          /\ UNCHANGED w /\ Goto("create.status")
          /\ NoFault
       \/ UNCHANGED rel /\ Fail /\ Fault
       \/ /\ rel.status # "absent"
          /\ UNCHANGED rel
          /\ UNCHANGED w /\ Goto("create.status")
          /\ Fault
    /\ UNCHANGED <<cr, rbac>>

CreateInstalled ==
    /\ pc = "create.installing"
    /\ \/ /\ Deployed
          /\ w' = [w EXCEPT !.held = rel.now]
          /\ Goto("create.status")
       \/ Forbidden /\ Fail
       \/ Broken /\ Fail
    /\ UNCHANGED cr

\* A failed upgrade may return the revision it made or nothing; either way
\* the operation goes on.
CreateUpgraded ==
    /\ pc = "create.upgrading"
    /\ \/ Deployed /\ w' = [w EXCEPT !.held = rel.now]
       \/ /\ Forbidden \/ Broken
          /\ \E r \in {None, rel.now} : w' = [w EXCEPT !.held = r]
    /\ Goto("create.status")
    /\ UNCHANGED cr

\* Faulty variant of CreateStatus: the digest is that of what was asked for,
\* whatever the upgrade returned.
CreateStatusOfValues ==
    /\ pc = "create.status"
    /\ Write(SetStatus(w.mg, Digest(Rendered), Digest(Rendered)), "create.unpause")
    /\ UNCHANGED <<rel, rbac>>

CreateStatus ==
    /\ pc = "create.status"
    /\ Write(SetStatus(w.mg, Digest(w.held), Digest(w.held)), "create.unpause")
    /\ UNCHANGED <<rel, rbac>>

CreateUnpause ==
    /\ pc = "create.unpause"
    /\ WriteLast(ClearPausedTime(w.mg), "idle")
    /\ UNCHANGED <<rel, rbac>>

-----------------------------------------------------------------------------
(* Update: no Helm operation, it records the release Observe has upgraded. *)

UpdateStart(e) ==
    /\ IF GracefullyPaused(cr)
       THEN /\ pc' = "idle"
            /\ retries' = [retries EXCEPT ![e] = 0]
            /\ w' = None
       ELSE /\ pc' = "update.lookup"
            /\ w' = Begin(e, cr)
            /\ UNCHANGED retries
    /\ UNCHANGED <<cr, rel, rbac, budget>>

UpdateLookup ==
    /\ pc = "update.lookup"
    /\ \/ /\ rel.status # "absent"
          /\ w' = [w EXCEPT !.pkg = chart, !.held = rel.now]
          /\ Goto("update.record")
          /\ NoFault
       \/ rel.status = "absent" /\ Fail /\ NoFault
       \/ Fail /\ Fault
    /\ UNCHANGED <<cr, rel, rbac>>

UpdateRecord ==
    /\ pc = "update.record"
    /\ Write(SetStatus(w.mg, Digest(w.held), Digest(w.held)), "update.pause")
    /\ UNCHANGED <<rel, rbac>>

\* The pause takes effect for every later operation with this write.
UpdatePause ==
    /\ pc = "update.pause"
    /\ WriteLast([w.mg EXCEPT !.pausedTime = w.mg.pauseAnn], "idle")
    /\ UNCHANGED <<rel, rbac>>

-----------------------------------------------------------------------------
(* Delete *)

\* Faulty variant of DeleteStart: the permissions go before the release.
DeleteStartWithRBAC(e) ==
    /\ w' = Begin(e, cr)
    /\ pc' = IF GracefullyPaused(cr) THEN "finalize" ELSE "delete.rbac"
    /\ UNCHANGED <<cr, rel, rbac, retries, budget>>

\* A paused composition loses its finalizer with its release in place.
DeleteStart(e) ==
    /\ w' = Begin(e, cr)
    /\ pc' = IF GracefullyPaused(cr) THEN "finalize" ELSE "delete.uninstall"
    /\ UNCHANGED <<cr, rel, rbac, retries, budget>>

(***************************************************************************)
(* Get, uninstall, get again: an answer that is lost after the uninstall   *)
(* is an error although the release is gone.  Uninstalling the release     *)
(* deletes the namespaces that belong to it.                               *)
(***************************************************************************)
Uninstalled ==
    /\ rel' = NoRelease
    /\ rbac' = DropNamespaces(rbac, ShippedNamespaces(Needs[rel.now]))

\* Helm has not deleted everything; what it has can include namespaces.
HalfUninstalled ==
    /\ rel' = Recorded("uninstalling")
    /\ \E ns \in SUBSET ShippedNamespaces(Needs[rel.now]) :
          rbac' = DropNamespaces(rbac, ns)

\* Faulty variant of DeleteUninstall: its error is only logged.
DeleteUninstallOrNot ==
    /\ pc = "delete.uninstall"
    /\ IF rel.status = "absent"
       THEN UNCHANGED <<rel, rbac>> /\ Goto("finalize") /\ NoFault
       ELSE /\ Goto("delete.rbac")
            /\ \/ Uninstalled /\ NoFault
               \/ UNCHANGED <<rel, rbac>> /\ Fault
    /\ UNCHANGED <<cr, w>>

DeleteUninstall ==
    /\ pc = "delete.uninstall"
    /\ \/ /\ rel.status = "absent"
          /\ UNCHANGED <<rel, rbac, w>>
          /\ Goto("finalize")
          /\ NoFault
       \/ /\ rel.status # "absent" /\ Allowed
          /\ Uninstalled
          /\ UNCHANGED w
          /\ Goto("delete.rbac")
          /\ NoFault
       \/ /\ rel.status # "absent" /\ ~Allowed
          /\ HalfUninstalled
          /\ Fail
          /\ NoFault
       \/ /\ \/ UNCHANGED <<rel, rbac>>
             \/ rel.status # "absent" /\ HalfUninstalled
             \/ rel.status # "absent" /\ Allowed /\ Uninstalled
          /\ Fail
          /\ Fault
    /\ UNCHANGED cr

\* The policy to remove is generated again, from what the inspector says now.
DeleteRBAC ==
    /\ pc = "delete.rbac"
    /\ \E listed \in SUBSET Needs[Inspected] :
          LET steps == RemoveSteps(Generate(listed))
          IN  \/ /\ rbac' = Remove(rbac, steps)
                 /\ Goto("delete.update") /\ UNCHANGED w
                 /\ Answered(listed)
              \/ /\ \E done \in Progress(steps) : rbac' = Remove(rbac, done)
                 /\ Fail
                 /\ Fault
    /\ UNCHANGED <<cr, rel>>

DeleteUpdate ==
    /\ pc = "delete.update"
    /\ Write(ClearPausedTime(w.mg), "finalize")
    /\ UNCHANGED <<rel, rbac>>

-----------------------------------------------------------------------------
\* One step of the operation that is running.
HandlerStep ==
    /\ \/ ObserveUpdate    \/ ObserveLookup     \/ ObserveRollback
       \/ ObserveRolledBack \/ ObserveRBAC      \/ ObserveUpgrade
       \/ ObserveUpgraded  \/ ObserveUnavailable \/ ObserveStatus
       \/ CreateUpdate     \/ CreateRBAC        \/ CreateHelm
       \/ CreateInstalled  \/ CreateUpgraded    \/ CreateStatus
       \/ CreateUnpause    \/ UpdateLookup      \/ UpdateRecord
       \/ UpdatePause      \/ DeleteUninstall   \/ DeleteRBAC
       \/ DeleteUpdate
    /\ UNCHANGED <<phase, chart>>

=============================================================================
