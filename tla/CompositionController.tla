------------------------ MODULE CompositionController ------------------------
(***************************************************************************)
(* The composition handler inside the controller that drives it: typed     *)
(* events in a work queue, one worker, retries with a limit, a periodic    *)
(* resync, and around it a user who edits, pauses and deletes the          *)
(* composition, a definition whose chart changes, and a process that can   *)
(* crash and restart at any step.                                          *)
(***************************************************************************)
EXTENDS CompositionHandler

CONSTANT Budgets   \* how many failures and edits a behaviour can have

ASSUME BudgetAssumption == Budgets \subseteq [Disturbance -> Nat]

TypeOK ==
    /\ phase \in {"live", "deleting", "gone"}
    /\ cr \in Composition
    /\ chart \in Charts
    /\ rel \in Release
    /\ rbac \in Store
    /\ queue \subseteq Event
    /\ retries \in [Event -> 0..MaxRetries]
    /\ pc \in Control
    /\ w \in Work \cup {None}
    /\ Running => w \in Work
    /\ budget \in [Disturbance -> Nat]

Init ==
    /\ phase = "live"
    /\ cr \in {c \in Composition :
                  /\ ~c.pausedTime /\ ~c.named
                  /\ c.digest = None /\ c.managed = None
                  /\ c.cond = "Unknown"}
    /\ chart \in Charts
    /\ rel = NoRelease
    /\ rbac = EmptyStore
    /\ queue = {"Observe"}
    /\ retries = [e \in Event |-> 0]
    /\ pc = "idle"
    /\ w = None
    /\ budget \in Budgets

-----------------------------------------------------------------------------
(* The runtime *)

\* The worker takes an event from the queue.  A composition with a deletion
\* timestamp is deleted, whatever the event.
Serve(e) ==
    /\ pc = "idle" /\ e \in queue /\ phase # "gone"
    /\ queue' = queue \ {e}
    /\ CASE e = "Delete" \/ phase = "deleting" -> DeleteStart(e)
         [] e = "Observe" /\ phase = "live"     -> ObserveStart(e)
         [] e = "Create" /\ phase = "live"      -> CreateStart(e)
         [] e = "Update" /\ phase = "live"      -> UpdateStart(e)
    /\ UNCHANGED <<phase, chart>>

\* The outcome of Observe decides which event comes next.
Dispatch ==
    /\ pc \in Report
    /\ pc' = "idle"
    /\ queue' = queue \cup (CASE pc = "report.uptodate" -> {}
                              [] pc = "report.missing"  -> {"Create"}
                              [] pc = "report.outdated" -> {"Update"})
    /\ UNCHANGED <<phase, cr, chart, rel, rbac, retries, w, budget>>

\* Delete has returned no error: the finalizer is removed and the API server
\* forgets the composition.
Finalize ==
    /\ pc = "finalize"
    /\ \/ /\ phase' = "gone"
          /\ queue' = {}
          /\ pc' = "idle"
          /\ w' = None
          /\ UNCHANGED <<retries, budget>>
       \/ Fail /\ Fault /\ UNCHANGED phase
    /\ UNCHANGED <<cr, chart, rel, rbac>>

Resync ==
    /\ phase # "gone" /\ "Observe" \notin queue
    /\ queue' = queue \cup {"Observe"}
    /\ UNCHANGED <<phase, cr, chart, rel, rbac, retries, pc, w, budget>>

\* The queue, the counters and the locals are lost; the restarted controller
\* lists the compositions and observes them.
Crash ==
    /\ phase # "gone"
    /\ Spend("failure")
    /\ queue' = {"Observe"}
    /\ retries' = [e \in Event |-> 0]
    /\ pc' = "idle"
    /\ w' = None
    /\ UNCHANGED <<phase, cr, chart, rel, rbac>>

-----------------------------------------------------------------------------
(* The user and the definition *)

\* A change of the composition moves its resourceVersion on.
Outrun == w' = IF Running THEN [w EXCEPT !.fresh = FALSE] ELSE w

\* Updates of the composition arrive as Observe events.
Edit(new) ==
    /\ phase # "gone"
    /\ Spend("edit")
    /\ cr' = new
    /\ Outrun
    /\ queue' = queue \cup {"Observe"}
    /\ UNCHANGED <<phase, chart, rel, rbac, retries, pc>>

EditSpec == \E s \in Specs \ {cr.spec} : Edit([cr EXCEPT !.spec = s])

TogglePause == Edit([cr EXCEPT !.pauseAnn = ~@])

DeleteComposition ==
    /\ phase = "live"
    /\ Spend("edit")
    /\ phase' = "deleting"
    /\ Outrun
    /\ queue' = queue \cup {"Delete"}
    /\ UNCHANGED <<cr, chart, rel, rbac, retries, pc>>

\* The controller does not watch definitions.
ChangeChart ==
    /\ phase # "gone"
    /\ Spend("edit")
    /\ \E c \in Charts \ {chart} : chart' = c
    /\ UNCHANGED <<phase, cr, rel, rbac, queue, retries, pc, w>>

-----------------------------------------------------------------------------
Worker == HandlerStep \/ Dispatch \/ Finalize

User == EditSpec \/ TogglePause \/ DeleteComposition \/ ChangeChart

Next == Worker \/ (\E e \in Event : Serve(e)) \/ Resync \/ Crash \/ User

Spec == Init /\ [][Next]_vars

(***************************************************************************)
(* The worker does not stop in the middle of an operation, the resync      *)
(* timer fires, and an event that is queued again and again is served:     *)
(* the work queue is first in, first out.                                  *)
(***************************************************************************)
Fairness == /\ WF_vars(Worker)
            /\ WF_vars(Resync)
            /\ \A e \in Event : SF_vars(Serve(e))

FairSpec == Spec /\ Fairness

-----------------------------------------------------------------------------
(* Safety *)

\* The release name is on the composition before a release of that name
\* exists, so Update and Delete, which only read the label, find it.
ReleaseIsNamed == rel.status # "absent" => cr.named

\* A Helm operation starts only after everything the inspector listed for
\* this operation is granted, whatever part of the RBAC walk failed before.
HelmStep == {"observe.upgrade", "observe.upgrading",
             "create.helm", "create.installing", "create.upgrading"}

HelmAfterRBAC == pc \in HelmStep => Covered(w.seen, rbac)

\* Once Observe has written its copy back, a pause cannot come into force
\* under its feet: it rolls back, grants and upgrades only while the
\* composition is not paused.
ObserveRespectsPause ==
    pc \in ObserveStep \ {"observe.update"} => ~GracefullyPaused(cr)

\* What "up-to-date" promises about the cluster and the composition.
UpToDateMatches ==
    /\ rel.status = "deployed"
    /\ rel.now.spec = cr.spec
    /\ rel.now.paused = cr.pauseAnn
    /\ cr.digest = Digest(rel.now)

\* When Observe reports "up-to-date" after its status write, the release is
\* deployed from the spec and the pause request the server holds at that
\* moment, and status.digest is the digest of that release.
UpToDateIsDeployed ==
    [][pc = "observe.status" /\ pc' = "report.uptodate" => UpToDateMatches']_vars

\* The composition disappears only when its release is gone, or when the
\* Delete that let it go found it gracefully paused.
FinalizerGuardsRelease ==
    [][phase' = "gone" /\ phase # "gone" =>
          rel.status = "absent" \/ GracefullyPaused(w.mg)]_vars

\* Delete takes permissions away only once the release they serve is gone: a
\* failed or interrupted deletion keeps every role its retry needs, but for
\* those that went with a namespace of the release.
RevokeAfterUninstall ==
    [][rel'.status # "absent" /\ pc \in DeleteStep =>
          \A o \in rbac.objects \ rbac'.objects :
              o[2] \in ShippedNamespaces(Needs[rel.now])]_vars

\* No write of the controller undoes what the user has written meanwhile.
NoLostEdit ==
    [][pc' # pc => cr'.spec = cr.spec /\ cr'.pauseAnn = cr.pauseAnn]_vars

-----------------------------------------------------------------------------
(* What the safety properties rest on: the state between the steps of an    *)
(* operation.                                                               *)

\* The package info is there when a release is rendered from it.
PackageKnown ==
    pc \in {"observe.rbac", "observe.rollback", "observe.rollingback",
            "observe.upgrade", "create.rbac", "create.helm"}
        => w.pkg \in Charts

\* While its resourceVersion is the server's, the copy has the user's fields
\* as the server has them.
CopyIsCurrent ==
    Running /\ w.fresh => w.mg.spec = cr.spec /\ w.mg.pauseAnn = cr.pauseAnn

\* The release name gets to the server before the first Helm operation and
\* no later write takes it back.
NameIsKept ==
    /\ Running /\ cr.named => w.mg.named
    /\ pc \in {"observe.update", "create.update"} => w.mg.named
    /\ pc \in (ObserveStep \cup CreateStep) \ {"observe.update", "create.update"}
          => cr.named

\* Observe has dropped the pause time, first in its copy, then in the server.
PauseIsDropped ==
    /\ pc \in ObserveStep => ~w.mg.pausedTime
    /\ pc \in ObserveStep \ {"observe.update"} => ~cr.pausedTime

\* Observe's revision is rendered from its copy.
RevisionIsOfCopy ==
    /\ pc \in {"observe.upgrading", "observe.status"} =>
          rel.now.spec = w.mg.spec /\ rel.now.paused = w.mg.pauseAnn
    /\ pc = "observe.status" => rel.status = "deployed"

\* Delete gets to the permissions, and to the finalizer, after the release.
UninstalledFirst ==
    /\ pc \in {"delete.rbac", "delete.update"} => rel.status = "absent"
    /\ pc = "finalize" => rel.status = "absent" \/ GracefullyPaused(w.mg)

IInv == /\ TypeOK /\ PackageKnown /\ CopyIsCurrent /\ NameIsKept
        /\ PauseIsDropped /\ RevisionIsOfCopy /\ UninstalledFirst
        /\ ReleaseIsNamed /\ HelmAfterRBAC

-----------------------------------------------------------------------------
(* What a user of the composition sees of all this *)

\* An operation is under way that began while the composition was live.
Deploying == pc \in ObserveStep \cup CreateStep \cup UpdateStep

\* Delete is about to let a composition go that still has a release.
Sparing == pc = "finalize" /\ rel.now # None

Lifecycle == INSTANCE CompositionLifecycle WITH
    asked     <- [spec |-> cr.spec, paused |-> cr.pauseAnn],
    mark      <- cr.pausedTime,
    deploying <- Deploying,
    release   <- rel.now,
    digest    <- cr.digest,
    managed   <- cr.managed,
    spared    <- Sparing

\* The controller, its queue, its retries, its crashes and the walks over the
\* permissions implement the life of a composition as its user knows it.
ImplementsLifecycle == Lifecycle!Spec

(***************************************************************************)
(* What the implementation rests on, beyond IInv.                          *)
(***************************************************************************)

\* Delete is never asked of a live composition, and nothing runs for one that
\* is gone.
DeletionIsAsked ==
    /\ "Delete" \in queue => phase # "live"
    /\ Running /\ w.op = "Delete" => phase # "live"
    /\ pc \in DeleteStep \cup {"finalize"} => phase = "deleting"
    /\ phase = "gone" => pc = "idle"

\* The fields only the controller writes are in its copy as in the server,
\* but for the pause time that Observe is about to drop.
CopyOfStatus ==
    Running => /\ w.mg.digest = cr.digest
               /\ w.mg.managed = cr.managed
               /\ pc # "observe.update" => w.mg.pausedTime = cr.pausedTime

\* Create and Update report the latest revision or none.
HeldIsLatest ==
    /\ pc \in {"create.update", "create.rbac", "create.helm"} => w.held = None
    /\ pc \in {"create.status", "update.record"} => w.held \in {None, rel.now}

AbsentIsNone == rel.status = "absent" => rel.now = None

LifecycleInv == DeletionIsAsked /\ CopyOfStatus /\ HeldIsLatest /\ AbsentIsNone

-----------------------------------------------------------------------------
(* Liveness *)

Desired == [chart |-> chart, spec |-> cr.spec, paused |-> cr.pauseAnn]

\* The last revision is the desired one, and so is what the status says.
Settled == /\ phase = "live"
           /\ rel.now = Desired
           /\ cr.digest = Digest(Desired)
           /\ cr.cond = "Available"

Frozen == GracefullyPaused(cr)

\* Helm cannot leave these states and Observe does not: a rollback that was
\* interrupted, a first install that was.
Wedged == \/ rel.status = "pending-rollback"
          \/ rel.status = "pending-install" /\ rel.prev = None

\* The permissions no longer cover what must be uninstalled, and Delete does
\* not grant any.
Stranded == phase = "deleting" /\ rel.status # "absent" /\ ~Allowed

\* When edits, faults and crashes stop, the composition ends up deployed as
\* desired and published as such, frozen by a pause, gone, or in one of the
\* two states above.
Converges == <>[](Settled \/ Frozen \/ phase = "gone" \/ Wedged \/ Stranded)

=============================================================================
