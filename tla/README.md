# The composition dynamic controller in TLA+

The controller reconciles one kind of custom resource, the *composition*, by
installing, upgrading and uninstalling a Helm release for it. This directory
holds a specification of it, TLC runs on small instances, and theorems checked
by TLAPS. Paths are relative to the repository's `src/`; a bare
`composition.go` is `internal/composition/composition.go`.

## 1. The system

| Component | State it keeps | Operations | What makes it correct |
|---|---|---|---|
| composition handler (`composition.go`) | none between calls; locals `mg`, `pkg`, `rel` during one | Observe, Create, Update, Delete | no lost edits; Helm only after RBAC; up-to-date is true; nothing is left behind by a delete; convergence |
| composition status (`support.go`, `condition.go`) | `status.digest`, `status.managed`, conditions, in the API server | setStatus, populateManagedResources | digest, resources and condition describe one release |
| labels and annotations (`meta.go`) | release name, pause request, pause time, definition labels, on the composition | SetReleaseName, IsGracefullyPaused, SetGracefullyPausedTime, ... | the name exists before the release and stays; the pause test is the same everywhere |
| RBAC generator (`rbacgen.go`) | base name | Generate | grants everything the chart needs |
| RBAC installer (`rbac/installer.go`, `rbac/rbac.go`) | roles, bindings, namespaces, in the API server | ApplyRBAC, UninstallRBAC and one method per object | a walk that stops halfway is never acted on |
| release digest (`processor`, `hasher`) | none | DecodeMinRelease, ComputeReleaseDigest | same manifest, same digest, by both routes; every object once |
| chart inspector client (`chartinspector.go`) | none | Resources | an answer about what is going to run |
| package info getter (`archive/getter.go`) | none; its answer becomes five labels of the composition | Get, searchCompositionDefinition | the definition that belongs to the composition, and keeps belonging to it |
| request tracer (`tracer.go`) | recorded resources | RoundTrip | a path is taken for the resource it stands for |
| REST mapper (`tools/dynamic`) | discovery cache | IsNamespaced | the scope of a kind reaches `status.managed` |
| process wiring (`main.go`) | flags | main | retries, resync, workers |

Outside the repository, and modelled by what the handler relies on: the
`unstructured-runtime` controller that queues events and calls the handler, the
Kubernetes API server, Helm, the chart inspector service.

**How they interact.** The runtime takes an event from its work queue and calls
one operation of the handler with the composition. Observe labels the
composition, reads the package info and the release, rolls an interrupted
release back, asks the inspector for the chart's resources, writes RBAC for
them, *upgrades* the release and compares digests. Its answer is turned into
the next event: release missing -> Create, digest changed -> Update, otherwise
nothing. Create does the same with an install. Update runs no Helm operation: it
records the release that Observe has upgraded and puts a requested pause into
force. Delete uninstalls, removes the RBAC and lets the runtime remove the
finalizer. Helm runs as the controller's service account and may do what the
generated RBAC grants.

**What is hard.** Every operation is a sequence of some ten requests to four
servers. The composition and its definition change in between; each request can
fail, also after it took effect; the process can stop anywhere, in the middle of
a Helm operation too; an event is retried a limited number of times. `PROJECT.json`
lists these hazards with the line at which each bites.

## 2. The modules

| Module | Models | Use |
|---|---|---|
| `RBACPolicy` | `rbacgen.go`, `rbac/rbac.go`, RBAC authorization, what a walk of the installer comes to | operators, no state |
| `CompositionHandler` | `composition.go`: the four operations; the inspector's answer | state and one action per step; extends `RBACPolicy` |
| `CompositionController` | queue, worker, retries, resync, crash, user, definition | `Init`, `Next`, `Spec`, fairness, properties, invariants; extends `CompositionHandler` |
| `CompositionLifecycle` | what a user is promised of one composition | abstract specification; `CompositionController` implements it |
| `RBACInstaller` | `rbac/installer.go` request by request, several compositions, workers | state machine; extends `RBACPolicy` |
| `RBACWalks` | what the handler assumes of a walk: one step | abstract specification; `RBACInstaller` implements it |
| `PackageGetter` | `archive/getter.go`, the labels of `meta.go:70`, `composition.go:145-159` | state machine |
| `ReleaseResources` | `processor`, `hasher`, `support.go:133-178`, `dynamic.go:35`, path reading of `tracer.go` | state machine |
| `CompositionClaims` | - | what documents and comments say and the code does not do |
| `...Proofs` | - | the theorems of the module before the suffix |
| `MCController`, `MCInstaller`, `MCGetter`, `MCResources` | - | the constants of the TLC instances (`MCInstaller` with one claim) |

Each component machine leaves out what another one has. `CompositionHandler` takes
ApplyRBAC and UninstallRBAC as one step, made of the operators of `RBACPolicy`: a
walk completes, or fails with any part done that its order allows (`Progress`),
all of it included, since the last answer can be lost. `RBACWalks` is a machine
of these steps alone, and `RBACInstaller` shows that the walks, request by
request, come to no more than that (`AtomicWalks`). `CompositionHandler` reads the chart version in one step,
which `PackageGetter` takes apart; it has one digest of a release, and
`ReleaseResources` shows that the two routines that compute it agree.

### The controller: `CompositionHandler`, `CompositionController`

* `cr`: the composition in the API server: `spec`, the pause annotation
  (`pauseAnn`), the pause time (`pausedTime`), the release-name label (`named`),
  `status.digest`, `status.managed`, the Ready condition. `phase` is its
  deletion timestamp and its existence.
* `chart`: the version the composition definition points to. The controller does
  not watch it.
* `rel`: Helm's record: status, and the content (chart, spec, pause value) of the
  latest revision and of the one before.
* `rbac`: namespaces, roles, bindings and rules of this composition.
* `queue`, `retries`: the runtime's work queue and failure counts.
* `pc`, `w`: the step the worker is at and the operation's locals. `w.fresh`
  stands for the resourceVersion: it is true while nothing has changed since
  `w.mg` was read or written. `w.seen` is the list the inspector answered.
* `budget`: how many failures (of a request, or of the whole process) and how
  many edits are still to come; it starts as one of the constant `Budgets`.

An operation is cut where the rest of the world can see it or get in between: at
each write to the API server, at a walk of the RBAC installer, and at the
beginning and the end of each Helm operation. `Observe` is `ObserveStart`,
`ObserveUpdate` (label and pause time, `composition.go:135`), `ObserveLookup`
(package info, definition labels, release, `:142`), `ObserveRollback` and
`ObserveRolledBack` (`:182`), `ObserveRBAC` (`:193`), `ObserveUpgrade` and
`ObserveUpgraded` (`:236`), `ObserveUnavailable` (the three error paths that
publish a condition), `ObserveStatus` (`:318`); Create, Update and Delete are cut
in the same way and named after what they do. `map` in `PROJECT.json` gives the
lines of every definition.

Each write is `WriteThen`: accepted if the copy is fresh; refused with a conflict
if not; or failing, with or without having been applied. The inspector's answer
is `Answered`: a body that breaks off after an element is a shorter list and no
error (`chartinspector.go:137`). `Fail` is an error return: the event is queued
again until `MaxRetries`, then dropped. A Helm operation ends as `Deployed`,
`Forbidden` (a needed permission is missing) or `Broken` (a request failed; the
revision can be in any state, the last write can even have been applied).

`Serve` takes an event; `Dispatch` turns Observe's answer into an event;
`Finalize` removes the finalizer; `Resync` queues an Observe; `Crash` loses
queue, counters and locals, and the restarted process observes what it lists.
`EditSpec`, `TogglePause`, `DeleteComposition` and `ChangeChart` are the user.

### The life cycle: `CompositionLifecycle`

What is asked for, what is deployed, what the status says, and when it ends; no
worker, queue, retry, crash, chart or permission. Its rules: work begins only
for a live composition with no pause in force (`Begin`); a release is replaced
by another one and never just taken away while the composition lives
(`Revise`, `Withdraw`); the status speaks of the latest revision or is emptied
(`Publish`); only a pause somebody asks for is accepted (`Accept`); the
composition leaves after its release, or spared by a pause (`Leave`, `Spare`).
The mapping in `CompositionController` (`Lifecycle`) reads the release from
Helm's latest revision and `deploying` from the worker's step.

### The installer: `RBACInstaller`, `RBACWalks`

`owner` gives each namespace the composition its annotations name (or
`Foreign`), `objects` and `rules` the roles and bindings under their base names;
`job[c]` is the walk of composition `c`, with the steps behind it and the one
whose Get has been answered. `Probe` is the Get (only NotFound leads to Create;
another error falls through to Update, `installer.go:86`), `Write` the Create or
Update, `Delete` a deletion, `Break` a failed request with or without effect and
the early return, `Finish` the end. Between its two requests other walks, Helm
(`Prune`) and a crash get in. `Due` is the order of the walk: namespaces,
ClusterRole, ClusterRoleBinding, then pair after pair in the order of a Go map.

`Walks` hides a running walk (`Settled`: what the handler has seen come back)
and must then be a behaviour of `RBACWalks`, where the walk is one step that
stopped at some point of the order. This is asked of a composition that shares
nothing with another one: neither base name nor a namespace that the other ships
(`Sharing`). For one that shares, nothing is promised, and the run
`rbacIsIsolated` shows what happens.

### The getter: `PackageGetter`

`defs` are the definitions with what they serve (an API: version and kind) and
whether a chart can be read from them; `api` and `labels` belong to the
composition; `w` is the operation with its copy. `Get` asks for the labelled
definition: it is taken if it serves the copy's API, ends the operation if it
has no status, and otherwise the search takes over, also after a failed request.
`Search` takes the only definition there is, or one that serves the API.
`Chosen` writes the labels in Observe and nothing in Create, Update and Delete.
`Change` and `Migrate` are the world. `w.lapsed`, `w.seen` and `w.sole` are
history for the properties.

### The report: `ReleaseResources`

A manifest is a sequence of documents: objects, comments, malformed text. `Read`
fetches any number of further documents (the decoder's buffer is 4096 bytes, a
document longer or shorter), `Decode` hands out the next one, `EndOfManifest` is
`io.EOF`; `StreamedDigest` is the hash of what was *read*. `Record` is
populateManagedResources and the status write. `Observe` compares
`ComputeReleaseDigest` with the recorded digest; what it asks for is in `queue`,
from which an event that failed is retried or dropped (`Fail`). So `Create` comes
back and finds a release: it upgrades, and the error of the upgrade is lost
(`composition.go:451-466`). What Create then reports is the manifest the upgrade
returned, or that of a nil release, which has no digest and no resources. `Segments` is the path of an
object and `Traced` what the tracer takes a path for; the tracer never meets these
paths in the code, and serves here as a reader that goes by the Kubernetes API's
own rules.

Names beginning with "Faulty variant of" in their comment are not part of the
specifications: each is the plausible bug with which a property is tested.

### Assumptions of the models

* The runtime serves one composition at a time, with any number of workers
  (`main.go:52`). The controller module has one composition; several meet in
  `RBACInstaller`.
* The runtime reads the composition when it serves the event, and routes every
  event of a composition with a deletion timestamp to Delete.
* The digest is injective: a 64-bit hash is taken to tell manifests apart.
* Status fields that are written and never read (`previousDigest`,
  `helmChartUrl`, `helmChartVersion`) and messages are left out.
* The PUT of the definition labels (`composition.go:156`) is part of
  `ObserveLookup`: there the conflict it can meet is modelled, the labels in
  `PackageGetter`.
* Generate and ApplyRBAC are one step of the handler: nothing ApplyRBAC does
  depends on the composition, and an edit after the inspector's answer is an edit
  after the step.
* Helm rolls back to the revision before the latest, refuses to upgrade while an
  operation is pending, and may or may not make a revision when a deployed
  release would not change (`composition_test.go:486` counts on the latter; both
  are allowed). A namespace a revision no longer has is deleted or stays.
* Delete of a composition without a release name asks Helm for a release with an
  empty name; that is taken to be absent.
* Deleting while paused gives up the finalizer and leaves the release, by design
  of the pause (`composition.go:643`); the properties of deletion exempt it.
* `PackageGetter`: a composition that moves to another version is served by
  another controller process (label selector in `main.go`); the model has one
  operation at a time across the two.
* `ReleaseResources`: an operation is its release and its report; the chart
  version compared at `composition.go:310`, pauses and permissions are in the
  controller module.

## 3. What is checked

### Passing runs

**core** (`Core.cfg`): two charts, two specs, two namespaces, one retry, and at
most one failure (a failing request or a crash) with two edits, or three failures
without an edit, in every order. Chart `c1` ships
namespace `n1` and a resource in it; `c2` needs a cluster-scoped resource and one
in `n2`: a change of chart narrows the ClusterRole, leaves a Role behind and
drops a namespace. 984 thousand states; specs are symmetric.

| Property | Says |
|---|---|
| `TypeOK` | types; retry counters within the limit |
| `ReleaseIsNamed` | the release name is on the server before a release exists |
| `HelmAfterRBAC` | Helm starts only with everything granted the inspector listed |
| `ObserveRespectsPause` | after its first write Observe never runs on a paused composition |
| `UpToDateIsDeployed` | "up-to-date" means deployed, from the spec and pause request the server holds *now*, with its digest |
| `FinalizerGuardsRelease` | the composition does not go before its release |
| `RevokeAfterUninstall` | deletion keeps the permissions its retry needs |
| `NoLostEdit` | no step of the controller undoes a user's edit |
| `ImplementsLifecycle` | the controller implements `CompositionLifecycle` |

Two edits are what the races need (a spec edit or a pause, and a deletion or a
change of chart); one failure gives each request its error, and a retry or a
restart after it. An interrupted rollback takes two failures, a crash inside an
upgrade and one inside its rollback; the third is for what follows. (With a failing request *and* a crash beside two edits the
state space is 2.65 million states and shows nothing else.) `MaxRetries = 1` makes
both a retry and a dropped event happen. Deadlock is not checked: the system stops
when the composition is gone.

**converges** (`Converges.cfg`): `Converges`, under fairness, with one failure and
one edit (146 thousand states; with two failures and one spec, 330 thousand, the
result is the same). Eventually the composition stays `Settled` (latest revision
and digest are the desired ones, condition Available), `Frozen` by a pause, gone,
`Wedged` or `Stranded`. The last two are states the code has no way out of:
*wedged* is an interrupted first install (there is no revision to roll back to)
or an interrupted rollback (`composition.go:182` does not look for
`pending-rollback`); *stranded* is a deletion whose permissions no longer cover
the release. They are named in the property so that nothing else hides behind
them; both are findings (`StuckIsRolledBack`, `DeleteCompletes`), and the
theorem `NoWayOut` says that the code leaves neither by itself. No symmetry
here.

**installer** (`Installer.cfg`): two compositions with base names of their own;
`a` has two charts, one of which ships `n1`, a namespace that is there already
and that `b` has a resource in. So `a` takes over a foreign namespace, can lose
its own objects only by its own doing, and `b` is hit by `a`; failures and
crashes are unlimited. 433 thousand states. `AtomicWalks`: every walk of a
composition that shares nothing implements the atomic one. `GrantsLast`: what a
successful ApplyRBAC granted it lasts until its own handler acts again.
`NoMoreThanNeeded`: README.md:51 says the service account has "exactly the
permissions needed - no more, no less". That is not so of roles a chart has left
behind, which ApplyRBAC does not delete; what holds is that the roles of the policy
a successful ApplyRBAC wrote are exact, that what an UninstallRBAC has deleted
does not come back, and that a role a chart has left behind keeps no more than
one of the composition's charts needs there.

**getter** (`Getter.cfg`): two definitions, two APIs, one failing request,
unlimited changes and migrations; 36.7 thousand states. Two definitions give no,
one and several candidates; a third adds no new case of the search.
`DefinitionIsKept`: an operation leaves the labelled definition only if that has
stopped serving the API or could not be read. `LabelsMatch`: labels come to name
a definition that served the API the composition has at the write, or the only
one there was. `LabelsSettle` (liveness): when one definition is the only one
serving the API for good, the labels end there, unless they name one without a
status, on which `getter.go:173` gives up.

**resources** (`Resources.cfg`): manifests that are blank, without an object, with
comments between objects, cut short and with an unknown kind; namespaced and
cluster-scoped kinds of the core group and of others; a handler with and without a
mapper; two failing requests, two changes. 76.8 thousand states. Two failures make
Create fail after its install and again in the upgrade of the retry, or in the
status write after that. `DigestsAgree`,
`ObjectsInOrder` and `PathsLeadBack` are about one report. `ObjectsInOrder` says
it by ranks: the object of a document is in the report at the place that counts
the objects up to it. `SelectSeqAgrees` compares that with the filter of the
standard library on every manifest of the instance. `Settles` (liveness) says that
Observe and Update come to an end with the release and digest of the manifest,
from a report that failed or was never written too.

Every property has a mutant in `PROJECT.json`: a definition replaced by one of
the faulty variants, with which TLC finds the property violated.

### Fairness

* Controller. `WF(Worker)`: the worker goroutine does not stop inside an
  operation (requests have timeouts). `WF(Resync)`: the timer of `main.go:53`.
  `SF(Serve(e))` for each event: the work queue is first in first out, so an event
  that keeps coming is served, though Observe may be at the worker in between. The
  user, the definition and the crash get none; failures and edits are finite by
  `budget`.
* Getter. `WF(Operation)`, as above; `SF(Begin("Observe"))`: other operations are
  in between, and the timer brings Observe again and again.
* Resources. `WF(Controller)`: the worker goes on. `SF` of `Observe`, `Create` and
  `Update` each: the timer brings Observe again and again, and the queue is first
  in first out.

### Claims the code does not keep

Each run checks one claim and finds a counterexample; `findings` in
`PROJECT.json` quotes the line.

| Run | Behaviour found |
|---|---|
| `ManagedIsCurrent` | the install took effect and Create failed on its last answer: the next Observe reports up-to-date with a digest and no resources (`composition.go:294-301`) |
| `PauseTakesEffect` | annotated before the install: never paused |
| `CreatedIsDeployed` | "Composition created" for a failed upgrade |
| `DeleteRemovesRBAC` | the uninstall took effect and its answer was lost: the retry finds no release and leaves every role (`composition.go:671`) |
| `StuckIsRolledBack` | a first install that was interrupted has no revision to go back to: every Observe fails in its rollback, for ever |
| `DeleteCompletes` | a deletion that can never uninstall |
| `RBACIsIsolated` | two compositions with the same release name in two namespaces: one takes the other's permissions away |

Two more disagreements have no run of their own. When the chart version changes
between the last ApplyRBAC and UninstallRBAC, Delete removes the policy of the
new chart (`composition.go:693`) and the roles of the old one stay: a second way
to break `DeleteRemovesRBAC`, with two edits and no failure. And `NewHandler` does
not store its mapper (`composition.go:79`), so every resource is reported as
cluster-scoped, where `support_test.go:65-91` expects its namespace; the run of
`ReleaseResources` has handlers with a mapper and without.

## 4. What is proved

For all values of the constants (sets of charts, specs, manifests, resources,
namespaces, compositions, definitions, objects; every retry limit and every
number of failures, edits and changes):

| Module | Theorem | Property |
|---|---|---|
| `CompositionControllerProofs` | `TypeCorrect` | `Spec => []TypeOK` |
| | `ReleaseNamed` | `Spec => []ReleaseIsNamed` |
| | `GrantedBeforeHelm` | `Spec => []HelmAfterRBAC` |
| | `PauseRespected` | `Spec => []ObserveRespectsPause` |
| | `EditsKept` | `Spec => NoLostEdit` |
| | `UpToDateCorrect` | `Spec => UpToDateIsDeployed` |
| | `FinalizerCorrect` | `Spec => FinalizerGuardsRelease` |
| | `RevokeCorrect` | `Spec => RevokeAfterUninstall` |
| | `Inductive` | `Spec => []IInv` |
| `CompositionLifecycleProofs` | `Implementation` | `Spec => ImplementsLifecycle` |
| `CompositionStepsProofs` | `StepsKnown` | `Spec => []HelmState` |
| | `NoWayOut` | a stuck release stays so until a deletion, an abandoned deletion until the composition goes |
| `RBACPolicyProofs` | `ApplyCovers`, `ApplyIsExact` | a complete ApplyRBAC grants what Generate was given, and in the scopes of the policy nothing else, whatever was there |
| | `RemoveRevokes` | a complete UninstallRBAC leaves nothing in the scopes of its policy |
| | `RetryIsWhole` | a complete walk after one cut short comes to what it would have come to alone |
| `RBACInstallerProofs` | `Inductive`, `TypeCorrect` | `Spec => []IInv`, `[]TypeOK` |
| | `GrantsAreKept` | `Spec => []GrantsLast` |
| | `GrantsAreExact` | `Spec => []NoMoreThanNeeded` |
| | `Atomic` | `Spec => AtomicWalks` |
| `PackageGetterProofs` | `Inductive`, `TypeCorrect` | `Spec => []IInv`, `[]TypeOK` |
| | `DefinitionKept` | `Spec => []DefinitionIsKept` |
| | `LabelsMatchNow` | `Spec => LabelsMatch` |
| `ReleaseResourcesProofs` | `Inductive`, `TypeCorrect` | `Spec => []IInv`, `[]TypeOK` |
| | `OneDigest` | `Spec => []DigestsAgree` |
| | `WholeReport` | `Spec => []ObjectsInOrder` |
| | `OneReport` | `ObjectsInOrder` determines the report of a manifest |
| | `PathsAreUnambiguous` | `Spec => []PathsLeadBack` |

Assumptions on constants: `ScopeAssumption` (the cluster scope is not a
namespace, the namespaces resource is a kind), `RenderAssumption` (`None` is no
content, manifest or chart; rendering and its resource list are functions),
`BudgetAssumption`, `InstallerAssumption`, `GetterAssumption` and
`NoneAssumption`, `ReportAssumption` (the markers are no values of the sets they
mark). TLC evaluates them in the passing runs.

*Controller.* None of the properties is inductive: what holds at a write depends
on what the steps before it put into the worker's copy. `IInv` adds that: the
package info is there when it is used (`PackageKnown`); a copy whose
resourceVersion is current has the user's fields as the server has them
(`CopyIsCurrent`, hence `NoLostEdit`); the name is in the copy, then on the
server (`NameIsKept`); the pause time is dropped from the copy, then from the
server (`PauseIsDropped`, hence `ObserveRespectsPause`: to pause, only Update can
write the time, and it is not running); Observe's revision has the content of its
copy and is deployed when the status is written (`RevisionIsOfCopy`, with
`CopyIsCurrent` hence `UpToDateIsDeployed`: the accepted write proves the copy
fresh); Delete reaches permissions and finalizer after the release
(`UninstalledFirst`). Each is shown to be kept by every action in one lemma
(`NextType`, `PackageStep`, `CopyStep`, `ReleaseStep`, `GrantStep`), and
`ApplyCovers` gives the step of `GrantStep` in which the RBAC walk completes.

*Life cycle.* Beyond `IInv` the mapping rests on `LifecycleInv`: Delete is asked
only of a composition that is not live (`DeletionIsAsked`); what only the
controller writes is in its copy as on the server (`CopyOfStatus`), so that a
write of the whole object does not bring an old digest back; what Create and
Update hold is the latest revision or none (`HeldIsLatest`). One lemma per
action then names the abstract step it is.

*Steps.* `HelmState` ties the worker's step to what Helm has recorded: the state
of the release while a Helm operation runs, a rollback only of an interrupted
install or upgrade, and a content for every release that exists. `NoWayOut` is
no promise of the code: it carries what `stuckIsRolledBack` and
`deleteCompletes` find on one instance to every chart and every number of retries,
and so says that `Converges` must except the two states. Only eight actions touch
the release (`ReleaseMoves`), and with `HelmState` none of them but the uninstall
is possible from a stuck one; an abandoned deletion can only lose more, because
the deletion of namespaces takes permissions away and gives none
(`DropGrantsNothing`), and Delete reaches its own walk only after the release
(`UninstalledFirst`).

*Installer.* `Known` says who an object can belong to at all: a namespace to a
composition that ships it, a role to one whose list names its scope. So a walk
of a composition that shares nothing is never written to by another
(`Undisturbed`): what the cluster holds for it is what the steps behind it make
of what was there at the start. `WalkOK` keeps those steps in the order of the
walk, which makes them a stop of `Progress`, hence `Atomic`; when all are done
`ApplyCovers` gives the grant, hence `GrantsAreKept`. `NoMoreThanNeeded` adds
`Precise` (a granted list is still what the roles hold) and `NeededOnly` (so is
every other role, of some list): a walk writes the rules of a list of its own
composition, and nobody else writes there.

*Getter.* `Reason` says why the operation is where it is: while the labelled
definition has not lapsed it serves the copy's API right now, so Get takes it;
and a fresh copy has the API the server has, so an accepted write of the labels
is of a definition that served it.

*Report.* `Streamed` ties the position of the decoder to the manifest: what is
recorded has been read to the end, and so `WholeIsHashed`; and the objects
collected so far are those of the documents decoded so far, which one more
document keeps, with an object (`TakesObject`) or without (`SkipsDocument`). No
induction over the manifest is needed: the ranks are cardinalities, and
`CountNext` says what one document adds. `OneReport` counts too: different objects
have different ranks and there are as many ranks as objects, so every place of
the report is taken (`EveryPlaceTaken`). `SegmentsLeadBack`
goes through the four shapes a path has; one can be read as another only by its
length and its segment "namespaces", and the lemma shows that none is.

*Only model-checked*: `Converges`, `LabelsSettle`, `Settles` (liveness under
fairness is out of TLAPS's reach, as is `ENABLED`), and the claims of the
violation runs. Every other property of the passing runs is a theorem. That the
ranks of `ObjectsInOrder` mean the recursive `SelectSeq` is checked on the
instance (`SelectSeqAgrees`).

## 5. What is not modelled, and the plan

Not modelled, and why:

* how `CalculateReleaseName` makes a name of the object's name and uid: the
  models tell names apart by whether they are equal (`Base`) and set (`named`);
* the static getter (`main.go:138-139`, when `--chart` or
  `COMPOSITION_CONTROLLER_CHART` is set): it returns no composition definition and
  Observe dereferences that at `composition.go:151`, so a controller with it does
  not get past this line; the models are of the dynamic getter;
* discovery behind the REST mapper, and the inspector's query string: the
  services behind them are outside the repository;
* the tracer's list of resources and its log: nothing reads the list;
* flags, logging, metrics, signals, events to the user, the Dockerfile: no state
  the operations depend on.

Left to do, in this order:

1. Theorems: an abstract specification of the getter (a composition is bound to
   one definition and moves only for a reason) and its refinement by
   `PackageGetter`; one of the report (a report is one step) and its refinement by
   `ReleaseResources`; what holds of a composition from the return of a complete
   UninstallRBAC on.
2. Larger instances of `RBACInstaller` (three compositions, two shared
   namespaces) and of `PackageGetter` (three definitions).
3. The two controllers that overlap while a composition moves to another version.
