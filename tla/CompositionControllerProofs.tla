--------------------- MODULE CompositionControllerProofs ---------------------
(***************************************************************************)
(* What holds of the controller for every set of charts, specs, manifests  *)
(* and resources, every retry limit, and every number of failures and      *)
(* edits.                                                                  *)
(***************************************************************************)
EXTENDS CompositionController, RBACPolicyProofs

-----------------------------------------------------------------------------
(* Type correctness.  WorldOK is about what the operations act on, WorkerOK *)
(* about the runtime and the operation that is running.                     *)

LEMMA InitType == Init => TypeOK
  <1> USE RenderAssumption, BudgetAssumption
  <1>1. EmptyStore \in Store
    BY DEF EmptyStore, Store
  <1>2. NoRelease \in Release
    BY DEF NoRelease, Release, Status, Pending
  <1> QED
    BY <1>1, <1>2 DEF Init, TypeOK, Composition, Event, Control, Report, Running

WorldOK ==
    /\ phase \in {"live", "deleting", "gone"}
    /\ cr \in Composition
    /\ chart \in Charts
    /\ rel \in Release
    /\ rbac \in Store

WorkerOK ==
    /\ queue \subseteq Event
    /\ retries \in [Event -> 0..MaxRetries]
    /\ pc \in Control
    /\ w \in Work \cup {None}
    /\ Running => w \in Work
    /\ budget \in [Disturbance -> Nat]

LEMMA TypeParts == TypeOK <=> WorldOK /\ WorkerOK
  BY DEF TypeOK, WorldOK, WorkerOK

\* The ways a step ends keep the worker well-typed.
LEMMA SpendType ==
    ASSUME budget \in [Disturbance -> Nat], NEW k \in Disturbance, Spend(k)
    PROVE  budget' \in [Disturbance -> Nat]
  BY DEF Spend

LEMMA FaultType ==
    ASSUME budget \in [Disturbance -> Nat], NoFault \/ Fault
    PROVE  budget' \in [Disturbance -> Nat]
  BY SpendType DEF NoFault, Fault, Spend, Disturbance

WorkerOKNext == /\ queue' \subseteq Event
                /\ retries' \in [Event -> 0..MaxRetries]
                /\ pc' \in Control
                /\ w' \in Work \cup {None}
                /\ Running' => w' \in Work

LEMMA FailType ==
    ASSUME WorkerOK, w \in Work, Fail
    PROVE  WorkerOKNext
  <1>1. w.op \in Event
    BY DEF Work
  <1> QED
    BY <1>1, RenderAssumption DEF Fail, WorkerOK, WorkerOKNext, Control, Running

LEMMA ReturnType ==
    ASSUME WorkerOK, w \in Work, NEW step \in {"idle"} \cup Report, Return(step)
    PROVE  WorkerOKNext
  <1>1. w.op \in Event
    BY DEF Work
  <1> QED
    BY <1>1, RenderAssumption DEF Return, WorkerOK, WorkerOKNext, Control, Running

LEMMA GotoType ==
    ASSUME WorkerOK, w' \in Work, NEW step \in Control, Goto(step)
    PROVE  WorkerOKNext
  BY DEF Goto, WorkerOK, WorkerOKNext

LEMMA WriteType ==
    ASSUME WorldOK, WorkerOK, w \in Work, NEW new \in Composition,
           NEW step \in Control,
           Write(new, step), UNCHANGED <<phase, chart, rel, rbac>>
    PROVE  TypeOK'
  <1>1. cr' \in Composition
    BY DEF WorldOK, Write, WriteThen
  <1>2. budget' \in [Disturbance -> Nat]
    BY FaultType DEF WorkerOK, Write, WriteThen
  <1>3. WorkerOKNext
    <2>1. CASE Fail
      BY <2>1, FailType
    <2>2. CASE w' = [w EXCEPT !.mg = new, !.fresh = TRUE] /\ Goto(step)
      <3>1. w' \in Work
        BY <2>2 DEF Work
      <3> QED
        BY <2>2, <3>1, GotoType
    <2> QED
      BY <2>1, <2>2 DEF Write, WriteThen
  <1> QED
    BY <1>1, <1>2, <1>3 DEF WorldOK, WorkerOK, WorkerOKNext, TypeOK


LEMMA WriteLastType ==
    ASSUME WorldOK, WorkerOK, w \in Work, NEW new \in Composition,
           NEW step \in {"idle"} \cup Report,
           WriteLast(new, step), UNCHANGED <<phase, chart, rel, rbac>>
    PROVE  TypeOK'
  <1>1. cr' \in Composition
    BY DEF WorldOK, WriteLast, WriteThen
  <1>2. budget' \in [Disturbance -> Nat]
    BY FaultType DEF WorkerOK, WriteLast, WriteThen
  <1>3. WorkerOKNext
    BY FailType, ReturnType DEF WriteLast, WriteThen
  <1> QED
    BY <1>1, <1>2, <1>3 DEF WorldOK, WorkerOK, WorkerOKNext, TypeOK

\* The values the operations build are well-typed.
LEMMA HelperTypes ==
    ASSUME NEW mg \in Composition
    PROVE  /\ LabelName(mg) \in Composition
           /\ ClearPausedTime(mg) \in Composition
           /\ \A e \in Event : Begin(e, mg) \in Work
           /\ \A m, d \in Manifests \cup {None} :
                 SetStatus(mg, m, d) \in Composition
  BY DEF LabelName, ClearPausedTime, Begin, SetStatus, Composition, Condition, Work

LEMMA DigestType ==
    ASSUME NEW c \in Content \cup {None}
    PROVE  Digest(c) \in Manifests \cup {None}
  BY RenderAssumption DEF Digest

LEMMA ContentType ==
    ASSUME WorldOK
    PROVE  /\ Inspected \in Content
           /\ w \in Work /\ w.pkg \in Charts => Rendered \in Content
  BY DEF WorldOK, Inspected, Rendered, Content, Composition, Work

LEMMA ReviseType ==
    ASSUME rel \in Release, NEW s \in Status, NEW c \in Content \cup {None}
    PROVE  Revise(s, c) \in Release
  BY DEF Revise, Release

LEMMA PolicyType ==
    ASSUME WorldOK, NEW listed \in SUBSET Needs[Inspected]
    PROVE  listed \in SUBSET Resource /\ Generate(listed) \in Policy
  <1>1. listed \in SUBSET Resource
    BY ContentType, RenderAssumption
  <1> QED
    BY <1>1, GenerateType

\* One walk over the permissions, and what it leaves.
LEMMA ApplyRBACType ==
    ASSUME WorldOK, budget \in [Disturbance -> Nat], w \in Work,
           NEW listed \in SUBSET Needs[Inspected],
           \/ /\ rbac' = Apply(rbac, Generate(listed), ApplySteps(Generate(listed)))
              /\ w' = [w EXCEPT !.seen = listed]
              /\ Answered(listed)
           \/ /\ \E done \in Progress(ApplySteps(Generate(listed))) :
                    rbac' = Apply(rbac, Generate(listed), done)
              /\ Fault
    PROVE  /\ rbac' \in Store
           /\ budget' \in [Disturbance -> Nat]
           /\ [w EXCEPT !.seen = listed] \in Work
  <1>1. rbac' \in Store
    BY PolicyType, ApplyType DEF WorldOK
  <1>2. budget' \in [Disturbance -> Nat]
    BY FaultType DEF Answered
  <1>3. [w EXCEPT !.seen = listed] \in Work
    BY PolicyType DEF Work
  <1> QED
    BY <1>1, <1>2, <1>3

LEMMA HelmType ==
    ASSUME WorldOK, WorkerOK, Deployed \/ Forbidden \/ Broken
    PROVE  /\ rel' \in Release
           /\ rbac' \in Store
           /\ budget' \in [Disturbance -> Nat]
  <1>1. rel' \in Release
    BY DEF WorldOK, Deployed, Forbidden, Broken, Recorded, Release, Status, Pending
  <1>2. rbac' \in Store
    BY DropNamespacesType DEF WorldOK, Deployed, Pruned, Forbidden, Broken
  <1>3. budget' \in [Disturbance -> Nat]
    BY FaultType DEF WorkerOK, Deployed, Forbidden, Broken
  <1> QED
    BY <1>1, <1>2, <1>3

-----------------------------------------------------------------------------
LEMMA HandlerStepType ==
    ASSUME TypeOK, PackageKnown, HandlerStep
    PROVE  TypeOK'
  <1> USE TypeParts
  <1>w. pc \in ObserveStep \cup CreateStep \cup UpdateStep \cup DeleteStep
    BY DEF HandlerStep, ObserveUpdate, ObserveLookup, ObserveRollback,
           ObserveRolledBack, ObserveRBAC, ObserveUpgrade, ObserveUpgraded,
           ObserveUnavailable, ObserveStatus, CreateUpdate, CreateRBAC, CreateHelm,
           CreateInstalled, CreateUpgraded, CreateStatus, CreateUnpause,
           UpdateLookup, UpdateRecord, UpdatePause, DeleteUninstall, DeleteRBAC,
           DeleteUpdate, ObserveStep, CreateStep, UpdateStep, DeleteStep
  <1>0. /\ WorldOK /\ WorkerOK
        /\ w \in Work /\ w.mg \in Composition /\ w.held \in Content \cup {None}
        /\ rel.now \in Content \cup {None} /\ rel.prev \in Content \cup {None}
    BY <1>w DEF WorldOK, WorkerOK, Work, Release, Running, Report, ObserveStep,
                CreateStep, UpdateStep, DeleteStep
  <1>f. UNCHANGED <<phase, chart>>
    BY DEF HandlerStep
  <1>d. /\ Digest(w.held) \in Manifests \cup {None}
        /\ Digest(rel.now) \in Manifests \cup {None}
    BY <1>0, DigestType
  <1>q. ASSUME cr' \in Composition, rel' \in Release, rbac' \in Store,
               budget' \in [Disturbance -> Nat], WorkerOKNext
        PROVE  TypeOK'
    BY <1>q, <1>0, <1>f DEF WorldOK, WorkerOKNext, TypeOK
  <1>1. CASE ObserveUpdate
    BY <1>1, <1>0, <1>f, WriteType DEF ObserveUpdate, Control, ObserveStep
  <1>2. CASE ObserveLookup
    <2>1. [w EXCEPT !.pkg = chart, !.held = rel.now] \in Work
      BY <1>0 DEF Work, WorldOK
    <2>2. WorkerOKNext
      BY <1>2, <1>0, <2>1, FailType, ReturnType, GotoType
         DEF ObserveLookup, Report, Control, ObserveStep
    <2> QED
      BY <1>2, <1>0, <1>q, <2>2, FaultType DEF ObserveLookup, WorldOK, WorkerOK
  <1>3. CASE ObserveRollback
    <2>1. WorkerOKNext
      BY <1>3, <1>0, FailType, GotoType DEF ObserveRollback, Control, ObserveStep
    <2>2. rel' \in Release
      BY <1>3, <1>0, ReviseType DEF ObserveRollback, WorldOK, Status, Pending
    <2> QED
      BY <1>3, <1>0, <1>q, <2>1, <2>2, FaultType
         DEF ObserveRollback, WorldOK, WorkerOK
  <1>4. CASE ObserveRolledBack
    <2>1. [w EXCEPT !.held = rel.now] \in Work
      BY <1>0 DEF Work
    <2>2. WorkerOKNext
      BY <1>4, <1>0, <2>1, FailType, GotoType
         DEF ObserveRolledBack, Control, ObserveStep
    <2> QED
      BY <1>4, <1>0, <1>q, <2>2, HelmType DEF ObserveRolledBack, WorldOK
  <1>5. CASE ObserveRBAC
    <2>1. PICK listed \in SUBSET Needs[Inspected] :
            LET policy == Generate(listed)
                steps  == ApplySteps(policy)
            IN  \/ /\ rbac' = Apply(rbac, policy, steps)
                   /\ w' = [w EXCEPT !.seen = listed]
                   /\ Goto("observe.upgrade")
                   /\ Answered(listed)
                \/ /\ \E done \in Progress(steps) : rbac' = Apply(rbac, policy, done)
                   /\ Goto("observe.unavailable") /\ UNCHANGED w
                   /\ Fault
      BY <1>5 DEF ObserveRBAC, ApplyRBACThen
    <2>2. /\ rbac' \in Store /\ budget' \in [Disturbance -> Nat]
          /\ [w EXCEPT !.seen = listed] \in Work
      BY <2>1, <1>0, ApplyRBACType DEF WorkerOK
    <2>3. WorkerOKNext
      BY <2>1, <2>2, <1>0, GotoType DEF Control, ObserveStep
    <2> QED
      BY <1>5, <1>0, <1>q, <2>2, <2>3 DEF ObserveRBAC, WorldOK
  <1>6. CASE ObserveUpgrade
    <2>1. WorkerOKNext
      BY <1>6, <1>0, ReturnType, GotoType
         DEF ObserveUpgrade, Compare, Control, ObserveStep, Report
    <2>2. rel' \in Release
      BY <1>6, <1>0, ReviseType, ContentType
         DEF ObserveUpgrade, PackageKnown, WorldOK, Status, Pending
    <2> QED
      BY <1>6, <1>0, <1>q, <2>1, <2>2, FaultType
         DEF ObserveUpgrade, WorldOK, WorkerOK
  <1>7. CASE ObserveUpgraded
    <2>1. WorkerOKNext
      BY <1>7, <1>0, ReturnType, GotoType
         DEF ObserveUpgraded, Compare, Control, ObserveStep, Report
    <2> QED
      BY <1>7, <1>0, <1>q, <2>1, HelmType DEF ObserveUpgraded, WorldOK
  <1>8. CASE ObserveUnavailable
    <2>1. [w.mg EXCEPT !.cond = "Unavailable"] \in Composition
      BY <1>0 DEF Composition, Condition
    <2>2. WorkerOKNext
      BY <1>8, <1>0, FailType DEF ObserveUnavailable, WriteThen
    <2>3. cr' \in Composition /\ budget' \in [Disturbance -> Nat]
      BY <1>8, <1>0, <2>1, FaultType
         DEF ObserveUnavailable, WriteThen, WorldOK, WorkerOK
    <2> QED
      BY <1>8, <1>0, <1>q, <2>2, <2>3 DEF ObserveUnavailable, WorldOK
  <1>9. CASE ObserveStatus
    <2>1. SetStatus(w.mg, None, Digest(rel.now)) \in Composition
      BY <1>0, <1>d, HelperTypes
    <2> QED
      BY <1>9, <1>0, <1>f, <2>1, WriteLastType DEF ObserveStatus, Report
  <1>10. CASE CreateUpdate
    <2>1. [w EXCEPT !.pkg = chart] \in Work
      BY <1>0 DEF Work, WorldOK
    <2>2. WorkerOKNext
      BY <1>10, <1>0, <2>1, FailType, GotoType
         DEF CreateUpdate, WriteThen, Control, CreateStep
    <2>3. cr' \in Composition /\ budget' \in [Disturbance -> Nat]
      BY <1>10, <1>0, FaultType DEF CreateUpdate, WriteThen, WorldOK, WorkerOK
    <2> QED
      BY <1>10, <1>0, <1>q, <2>2, <2>3 DEF CreateUpdate, WorldOK
  <1>11. CASE CreateRBAC
    <2>1. PICK listed \in SUBSET Needs[Inspected] :
            LET policy == Generate(listed)
                steps  == ApplySteps(policy)
            IN  \/ /\ rbac' = Apply(rbac, policy, steps)
                   /\ w' = [w EXCEPT !.seen = listed]
                   /\ Goto("create.helm")
                   /\ Answered(listed)
                \/ /\ \E done \in Progress(steps) : rbac' = Apply(rbac, policy, done)
                   /\ Fail
                   /\ Fault
      BY <1>11 DEF CreateRBAC, ApplyRBACThen
    <2>2. /\ rbac' \in Store /\ budget' \in [Disturbance -> Nat]
          /\ [w EXCEPT !.seen = listed] \in Work
      BY <2>1, <1>0, ApplyRBACType DEF WorkerOK
    <2>3. WorkerOKNext
      BY <2>1, <2>2, <1>0, GotoType, FailType DEF Control, CreateStep
    <2> QED
      BY <1>11, <1>0, <1>q, <2>2, <2>3 DEF CreateRBAC, WorldOK
  <1>12. CASE CreateHelm
    <2>1. WorkerOKNext
      BY <1>12, <1>0, FailType, GotoType DEF CreateHelm, Control, CreateStep
    <2>2. rel' \in Release
      BY <1>12, <1>0, ReviseType, ContentType
         DEF CreateHelm, PackageKnown, WorldOK, Status, Pending
    <2> QED
      BY <1>12, <1>0, <1>q, <2>1, <2>2, FaultType
         DEF CreateHelm, WorldOK, WorkerOK
  <1>13. CASE CreateInstalled
    <2>1. [w EXCEPT !.held = rel.now] \in Work
      BY <1>0 DEF Work
    <2>2. WorkerOKNext
      BY <1>13, <1>0, <2>1, FailType, GotoType
         DEF CreateInstalled, Control, CreateStep
    <2> QED
      BY <1>13, <1>0, <1>q, <2>2, HelmType DEF CreateInstalled, WorldOK
  <1>14. CASE CreateUpgraded
    <2>1. \A r \in {None, rel.now} : [w EXCEPT !.held = r] \in Work
      BY <1>0 DEF Work
    <2>2. WorkerOKNext
      BY <1>14, <1>0, <2>1, GotoType DEF CreateUpgraded, Control, CreateStep
    <2> QED
      BY <1>14, <1>0, <1>q, <2>2, HelmType DEF CreateUpgraded, WorldOK
  <1>15. CASE CreateStatus
    <2>1. SetStatus(w.mg, Digest(w.held), Digest(w.held)) \in Composition
      BY <1>0, <1>d, HelperTypes
    <2> QED
      BY <1>15, <1>0, <1>f, <2>1, WriteType DEF CreateStatus, Control, CreateStep
  <1>16. CASE CreateUnpause
    BY <1>16, <1>0, <1>f, HelperTypes, WriteLastType DEF CreateUnpause
  <1>17. CASE UpdateLookup
    <2>1. [w EXCEPT !.pkg = chart, !.held = rel.now] \in Work
      BY <1>0 DEF Work, WorldOK
    <2>2. WorkerOKNext
      BY <1>17, <1>0, <2>1, FailType, GotoType DEF UpdateLookup, Control, UpdateStep
    <2> QED
      BY <1>17, <1>0, <1>q, <2>2, FaultType DEF UpdateLookup, WorldOK, WorkerOK
  <1>18. CASE UpdateRecord
    <2>1. SetStatus(w.mg, Digest(w.held), Digest(w.held)) \in Composition
      BY <1>0, <1>d, HelperTypes
    <2> QED
      BY <1>18, <1>0, <1>f, <2>1, WriteType DEF UpdateRecord, Control, UpdateStep
  <1>19. CASE UpdatePause
    <2>1. [w.mg EXCEPT !.pausedTime = w.mg.pauseAnn] \in Composition
      BY <1>0 DEF Composition
    <2> QED
      BY <1>19, <1>0, <1>f, <2>1, WriteLastType DEF UpdatePause
  <1>20. CASE DeleteUninstall
    <2>1. WorkerOKNext
      BY <1>20, <1>0, FailType, GotoType DEF DeleteUninstall, Control, DeleteStep
    <2>2. rel' \in Release
      BY <1>20, <1>0
         DEF DeleteUninstall, Uninstalled, HalfUninstalled, Recorded, WorldOK,
             Release, NoRelease, Status, Pending
    <2>3. rbac' \in Store
      BY <1>20, <1>0, DropNamespacesType
         DEF DeleteUninstall, Uninstalled, HalfUninstalled, WorldOK
    <2>4. budget' \in [Disturbance -> Nat]
      BY <1>20, <1>0, FaultType DEF DeleteUninstall, WorkerOK
    <2> QED
      BY <1>20, <1>0, <1>q, <2>1, <2>2, <2>3, <2>4 DEF DeleteUninstall, WorldOK
  <1>21. CASE DeleteRBAC
    <2>1. WorkerOKNext
      BY <1>21, <1>0, FailType, GotoType DEF DeleteRBAC, Control, DeleteStep
    <2>2. rbac' \in Store /\ budget' \in [Disturbance -> Nat]
      BY <1>21, <1>0, RemoveType, FaultType DEF DeleteRBAC, Answered, WorldOK, WorkerOK
    <2> QED
      BY <1>21, <1>0, <1>q, <2>1, <2>2 DEF DeleteRBAC, WorldOK
  <1>22. CASE DeleteUpdate
    BY <1>22, <1>0, <1>f, HelperTypes, WriteType DEF DeleteUpdate, Control
  <1> QED
    BY <1>1, <1>2, <1>3, <1>4, <1>5, <1>6, <1>7, <1>8, <1>9, <1>10, <1>11, <1>12,
       <1>13, <1>14, <1>15, <1>16, <1>17, <1>18, <1>19, <1>20, <1>21, <1>22
       DEF HandlerStep

LEMMA ServeType ==
    ASSUME TypeOK, NEW e \in Event, Serve(e)
    PROVE  TypeOK'
  <1>0. WorldOK /\ WorkerOK
    BY TypeParts
  <1>1. /\ Begin(e, cr) \in Work
        /\ Begin(e, LabelName(cr)) \in Work
        /\ Begin(e, ClearPausedTime(LabelName(cr))) \in Work
    BY <1>0, HelperTypes DEF WorldOK
  <1>2. DeleteStart(e) \/ ObserveStart(e) \/ CreateStart(e) \/ UpdateStart(e)
    BY DEF Serve, TypeOK, Event
  <1>3. /\ UNCHANGED <<phase, chart, cr, rel, rbac, budget>>
        /\ queue' \subseteq Event
        /\ retries' \in [Event -> 0..MaxRetries]
    BY <1>0, <1>2, RenderAssumption
       DEF Serve, DeleteStart, ObserveStart, CreateStart, UpdateStart, WorkerOK
  <1>4. /\ pc' \in Control
        /\ w' \in Work \cup {None}
        /\ Running' => w' \in Work
    BY <1>1, <1>2
       DEF DeleteStart, ObserveStart, CreateStart, UpdateStart, Running, Report,
           Control, ObserveStep, CreateStep, UpdateStep, DeleteStep
  <1> QED
    BY <1>0, <1>3, <1>4 DEF WorldOK, WorkerOK, TypeOK

LEMMA EditType ==
    ASSUME TypeOK, NEW new \in Composition, Edit(new)
    PROVE  TypeOK'
  <1>1. /\ w' \in Work \cup {None}
        /\ w \in Work => w' \in Work
    BY DEF TypeOK, Edit, Outrun, Work
  <1>2. budget' \in [Disturbance -> Nat]
    BY SpendType DEF TypeOK, Edit, Disturbance
  <1> QED
    BY <1>1, <1>2 DEF TypeOK, Edit, Running, Event

LEMMA NextType ==
    ASSUME TypeOK, PackageKnown, [Next]_vars
    PROVE  TypeOK'
  <1>1. CASE HandlerStep
    BY <1>1, HandlerStepType
  <1>2. CASE Dispatch
    BY <1>2 DEF Dispatch, TypeOK, Control, Report, Running, Event
  <1>3. CASE Finalize
    <2>0. w \in Work /\ WorkerOK
      BY <1>3, TypeParts DEF Finalize, TypeOK, Running, Report
    <2>1. CASE Fail /\ Fault /\ UNCHANGED phase
      BY <1>3, <2>0, <2>1, FailType, FaultType
         DEF Finalize, TypeOK, WorkerOK, WorkerOKNext
    <2>2. CASE /\ phase' = "gone" /\ queue' = {} /\ pc' = "idle" /\ w' = None
               /\ UNCHANGED <<retries, budget>>
      BY <1>3, <2>2 DEF Finalize, TypeOK, Control, Running
    <2> QED
      BY <1>3, <2>1, <2>2 DEF Finalize
  <1>4. ASSUME NEW e \in Event, Serve(e) PROVE TypeOK'
    BY <1>4, ServeType
  <1>5. CASE Resync
    BY <1>5 DEF Resync, TypeOK, Event, Running
  <1>6. CASE Crash
    <2>1. budget' \in [Disturbance -> Nat]
      BY <1>6, SpendType DEF Crash, TypeOK, Disturbance
    <2> QED
      BY <1>6, <2>1, RenderAssumption DEF Crash, TypeOK, Event, Control, Running
  <1>7. CASE EditSpec
    <2>1. PICK s \in Specs : Edit([cr EXCEPT !.spec = s])
      BY <1>7 DEF EditSpec
    <2>2. [cr EXCEPT !.spec = s] \in Composition
      BY DEF TypeOK, Composition
    <2> QED
      BY <2>1, <2>2, EditType
  <1>8. CASE TogglePause
    <2>1. [cr EXCEPT !.pauseAnn = ~@] \in Composition
      BY DEF TypeOK, Composition
    <2> QED
      BY <1>8, <2>1, EditType DEF TogglePause
  <1>9. CASE DeleteComposition
    <2>1. /\ w' \in Work \cup {None}
          /\ w \in Work => w' \in Work
      BY <1>9 DEF DeleteComposition, TypeOK, Outrun, Work
    <2>2. budget' \in [Disturbance -> Nat]
      BY <1>9, SpendType DEF DeleteComposition, TypeOK, Disturbance
    <2> QED
      BY <1>9, <2>1, <2>2 DEF DeleteComposition, TypeOK, Running, Event
  <1>10. CASE ChangeChart
    <2>1. budget' \in [Disturbance -> Nat]
      BY <1>10, SpendType DEF ChangeChart, TypeOK, Disturbance
    <2> QED
      BY <1>10, <2>1 DEF ChangeChart, TypeOK, Running
  <1>11. CASE UNCHANGED vars
    BY <1>11 DEF vars, TypeOK, Running
  <1> QED
    BY <1>1, <1>2, <1>3, <1>4, <1>5, <1>6, <1>7, <1>8, <1>9, <1>10, <1>11
       DEF Next, Worker, User

-----------------------------------------------------------------------------
(* The strengthening is inductive. *)

\* Publishing a status leaves the rest of the composition alone.
LEMMA SetStatusKeeps ==
    ASSUME NEW mg \in Composition, NEW m, NEW d
    PROVE  LET new == SetStatus(mg, m, d)
           IN  /\ new.spec = mg.spec /\ new.pauseAnn = mg.pauseAnn
               /\ new.named = mg.named /\ new.pausedTime = mg.pausedTime
  BY DEF SetStatus, Composition

\* The package info is read before it is used.
LEMMA PackageStep ==
    ASSUME TypeOK, PackageKnown, [Next]_vars
    PROVE  PackageKnown'
  <1> USE DEF TypeOK, PackageKnown, Work, Running, Report
  <1>1. CASE ObserveUpdate /\ UNCHANGED <<phase, chart>>
    BY <1>1 DEF ObserveUpdate, Write, WriteThen, Goto, Accepted, Fail
  <1>2. CASE ObserveLookup /\ UNCHANGED <<phase, chart>>
    BY <1>2 DEF ObserveLookup, Accepted, Return, Goto, Fail
  <1>3. CASE ObserveRollback /\ UNCHANGED <<phase, chart>>
    BY <1>3 DEF ObserveRollback, Revise, Goto, Fail
  <1>4. CASE ObserveRolledBack /\ UNCHANGED <<phase, chart>>
    BY <1>4 DEF ObserveRolledBack, Deployed, Goto, Forbidden, Fail, Broken, Recorded
  <1>5. CASE ObserveRBAC /\ UNCHANGED <<phase, chart>>
    BY <1>5 DEF ObserveRBAC, ApplyRBACThen, Goto
  <1>6. CASE ObserveUpgrade /\ UNCHANGED <<phase, chart>>
    BY <1>6 DEF ObserveUpgrade, Goto, Revise, Rendered, Compare, Return
  <1>7. CASE ObserveUpgraded /\ UNCHANGED <<phase, chart>>
    BY <1>7 DEF ObserveUpgraded, Deployed, Compare, Forbidden, Goto, Broken,
                Recorded, Return
  <1>8. CASE ObserveUnavailable /\ UNCHANGED <<phase, chart>>
    BY <1>8 DEF ObserveUnavailable, WriteThen, Fail, Accepted
  <1>9. CASE ObserveStatus /\ UNCHANGED <<phase, chart>>
    BY <1>9 DEF ObserveStatus, WriteLast, WriteThen, Return, Accepted, Fail
  <1>10. CASE CreateUpdate /\ UNCHANGED <<phase, chart>>
    BY <1>10 DEF CreateUpdate, WriteThen, Goto, Accepted, Fail
  <1>11. CASE CreateRBAC /\ UNCHANGED <<phase, chart>>
    BY <1>11 DEF CreateRBAC, ApplyRBACThen, Goto, Fail
  <1>12. CASE CreateHelm /\ UNCHANGED <<phase, chart>>
    BY <1>12 DEF CreateHelm, Revise, Rendered, Goto, Fail
  <1>13. CASE CreateInstalled /\ UNCHANGED <<phase, chart>>
    BY <1>13 DEF CreateInstalled, Deployed, Goto, Forbidden, Fail, Broken, Recorded
  <1>14. CASE CreateUpgraded /\ UNCHANGED <<phase, chart>>
    BY <1>14 DEF CreateUpgraded, Deployed, Forbidden, Broken, Goto, Recorded
  <1>15. CASE CreateStatus /\ UNCHANGED <<phase, chart>>
    BY <1>15 DEF CreateStatus, Write, WriteThen, Goto, Accepted, Fail
  <1>16. CASE CreateUnpause /\ UNCHANGED <<phase, chart>>
    BY <1>16 DEF CreateUnpause, WriteLast, ClearPausedTime, WriteThen, Return,
                 Accepted, Fail
  <1>17. CASE UpdateLookup /\ UNCHANGED <<phase, chart>>
    BY <1>17 DEF UpdateLookup, Goto, Fail
  <1>18. CASE UpdateRecord /\ UNCHANGED <<phase, chart>>
    BY <1>18 DEF UpdateRecord, Write, WriteThen, Goto, Accepted, Fail
  <1>19. CASE UpdatePause /\ UNCHANGED <<phase, chart>>
    BY <1>19 DEF UpdatePause, WriteLast, WriteThen, Return, Accepted, Fail
  <1>20. CASE DeleteUninstall /\ UNCHANGED <<phase, chart>>
    BY <1>20 DEF DeleteUninstall, Goto, Uninstalled, HalfUninstalled, Fail,
                 NoRelease, Recorded
  <1>21. CASE DeleteRBAC /\ UNCHANGED <<phase, chart>>
    BY <1>21 DEF DeleteRBAC, Goto, Fail
  <1>22. CASE DeleteUpdate /\ UNCHANGED <<phase, chart>>
    BY <1>22 DEF DeleteUpdate, Write, ClearPausedTime, WriteThen, Goto, Accepted,
                 Fail
  <1>23. CASE Dispatch
    BY <1>23 DEF Dispatch
  <1>24. CASE Finalize
    BY <1>24 DEF Finalize, Fail
  <1>25. ASSUME NEW e \in Event, Serve(e)
        PROVE  PackageKnown'
    <2>1. DeleteStart(e) \/ ObserveStart(e) \/ CreateStart(e) \/ UpdateStart(e)
      BY <1>25 DEF Serve, Event
    <2>2. phase' = phase /\ chart' = chart
      BY <1>25 DEF Serve
    <2>3. CASE DeleteStart(e)
      BY <2>3 DEF DeleteStart
    <2>4. CASE ObserveStart(e)
      BY <2>4 DEF ObserveStart
    <2>5. CASE CreateStart(e)
      BY <2>5 DEF CreateStart
    <2>6. CASE UpdateStart(e)
      BY <2>6 DEF UpdateStart
    <2> QED
      BY <2>1, <2>3, <2>4, <2>5, <2>6
  <1>26. CASE Resync
    BY <1>26 DEF Resync
  <1>27. CASE Crash
    BY <1>27 DEF Crash
  <1>28. CASE EditSpec
    BY <1>28 DEF EditSpec, Edit, Outrun
  <1>29. CASE TogglePause
    BY <1>29 DEF TogglePause, Edit, Outrun
  <1>30. CASE DeleteComposition
    BY <1>30 DEF DeleteComposition, Outrun
  <1>31. CASE ChangeChart
    BY <1>31 DEF ChangeChart
  <1>32. CASE UNCHANGED vars
    BY <1>32 DEF vars
  <1> QED
    BY <1>1, <1>2, <1>3, <1>4, <1>5, <1>6, <1>7, <1>8, <1>9, <1>10, <1>11, <1>12,
       <1>13, <1>14, <1>15, <1>16, <1>17, <1>18, <1>19, <1>20, <1>21, <1>22, <1>23,
       <1>24, <1>25, <1>26, <1>27, <1>28, <1>29, <1>30, <1>31, <1>32
       DEF Next, Worker, User, HandlerStep

\* The worker's copy and the server's composition agree where they must.
LEMMA CopyStep ==
    ASSUME TypeOK, CopyIsCurrent, NameIsKept, PauseIsDropped, [Next]_vars
    PROVE  CopyIsCurrent' /\ NameIsKept' /\ PauseIsDropped'
  <1> USE DEF CopyIsCurrent, NameIsKept, PauseIsDropped, TypeOK, Running, Report,
              ObserveStep, CreateStep, Work, Composition
  <1>1. CASE ObserveUpdate /\ UNCHANGED <<phase, chart>>
    BY <1>1 DEF ObserveUpdate, Write, WriteThen, Goto, Accepted, Fail
  <1>2. CASE ObserveLookup /\ UNCHANGED <<phase, chart>>
    BY <1>2 DEF ObserveLookup, Accepted, Return, Goto, Fail
  <1>3. CASE ObserveRollback /\ UNCHANGED <<phase, chart>>
    BY <1>3 DEF ObserveRollback, Revise, Goto, Fail
  <1>4. CASE ObserveRolledBack /\ UNCHANGED <<phase, chart>>
    BY <1>4 DEF ObserveRolledBack, Deployed, Goto, Forbidden, Fail, Broken, Recorded
  <1>5. CASE ObserveRBAC /\ UNCHANGED <<phase, chart>>
    BY <1>5 DEF ObserveRBAC, ApplyRBACThen, Goto
  <1>6. CASE ObserveUpgrade /\ UNCHANGED <<phase, chart>>
    BY <1>6 DEF ObserveUpgrade, Goto, Revise, Rendered, Compare, Return
  <1>7. CASE ObserveUpgraded /\ UNCHANGED <<phase, chart>>
    BY <1>7 DEF ObserveUpgraded, Deployed, Compare, Forbidden, Goto, Broken,
                Recorded, Return
  <1>8. CASE ObserveUnavailable /\ UNCHANGED <<phase, chart>>
    BY <1>8 DEF ObserveUnavailable, WriteThen, Fail, Accepted
  <1>9. CASE ObserveStatus /\ UNCHANGED <<phase, chart>>
    BY <1>9 DEF ObserveStatus, WriteLast, WriteThen, Return, Accepted, Fail
  <1>10. CASE CreateUpdate /\ UNCHANGED <<phase, chart>>
    BY <1>10 DEF CreateUpdate, WriteThen, Goto, Accepted, Fail
  <1>11. CASE CreateRBAC /\ UNCHANGED <<phase, chart>>
    BY <1>11 DEF CreateRBAC, ApplyRBACThen, Goto, Fail
  <1>12. CASE CreateHelm /\ UNCHANGED <<phase, chart>>
    BY <1>12 DEF CreateHelm, Revise, Rendered, Goto, Fail
  <1>13. CASE CreateInstalled /\ UNCHANGED <<phase, chart>>
    BY <1>13 DEF CreateInstalled, Deployed, Goto, Forbidden, Fail, Broken, Recorded
  <1>14. CASE CreateUpgraded /\ UNCHANGED <<phase, chart>>
    BY <1>14 DEF CreateUpgraded, Deployed, Forbidden, Broken, Goto, Recorded
  <1>15. CASE CreateStatus /\ UNCHANGED <<phase, chart>>
    <2>1. w \in Work
      BY <1>15 DEF CreateStatus
    <2>2. LET new == SetStatus(w.mg, Digest(w.held), Digest(w.held))
          IN  /\ new.spec = w.mg.spec /\ new.pauseAnn = w.mg.pauseAnn
              /\ new.named = w.mg.named
      BY <2>1, SetStatusKeeps
    <2> QED
      BY <1>15, <2>2 DEF CreateStatus, Write, WriteThen, Goto, Accepted, Fail
  <1>16. CASE CreateUnpause /\ UNCHANGED <<phase, chart>>
    BY <1>16 DEF CreateUnpause, WriteLast, ClearPausedTime, WriteThen, Return,
                 Accepted, Fail
  <1>17. CASE UpdateLookup /\ UNCHANGED <<phase, chart>>
    BY <1>17 DEF UpdateLookup, Goto, Fail
  <1>18. CASE UpdateRecord /\ UNCHANGED <<phase, chart>>
    <2>1. w \in Work
      BY <1>18 DEF UpdateRecord
    <2>2. LET new == SetStatus(w.mg, Digest(w.held), Digest(w.held))
          IN  /\ new.spec = w.mg.spec /\ new.pauseAnn = w.mg.pauseAnn
              /\ new.named = w.mg.named
      BY <2>1, SetStatusKeeps
    <2> QED
      BY <1>18, <2>2 DEF UpdateRecord, Write, WriteThen, Goto, Accepted, Fail
  <1>19. CASE UpdatePause /\ UNCHANGED <<phase, chart>>
    BY <1>19 DEF UpdatePause, WriteLast, WriteThen, Return, Accepted, Fail
  <1>20. CASE DeleteUninstall /\ UNCHANGED <<phase, chart>>
    BY <1>20 DEF DeleteUninstall, Goto, Uninstalled, HalfUninstalled, Fail,
                 NoRelease, Recorded
  <1>21. CASE DeleteRBAC /\ UNCHANGED <<phase, chart>>
    BY <1>21 DEF DeleteRBAC, Goto, Fail
  <1>22. CASE DeleteUpdate /\ UNCHANGED <<phase, chart>>
    BY <1>22 DEF DeleteUpdate, Write, ClearPausedTime, WriteThen, Goto, Accepted,
                 Fail
  <1>23. CASE Dispatch
    BY <1>23 DEF Dispatch
  <1>24. CASE Finalize
    BY <1>24 DEF Finalize, Fail
  <1>25. ASSUME NEW e \in Event, Serve(e)
        PROVE  CopyIsCurrent' /\ NameIsKept' /\ PauseIsDropped'
    <2>1. DeleteStart(e) \/ ObserveStart(e) \/ CreateStart(e) \/ UpdateStart(e)
      BY <1>25 DEF Serve, Event
    <2>2. phase' = phase /\ chart' = chart
      BY <1>25 DEF Serve
    <2>3. CASE DeleteStart(e)
      BY <2>3 DEF DeleteStart, Begin
    <2>4. CASE ObserveStart(e)
      <3>1. LET mg == ClearPausedTime(LabelName(cr))
            IN  /\ mg.spec = cr.spec /\ mg.pauseAnn = cr.pauseAnn
                /\ mg.named /\ ~mg.pausedTime
        BY DEF ClearPausedTime, LabelName
      <3> QED
        BY <2>4, <3>1 DEF ObserveStart, Begin
    <2>5. CASE CreateStart(e)
      BY <2>5 DEF CreateStart, Begin, LabelName, GracefullyPaused
    <2>6. CASE UpdateStart(e)
      BY <2>6 DEF UpdateStart, Begin, GracefullyPaused
    <2> QED
      BY <2>1, <2>3, <2>4, <2>5, <2>6
  <1>26. CASE Resync
    BY <1>26 DEF Resync
  <1>27. CASE Crash
    BY <1>27 DEF Crash
  <1>28. CASE EditSpec
    BY <1>28 DEF EditSpec, Edit, Outrun
  <1>29. CASE TogglePause
    BY <1>29 DEF TogglePause, Edit, Outrun
  <1>30. CASE DeleteComposition
    BY <1>30 DEF DeleteComposition, Outrun
  <1>31. CASE ChangeChart
    BY <1>31 DEF ChangeChart
  <1>32. CASE UNCHANGED vars
    BY <1>32 DEF vars
  <1> QED
    BY <1>1, <1>2, <1>3, <1>4, <1>5, <1>6, <1>7, <1>8, <1>9, <1>10, <1>11, <1>12,
       <1>13, <1>14, <1>15, <1>16, <1>17, <1>18, <1>19, <1>20, <1>21, <1>22, <1>23,
       <1>24, <1>25, <1>26, <1>27, <1>28, <1>29, <1>30, <1>31, <1>32
       DEF Next, Worker, User, HandlerStep

\* The release is what the operation that changed it takes it for.
LEMMA ReleaseStep ==
    ASSUME TypeOK, RevisionIsOfCopy, UninstalledFirst, ReleaseIsNamed, NameIsKept,
           PackageKnown, [Next]_vars
    PROVE  RevisionIsOfCopy' /\ UninstalledFirst' /\ ReleaseIsNamed'
  <1> USE DEF RevisionIsOfCopy, UninstalledFirst, ReleaseIsNamed, TypeOK,
              NameIsKept, PackageKnown, Running, Report, ObserveStep, CreateStep,
              Work, Release, Composition
  <1>1. CASE ObserveUpdate /\ UNCHANGED <<phase, chart>>
    BY <1>1 DEF ObserveUpdate, Write, WriteThen, Goto, Accepted, Fail
  <1>2. CASE ObserveLookup /\ UNCHANGED <<phase, chart>>
    BY <1>2 DEF ObserveLookup, Accepted, Return, Goto, Fail
  <1>3. CASE ObserveRollback /\ UNCHANGED <<phase, chart>>
    BY <1>3 DEF ObserveRollback, Revise, Goto, Fail
  <1>4. CASE ObserveRolledBack /\ UNCHANGED <<phase, chart>>
    BY <1>4 DEF ObserveRolledBack, Deployed, Goto, Forbidden, Fail, Broken, Recorded
  <1>5. CASE ObserveRBAC /\ UNCHANGED <<phase, chart>>
    BY <1>5 DEF ObserveRBAC, ApplyRBACThen, Goto
  <1>6. CASE ObserveUpgrade /\ UNCHANGED <<phase, chart>>
    BY <1>6 DEF ObserveUpgrade, Goto, Revise, Rendered, Compare, Return
  <1>7. CASE ObserveUpgraded /\ UNCHANGED <<phase, chart>>
    BY <1>7 DEF ObserveUpgraded, Deployed, Compare, Forbidden, Goto, Broken,
                Recorded, Return
  <1>8. CASE ObserveUnavailable /\ UNCHANGED <<phase, chart>>
    BY <1>8 DEF ObserveUnavailable, WriteThen, Fail, Accepted
  <1>9. CASE ObserveStatus /\ UNCHANGED <<phase, chart>>
    <2>1. w \in Work
      BY <1>9 DEF ObserveStatus
    <2>2. LET new == SetStatus(w.mg, None, Digest(rel.now))
          IN  /\ new.spec = w.mg.spec /\ new.pauseAnn = w.mg.pauseAnn
              /\ new.named = w.mg.named
      BY <2>1, SetStatusKeeps
    <2> QED
      BY <1>9, <2>2 DEF ObserveStatus, WriteLast, WriteThen, Return, Accepted, Fail
  <1>10. CASE CreateUpdate /\ UNCHANGED <<phase, chart>>
    BY <1>10 DEF CreateUpdate, WriteThen, Goto, Accepted, Fail
  <1>11. CASE CreateRBAC /\ UNCHANGED <<phase, chart>>
    BY <1>11 DEF CreateRBAC, ApplyRBACThen, Goto, Fail
  <1>12. CASE CreateHelm /\ UNCHANGED <<phase, chart>>
    BY <1>12 DEF CreateHelm, Revise, Rendered, Goto, Fail
  <1>13. CASE CreateInstalled /\ UNCHANGED <<phase, chart>>
    BY <1>13 DEF CreateInstalled, Deployed, Goto, Forbidden, Fail, Broken, Recorded
  <1>14. CASE CreateUpgraded /\ UNCHANGED <<phase, chart>>
    BY <1>14 DEF CreateUpgraded, Deployed, Forbidden, Broken, Goto, Recorded
  <1>15. CASE CreateStatus /\ UNCHANGED <<phase, chart>>
    <2>1. w \in Work
      BY <1>15 DEF CreateStatus
    <2>2. LET new == SetStatus(w.mg, Digest(w.held), Digest(w.held))
          IN  /\ new.spec = w.mg.spec /\ new.pauseAnn = w.mg.pauseAnn
              /\ new.named = w.mg.named
      BY <2>1, SetStatusKeeps
    <2> QED
      BY <1>15, <2>2 DEF CreateStatus, Write, WriteThen, Goto, Accepted, Fail
  <1>16. CASE CreateUnpause /\ UNCHANGED <<phase, chart>>
    BY <1>16 DEF CreateUnpause, WriteLast, ClearPausedTime, WriteThen, Return,
                 Accepted, Fail
  <1>17. CASE UpdateLookup /\ UNCHANGED <<phase, chart>>
    BY <1>17 DEF UpdateLookup, Goto, Fail
  <1>18. CASE UpdateRecord /\ UNCHANGED <<phase, chart>>
    <2>1. w \in Work
      BY <1>18 DEF UpdateRecord
    <2>2. LET new == SetStatus(w.mg, Digest(w.held), Digest(w.held))
          IN  /\ new.spec = w.mg.spec /\ new.pauseAnn = w.mg.pauseAnn
              /\ new.named = w.mg.named
      BY <2>1, SetStatusKeeps
    <2> QED
      BY <1>18, <2>2 DEF UpdateRecord, Write, WriteThen, Goto, Accepted, Fail
  <1>19. CASE UpdatePause /\ UNCHANGED <<phase, chart>>
    BY <1>19 DEF UpdatePause, WriteLast, WriteThen, Return, Accepted, Fail
  <1>20. CASE DeleteUninstall /\ UNCHANGED <<phase, chart>>
    BY <1>20 DEF DeleteUninstall, Goto, Uninstalled, HalfUninstalled, Fail,
                 NoRelease, Recorded
  <1>21. CASE DeleteRBAC /\ UNCHANGED <<phase, chart>>
    BY <1>21 DEF DeleteRBAC, Goto, Fail
  <1>22. CASE DeleteUpdate /\ UNCHANGED <<phase, chart>>
    BY <1>22 DEF DeleteUpdate, Write, ClearPausedTime, WriteThen, Goto, Accepted,
                 Fail
  <1>23. CASE Dispatch
    BY <1>23 DEF Dispatch
  <1>24. CASE Finalize
    BY <1>24 DEF Finalize, Fail
  <1>25. ASSUME NEW e \in Event, Serve(e)
        PROVE  RevisionIsOfCopy' /\ UninstalledFirst' /\ ReleaseIsNamed'
    <2>1. DeleteStart(e) \/ ObserveStart(e) \/ CreateStart(e) \/ UpdateStart(e)
      BY <1>25 DEF Serve, Event
    <2>2. phase' = phase /\ chart' = chart
      BY <1>25 DEF Serve
    <2>3. CASE DeleteStart(e)
      BY <2>3 DEF DeleteStart, Begin, GracefullyPaused
    <2>4. CASE ObserveStart(e)
      BY <2>4 DEF ObserveStart
    <2>5. CASE CreateStart(e)
      BY <2>5 DEF CreateStart
    <2>6. CASE UpdateStart(e)
      BY <2>6 DEF UpdateStart
    <2> QED
      BY <2>1, <2>3, <2>4, <2>5, <2>6
  <1>26. CASE Resync
    BY <1>26 DEF Resync
  <1>27. CASE Crash
    BY <1>27 DEF Crash
  <1>28. CASE EditSpec
    BY <1>28 DEF EditSpec, Edit, Outrun
  <1>29. CASE TogglePause
    BY <1>29 DEF TogglePause, Edit, Outrun
  <1>30. CASE DeleteComposition
    BY <1>30 DEF DeleteComposition, Outrun
  <1>31. CASE ChangeChart
    BY <1>31 DEF ChangeChart
  <1>32. CASE UNCHANGED vars
    BY <1>32 DEF vars
  <1> QED
    BY <1>1, <1>2, <1>3, <1>4, <1>5, <1>6, <1>7, <1>8, <1>9, <1>10, <1>11, <1>12,
       <1>13, <1>14, <1>15, <1>16, <1>17, <1>18, <1>19, <1>20, <1>21, <1>22, <1>23,
       <1>24, <1>25, <1>26, <1>27, <1>28, <1>29, <1>30, <1>31, <1>32
       DEF Next, Worker, User, HandlerStep

\* The grants are there when Helm needs them.
LEMMA GrantStep ==
    ASSUME TypeOK, HelmAfterRBAC, [Next]_vars
    PROVE  HelmAfterRBAC'
  <1> USE DEF TypeOK, HelmAfterRBAC, HelmStep, Running, Report, Work
  <1>1. CASE ObserveUpdate /\ UNCHANGED <<phase, chart>>
    BY <1>1 DEF ObserveUpdate, Write, WriteThen, Goto, Accepted, Fail
  <1>2. CASE ObserveLookup /\ UNCHANGED <<phase, chart>>
    BY <1>2 DEF ObserveLookup, Accepted, Return, Goto, Fail
  <1>3. CASE ObserveRollback /\ UNCHANGED <<phase, chart>>
    BY <1>3 DEF ObserveRollback, Revise, Goto, Fail
  <1>4. CASE ObserveRolledBack /\ UNCHANGED <<phase, chart>>
    BY <1>4 DEF ObserveRolledBack, Deployed, Goto, Forbidden, Fail, Broken, Recorded
  <1>5. CASE ObserveRBAC /\ UNCHANGED <<phase, chart>>
    <2>1. w \in Work
      BY <1>5 DEF ObserveRBAC
    <2>2. ASSUME NEW listed \in SUBSET Needs[Inspected],
                 rbac' = Apply(rbac, Generate(listed), ApplySteps(Generate(listed))),
                 w' = [w EXCEPT !.seen = listed]
          PROVE  Covered(w'.seen, rbac')
      <3>1. Covered(listed, rbac')
        BY <2>2, TypeParts, PolicyType, ApplyCovers DEF WorldOK
      <3> QED
        BY <2>1, <2>2, <3>1
    <2>3. CASE pc' \notin HelmStep
      BY <2>3
    <2> QED
      BY <1>5, <2>2, <2>3 DEF ObserveRBAC, ApplyRBACThen, Goto, Fail
  <1>6. CASE ObserveUpgrade /\ UNCHANGED <<phase, chart>>
    BY <1>6 DEF ObserveUpgrade, Goto, Revise, Rendered, Compare, Return
  <1>7. CASE ObserveUpgraded /\ UNCHANGED <<phase, chart>>
    BY <1>7 DEF ObserveUpgraded, Deployed, Compare, Forbidden, Goto, Broken,
                Recorded, Return
  <1>8. CASE ObserveUnavailable /\ UNCHANGED <<phase, chart>>
    BY <1>8 DEF ObserveUnavailable, WriteThen, Fail, Accepted
  <1>9. CASE ObserveStatus /\ UNCHANGED <<phase, chart>>
    BY <1>9 DEF ObserveStatus, WriteLast, WriteThen, Return, Accepted, Fail
  <1>10. CASE CreateUpdate /\ UNCHANGED <<phase, chart>>
    BY <1>10 DEF CreateUpdate, WriteThen, Goto, Accepted, Fail
  <1>11. CASE CreateRBAC /\ UNCHANGED <<phase, chart>>
    <2>1. w \in Work
      BY <1>11 DEF CreateRBAC
    <2>2. ASSUME NEW listed \in SUBSET Needs[Inspected],
                 rbac' = Apply(rbac, Generate(listed), ApplySteps(Generate(listed))),
                 w' = [w EXCEPT !.seen = listed]
          PROVE  Covered(w'.seen, rbac')
      <3>1. Covered(listed, rbac')
        BY <2>2, TypeParts, PolicyType, ApplyCovers DEF WorldOK
      <3> QED
        BY <2>1, <2>2, <3>1
    <2>3. CASE pc' \notin HelmStep
      BY <2>3
    <2> QED
      BY <1>11, <2>2, <2>3 DEF CreateRBAC, ApplyRBACThen, Goto, Fail
  <1>12. CASE CreateHelm /\ UNCHANGED <<phase, chart>>
    BY <1>12 DEF CreateHelm, Revise, Rendered, Goto, Fail
  <1>13. CASE CreateInstalled /\ UNCHANGED <<phase, chart>>
    BY <1>13 DEF CreateInstalled, Deployed, Goto, Forbidden, Fail, Broken, Recorded
  <1>14. CASE CreateUpgraded /\ UNCHANGED <<phase, chart>>
    BY <1>14 DEF CreateUpgraded, Deployed, Forbidden, Broken, Goto, Recorded
  <1>15. CASE CreateStatus /\ UNCHANGED <<phase, chart>>
    BY <1>15 DEF CreateStatus, Write, WriteThen, Goto, Accepted, Fail
  <1>16. CASE CreateUnpause /\ UNCHANGED <<phase, chart>>
    BY <1>16 DEF CreateUnpause, WriteLast, ClearPausedTime, WriteThen, Return,
                 Accepted, Fail
  <1>17. CASE UpdateLookup /\ UNCHANGED <<phase, chart>>
    BY <1>17 DEF UpdateLookup, Goto, Fail
  <1>18. CASE UpdateRecord /\ UNCHANGED <<phase, chart>>
    BY <1>18 DEF UpdateRecord, Write, WriteThen, Goto, Accepted, Fail
  <1>19. CASE UpdatePause /\ UNCHANGED <<phase, chart>>
    BY <1>19 DEF UpdatePause, WriteLast, WriteThen, Return, Accepted, Fail
  <1>20. CASE DeleteUninstall /\ UNCHANGED <<phase, chart>>
    BY <1>20 DEF DeleteUninstall, Goto, Uninstalled, HalfUninstalled, Fail,
                 NoRelease, Recorded
  <1>21. CASE DeleteRBAC /\ UNCHANGED <<phase, chart>>
    BY <1>21 DEF DeleteRBAC, Goto, Fail
  <1>22. CASE DeleteUpdate /\ UNCHANGED <<phase, chart>>
    BY <1>22 DEF DeleteUpdate, Write, ClearPausedTime, WriteThen, Goto, Accepted,
                 Fail
  <1>23. CASE Dispatch
    BY <1>23 DEF Dispatch
  <1>24. CASE Finalize
    BY <1>24 DEF Finalize, Fail
  <1>25. ASSUME NEW e \in Event, Serve(e)
        PROVE  HelmAfterRBAC'
    <2>1. DeleteStart(e) \/ ObserveStart(e) \/ CreateStart(e) \/ UpdateStart(e)
      BY <1>25 DEF Serve, Event
    <2>2. phase' = phase /\ chart' = chart
      BY <1>25 DEF Serve
    <2>3. CASE DeleteStart(e)
      BY <2>3 DEF DeleteStart
    <2>4. CASE ObserveStart(e)
      BY <2>4 DEF ObserveStart
    <2>5. CASE CreateStart(e)
      BY <2>5 DEF CreateStart
    <2>6. CASE UpdateStart(e)
      BY <2>6 DEF UpdateStart
    <2> QED
      BY <2>1, <2>3, <2>4, <2>5, <2>6
  <1>26. CASE Resync
    BY <1>26 DEF Resync
  <1>27. CASE Crash
    BY <1>27 DEF Crash
  <1>28. CASE EditSpec
    BY <1>28 DEF EditSpec, Edit, Outrun
  <1>29. CASE TogglePause
    BY <1>29 DEF TogglePause, Edit, Outrun
  <1>30. CASE DeleteComposition
    BY <1>30 DEF DeleteComposition, Outrun
  <1>31. CASE ChangeChart
    BY <1>31 DEF ChangeChart
  <1>32. CASE UNCHANGED vars
    BY <1>32 DEF vars
  <1> QED
    BY <1>1, <1>2, <1>3, <1>4, <1>5, <1>6, <1>7, <1>8, <1>9, <1>10, <1>11, <1>12,
       <1>13, <1>14, <1>15, <1>16, <1>17, <1>18, <1>19, <1>20, <1>21, <1>22, <1>23,
       <1>24, <1>25, <1>26, <1>27, <1>28, <1>29, <1>30, <1>31, <1>32
       DEF Next, Worker, User, HandlerStep

LEMMA IInvStep == IInv /\ [Next]_vars => IInv'
  BY NextType, PackageStep, CopyStep, ReleaseStep, GrantStep DEF IInv

LEMMA InitIInv == Init => IInv
  BY InitType DEF Init, IInv, PackageKnown, CopyIsCurrent, NameIsKept,
     PauseIsDropped, RevisionIsOfCopy, UninstalledFirst, ReleaseIsNamed, HelmAfterRBAC, HelmStep,
     NoRelease, Running, ObserveStep, CreateStep

-----------------------------------------------------------------------------
(* The theorems. *)

\* Every reachable state satisfies the strengthened invariant: the interplay
\* of the worker's copy, its resourceVersion, the release and the grants that
\* composition.go relies on between its requests.
THEOREM Inductive == Spec => []IInv
  BY InitIInv, IInvStep, PTL DEF Spec

\* The fields of the composition, the release and the worker keep their types;
\* the retry counters stay within the limit of the work queue.
THEOREM TypeCorrect == Spec => []TypeOK
  <1>1. IInv => TypeOK
    BY DEF IInv
  <1> QED
    BY <1>1, Inductive, PTL

\* The release name of meta.SetReleaseName is on the server before a release
\* exists and as long as it does, whatever is edited or crashes.
THEOREM ReleaseNamed == Spec => []ReleaseIsNamed
  <1>1. IInv => ReleaseIsNamed
    BY DEF IInv
  <1> QED
    BY <1>1, Inductive, PTL

\* Observe and Create reach hc.Upgrade and hc.Install only with everything the
\* inspector listed granted, whatever an earlier, broken ApplyRBAC left behind.
THEOREM GrantedBeforeHelm == Spec => []HelmAfterRBAC
  <1>1. IInv => HelmAfterRBAC
    BY DEF IInv
  <1> QED
    BY <1>1, Inductive, PTL

\* After its first write Observe runs on a composition that is not paused.
THEOREM PauseRespected == Spec => []ObserveRespectsPause
  <1>1. IInv => ObserveRespectsPause
    BY DEF IInv, PauseIsDropped, ObserveRespectsPause, GracefullyPaused
  <1> QED
    BY <1>1, Inductive, PTL

\* Only a fresh copy is written, and a fresh copy has the user's fields.
LEMMA WritesKeepEdits ==
    ASSUME IInv, Next, pc' # pc
    PROVE  cr'.spec = cr.spec /\ cr'.pauseAnn = cr.pauseAnn
  <1> USE DEF IInv, TypeOK, CopyIsCurrent, Running, Report, Work, Composition
  <1>1. CASE ObserveUpdate
    BY <1>1 DEF ObserveUpdate, Write, WriteThen, Accepted
  <1>2. CASE ObserveUnavailable
    BY <1>2 DEF ObserveUnavailable, WriteThen, Accepted
  <1>3. CASE CreateUpdate
    BY <1>3 DEF CreateUpdate, WriteThen, Accepted
  <1>4. CASE CreateUnpause
    BY <1>4 DEF CreateUnpause, WriteLast, ClearPausedTime, WriteThen, Accepted
  <1>5. CASE UpdatePause
    BY <1>5 DEF UpdatePause, WriteLast, WriteThen, Accepted
  <1>6. CASE DeleteUpdate
    BY <1>6 DEF DeleteUpdate, Write, ClearPausedTime, WriteThen, Accepted
  <1>7. CASE ObserveStatus
    <2>1. LET new == SetStatus(w.mg, None, Digest(rel.now))
          IN  new.spec = w.mg.spec /\ new.pauseAnn = w.mg.pauseAnn
      BY <1>7, SetStatusKeeps DEF ObserveStatus
    <2> QED
      BY <1>7, <2>1 DEF ObserveStatus, WriteLast, WriteThen, Accepted
  <1>8. CASE CreateStatus
    <2>1. LET new == SetStatus(w.mg, Digest(w.held), Digest(w.held))
          IN  new.spec = w.mg.spec /\ new.pauseAnn = w.mg.pauseAnn
      BY <1>8, SetStatusKeeps DEF CreateStatus
    <2> QED
      BY <1>8, <2>1 DEF CreateStatus, Write, WriteThen, Accepted
  <1>9. CASE UpdateRecord
    <2>1. LET new == SetStatus(w.mg, Digest(w.held), Digest(w.held))
          IN  new.spec = w.mg.spec /\ new.pauseAnn = w.mg.pauseAnn
      BY <1>9, SetStatusKeeps DEF UpdateRecord
    <2> QED
      BY <1>9, <2>1 DEF UpdateRecord, Write, WriteThen, Accepted
  <1>10. CASE ObserveLookup \/ ObserveRollback \/ ObserveRolledBack \/
              ObserveRBAC \/ ObserveUpgrade \/ ObserveUpgraded \/
              CreateRBAC \/ CreateHelm \/ CreateInstalled \/ CreateUpgraded \/
              UpdateLookup \/ DeleteUninstall \/ DeleteRBAC
    BY <1>10 DEF ObserveLookup, ObserveRollback, ObserveRolledBack, ObserveRBAC,
                 ObserveUpgrade, ObserveUpgraded, CreateRBAC, CreateHelm,
                 CreateInstalled, CreateUpgraded, UpdateLookup, DeleteUninstall,
                 DeleteRBAC
  <1>11. CASE Dispatch \/ Finalize \/ Crash
    BY <1>11 DEF Dispatch, Finalize, Crash
  <1>12. ASSUME NEW e \in Event, Serve(e)
        PROVE  cr'.spec = cr.spec /\ cr'.pauseAnn = cr.pauseAnn
    BY <1>12 DEF Serve, Event, DeleteStart, ObserveStart, CreateStart, UpdateStart
  <1>13. CASE Resync \/ User
    BY <1>13 DEF Resync, User, EditSpec, TogglePause, Edit, DeleteComposition,
       ChangeChart
  <1> QED
    BY <1>1, <1>2, <1>3, <1>4, <1>5, <1>6, <1>7, <1>8, <1>9, <1>10, <1>11, <1>12,
       <1>13
       DEF Next, Worker, HandlerStep

\* tools.Update and tools.UpdateStatus never overwrite a spec or a pause
\* annotation the handler has not seen.
THEOREM EditsKept == Spec => NoLostEdit
  <1>1. IInv /\ [Next]_vars
            => [pc' # pc => cr'.spec = cr.spec /\ cr'.pauseAnn = cr.pauseAnn]_vars
    BY WritesKeepEdits
  <1> QED
    BY <1>1, Inductive, PTL DEF Spec, NoLostEdit

\* "up-to-date" after a status write is a deployed release of the spec the
\* server holds, and a status.digest that is its digest.
THEOREM UpToDateCorrect == Spec => UpToDateIsDeployed
  <1>1. IInv /\ [Next]_vars
            => [pc = "observe.status" /\ pc' = "report.uptodate" =>
                   UpToDateMatches']_vars
    <2> SUFFICES ASSUME IInv, Next, pc = "observe.status", pc' = "report.uptodate"
                 PROVE  UpToDateMatches'
      OBVIOUS
    <2>1. ObserveStatus
      BY DEF Next, Worker, User, Dispatch, Finalize, Serve, Resync, Crash, EditSpec,
         TogglePause, Edit, DeleteComposition, ChangeChart, HandlerStep,
         ObserveUpdate, ObserveLookup, ObserveRollback, ObserveRolledBack,
         ObserveRBAC, ObserveUpgrade, ObserveUpgraded, ObserveUnavailable,
         CreateUpdate, CreateRBAC, CreateHelm, CreateInstalled, CreateUpgraded,
         CreateStatus, CreateUnpause, UpdateLookup, UpdateRecord, UpdatePause,
         DeleteUninstall, DeleteRBAC, DeleteUpdate, Report
    <2> DEFINE new == SetStatus(w.mg, None, Digest(rel.now))
    <2>2. w \in Work /\ Running
      BY DEF IInv, TypeOK, Running, Report
    <2>3. /\ new.spec = w.mg.spec /\ new.pauseAnn = w.mg.pauseAnn
          /\ new.digest = Digest(rel.now)
      BY <2>2 DEF SetStatus, Work, Composition
    <2>4. cr' = new /\ rel' = rel /\ w.fresh
      BY <2>1 DEF ObserveStatus, WriteLast, WriteThen, Accepted, Fail
    <2>5. /\ rel.status = "deployed"
          /\ rel.now.spec = w.mg.spec /\ rel.now.paused = w.mg.pauseAnn
      BY DEF IInv, RevisionIsOfCopy
    <2> QED
      BY <2>3, <2>4, <2>5 DEF UpToDateMatches, Digest
  <1> QED
    BY <1>1, Inductive, PTL DEF Spec, UpToDateIsDeployed

\* The finalizer of a composition that is not paused outlives its release.
THEOREM FinalizerCorrect == Spec => FinalizerGuardsRelease
  <1>1. IInv /\ [Next]_vars
            => [phase' = "gone" /\ phase # "gone" =>
                   rel.status = "absent" \/ GracefullyPaused(w.mg)]_vars
    BY DEF IInv, UninstalledFirst, Next, Worker, User, HandlerStep, Dispatch,
       Finalize, Serve, Resync, Crash, EditSpec, TogglePause, Edit, DeleteComposition,
       ChangeChart, vars
  <1> QED
    BY <1>1, Inductive, PTL DEF Spec, FinalizerGuardsRelease

\* Delete takes no role or binding away while there is a release to uninstall,
\* except with a namespace of that release.
THEOREM RevokeCorrect == Spec => RevokeAfterUninstall
  <1>1. IInv /\ [Next]_vars
            => [rel'.status # "absent" /\ pc \in DeleteStep =>
                   \A o \in rbac.objects \ rbac'.objects :
                       o[2] \in ShippedNamespaces(Needs[rel.now])]_vars
    <2> SUFFICES ASSUME IInv, Next, pc \in DeleteStep, rel'.status # "absent",
                        NEW o \in rbac.objects \ rbac'.objects
                 PROVE  o[2] \in ShippedNamespaces(Needs[rel.now])
      OBVIOUS
    <2>1. DeleteUninstall \/ DeleteRBAC
      BY DEF DeleteStep, Next, Worker, User, Dispatch, Finalize, Serve, Resync,
         Crash, EditSpec, TogglePause, Edit, DeleteComposition, ChangeChart, HandlerStep,
         ObserveUpdate, ObserveLookup, ObserveRollback, ObserveRolledBack,
         ObserveRBAC, ObserveUpgrade, ObserveUpgraded, ObserveUnavailable,
         ObserveStatus, CreateUpdate, CreateRBAC, CreateHelm, CreateInstalled,
         CreateUpgraded, CreateStatus, CreateUnpause, UpdateLookup, UpdateRecord,
         UpdatePause, DeleteUpdate
    <2>2. CASE DeleteUninstall
      BY <2>2 DEF DeleteUninstall, Uninstalled, HalfUninstalled, NoRelease,
         DropNamespaces
    <2>3. CASE DeleteRBAC
      BY <2>3 DEF DeleteRBAC, IInv, UninstalledFirst
    <2> QED
      BY <2>1, <2>2, <2>3
  <1> QED
    BY <1>1, Inductive, PTL DEF Spec, RevokeAfterUninstall

=============================================================================
