---------------------- MODULE CompositionLifecycleProofs ----------------------
(***************************************************************************)
(* The controller implements CompositionLifecycle, for every value of the  *)
(* constants.                                                              *)
(***************************************************************************)
EXTENDS CompositionControllerProofs

-----------------------------------------------------------------------------
(* The invariants of the mapping. *)

LEMMA InitLifecycleInv == Init => LifecycleInv
  BY DEF Init, LifecycleInv, DeletionIsAsked, CopyOfStatus, HeldIsLatest,
     AbsentIsNone, NoRelease, Running, DeleteStep

\* An event is served by its own operation, and by Delete once the deletion
\* is asked for.
LEMMA ServeCases ==
    ASSUME TypeOK, NEW e \in Event, Serve(e)
    PROVE  /\ phase' = phase /\ queue' \subseteq queue /\ e \in queue
           /\ \/ DeleteStart(e) /\ (e = "Delete" \/ phase = "deleting")
              \/ phase = "live" /\ (ObserveStart(e) \/ CreateStart(e) \/ UpdateStart(e))
           /\ phase # "gone" /\ pc = "idle"
  BY DEF Serve, Event, TypeOK

\* Delete waits for the deletion timestamp: the event comes with it, and Fail
\* queues again only the event that was served.
LEMMA DeletionStep ==
    ASSUME TypeOK, DeletionIsAsked, [Next]_vars
    PROVE  DeletionIsAsked'
  <1> USE DEF DeletionIsAsked, TypeOK, Running, Report, DeleteStep, Work
  <1>1. CASE ObserveUpdate /\ UNCHANGED <<phase, chart>>
    BY <1>1 DEF ObserveUpdate, Write, WriteThen, Goto, Accepted, Fail
  <1>2. CASE ObserveLookup /\ UNCHANGED <<phase, chart>>
    BY <1>2 DEF ObserveLookup, Accepted, Return, Goto, Fail
  <1>3. CASE ObserveRollback /\ UNCHANGED <<phase, chart>>
    BY <1>3 DEF ObserveRollback, Revise, Goto, Fail
  <1>4. CASE ObserveRolledBack /\ UNCHANGED <<phase, chart>>
    BY <1>4
       DEF ObserveRolledBack, Deployed, Goto, Forbidden, Fail, Broken, Recorded
  <1>5. CASE ObserveRBAC /\ UNCHANGED <<phase, chart>>
    BY <1>5 DEF ObserveRBAC, ApplyRBACThen, Goto
  <1>6. CASE ObserveUpgrade /\ UNCHANGED <<phase, chart>>
    BY <1>6 DEF ObserveUpgrade, Goto, Revise, Compare, Return
  <1>7. CASE ObserveUpgraded /\ UNCHANGED <<phase, chart>>
    BY <1>7
       DEF ObserveUpgraded, Deployed, Compare, Forbidden, Goto, Broken,
           Recorded, Return
  <1>8. CASE ObserveUnavailable /\ UNCHANGED <<phase, chart>>
    BY <1>8 DEF ObserveUnavailable, WriteThen, Fail, Accepted
  <1>9. CASE ObserveStatus /\ UNCHANGED <<phase, chart>>
    BY <1>9 DEF ObserveStatus, WriteLast, WriteThen, Return, Accepted, Fail
  <1>10. CASE CreateUpdate /\ UNCHANGED <<phase, chart>>
    BY <1>10 DEF CreateUpdate, WriteThen, Goto, Accepted, Fail
  <1>11. CASE CreateRBAC /\ UNCHANGED <<phase, chart>>
    BY <1>11 DEF CreateRBAC, ApplyRBACThen, Goto, Fail
  <1>12. CASE CreateHelm /\ UNCHANGED <<phase, chart>>
    BY <1>12 DEF CreateHelm, Revise, Goto, Fail
  <1>13. CASE CreateInstalled /\ UNCHANGED <<phase, chart>>
    BY <1>13
       DEF CreateInstalled, Deployed, Goto, Forbidden, Fail, Broken, Recorded
  <1>14. CASE CreateUpgraded /\ UNCHANGED <<phase, chart>>
    BY <1>14 DEF CreateUpgraded, Deployed, Forbidden, Broken, Goto, Recorded
  <1>15. CASE CreateStatus /\ UNCHANGED <<phase, chart>>
    BY <1>15 DEF CreateStatus, Write, WriteThen, Goto, Accepted, Fail
  <1>16. CASE CreateUnpause /\ UNCHANGED <<phase, chart>>
    BY <1>16
       DEF CreateUnpause, WriteLast, ClearPausedTime, WriteThen, Return,
           Accepted, Fail
  <1>17. CASE UpdateLookup /\ UNCHANGED <<phase, chart>>
    BY <1>17 DEF UpdateLookup, Goto, Fail
  <1>18. CASE UpdateRecord /\ UNCHANGED <<phase, chart>>
    BY <1>18 DEF UpdateRecord, Write, WriteThen, Goto, Accepted, Fail
  <1>19. CASE UpdatePause /\ UNCHANGED <<phase, chart>>
    BY <1>19 DEF UpdatePause, WriteLast, WriteThen, Return, Accepted, Fail
  <1>20. CASE DeleteUninstall /\ UNCHANGED <<phase, chart>>
    BY <1>20
       DEF DeleteUninstall, Goto, Uninstalled, HalfUninstalled, Fail, NoRelease,
           Recorded
  <1>21. CASE DeleteRBAC /\ UNCHANGED <<phase, chart>>
    BY <1>21 DEF DeleteRBAC, Goto, Fail
  <1>22. CASE DeleteUpdate /\ UNCHANGED <<phase, chart>>
    BY <1>22
       DEF DeleteUpdate, Write, ClearPausedTime, WriteThen, Goto, Accepted, Fail
  <1>23. CASE Dispatch
    BY <1>23 DEF Dispatch
  <1>24. CASE Finalize
    BY <1>24 DEF Finalize, Fail
  <1>25. ASSUME NEW e \in Event, Serve(e)
        PROVE  DeletionIsAsked'
    <2>1. CASE DeleteStart(e)
      <3>1. phase = "deleting" /\ phase' = phase /\ queue' \subseteq queue
        BY <1>25, <2>1, ServeCases DEF DeleteStart, ObserveStart, CreateStart, UpdateStart
      <3> QED
        BY <2>1, <3>1 DEF DeleteStart, Begin
    <2>2. CASE phase = "live" /\ (ObserveStart(e) \/ CreateStart(e) \/ UpdateStart(e))
      <3>1. phase' = "live" /\ queue' \subseteq queue /\ e \in queue
        BY <1>25, <2>2, ServeCases
      <3> QED
        BY <2>2, <3>1 DEF ObserveStart, CreateStart, UpdateStart, Begin
    <2> QED
      BY <1>25, <2>1, <2>2, ServeCases
  <1>26. CASE Resync
    BY <1>26 DEF Resync
  <1>27. CASE Crash
    BY <1>27 DEF Crash
  <1>28. CASE EditSpec
    BY <1>28 DEF EditSpec, Edit, Outrun
  <1>29. CASE TogglePause
    BY <1>29 DEF TogglePause, Edit, Outrun
  <1>30. CASE DeleteComposition
    BY <1>30 DEF DeleteComposition, Outrun
  <1>31. CASE ChangeChart
    BY <1>31 DEF ChangeChart
  <1>32. CASE UNCHANGED vars
    BY <1>32 DEF vars
  <1> QED
    BY <1>1, <1>2, <1>3, <1>4, <1>5, <1>6, <1>7, <1>8, <1>9, <1>10, <1>11,
       <1>12, <1>13, <1>14, <1>15, <1>16, <1>17, <1>18, <1>19, <1>20, <1>21,
       <1>22, <1>23, <1>24, <1>25, <1>26, <1>27, <1>28, <1>29, <1>30, <1>31,
       <1>32
       DEF Next, Worker, User, HandlerStep

\* The handler is the only writer of the status and of the pause time.
LEMMA StatusStep ==
    ASSUME TypeOK, CopyOfStatus, [Next]_vars
    PROVE  CopyOfStatus'
  <1> USE DEF CopyOfStatus, TypeOK, Running, Report, Work, Composition
  <1>1. CASE ObserveUpdate /\ UNCHANGED <<phase, chart>>
    BY <1>1 DEF ObserveUpdate, Write, WriteThen, Goto, Accepted, Fail
  <1>2. CASE ObserveLookup /\ UNCHANGED <<phase, chart>>
    BY <1>2 DEF ObserveLookup, Accepted, Return, Goto, Fail
  <1>3. CASE ObserveRollback /\ UNCHANGED <<phase, chart>>
    BY <1>3 DEF ObserveRollback, Revise, Goto, Fail
  <1>4. CASE ObserveRolledBack /\ UNCHANGED <<phase, chart>>
    BY <1>4
       DEF ObserveRolledBack, Deployed, Goto, Forbidden, Fail, Broken, Recorded
  <1>5. CASE ObserveRBAC /\ UNCHANGED <<phase, chart>>
    BY <1>5 DEF ObserveRBAC, ApplyRBACThen, Goto
  <1>6. CASE ObserveUpgrade /\ UNCHANGED <<phase, chart>>
    BY <1>6 DEF ObserveUpgrade, Goto, Revise, Compare, Return
  <1>7. CASE ObserveUpgraded /\ UNCHANGED <<phase, chart>>
    BY <1>7
       DEF ObserveUpgraded, Deployed, Compare, Forbidden, Goto, Broken,
           Recorded, Return
  <1>8. CASE ObserveUnavailable /\ UNCHANGED <<phase, chart>>
    BY <1>8 DEF ObserveUnavailable, WriteThen, Fail, Accepted
  <1>9. CASE ObserveStatus /\ UNCHANGED <<phase, chart>>
    BY <1>9 DEF ObserveStatus, WriteLast, WriteThen, Return, Accepted, Fail
  <1>10. CASE CreateUpdate /\ UNCHANGED <<phase, chart>>
    BY <1>10 DEF CreateUpdate, WriteThen, Goto, Accepted, Fail
  <1>11. CASE CreateRBAC /\ UNCHANGED <<phase, chart>>
    BY <1>11 DEF CreateRBAC, ApplyRBACThen, Goto, Fail
  <1>12. CASE CreateHelm /\ UNCHANGED <<phase, chart>>
    BY <1>12 DEF CreateHelm, Revise, Goto, Fail
  <1>13. CASE CreateInstalled /\ UNCHANGED <<phase, chart>>
    BY <1>13
       DEF CreateInstalled, Deployed, Goto, Forbidden, Fail, Broken, Recorded
  <1>14. CASE CreateUpgraded /\ UNCHANGED <<phase, chart>>
    BY <1>14 DEF CreateUpgraded, Deployed, Forbidden, Broken, Goto, Recorded
  <1>15. CASE CreateStatus /\ UNCHANGED <<phase, chart>>
    BY <1>15 DEF CreateStatus, Write, WriteThen, Goto, Accepted, Fail
  <1>16. CASE CreateUnpause /\ UNCHANGED <<phase, chart>>
    BY <1>16
       DEF CreateUnpause, WriteLast, ClearPausedTime, WriteThen, Return,
           Accepted, Fail
  <1>17. CASE UpdateLookup /\ UNCHANGED <<phase, chart>>
    BY <1>17 DEF UpdateLookup, Goto, Fail
  <1>18. CASE UpdateRecord /\ UNCHANGED <<phase, chart>>
    BY <1>18 DEF UpdateRecord, Write, WriteThen, Goto, Accepted, Fail
  <1>19. CASE UpdatePause /\ UNCHANGED <<phase, chart>>
    BY <1>19 DEF UpdatePause, WriteLast, WriteThen, Return, Accepted, Fail
  <1>20. CASE DeleteUninstall /\ UNCHANGED <<phase, chart>>
    BY <1>20
       DEF DeleteUninstall, Goto, Uninstalled, HalfUninstalled, Fail, NoRelease,
           Recorded
  <1>21. CASE DeleteRBAC /\ UNCHANGED <<phase, chart>>
    BY <1>21 DEF DeleteRBAC, Goto, Fail
  <1>22. CASE DeleteUpdate /\ UNCHANGED <<phase, chart>>
    BY <1>22
       DEF DeleteUpdate, Write, ClearPausedTime, WriteThen, Goto, Accepted, Fail
  <1>23. CASE Dispatch
    BY <1>23 DEF Dispatch
  <1>24. CASE Finalize
    BY <1>24 DEF Finalize, Fail
  <1>25. ASSUME NEW e \in Event, Serve(e)
        PROVE  CopyOfStatus'
    <2>1. DeleteStart(e) \/ ObserveStart(e) \/ CreateStart(e) \/ UpdateStart(e)
      BY <1>25, ServeCases
    <2>2. CASE DeleteStart(e)
      BY <2>2 DEF DeleteStart, Begin
    <2>3. CASE ObserveStart(e)
      <3>1. LET mg == ClearPausedTime(LabelName(cr))
            IN  mg.digest = cr.digest /\ mg.managed = cr.managed
        BY DEF ClearPausedTime, LabelName
      <3> QED
        BY <2>3, <3>1 DEF ObserveStart, Begin
    <2>4. CASE CreateStart(e)
      BY <2>4 DEF CreateStart, Begin, LabelName
    <2>5. CASE UpdateStart(e)
      BY <2>5 DEF UpdateStart, Begin
    <2> QED
      BY <2>1, <2>2, <2>3, <2>4, <2>5
  <1>26. CASE Resync
    BY <1>26 DEF Resync
  <1>27. CASE Crash
    BY <1>27 DEF Crash
  <1>28. CASE EditSpec
    BY <1>28 DEF EditSpec, Edit, Outrun
  <1>29. CASE TogglePause
    BY <1>29 DEF TogglePause, Edit, Outrun
  <1>30. CASE DeleteComposition
    BY <1>30 DEF DeleteComposition, Outrun
  <1>31. CASE ChangeChart
    BY <1>31 DEF ChangeChart
  <1>32. CASE UNCHANGED vars
    BY <1>32 DEF vars
  <1> QED
    BY <1>1, <1>2, <1>3, <1>4, <1>5, <1>6, <1>7, <1>8, <1>9, <1>10, <1>11,
       <1>12, <1>13, <1>14, <1>15, <1>16, <1>17, <1>18, <1>19, <1>20, <1>21,
       <1>22, <1>23, <1>24, <1>25, <1>26, <1>27, <1>28, <1>29, <1>30, <1>31,
       <1>32
       DEF Next, Worker, User, HandlerStep

\* Nothing but an operation's own steps changes the release.
LEMMA LatestStep ==
    ASSUME TypeOK, HeldIsLatest, AbsentIsNone, [Next]_vars
    PROVE  HeldIsLatest' /\ AbsentIsNone'
  <1> USE DEF HeldIsLatest, AbsentIsNone, TypeOK, Running, Report, Work, Release
  <1>1. CASE ObserveUpdate /\ UNCHANGED <<phase, chart>>
    BY <1>1 DEF ObserveUpdate, Write, WriteThen, Goto, Accepted, Fail
  <1>2. CASE ObserveLookup /\ UNCHANGED <<phase, chart>>
    BY <1>2 DEF ObserveLookup, Accepted, Return, Goto, Fail
  <1>3. CASE ObserveRollback /\ UNCHANGED <<phase, chart>>
    BY <1>3 DEF ObserveRollback, Revise, Goto, Fail
  <1>4. CASE ObserveRolledBack /\ UNCHANGED <<phase, chart>>
    BY <1>4
       DEF ObserveRolledBack, Deployed, Goto, Forbidden, Fail, Broken, Recorded
  <1>5. CASE ObserveRBAC /\ UNCHANGED <<phase, chart>>
    BY <1>5 DEF ObserveRBAC, ApplyRBACThen, Goto
  <1>6. CASE ObserveUpgrade /\ UNCHANGED <<phase, chart>>
    BY <1>6 DEF ObserveUpgrade, Goto, Revise, Compare, Return
  <1>7. CASE ObserveUpgraded /\ UNCHANGED <<phase, chart>>
    BY <1>7
       DEF ObserveUpgraded, Deployed, Compare, Forbidden, Goto, Broken,
           Recorded, Return
  <1>8. CASE ObserveUnavailable /\ UNCHANGED <<phase, chart>>
    BY <1>8 DEF ObserveUnavailable, WriteThen, Fail, Accepted
  <1>9. CASE ObserveStatus /\ UNCHANGED <<phase, chart>>
    BY <1>9 DEF ObserveStatus, WriteLast, WriteThen, Return, Accepted, Fail
  <1>10. CASE CreateUpdate /\ UNCHANGED <<phase, chart>>
    BY <1>10 DEF CreateUpdate, WriteThen, Goto, Accepted, Fail
  <1>11. CASE CreateRBAC /\ UNCHANGED <<phase, chart>>
    BY <1>11 DEF CreateRBAC, ApplyRBACThen, Goto, Fail
  <1>12. CASE CreateHelm /\ UNCHANGED <<phase, chart>>
    BY <1>12 DEF CreateHelm, Revise, Goto, Fail
  <1>13. CASE CreateInstalled /\ UNCHANGED <<phase, chart>>
    BY <1>13
       DEF CreateInstalled, Deployed, Goto, Forbidden, Fail, Broken, Recorded
  <1>14. CASE CreateUpgraded /\ UNCHANGED <<phase, chart>>
    BY <1>14 DEF CreateUpgraded, Deployed, Forbidden, Broken, Goto, Recorded
  <1>15. CASE CreateStatus /\ UNCHANGED <<phase, chart>>
    BY <1>15 DEF CreateStatus, Write, WriteThen, Goto, Accepted, Fail
  <1>16. CASE CreateUnpause /\ UNCHANGED <<phase, chart>>
    BY <1>16
       DEF CreateUnpause, WriteLast, ClearPausedTime, WriteThen, Return,
           Accepted, Fail
  <1>17. CASE UpdateLookup /\ UNCHANGED <<phase, chart>>
    BY <1>17 DEF UpdateLookup, Goto, Fail
  <1>18. CASE UpdateRecord /\ UNCHANGED <<phase, chart>>
    BY <1>18 DEF UpdateRecord, Write, WriteThen, Goto, Accepted, Fail
  <1>19. CASE UpdatePause /\ UNCHANGED <<phase, chart>>
    BY <1>19 DEF UpdatePause, WriteLast, WriteThen, Return, Accepted, Fail
  <1>20. CASE DeleteUninstall /\ UNCHANGED <<phase, chart>>
    BY <1>20
       DEF DeleteUninstall, Goto, Uninstalled, HalfUninstalled, Fail, NoRelease,
           Recorded
  <1>21. CASE DeleteRBAC /\ UNCHANGED <<phase, chart>>
    BY <1>21 DEF DeleteRBAC, Goto, Fail
  <1>22. CASE DeleteUpdate /\ UNCHANGED <<phase, chart>>
    BY <1>22
       DEF DeleteUpdate, Write, ClearPausedTime, WriteThen, Goto, Accepted, Fail
  <1>23. CASE Dispatch
    BY <1>23 DEF Dispatch
  <1>24. CASE Finalize
    BY <1>24 DEF Finalize, Fail
  <1>25. ASSUME NEW e \in Event, Serve(e)
        PROVE  HeldIsLatest' /\ AbsentIsNone'
    BY <1>25, ServeCases DEF DeleteStart, ObserveStart, CreateStart, UpdateStart, Begin
  <1>26. CASE Resync
    BY <1>26 DEF Resync
  <1>27. CASE Crash
    BY <1>27 DEF Crash
  <1>28. CASE EditSpec
    BY <1>28 DEF EditSpec, Edit, Outrun
  <1>29. CASE TogglePause
    BY <1>29 DEF TogglePause, Edit, Outrun
  <1>30. CASE DeleteComposition
    BY <1>30 DEF DeleteComposition, Outrun
  <1>31. CASE ChangeChart
    BY <1>31 DEF ChangeChart
  <1>32. CASE UNCHANGED vars
    BY <1>32 DEF vars
  <1> QED
    BY <1>1, <1>2, <1>3, <1>4, <1>5, <1>6, <1>7, <1>8, <1>9, <1>10, <1>11,
       <1>12, <1>13, <1>14, <1>15, <1>16, <1>17, <1>18, <1>19, <1>20, <1>21,
       <1>22, <1>23, <1>24, <1>25, <1>26, <1>27, <1>28, <1>29, <1>30, <1>31,
       <1>32
       DEF Next, Worker, User, HandlerStep

LEMMA LifecycleInvStep == IInv /\ LifecycleInv /\ [Next]_vars => LifecycleInv'
  BY DeletionStep, StatusStep, LatestStep DEF IInv, LifecycleInv

LEMMA LifecycleKept == Spec => []LifecycleInv
  BY Inductive, InitLifecycleInv, LifecycleInvStep, PTL DEF Spec

-----------------------------------------------------------------------------
(* The steps of CompositionLifecycle, said of the controller's variables.  *)

AskedKept  == cr'.spec = cr.spec /\ cr'.pauseAnn = cr.pauseAnn
StatusKept == cr'.digest = cr.digest /\ cr'.managed = cr.managed
MarkKept   == cr'.pausedTime = cr.pausedTime
LatestKept == rel'.now = rel.now

Abstract == [Lifecycle!Next]_(Lifecycle!vars)

LEMMA Booleans == /\ Deploying \in BOOLEAN /\ Deploying' \in BOOLEAN
                  /\ Sparing \in BOOLEAN   /\ Sparing' \in BOOLEAN
  BY DEF Deploying, Sparing

LEMMA PublishedIsDigest == Lifecycle!Published(rel.now) = Digest(rel.now)
  BY DEF Lifecycle!Published, Digest

\* A step that shows nothing, but may end the work.
LEMMA QuietStep ==
    ASSUME phase' = phase, AskedKept, StatusKept, MarkKept, LatestKept,
           Sparing' = Sparing, Deploying' => Deploying
    PROVE  Abstract
  <1>1. CASE Deploying' = Deploying
    BY <1>1 DEF Abstract, Lifecycle!vars, AskedKept, StatusKept, MarkKept, LatestKept
  <1>2. CASE Deploying /\ ~Deploying'
    <2>1. Lifecycle!Stop
      BY <1>2 DEF Lifecycle!Stop, AskedKept, StatusKept, MarkKept, LatestKept
    <2> QED
      BY <2>1 DEF Abstract, Lifecycle!Next
  <1> QED
    BY <1>1, <1>2, Booleans DEF Deploying

LEMMA ReviseStep ==
    ASSUME phase' = phase, AskedKept, StatusKept, MarkKept, Deploying,
           Deploying' \in BOOLEAN, rel'.now \in Content, Sparing' = Sparing
    PROVE  Abstract
  <1>1. Lifecycle!Revise
    BY Booleans
       DEF Lifecycle!Revise, AskedKept, StatusKept, MarkKept
  <1> QED
    BY <1>1 DEF Abstract, Lifecycle!Next

LEMMA PublishStep ==
    ASSUME phase' = phase, AskedKept, MarkKept, LatestKept, Deploying,
           Deploying' \in BOOLEAN, cr'.digest \in {None, Digest(rel.now)},
           cr'.managed \in {cr.managed, Digest(rel.now)}, Sparing' = Sparing
    PROVE  Abstract
  <1>1. Lifecycle!Publish
    BY Booleans, PublishedIsDigest
       DEF Lifecycle!Publish, AskedKept, MarkKept, LatestKept
  <1> QED
    BY <1>1 DEF Abstract, Lifecycle!Next

LEMMA AcceptStep ==
    ASSUME phase' = phase, AskedKept, StatusKept, LatestKept, Deploying,
           Deploying' \in BOOLEAN, cr.pauseAnn, cr'.pausedTime = TRUE,
           Sparing' = Sparing
    PROVE  Abstract
  <1>1. Lifecycle!Accept
    BY Booleans
       DEF Lifecycle!Accept, AskedKept, StatusKept, LatestKept
  <1> QED
    BY <1>1 DEF Abstract, Lifecycle!Next

LEMMA ClearStep ==
    ASSUME phase' = phase, phase # "gone", AskedKept, StatusKept, LatestKept,
           cr'.pausedTime = FALSE, Deploying' \in {Deploying, FALSE},
           Sparing' = Sparing
    PROVE  Abstract
  <1>1. Lifecycle!Clear
    BY Booleans
       DEF Lifecycle!Clear, AskedKept, StatusKept, LatestKept
  <1> QED
    BY <1>1 DEF Abstract, Lifecycle!Next

LEMMA WithdrawStep ==
    ASSUME phase' = phase, phase = "deleting", AskedKept, StatusKept,
           MarkKept, ~Deploying, Deploying' = Deploying, rel'.now = None,
           Sparing' = Sparing
    PROVE  Abstract
  <1>1. Lifecycle!Withdraw
    BY Booleans
       DEF Lifecycle!Withdraw, AskedKept, StatusKept, MarkKept
  <1> QED
    BY <1>1 DEF Abstract, Lifecycle!Next

LEMMA BeginStep ==
    ASSUME phase' = phase, phase = "live", AskedKept, StatusKept, MarkKept,
           LatestKept, ~Deploying, Deploying',
           ~(cr.pauseAnn /\ cr.pausedTime), Sparing' = Sparing
    PROVE  Abstract
  <1>1. Lifecycle!Begin
    BY Booleans
       DEF Lifecycle!Begin, Lifecycle!Frozen, AskedKept, StatusKept, MarkKept, LatestKept
  <1> QED
    BY <1>1 DEF Abstract, Lifecycle!Next

LEMMA SpareStep ==
    ASSUME phase' = phase, phase = "deleting", AskedKept, StatusKept,
           MarkKept, LatestKept, ~Deploying, ~Deploying',
           cr.pauseAnn /\ cr.pausedTime, Sparing'
    PROVE  Abstract
  <1>1. Lifecycle!Spare
    BY Booleans
       DEF Lifecycle!Spare, Lifecycle!Frozen, AskedKept, StatusKept, MarkKept, LatestKept
  <1> QED
    BY <1>1 DEF Abstract, Lifecycle!Next

LEMMA RetryStep ==
    ASSUME phase' = phase, AskedKept, StatusKept, MarkKept, LatestKept,
           Deploying' = Deploying, Sparing, ~Sparing'
    PROVE  Abstract
  <1>1. Lifecycle!Retry
    BY Booleans
       DEF Lifecycle!Retry, AskedKept, StatusKept, MarkKept, LatestKept
  <1> QED
    BY <1>1 DEF Abstract, Lifecycle!Next

LEMMA LeaveStep ==
    ASSUME phase = "deleting", phase' = "gone", AskedKept, StatusKept,
           MarkKept, LatestKept, ~Deploying, ~Deploying',
           rel.now = None \/ Sparing, ~Sparing'
    PROVE  Abstract
  <1>1. Lifecycle!Leave
    BY Booleans
       DEF Lifecycle!Leave, AskedKept, StatusKept, MarkKept, LatestKept
  <1> QED
    BY <1>1 DEF Abstract, Lifecycle!Next

LEMMA AskStep ==
    ASSUME phase' = phase, phase # "gone", cr.spec \in Specs,
           cr'.spec \in Specs, cr'.pauseAnn \in BOOLEAN, StatusKept,
           MarkKept, LatestKept, Deploying' = Deploying, Sparing' = Sparing
    PROVE  Abstract
  <1>1. Lifecycle!Ask
    BY Booleans
       DEF Lifecycle!Ask, Lifecycle!Asked, StatusKept, MarkKept, LatestKept
  <1> QED
    BY <1>1 DEF Abstract, Lifecycle!Next

LEMMA DeletionRequestStep ==
    ASSUME phase = "live", phase' = "deleting", AskedKept, StatusKept,
           MarkKept, LatestKept, Deploying' = Deploying, Sparing' = Sparing
    PROVE  Abstract
  <1>1. Lifecycle!RequestDeletion
    BY Booleans
       DEF Lifecycle!RequestDeletion, AskedKept, StatusKept, MarkKept, LatestKept
  <1> QED
    BY <1>1 DEF Abstract, Lifecycle!Next

-----------------------------------------------------------------------------
(* Every step of the controller is one of them. *)

\* The steps of the handler that show nothing outside.
LEMMA HiddenSteps ==
    ASSUME IInv, LifecycleInv, HandlerStep,
           \/ ObserveLookup   \/ ObserveRolledBack \/ ObserveRBAC
           \/ ObserveUpgraded \/ CreateRBAC        \/ CreateInstalled
           \/ CreateUpgraded  \/ UpdateLookup      \/ DeleteRBAC
    PROVE  Abstract
  <1> USE DEF Deploying, Sparing, ObserveStep, CreateStep, UpdateStep,
              AskedKept, StatusKept, MarkKept, LatestKept, HandlerStep
  <1>1. CASE ObserveLookup
    <2>1. /\ phase' = phase /\ cr' = cr /\ LatestKept
          /\ Sparing' = Sparing /\ (Deploying' => Deploying)
      BY <1>1 DEF ObserveLookup, Accepted, Return, Goto, Fail, Report
    <2> QED
      BY <2>1, QuietStep
  <1>2. CASE ObserveRolledBack
    <2>1. /\ phase' = phase /\ cr' = cr /\ LatestKept
          /\ Sparing' = Sparing /\ (Deploying' => Deploying)
      BY <1>2
         DEF ObserveRolledBack, Deployed, Goto, Forbidden, Fail, Broken,
             Recorded, IInv, TypeOK, Release
    <2> QED
      BY <2>1, QuietStep
  <1>3. CASE ObserveRBAC
    <2>1. /\ phase' = phase /\ cr' = cr /\ LatestKept
          /\ Sparing' = Sparing /\ (Deploying' => Deploying)
      BY <1>3 DEF ObserveRBAC, ApplyRBACThen, Goto
    <2> QED
      BY <2>1, QuietStep
  <1>4. CASE ObserveUpgraded
    <2>1. /\ phase' = phase /\ cr' = cr /\ LatestKept
          /\ Sparing' = Sparing /\ (Deploying' => Deploying)
      BY <1>4
         DEF ObserveUpgraded, Deployed, Compare, Forbidden, Goto, Broken,
             Recorded, Return, IInv, TypeOK, Release, Report
    <2> QED
      BY <2>1, QuietStep
  <1>5. CASE CreateRBAC
    <2>1. /\ phase' = phase /\ cr' = cr /\ LatestKept
          /\ Sparing' = Sparing /\ (Deploying' => Deploying)
      BY <1>5 DEF CreateRBAC, ApplyRBACThen, Goto, Fail
    <2> QED
      BY <2>1, QuietStep
  <1>6. CASE CreateInstalled
    <2>1. /\ phase' = phase /\ cr' = cr /\ LatestKept
          /\ Sparing' = Sparing /\ (Deploying' => Deploying)
      BY <1>6
         DEF CreateInstalled, Deployed, Goto, Forbidden, Fail, Broken, Recorded,
             IInv, TypeOK, Release
    <2> QED
      BY <2>1, QuietStep
  <1>7. CASE CreateUpgraded
    <2>1. /\ phase' = phase /\ cr' = cr /\ LatestKept
          /\ Sparing' = Sparing /\ (Deploying' => Deploying)
      BY <1>7
         DEF CreateUpgraded, Deployed, Forbidden, Broken, Goto, Recorded, IInv,
             TypeOK, Release
    <2> QED
      BY <2>1, QuietStep
  <1>8. CASE UpdateLookup
    <2>1. /\ phase' = phase /\ cr' = cr /\ LatestKept
          /\ Sparing' = Sparing /\ (Deploying' => Deploying)
      BY <1>8 DEF UpdateLookup, Goto, Fail
    <2> QED
      BY <2>1, QuietStep
  <1>9. CASE DeleteRBAC
    <2>1. /\ phase' = phase /\ cr' = cr /\ LatestKept
          /\ Sparing' = Sparing /\ (Deploying' => Deploying)
      BY <1>9 DEF DeleteRBAC, Goto, Fail
    <2> QED
      BY <2>1, QuietStep
  <1> QED
    BY <1>1, <1>2, <1>3, <1>4, <1>5, <1>6, <1>7, <1>8, <1>9

\* The writes that move no more than the pause time.
LEMMA MarkSteps ==
    ASSUME IInv, LifecycleInv, HandlerStep, AskedKept,
           \/ ObserveUpdate \/ ObserveUnavailable \/ CreateUpdate
           \/ CreateUnpause \/ UpdatePause        \/ DeleteUpdate
    PROVE  Abstract
  <1> USE DEF Deploying, Sparing, ObserveStep, CreateStep, UpdateStep, DeleteStep,
              Report
  <1>0. /\ w \in Work /\ w.mg \in Composition /\ cr \in Composition
        /\ w.mg.digest = cr.digest /\ w.mg.managed = cr.managed
        /\ pc # "observe.update" => w.mg.pausedTime = cr.pausedTime
        /\ w.fresh => w.mg.pauseAnn = cr.pauseAnn
        /\ phase # "gone" /\ phase' = phase
    BY DEF HandlerStep, IInv, TypeOK, LifecycleInv, CopyOfStatus, CopyIsCurrent,
           DeletionIsAsked, Running, Work, ObserveUpdate, ObserveUnavailable,
           CreateUpdate, CreateUnpause, UpdatePause, DeleteUpdate
  <1>1. CASE ObserveUpdate
    <2>1. /\ StatusKept /\ LatestKept /\ ~Sparing /\ ~Sparing'
          /\ Deploying' => Deploying
          /\ MarkKept \/ cr'.pausedTime = FALSE
      BY <1>1, <1>0
         DEF ObserveUpdate, Write, WriteThen, Goto, Accepted, Fail, Composition,
             StatusKept, LatestKept, MarkKept, IInv, PauseIsDropped
    <2> QED
      BY <1>0, <2>1, QuietStep, ClearStep, Booleans
  <1>2. CASE ObserveUnavailable
    <2>1. /\ StatusKept /\ LatestKept /\ ~Sparing /\ ~Sparing'
          /\ Deploying' => Deploying
          /\ MarkKept \/ cr'.pausedTime = FALSE
      BY <1>2, <1>0
         DEF ObserveUnavailable, WriteThen, Fail, Accepted, Composition,
             StatusKept, LatestKept, MarkKept
    <2> QED
      BY <1>0, <2>1, QuietStep, ClearStep, Booleans
  <1>3. CASE CreateUpdate
    <2>1. /\ StatusKept /\ LatestKept /\ ~Sparing /\ ~Sparing'
          /\ Deploying' => Deploying
          /\ MarkKept \/ cr'.pausedTime = FALSE
      BY <1>3, <1>0
         DEF CreateUpdate, WriteThen, Goto, Accepted, Fail, Composition,
             StatusKept, LatestKept, MarkKept
    <2> QED
      BY <1>0, <2>1, QuietStep, ClearStep, Booleans
  <1>4. CASE CreateUnpause
    <2>1. /\ StatusKept /\ LatestKept /\ ~Sparing /\ ~Sparing'
          /\ Deploying' => Deploying
          /\ MarkKept \/ cr'.pausedTime = FALSE
      BY <1>4, <1>0
         DEF CreateUnpause, WriteLast, ClearPausedTime, WriteThen, Return,
             Accepted, Fail, Composition, StatusKept, LatestKept, MarkKept
    <2> QED
      BY <1>0, <2>1, QuietStep, ClearStep, Booleans
  <1>5. CASE DeleteUpdate
    <2>1. /\ StatusKept /\ LatestKept /\ ~Sparing /\ ~Sparing'
          /\ Deploying' => Deploying
          /\ MarkKept \/ cr'.pausedTime = FALSE
      BY <1>5, <1>0
         DEF DeleteUpdate, Write, ClearPausedTime, WriteThen, Goto, Accepted,
             Fail, Composition, StatusKept, LatestKept, MarkKept, IInv,
             UninstalledFirst, LifecycleInv, AbsentIsNone
    <2> QED
      BY <1>0, <2>1, QuietStep, ClearStep, Booleans
  <1>6. CASE UpdatePause
    <2>1. /\ StatusKept /\ LatestKept /\ Sparing' = Sparing
          /\ Deploying /\ Deploying' \in BOOLEAN
          /\ \/ MarkKept
             \/ cr'.pausedTime = FALSE
             \/ cr'.pausedTime = TRUE /\ cr.pauseAnn
      BY <1>6, <1>0
         DEF UpdatePause, WriteLast, WriteThen, Return, Accepted, Fail,
             Composition, StatusKept, LatestKept, MarkKept
    <2> QED
      BY <1>0, <2>1, QuietStep, ClearStep, AcceptStep
  <1> QED
    BY <1>1, <1>2, <1>3, <1>4, <1>5, <1>6

\* The steps that make a revision.
LEMMA RevisionSteps ==
    ASSUME IInv, LifecycleInv, HandlerStep,
           ObserveRollback \/ ObserveUpgrade \/ CreateHelm
    PROVE  Abstract
  <1> USE DEF Deploying, Sparing, ObserveStep, CreateStep, UpdateStep, Report,
              AskedKept, StatusKept, MarkKept, LatestKept, HandlerStep
  <1>0. /\ phase' = phase /\ rel.prev \in Content \cup {None}
        /\ pc \in {"observe.upgrade", "create.helm"} => Rendered \in Content
    BY TypeParts, ContentType
       DEF IInv, TypeOK, WorldOK, PackageKnown, Release, Running
  <1>1. CASE ObserveRollback
    <2>1. /\ cr' = cr /\ Sparing' = Sparing /\ Deploying /\ Deploying' \in BOOLEAN
          /\ LatestKept \/ rel'.now \in Content
      BY <1>1, <1>0 DEF ObserveRollback, Revise, Goto, Fail
    <2> QED
      BY <1>0, <2>1, QuietStep, ReviseStep
  <1>2. CASE ObserveUpgrade
    <2>1. /\ cr' = cr /\ Sparing' = Sparing /\ Deploying /\ Deploying' \in BOOLEAN
          /\ LatestKept \/ rel'.now \in Content
      BY <1>2, <1>0 DEF ObserveUpgrade, Goto, Revise, Compare, Return
    <2> QED
      BY <1>0, <2>1, QuietStep, ReviseStep
  <1>3. CASE CreateHelm
    <2>1. /\ cr' = cr /\ Sparing' = Sparing /\ Deploying /\ Deploying' \in BOOLEAN
          /\ LatestKept \/ rel'.now \in Content
      BY <1>3, <1>0 DEF CreateHelm, Revise, Goto, Fail
    <2> QED
      BY <1>0, <2>1, QuietStep, ReviseStep
  <1> QED
    BY <1>1, <1>2, <1>3

\* The steps that write the status.
LEMMA StatusSteps ==
    ASSUME IInv, LifecycleInv, HandlerStep, AskedKept,
           ObserveStatus \/ CreateStatus \/ UpdateRecord
    PROVE  Abstract
  <1> USE DEF Deploying, Sparing, ObserveStep, CreateStep, UpdateStep, Report,
              HandlerStep
  <1>0. /\ w \in Work /\ w.mg \in Composition
        /\ w.mg.digest = cr.digest /\ w.mg.managed = cr.managed
        /\ w.mg.pausedTime = cr.pausedTime
        /\ phase' = phase
    BY DEF IInv, TypeOK, LifecycleInv, CopyOfStatus, Running, Work,
           ObserveStatus, CreateStatus, UpdateRecord
  <1>1. ASSUME NEW m, NEW d,
               m \in {None, Digest(rel.now)}, d \in {None, Digest(rel.now)},
               cr' \in {cr, SetStatus(w.mg, m, d)}, LatestKept,
               Deploying, Deploying' \in BOOLEAN, Sparing' = Sparing
        PROVE  Abstract
    <2>1. CASE cr' = cr
      BY <1>0, <1>1, <2>1, QuietStep DEF StatusKept, MarkKept
    <2>2. CASE cr' = SetStatus(w.mg, m, d)
      <3>1. /\ cr'.digest = d /\ cr'.managed \in {cr.managed, m}
            /\ cr'.pausedTime = cr.pausedTime
            /\ m = None => cr'.managed = cr.managed
        BY <1>0, <2>2 DEF SetStatus, Composition
      <3> QED
        BY <1>0, <1>1, <3>1, PublishStep DEF MarkKept
    <2> QED
      BY <1>1, <2>1, <2>2
  <1>2. CASE ObserveStatus
    <2>1. /\ cr' \in {cr, SetStatus(w.mg, None, Digest(rel.now))} /\ LatestKept
          /\ Deploying /\ Deploying' \in BOOLEAN /\ Sparing' = Sparing
      BY <1>2 DEF ObserveStatus, WriteLast, WriteThen, Return, Accepted, Fail,
                  LatestKept
    <2> QED
      BY <1>1, <2>1
  <1>3. CASE CreateStatus
    <2>1. /\ cr' \in {cr, SetStatus(w.mg, Digest(w.held), Digest(w.held))}
          /\ Deploying /\ Deploying' \in BOOLEAN /\ Sparing' = Sparing
          /\ LatestKept
      BY <1>3 DEF CreateStatus, Write, WriteThen, Goto, Accepted, Fail, LatestKept
    <2>2. Digest(w.held) \in {None, Digest(rel.now)}
      BY <1>3 DEF CreateStatus, LifecycleInv, HeldIsLatest, Digest
    <2> QED
      BY <1>1, <2>1, <2>2
  <1>4. CASE UpdateRecord
    <2>1. /\ cr' \in {cr, SetStatus(w.mg, Digest(w.held), Digest(w.held))}
          /\ Deploying /\ Deploying' \in BOOLEAN /\ Sparing' = Sparing
          /\ LatestKept
      BY <1>4 DEF UpdateRecord, Write, WriteThen, Goto, Accepted, Fail, LatestKept
    <2>2. Digest(w.held) \in {None, Digest(rel.now)}
      BY <1>4 DEF UpdateRecord, LifecycleInv, HeldIsLatest, Digest
    <2> QED
      BY <1>1, <2>1, <2>2
  <1> QED
    BY <1>2, <1>3, <1>4

\* The uninstallation takes the release or leaves it.
LEMMA UninstallSteps ==
    ASSUME IInv, LifecycleInv, HandlerStep, DeleteUninstall
    PROVE  Abstract
  <1>1. phase = "deleting" /\ phase' = phase /\ rel \in Release
    BY DEF IInv, TypeOK, LifecycleInv, DeletionIsAsked, DeleteUninstall,
           DeleteStep, HandlerStep
  <1>2. /\ cr' = cr /\ ~Deploying /\ Deploying' = Deploying /\ Sparing' = Sparing
        /\ LatestKept \/ rel'.now = None
    BY <1>1 DEF DeleteUninstall, Uninstalled, HalfUninstalled, Goto, Fail,
       NoRelease, Recorded, Release, Deploying, Sparing, ObserveStep, CreateStep,
       UpdateStep, LatestKept, LifecycleInv, AbsentIsNone
  <1> QED
    BY <1>1, <1>2, QuietStep, WithdrawStep DEF AskedKept, StatusKept, MarkKept

\* The work begins, or the deletion, or nothing.
LEMMA ServeStep ==
    ASSUME IInv, LifecycleInv, NEW e \in Event, Serve(e)
    PROVE  Abstract
  <1> USE DEF Deploying, Sparing, ObserveStep, CreateStep, UpdateStep, Report,
              AskedKept, StatusKept, MarkKept, LatestKept
  <1>0. /\ TypeOK /\ phase' = phase /\ pc = "idle" /\ rel' = rel /\ cr' = cr
    BY ServeCases DEF IInv, DeleteStart, ObserveStart, CreateStart, UpdateStart
  <1>1. CASE DeleteStart(e)
    <2>1. phase = "deleting"
      BY <1>0, <1>1, ServeCases
         DEF DeleteStart, ObserveStart, CreateStart, UpdateStart, TypeOK,
             LifecycleInv, DeletionIsAsked
    <2>2. /\ ~Deploying /\ ~Deploying' /\ ~Sparing
          /\ Sparing' => cr.pauseAnn /\ cr.pausedTime
      BY <1>0, <1>1 DEF DeleteStart, GracefullyPaused
    <2> QED
      BY <1>0, <2>1, <2>2, QuietStep, SpareStep, Booleans
  <1>2. CASE phase = "live" /\ (ObserveStart(e) \/ CreateStart(e) \/ UpdateStart(e))
    <2>1. /\ ~Deploying /\ ~Sparing /\ ~Sparing'
          /\ Deploying' => ~(cr.pauseAnn /\ cr.pausedTime)
      BY <1>0, <1>2 DEF ObserveStart, CreateStart, UpdateStart, GracefullyPaused,
         LabelName, TypeOK, Composition
    <2> QED
      BY <1>0, <1>2, <2>1, QuietStep, BeginStep, Booleans
  <1> QED
    BY <1>0, <1>1, <1>2, ServeCases

\* The runtime around the handler.
LEMMA RuntimeSteps ==
    ASSUME IInv, LifecycleInv, Dispatch \/ Finalize \/ Resync \/ Crash
    PROVE  Abstract
  <1> USE DEF Deploying, Sparing, ObserveStep, CreateStep, UpdateStep, Report,
              AskedKept, StatusKept, MarkKept, LatestKept
  <1>1. CASE Dispatch
    BY <1>1, QuietStep DEF Dispatch
  <1>2. CASE Finalize
    <2>1. /\ cr' = cr /\ rel' = rel /\ ~Deploying /\ ~Deploying' /\ ~Sparing'
          /\ phase = "deleting" /\ (phase' = "gone" \/ phase' = phase)
          /\ rel.now = None \/ Sparing
      BY <1>2 DEF Finalize, Fail, LifecycleInv, DeletionIsAsked
    <2> QED
      BY <2>1, LeaveStep, RetryStep, QuietStep, Booleans
  <1>3. CASE Resync
    BY <1>3, QuietStep DEF Resync
  <1>4. CASE Crash
    <2>1. /\ cr' = cr /\ rel' = rel /\ phase' = phase /\ ~Deploying' /\ ~Sparing'
          /\ Sparing => ~Deploying
      BY <1>4 DEF Crash
    <2> QED
      BY <2>1, RetryStep, QuietStep, Booleans
  <1> QED
    BY <1>1, <1>2, <1>3, <1>4

\* The user and the definition.
LEMMA UserSteps ==
    ASSUME IInv, LifecycleInv, User
    PROVE  Abstract
  <1> USE DEF Deploying, Sparing, StatusKept, MarkKept, LatestKept, AskedKept
  <1>0. cr \in Composition
    BY DEF IInv, TypeOK
  <1>1. CASE EditSpec
    BY <1>0, <1>1, AskStep DEF EditSpec, Edit, Composition
  <1>2. CASE TogglePause
    BY <1>0, <1>2, AskStep DEF TogglePause, Edit, Composition
  <1>3. CASE DeleteComposition
    BY <1>3, DeletionRequestStep DEF DeleteComposition
  <1>4. CASE ChangeChart
    BY <1>4, QuietStep DEF ChangeChart
  <1> QED
    BY <1>1, <1>2, <1>3, <1>4 DEF User

LEMMA StutterStep ==
    ASSUME UNCHANGED vars
    PROVE  Abstract
  BY QuietStep DEF vars, Deploying, Sparing, AskedKept, StatusKept, MarkKept,
     LatestKept

\* Every step of an operation moves the worker on, so it keeps what is asked.
LEMMA HandlerKeepsEdits ==
    ASSUME IInv, HandlerStep
    PROVE  AskedKept
  <1>1. CASE pc' # pc
    BY <1>1, WritesKeepEdits DEF Next, Worker, AskedKept
  <1>2. CASE pc' = pc
    BY <1>2 DEF HandlerStep, AskedKept, ObserveUpdate, Write, WriteThen, Goto,
       Accepted, Fail, ObserveLookup, Return, ObserveRollback,
       ObserveRolledBack, Deployed, Forbidden, Broken, ObserveRBAC,
       ApplyRBACThen, ObserveUpgrade, Compare, ObserveUpgraded,
       ObserveUnavailable, ObserveStatus, WriteLast, CreateUpdate, CreateRBAC,
       CreateHelm, CreateInstalled, CreateUpgraded, CreateStatus,
       CreateUnpause, UpdateLookup, UpdateRecord, UpdatePause,
       DeleteUninstall, Uninstalled, HalfUninstalled, DeleteRBAC,
       DeleteUpdate, Report
  <1> QED
    BY <1>1, <1>2

LEMMA InitMaps == Init => Lifecycle!Init
  BY DEF Init, Lifecycle!Init, Lifecycle!Asked, Composition, NoRelease, Deploying,
     Sparing, ObserveStep, CreateStep, UpdateStep

\* The whole controller, with its queue, retries, lost answers and crashes,
\* implements what CompositionLifecycle promises the user: revisions are made
\* and published only by work that began while the composition was live and
\* not paused, the status speaks of the latest revision, a release is
\* withdrawn only for a deletion and after that work, and a composition that
\* is not paused goes last.
THEOREM Implementation == Spec => ImplementsLifecycle
  <1>1. IInv /\ LifecycleInv /\ [Next]_vars => Abstract
    <2> SUFFICES ASSUME IInv, LifecycleInv, [Next]_vars
                 PROVE  Abstract
      OBVIOUS
    <2>1. CASE HandlerStep
      BY <2>1, HandlerKeepsEdits, HiddenSteps, MarkSteps, RevisionSteps,
         StatusSteps, UninstallSteps DEF HandlerStep
    <2>2. ASSUME NEW e \in Event, Serve(e)
          PROVE  Abstract
      BY <2>2, ServeStep
    <2> QED
      BY <2>1, <2>2, RuntimeSteps, UserSteps, StutterStep DEF Next, Worker
  <1> QED
    BY <1>1, Inductive, LifecycleKept, InitMaps, PTL
       DEF Spec, ImplementsLifecycle, Lifecycle!Spec, Abstract

=============================================================================
