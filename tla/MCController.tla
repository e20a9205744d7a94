---------------------------- MODULE MCController ----------------------------
(***************************************************************************)
(* Two chart versions, two specs and two namespaces.  Chart c1 ships the   *)
(* namespace n1 and a resource in it; c2 needs a cluster-scoped resource   *)
(* and one in n2, which is there already.                                  *)
(***************************************************************************)
EXTENDS CompositionClaims, TLC

CONSTANTS c1, c2, s1, s2, n1, n2, namespaces, app

MCNames == Namespaces

MCNeeds == [c \in Content |->
    IF c.chart = c1
    THEN {[scope |-> Cluster, kind |-> namespaces, name |-> n1],
          [scope |-> n1, kind |-> app, name |-> n1]}
    ELSE {[scope |-> Cluster, kind |-> app, name |-> n2],
          [scope |-> n2, kind |-> app, name |-> n2]}]

\* The templates render the injected pause value.
MCManifests == Charts \X Specs \X BOOLEAN
MCManifest  == [c \in Content |-> <<c.chart, c.spec, c.paused>>]

\* How many failures (of requests or of the process) and edits a behaviour has.
Disturb(failures, edits) ==
    [d \in Disturbance |-> IF d = "failure" THEN failures ELSE edits]

MCSymmetry == Permutations(Specs)

MCBudgets        == {Disturb(1, 2), Disturb(3, 0)}
MCLiveBudgets    == {Disturb(1, 1)}
MCFailureBudgets == {Disturb(1, 0)}
MCEditBudgets    == {Disturb(0, 1)}
MCEditsBudgets   == {Disturb(0, 2)}

=============================================================================
