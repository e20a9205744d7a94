----------------------------- MODULE RBACWalks ------------------------------
(***************************************************************************)
(* What the composition handler relies on when it calls ApplyRBAC or       *)
(* UninstallRBAC: the walk over the objects of a policy is ONE step, which *)
(* has taken all the way or stopped somewhere along it.  This is the step  *)
(* ApplyRBACThen and DeleteRBAC of CompositionHandler take; RBACInstaller  *)
(* shows that the walk, request by request and with other compositions     *)
(* walking at the same time, comes to no more than that.                   *)
(***************************************************************************)
EXTENDS RBACPolicy

CONSTANTS
    Compositions,
    Lists,         \* the resource lists the chart of a composition can have
    Shared         \* compositions whose objects others can write or delete

VARIABLE store     \* what the API server holds for each composition

Init == store = [c \in Compositions |-> EmptyStore]

ApplyRBAC(c) ==
    \E rs \in Lists[c] :
        \E done \in Progress(ApplySteps(Generate(rs))) :
            store'[c] = Apply(store[c], Generate(rs), done)

UninstallRBAC(c) ==
    \E rs \in Lists[c] :
        \E done \in Progress(RemoveSteps(Generate(rs))) :
            store'[c] = Remove(store[c], done)

\* Helm deletes namespaces of the release.
DropNamespacesOf(c) ==
    \E ns \in SUBSET Names : store'[c] = DropNamespaces(store[c], ns)

Walk(c) ==
    \/ c \in Shared
    \/ store'[c] = store[c]
    \/ DropNamespacesOf(c)
    \/ ApplyRBAC(c)
    \/ UninstallRBAC(c)

Next == store' \in [Compositions -> Store] /\ \A c \in Compositions : Walk(c)

Spec == Init /\ [][Next]_store

=============================================================================
