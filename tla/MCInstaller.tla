---------------------------- MODULE MCInstaller -----------------------------
(***************************************************************************)
(* Composition a has two chart versions, one of which ships the namespace  *)
(* n1, which is there already; composition b has a resource in n1 and      *)
(* ships nothing.  So b can be hit by a, and a not by b, as long as the    *)
(* base names differ.                                                      *)
(***************************************************************************)
EXTENDS RBACInstaller

CONSTANTS a, b, n1, namespaces, app, one, two

MCNames == Namespaces

MCLists == [c \in Compositions |->
    IF c = a
    THEN {{[scope |-> Cluster, kind |-> namespaces, name |-> n1],
           [scope |-> n1, kind |-> app, name |-> n1]},
          {[scope |-> Cluster, kind |-> app, name |-> n1]}}
    ELSE {{[scope |-> n1, kind |-> app, name |-> n1]}}]

\* Release names: computed from the name and the uid, or set by the users to
\* the same value in two namespaces.
MCOwnBase  == [c \in Compositions |-> IF c = a THEN one ELSE two]
MCSameBase == [c \in Compositions |-> one]

(***************************************************************************)
(* README.md:80: "RBAC is scoped per-composition, isolating                *)
(* teams/projects".  What ApplyRBAC granted a composition lasts until its  *)
(* own handler acts again, whoever else there is.                          *)
(***************************************************************************)
RBACIsIsolated == \A c \in Compositions : Covered(granted[c], StoreOf(c))

=============================================================================
