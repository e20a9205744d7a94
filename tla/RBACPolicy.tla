----------------------------- MODULE RBACPolicy -----------------------------
(***************************************************************************)
(* The permissions of one composition: the policy rbacgen.Generate derives *)
(* from the resource list of the chart inspector, the order in which       *)
(* RBACInstaller writes and deletes its objects, and what the objects that *)
(* are in the cluster allow the controller's service account to do.        *)
(*                                                                         *)
(* This module has no state of its own.  A policy carries the base name    *)
(* and the service account of ONE composition, so neither appears here.    *)
(***************************************************************************)
EXTENDS FiniteSets, Naturals

CONSTANTS
    Namespaces,      \* names of the namespaces a chart can put resources in
    Kinds,           \* API resources, (group, version, plural) in the code
    Names,           \* names of the rendered objects
    Cluster,         \* the scope of a resource that has no namespace
    NamespaceKind    \* the core/v1 "namespaces" resource

ASSUME ScopeAssumption ==
    /\ Cluster \notin Namespaces
    /\ NamespaceKind \in Kinds
    /\ Namespaces \subseteq Names

Scopes   == Namespaces \cup {Cluster}
Resource == [scope : Scopes, kind : Kinds, name : Names]

(***************************************************************************)
(* An object is a role or a binding of a scope: a ClusterRole and a        *)
(* ClusterRoleBinding for the scope Cluster, a Role and a RoleBinding      *)
(* otherwise.  A step of the installer writes or deletes one of them, or   *)
(* writes a namespace.                                                     *)
(***************************************************************************)
Object == {"role", "binding"} \X Scopes
Step   == Object \cup ({"namespace"} \X Names)

Policy == [namespaces : SUBSET Names,
           scopes     : SUBSET Scopes,
           rules      : [Scopes -> SUBSET Kinds]]

(***************************************************************************)
(* What the API server holds for this composition.  rules[s] are the rules *)
(* of the role of scope s, empty while that role does not exist.           *)
(***************************************************************************)
Store == [namespaces : SUBSET Names,
          objects    : SUBSET Object,
          rules      : [Scopes -> SUBSET Kinds]]

EmptyStore == [namespaces |-> {}, objects |-> {},
               rules |-> [s \in Scopes |-> {}]]

-----------------------------------------------------------------------------
(* rbacgen.Generate *)

KindsIn(rs, s) == {r.kind : r \in {x \in rs : x.scope = s}}

ShippedNamespaces(rs) ==
    {r.name : r \in {x \in rs : x.scope = Cluster /\ x.kind = NamespaceKind}}

(***************************************************************************)
(* The ClusterRole and its binding are part of every policy, even when no  *)
(* resource is cluster-scoped; a namespace gets a Role when a resource     *)
(* lives in it.  Every rule has all verbs and no resource names.           *)
(***************************************************************************)
Generate(rs) ==
    [namespaces |-> ShippedNamespaces(rs),
     scopes     |-> {Cluster} \cup {r.scope : r \in rs},
     rules      |-> [s \in Scopes |-> KindsIn(rs, s)]]

-----------------------------------------------------------------------------
(* RBACInstaller *)

RemoveSteps(p) == {"role", "binding"} \X p.scopes
ApplySteps(p)  == RemoveSteps(p) \cup ({"namespace"} \X p.namespaces)

(***************************************************************************)
(* Both walks go namespaces, cluster scope, then one namespaced pair after *)
(* the other in the random order of a Go map; inside a pair the role comes *)
(* first.                                                                  *)
(***************************************************************************)
Precedes(a, b) ==
    \/ a[1] = "namespace" /\ b[1] # "namespace"
    \/ a[1] # "namespace" /\ a[2] = Cluster /\ b[1] # "namespace" /\ b[2] # Cluster
    \/ a[1] = "role" /\ b = <<"binding", a[2]>>

HalfDone(done) ==
    {s \in Namespaces : <<"role", s>> \in done /\ <<"binding", s>> \notin done}

\* The sets of steps a walk over "steps" may have taken when it stops.  It may
\* have taken all of them and still fail, when the last answer is lost.
Progress(steps) ==
    {done \in SUBSET steps :
        /\ \A b \in done : \A a \in steps : Precedes(a, b) => a \in done
        /\ Cardinality(HalfDone(done)) <= 1}

\* ApplyRBAC: get, then create or replace, each object of "done".
Apply(st, p, done) ==
    [namespaces |-> st.namespaces
                        \cup {n \in p.namespaces : <<"namespace", n>> \in done},
     objects    |-> st.objects \cup (done \cap RemoveSteps(p)),
     rules      |-> [s \in Scopes |-> IF <<"role", s>> \in done
                                      THEN p.rules[s] ELSE st.rules[s]]]

\* UninstallRBAC: delete each object of "done"; one that is missing is no
\* error.  Namespaces are left to Helm.
Remove(st, done) ==
    [namespaces |-> st.namespaces,
     objects    |-> st.objects \ done,
     rules      |-> [s \in Scopes |-> IF <<"role", s>> \in done
                                      THEN {} ELSE st.rules[s]]]

-----------------------------------------------------------------------------
(* The API server: namespace deletion and authorization. *)

\* Deleting a namespace deletes the roles and bindings in it.
DropNamespaces(st, ns) ==
    [namespaces |-> st.namespaces \ ns,
     objects    |-> st.objects \ ({"role", "binding"} \X ns),
     rules      |-> [s \in Scopes |-> IF s \in ns THEN {} ELSE st.rules[s]]]

\* A role has effect through its binding.
Bound(st, s) == {<<"role", s>>, <<"binding", s>>} \subseteq st.objects

\* A ClusterRole bound by a ClusterRoleBinding has effect in every namespace.
Grants(st, s) ==
    (IF Bound(st, s) THEN st.rules[s] ELSE {})
        \cup (IF Bound(st, Cluster) THEN st.rules[Cluster] ELSE {})

Covered(rs, st) == \A r \in rs : r.kind \in Grants(st, r.scope)

\* The roles of the policy of rs allow what rs needs and nothing else.
Exact(rs, st) == \A s \in Generate(rs).scopes : st.rules[s] = KindsIn(rs, s)

=============================================================================
