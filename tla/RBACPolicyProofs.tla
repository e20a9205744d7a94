-------------------------- MODULE RBACPolicyProofs --------------------------
(***************************************************************************)
(* What the operators on policies and stores return, for every set of      *)
(* namespaces, kinds and names.                                            *)
(***************************************************************************)
EXTENDS RBACPolicy, FiniteSetTheorems, TLAPS

-----------------------------------------------------------------------------
(* The operators of RBACPolicy stay within their types. *)

LEMMA GenerateType ==
    ASSUME NEW rs \in SUBSET Resource
    PROVE  Generate(rs) \in Policy
  BY DEF Generate, Policy, ShippedNamespaces, KindsIn, Resource, Scopes

LEMMA ApplyType ==
    ASSUME NEW st \in Store, NEW p \in Policy, NEW done
    PROVE  Apply(st, p, done) \in Store
  BY DEF Apply, Store, Policy, RemoveSteps, Object

LEMMA RemoveType ==
    ASSUME NEW st \in Store, NEW done
    PROVE  Remove(st, done) \in Store
  BY DEF Remove, Store

LEMMA DropNamespacesType ==
    ASSUME NEW st \in Store, NEW ns
    PROVE  DropNamespaces(st, ns) \in Store
  BY DEF DropNamespaces, Store

\* What Generate and ApplyRBAC are for: when every step of the walk has been
\* taken, every resource the policy was generated from is granted, whatever
\* the cluster held before.
THEOREM ApplyCovers ==
    ASSUME NEW st \in Store, NEW rs \in SUBSET Resource
    PROVE  LET p == Generate(rs)
           IN  Covered(rs, Apply(st, p, ApplySteps(p)))
  <1> DEFINE p   == Generate(rs)
             new == Apply(st, p, ApplySteps(p))
  <1> SUFFICES ASSUME NEW r \in rs
               PROVE  r.kind \in Grants(new, r.scope)
    BY DEF Covered
  <1>1. r.scope \in Scopes /\ r.scope \in p.scopes
    BY DEF Resource, Generate
  <1>2. Bound(new, r.scope)
    BY <1>1 DEF Bound, Apply, ApplySteps, RemoveSteps
  <1>3. r.kind \in p.rules[r.scope]
    BY <1>1 DEF Generate, KindsIn
  <1>4. new.rules[r.scope] = p.rules[r.scope]
    BY <1>1 DEF Apply, ApplySteps, RemoveSteps
  <1> QED
    BY <1>2, <1>3, <1>4 DEF Grants


\* And nothing else: in every scope of the policy the role allows what the
\* list needs there, whatever it allowed before.
THEOREM ApplyIsExact ==
    ASSUME NEW st \in Store, NEW rs \in SUBSET Resource
    PROVE  LET p == Generate(rs)
           IN  Exact(rs, Apply(st, p, ApplySteps(p)))
  <1> DEFINE p   == Generate(rs)
             new == Apply(st, p, ApplySteps(p))
  <1> SUFFICES ASSUME NEW s \in p.scopes
               PROVE  new.rules[s] = KindsIn(rs, s)
    BY DEF Exact
  <1>1. s \in Scopes /\ p.rules[s] = KindsIn(rs, s)
    BY GenerateType DEF Policy, Generate
  <1>2. <<"role", s>> \in ApplySteps(p)
    BY DEF ApplySteps, RemoveSteps
  <1> QED
    BY <1>1, <1>2 DEF Apply

\* What UninstallRBAC is for: when every step of the walk has been taken, no
\* scope of the policy has a role or a binding left, and if the composition
\* had none elsewhere, nothing is permitted to it any more.
THEOREM RemoveRevokes ==
    ASSUME NEW st \in Store, NEW rs \in SUBSET Resource
    PROVE  LET p   == Generate(rs)
               new == Remove(st, RemoveSteps(p))
           IN  /\ \A o \in new.objects : o[2] \notin p.scopes
               /\ (\A o \in st.objects : o[2] \in p.scopes) =>
                     new.objects = {} /\ \A s \in Scopes : Grants(new, s) = {}
  <1> DEFINE p   == Generate(rs)
             new == Remove(st, RemoveSteps(p))
  <1>1. ASSUME NEW o \in new.objects PROVE o \in st.objects /\ o[2] \notin p.scopes
    <2>1. o \in st.objects /\ o \notin RemoveSteps(p) /\ o \in Object
      BY DEF Remove, Store
    <2>2. o[1] \in {"role", "binding"} /\ o = <<o[1], o[2]>>
      BY <2>1 DEF Object
    <2> QED
      BY <2>1, <2>2 DEF RemoveSteps
  <1>2. ASSUME \A o \in st.objects : o[2] \in p.scopes
        PROVE  new.objects = {} /\ \A s \in Scopes : Grants(new, s) = {}
    <2>1. new.objects = {}
      BY <1>1, <1>2
    <2>2. \A s : ~Bound(new, s)
      BY <2>1 DEF Bound
    <2> QED
      BY <2>1, <2>2 DEF Grants
  <1> QED
    BY <1>1, <1>2

\* The deletion of namespaces takes permissions away and gives none: whoever
\* is short of one stays so.
LEMMA DropGrantsNothing ==
    ASSUME NEW st \in Store, NEW ns, NEW rs \in SUBSET Resource,
           Covered(rs, DropNamespaces(st, ns))
    PROVE  Covered(rs, st)
  <1>1. ASSUME NEW s \in Scopes
        PROVE  Grants(DropNamespaces(st, ns), s) \subseteq Grants(st, s)
    BY DEF Grants, Bound, DropNamespaces, Scopes
  <1> QED
    BY <1>1 DEF Covered, Resource

-----------------------------------------------------------------------------
(* Walks that were cut short. *)

\* A retry makes a walk that was cut short good: whatever part of the policy
\* had been written or deleted, the complete walk that follows leaves what it
\* would have left without the failure.
THEOREM RetryIsWhole ==
    ASSUME NEW st \in Store, NEW p \in Policy
    PROVE  /\ \A done \in Progress(ApplySteps(p)) :
                 Apply(Apply(st, p, done), p, ApplySteps(p)) =
                     Apply(st, p, ApplySteps(p))
           /\ \A done \in Progress(RemoveSteps(p)) :
                 Remove(Remove(st, done), RemoveSteps(p)) =
                     Remove(st, RemoveSteps(p))
  <1>1. ASSUME NEW done \in Progress(ApplySteps(p))
        PROVE  Apply(Apply(st, p, done), p, ApplySteps(p)) =
                   Apply(st, p, ApplySteps(p))
    <2>1. done \subseteq ApplySteps(p)
      BY DEF Progress
    <2> QED
      BY <2>1 DEF Apply
  <1>2. ASSUME NEW done \in Progress(RemoveSteps(p))
        PROVE  Remove(Remove(st, done), RemoveSteps(p)) =
                   Remove(st, RemoveSteps(p))
    <2>1. done \subseteq RemoveSteps(p)
      BY DEF Progress
    <2> QED
      BY <2>1 DEF Remove
  <1> QED
    BY <1>1, <1>2

=============================================================================
