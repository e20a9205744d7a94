------------------------- MODULE RBACInstallerProofs -------------------------
(***************************************************************************)
(* For every number of compositions, charts, namespaces and base names:    *)
(* a walk is atomic to its handler, and what it granted lasts, as long as  *)
(* the composition shares nothing with another one.                        *)
(***************************************************************************)
EXTENDS RBACInstaller, RBACPolicyProofs, FiniteSetTheorems

-----------------------------------------------------------------------------
(* The order of a walk. *)

\* At most one namespace has its role but not its binding.
OneOpen(done) ==
    HalfDone(done) = {} \/ \E s \in Namespaces : HalfDone(done) = {s}

Ordered(j) ==
    /\ j.done \subseteq StepsOf(j)
    /\ \A b \in j.done : \A a \in StepsOf(j) : Precedes(a, b) => a \in j.done
    /\ OneOpen(j.done)

\* The steps of a walk are among those the abstract walk may stop at.
LEMMA OrderedIsProgress ==
    ASSUME NEW j, Ordered(j)
    PROVE  j.done \in Progress(StepsOf(j))
  <1>1. Cardinality({}) = 0 /\ \A s \in Namespaces : Cardinality({s}) = 1
    BY FS_EmptySet, FS_Singleton
  <1>2. Cardinality(HalfDone(j.done)) <= 1
    BY <1>1 DEF Ordered, OneOpen
  <1> QED
    BY <1>2 DEF Ordered, Progress

LEMMA StepsOfType ==
    ASSUME NEW j, j.list \in SUBSET Resource
    PROVE  /\ StepsOf(j) \in SUBSET Step
           /\ \A o \in StepsOf(j) :
                 o[1] = "namespace" \/ o[1] = "role" \/ o[1] = "binding"
  BY GenerateType DEF StepsOf, ApplySteps, RemoveSteps, Step, Object, Policy

\* One more step that is due keeps the order.
LEMMA DueKeepsOrder ==
    ASSUME NEW j, NEW k, j.list \in SUBSET Resource, Ordered(j),
           NEW o \in Due(j),
           k.op = j.op, k.list = j.list, k.done = j.done \cup {o}
    PROVE  Ordered(k)
  <1>1. StepsOf(k) = StepsOf(j)
    BY DEF StepsOf
  <1>2. o \in StepsOf(j)
    BY DEF Due
  <1>3. o \in Step
    BY <1>2, StepsOfType
  <1>4. OneOpen(k.done)
    <2>1. CASE \E s \in Namespaces : HalfDone(j.done) = {s}
      <3>1. PICK s \in Namespaces : HalfDone(j.done) = {s}
        BY <2>1
      <3>2. o = <<"binding", s>>
        BY <3>1 DEF Due
      <3>3. HalfDone(k.done) = {}
        BY <3>1, <3>2 DEF HalfDone
      <3> QED
        BY <3>3 DEF OneOpen
    <2>2. CASE HalfDone(j.done) = {}
      <3>1. HalfDone(k.done) \subseteq {s \in Namespaces : o = <<"role", s>>}
        BY <2>2 DEF HalfDone
      <3>2. \A s, t \in Namespaces :
               o = <<"role", s>> /\ o = <<"role", t>> => s = t
        OBVIOUS
      <3> QED
        BY <3>1, <3>2 DEF OneOpen
    <2> QED
      BY <2>1, <2>2 DEF Ordered, OneOpen
  <1> QED
    BY <1>1, <1>2, <1>4 DEF Ordered, Due

-----------------------------------------------------------------------------
(* What the cluster holds, and who put it there. *)

ClusterOK ==
    /\ owner \in [Names -> Compositions \cup {Foreign, None}]
    /\ objects \subseteq Bases \X Object
    /\ rules \in [Bases -> [Scopes -> SUBSET Kinds]]

\* A role allows only what a chart of a composition of its name needs there.
NeededOnly ==
    \A b \in Bases, s \in Scopes : \A k \in rules[b][s] :
        \E c \in Compositions : Base[c] = b /\ NeedsEver(c, s, k)

\* A namespace belongs only to a composition whose chart ships it, an object
\* only to one whose chart needs it, and rules only to a role that is there.
Known ==
    /\ \A n \in Names, c \in Compositions :
          owner[n] = c => n \in ShippedBy(c)
    /\ \A b \in Bases, o \in Object : <<b, o>> \in objects =>
          \E c \in Compositions : Base[c] = b /\ o[2] \in UsedBy(c) \cup {Cluster}
    /\ \A b \in Bases, s \in Scopes :
          rules[b][s] # {} => <<b, <<"role", s>>>> \in objects

WalkOK(c) ==
    ~Idle(c) =>
      /\ job[c] \in Job
      /\ job[c].list \in Lists[c]
      /\ job[c].at # None => job[c].op = "apply" /\ job[c].at \in Due(job[c])
      /\ Ordered(job[c])
      /\ granted[c] = {}

\* What a walk comes to once the steps of "done" are behind it.
Outcome(j, done) == IF j.op = "apply" THEN Apply(j.start, Generate(j.list), done)
                                      ELSE Remove(j.start, done)

\* What a list that was granted permits, all of it and nothing else.
Precise(rs, st) == rs # {} => Covered(rs, st) /\ Exact(rs, st)

Undisturbed(c) ==
    /\ ~Idle(c) => StoreOf(c) = Outcome(job[c], job[c].done)
    /\ Precise(granted[c], StoreOf(c))

IInv ==
    /\ ClusterOK
    /\ Known
    /\ NeededOnly
    /\ job \in [Compositions -> Job \cup {None}]
    /\ granted \in [Compositions -> SUBSET Resource]
    /\ \A c \in Compositions : WalkOK(c)
    /\ \A c \in Compositions \ Shared : Undisturbed(c)

\* What the walk of d can do to the cluster in one step.
Change(d) ==
    \/ Untouched
    \/ job[d].op = "apply" /\ \E o \in Due(job[d]) : Put(d, o)
    \/ job[d].op = "remove" /\ \E o \in Due(job[d]) : Erase(d, o)

LEMMA StepIsTyped ==
    ASSUME NEW c \in Compositions, ~Idle(c), WalkOK(c), NEW o \in Due(job[c])
    PROVE  /\ o \in StepsOf(job[c])
           /\ job[c].list \in SUBSET Resource
           /\ job[c].list \in Lists[c]
           /\ Generate(job[c].list) \in Policy
           /\ \/ /\ o[1] = "namespace" /\ o[2] \in ShippedBy(c) /\ o[2] \in Names
                 /\ o = <<"namespace", o[2]>> /\ job[c].op = "apply"
              \/ /\ o \in Object /\ o[1] \in {"role", "binding"} /\ o[2] \in Scopes
                 /\ o = <<o[1], o[2]>>
                 /\ o[2] \in UsedBy(c) \cup {Cluster}
                 /\ o \in RemoveSteps(Generate(job[c].list))
  <1> DEFINE list == job[c].list
             p    == Generate(list)
  <1>1. list \in SUBSET Resource /\ list \in Lists[c]
    BY DEF WalkOK, Job
  <1>2. p \in Policy
    BY <1>1, GenerateType
  <1>3. o \in StepsOf(job[c]) /\ StepsOf(job[c]) \subseteq ApplySteps(p)
    BY DEF Due, StepsOf, ApplySteps
  <1>4. p.namespaces \subseteq ShippedBy(c)
    BY <1>1 DEF Generate, ShippedBy
  <1>5. p.scopes \subseteq UsedBy(c) \cup {Cluster}
    BY <1>1 DEF Generate, UsedBy
  <1>6. CASE o \in {"namespace"} \X p.namespaces
    <2>1. o[1] = "namespace" /\ o[2] \in p.namespaces /\ o = <<"namespace", o[2]>>
      BY <1>6
    <2>2. job[c].op = "apply"
      BY <1>3, <2>1 DEF StepsOf, RemoveSteps
    <2> QED
      BY <1>1, <1>2, <1>3, <1>4, <2>1, <2>2 DEF Policy
  <1>7. CASE o \in {"role", "binding"} \X p.scopes
    <2>1. o[1] \in {"role", "binding"} /\ o[2] \in p.scopes /\ o = <<o[1], o[2]>>
      BY <1>7
    <2>2. o[2] \in Scopes
      BY <1>2, <2>1 DEF Policy
    <2> QED
      BY <1>1, <1>2, <1>3, <1>5, <1>7, <2>1, <2>2 DEF Object, RemoveSteps
  <1> QED
    BY <1>3, <1>6, <1>7 DEF ApplySteps, RemoveSteps

LEMMA ChangeKeepsCluster ==
    ASSUME ClusterOK, Known, NEW d \in Compositions, ~Idle(d), WalkOK(d), Change(d)
    PROVE  ClusterOK' /\ Known'
  <1> USE InstallerAssumption
  <1>1. CASE Untouched
    BY <1>1 DEF Untouched, ClusterOK, Known
  <1>2. CASE \E o \in Due(job[d]) : Put(d, o)
    <2>1. PICK o \in Due(job[d]) : Put(d, o)
      <3> HIDE DEF Put
      <3> QED BY <1>2
    <2>2. CASE o[1] = "namespace"
      <3>1. o[2] \in ShippedBy(d) /\ o[2] \in Names
        BY <2>2, StepIsTyped
      <3>2. owner' = [owner EXCEPT ![o[2]] = d] /\ UNCHANGED <<objects, rules>>
        BY <2>1, <2>2 DEF Put
      <3> QED
        BY <3>1, <3>2 DEF ClusterOK, Known
    <2>3. CASE o[1] # "namespace"
      <3>1. /\ o \in Object /\ o[2] \in Scopes /\ o[1] \in {"role", "binding"}
            /\ o[2] \in UsedBy(d) \cup {Cluster} /\ o = <<o[1], o[2]>>
            /\ Generate(job[d].list) \in Policy
        BY <2>3, StepIsTyped
      <3>2. objects' = objects \cup {<<Base[d], o>>} /\ UNCHANGED owner
        BY <2>1, <2>3 DEF Put
      <3>3. CASE o[1] = "binding"
        BY <2>1, <3>1, <3>2, <3>3 DEF Put, ClusterOK, Known
      <3>4. CASE o[1] = "role"
        <4>1. Generate(job[d].list).rules[o[2]] \in SUBSET Kinds
          BY <3>1 DEF Policy
        <4>2. rules' = [rules EXCEPT ![Base[d]][o[2]] =
                                   Generate(job[d].list).rules[o[2]]]
          BY <2>1, <2>3, <3>4 DEF Put
        <4>3. ClusterOK'
          BY <3>1, <3>2, <4>1, <4>2 DEF ClusterOK
        <4>4. \A b \in Bases, s \in Scopes :
                 rules'[b][s] # {} => <<b, <<"role", s>>>> \in objects'
          BY <3>1, <3>2, <3>4, <4>2 DEF ClusterOK, Known
        <4> QED
          BY <3>1, <3>2, <4>3, <4>4 DEF Known
      <3> QED
        BY <3>1, <3>3, <3>4
    <2> QED
      BY <2>2, <2>3
  <1>3. CASE \E o \in Due(job[d]) : job[d].op = "remove" /\ Erase(d, o)
    <2>1. PICK o \in Due(job[d]) : job[d].op = "remove" /\ Erase(d, o)
      <3> HIDE DEF Erase
      <3> QED BY <1>3
    <2>2. /\ o \in Object /\ o[2] \in Scopes /\ o[1] \in {"role", "binding"}
          /\ o = <<o[1], o[2]>>
      BY <2>1, StepIsTyped
    <2>3. objects' = objects \ {<<Base[d], o>>} /\ UNCHANGED owner
      BY <2>1 DEF Erase
    <2>4. CASE o[1] = "binding"
      BY <2>1, <2>2, <2>3, <2>4 DEF Erase, ClusterOK, Known
    <2>5. CASE o[1] = "role"
      <3>1. rules' = [rules EXCEPT ![Base[d]][o[2]] = {}]
        BY <2>1, <2>5 DEF Erase
      <3>2. \A b \in Bases, s \in Scopes :
               rules'[b][s] # {} => <<b, <<"role", s>>>> \in objects'
        BY <2>2, <2>3, <2>5, <3>1 DEF ClusterOK, Known
      <3> QED
        BY <2>2, <2>3, <3>1, <3>2 DEF ClusterOK, Known
    <2> QED
      BY <2>2, <2>4, <2>5
  <1> QED
    BY <1>1, <1>2, <1>3 DEF Change

LEMMA PruneKeepsCluster ==
    ASSUME ClusterOK, Known, NEW d \in Compositions, Prune(d)
    PROVE  ClusterOK' /\ Known'
  <1> USE InstallerAssumption
  <1>1. PICK ns \in SUBSET ShippedBy(d) : Drop(ns)
    BY DEF Prune
  <1>2. ClusterOK'
    BY <1>1 DEF Drop, ClusterOK
  <1> QED
    BY <1>1, <1>2 DEF Drop, Known, ClusterOK, Object

\* Only a role that is written can come to hold more, and it holds what the
\* list of the walk needs.
LEMMA ChangeKeepsNeeded ==
    ASSUME ClusterOK, NeededOnly, NEW d \in Compositions,
           Untouched \/ (~Idle(d) /\ WalkOK(d) /\ Change(d)) \/ Prune(d)
    PROVE  NeededOnly'
  <1> USE InstallerAssumption
  <1>1. ASSUME \A b \in Bases, s \in Scopes : rules'[b][s] \subseteq rules[b][s]
        PROVE  NeededOnly'
    BY <1>1 DEF NeededOnly, NeedsEver
  <1>2. CASE Untouched
    BY <1>1, <1>2 DEF Untouched
  <1>3. CASE Prune(d)
    <2>1. PICK ns \in SUBSET ShippedBy(d) : Drop(ns)
      BY <1>3 DEF Prune
    <2>2. \A b \in Bases, s \in Scopes : rules'[b][s] \subseteq rules[b][s]
      BY <2>1 DEF Drop
    <2> QED
      BY <1>1, <2>2
  <1>4. ASSUME ~Idle(d), WalkOK(d), NEW o \in Due(job[d]), Erase(d, o)
        PROVE  NeededOnly'
    <2>1. rules' = rules \/ rules' = [rules EXCEPT ![Base[d]][o[2]] = {}]
      BY <1>4 DEF Erase
    <2>2. \A b \in Bases, s \in Scopes : rules'[b][s] \subseteq rules[b][s]
      BY <2>1 DEF ClusterOK
    <2> QED
      BY <1>1, <2>2
  <1>5. ASSUME ~Idle(d), WalkOK(d), NEW o \in Due(job[d]), Put(d, o)
        PROVE  NeededOnly'
    <2>1. CASE rules' = rules
      BY <1>1, <2>1
    <2>2. CASE rules' # rules
      <3>1. /\ o[1] # "namespace" /\ o[1] # "binding"
            /\ rules' = [rules EXCEPT ![Base[d]][o[2]] =
                                       Generate(job[d].list).rules[o[2]]]
        BY <1>5, <2>2 DEF Put
      <3>2. o[2] \in Scopes /\ job[d].list \in Lists[d]
        BY <1>5, <3>1, StepIsTyped
      <3>3. Generate(job[d].list).rules[o[2]] = KindsIn(job[d].list, o[2])
        BY <3>2 DEF Generate
      <3>4. ASSUME NEW b \in Bases, NEW s \in Scopes, NEW k \in rules'[b][s]
            PROVE  \E c \in Compositions : Base[c] = b /\ NeedsEver(c, s, k)
        <4>1. CASE b = Base[d] /\ s = o[2]
          <5>1. k \in KindsIn(job[d].list, o[2])
            BY <3>1, <3>2, <3>3, <3>4, <4>1 DEF ClusterOK
          <5> QED
            BY <3>2, <4>1, <5>1 DEF NeedsEver
        <4>2. CASE ~(b = Base[d] /\ s = o[2])
          <5>1. k \in rules[b][s]
            BY <3>1, <3>2, <3>4, <4>2 DEF ClusterOK
          <5> QED
            BY <5>1 DEF NeededOnly
        <4> QED
          BY <4>1, <4>2
      <3> QED
        BY <3>4 DEF NeededOnly, NeedsEver
    <2> QED
      BY <2>1, <2>2
  <1> QED
    BY <1>2, <1>3, <1>4, <1>5 DEF Change

-----------------------------------------------------------------------------
(* One composition at a time. *)

\* A composition that shares nothing does not notice the walk of another.
LEMMA OthersUnmoved ==
    ASSUME ClusterOK, Known, NEW d \in Compositions,
           (~Idle(d) /\ WalkOK(d) /\ Change(d)) \/ Prune(d),
           NEW c \in Compositions \ Shared, c # d
    PROVE  StoreOf(c)' = StoreOf(c)
  <1> USE InstallerAssumption
  <1>1. Base[d] # Base[c] /\ ShippedBy(d) \cap (ShippedBy(c) \cup UsedBy(c)) = {}
    BY DEF Shared, Sharing
  <1>2. \A e \in Compositions : Base[e] = Base[c] => e = c
    BY DEF Shared, Sharing
  <1> SUFFICES /\ \A n \in Names : owner'[n] = c <=> owner[n] = c
               /\ \A o \in Object : <<Base[c], o>> \in objects' <=> <<Base[c], o>> \in objects
               /\ rules'[Base[c]] = rules[Base[c]]
    BY DEF StoreOf
  <1>3. CASE ~Idle(d) /\ WalkOK(d) /\ Change(d)
    <2>1. CASE Untouched
      BY <2>1 DEF Untouched
    <2>2. CASE \E o \in Due(job[d]) : Put(d, o)
      <3>1. PICK o \in Due(job[d]) : Put(d, o)
        <4> HIDE DEF Put
        <4> QED BY <2>2
      <3>2. CASE o[1] = "namespace"
        <4>1. o[2] \in ShippedBy(d) /\ o[2] \in Names
          BY <1>3, <3>2, StepIsTyped
        <4>2. o[2] \notin ShippedBy(c)
          BY <1>1, <4>1
        <4> QED
          BY <3>1, <3>2, <4>1, <4>2 DEF Put, ClusterOK, Known
      <3>3. CASE o[1] # "namespace"
        <4>1. objects' = objects \cup {<<Base[d], o>>} /\ UNCHANGED owner
          BY <3>1, <3>3 DEF Put
        <4>2. rules'[Base[c]] = rules[Base[c]]
          BY <1>1, <3>1, <3>3 DEF Put, ClusterOK
        <4> QED
          BY <1>1, <4>1, <4>2
      <3> QED
        BY <3>2, <3>3
    <2>3. CASE \E o \in Due(job[d]) : Erase(d, o)
      BY <1>1, <2>3 DEF Erase, ClusterOK
    <2> QED
      BY <1>3, <2>1, <2>2, <2>3 DEF Change
  <1>4. CASE Prune(d)
    <2>1. PICK ns \in SUBSET ShippedBy(d) : Drop(ns)
      BY <1>4 DEF Prune
    <2>2. \A n \in Names : owner[n] = c => n \notin ns
      BY <1>1, <2>1 DEF Known
    <2>3. \A n \in Names : owner'[n] = c <=> owner[n] = c
      BY <2>1, <2>2 DEF Drop
    <2>4. \A n \in ns : n \in Names /\ n \notin UsedBy(c)
      BY <1>1, <2>1 DEF ShippedBy, ShippedNamespaces, Resource
    <2>5. \A o \in Object : <<Base[c], o>> \in objects => o[2] \notin ns
      BY <1>2, <2>4 DEF Known
    <2>6. \A o \in Object : <<Base[c], o>> \in objects' <=> <<Base[c], o>> \in objects
      BY <2>1, <2>5 DEF Drop
    <2>7. ASSUME NEW s \in Scopes, s \in ns PROVE rules[Base[c]][s] = {}
      <3> DEFINE o == <<"role", s>>
      <3>1. o \in Object /\ o[2] = s
        BY DEF Object
      <3>2. <<Base[c], o>> \notin objects
        BY <2>5, <2>7, <3>1
      <3> QED
        BY <3>2 DEF Known
    <2>8. rules'[Base[c]] = rules[Base[c]]
      <3>1. Base[c] \in Bases /\ rules[Base[c]] \in [Scopes -> SUBSET Kinds]
        BY DEF ClusterOK
      <3>2. rules'[Base[c]] = [s \in Scopes |->
                                 IF s \in ns THEN {} ELSE rules[Base[c]][s]]
        BY <2>1, <3>1 DEF Drop
      <3>3. rules'[Base[c]] = [s \in Scopes |-> rules[Base[c]][s]]
        BY <2>7, <3>2
      <3> QED
        BY <3>1, <3>3
    <2> QED
      BY <2>3, <2>6, <2>8
  <1> QED
    BY <1>3, <1>4

LEMMA StoreOfType ==
    ASSUME ClusterOK, NEW c \in Compositions
    PROVE  StoreOf(c) \in Store
  BY InstallerAssumption DEF ClusterOK, StoreOf, Store

\* A step of a walk adds one to the steps its outcome stands for.
LEMMA OwnPut ==
    ASSUME ClusterOK, NEW c \in Compositions, ~Idle(c), WalkOK(c),
           job[c].op = "apply", StoreOf(c) = Outcome(job[c], job[c].done),
           NEW o \in Due(job[c]), Put(c, o)
    PROVE  StoreOf(c)' = Outcome(job[c], job[c].done \cup {o})
  <1> USE InstallerAssumption
  <1> DEFINE p    == Generate(job[c].list)
             done == job[c].done
             st   == job[c].start
             new  == Apply(st, p, done \cup {o})
  <1>1. StoreOf(c) = Apply(st, p, done)
    BY DEF Outcome
  <1>2. /\ StoreOf(c).namespaces = {n \in Names : owner[n] = c}
        /\ StoreOf(c).objects = {x \in Object : <<Base[c], x>> \in objects}
        /\ StoreOf(c).rules = rules[Base[c]]
    BY DEF StoreOf
  <1>3. /\ {n \in Names : owner[n] = c} =
              st.namespaces \cup {n \in p.namespaces : <<"namespace", n>> \in done}
        /\ {x \in Object : <<Base[c], x>> \in objects} =
              st.objects \cup (done \cap RemoveSteps(p))
        /\ rules[Base[c]] = [s \in Scopes |-> IF <<"role", s>> \in done
                                  THEN p.rules[s] ELSE st.rules[s]]
    BY <1>1, <1>2 DEF Apply
  <1>4. /\ {n \in Names : owner'[n] = c} =
              st.namespaces \cup
                {n \in p.namespaces : <<"namespace", n>> \in done \cup {o}}
        /\ {x \in Object : <<Base[c], x>> \in objects'} =
              st.objects \cup ((done \cup {o}) \cap RemoveSteps(p))
        /\ rules'[Base[c]] = [s \in Scopes |-> IF <<"role", s>> \in done \cup {o}
                                   THEN p.rules[s] ELSE st.rules[s]]
    <2>1. CASE o[1] = "namespace"
      <3>1. o[2] \in Names /\ o = <<"namespace", o[2]>>
        BY <2>1, StepIsTyped
      <3>2. owner' = [owner EXCEPT ![o[2]] = c] /\ UNCHANGED <<objects, rules>>
        BY <2>1 DEF Put
      <3>3. o \in ApplySteps(p)
        BY StepIsTyped DEF StepsOf
      <3>4. o[2] \in p.namespaces
        BY <2>1, <3>3 DEF ApplySteps, RemoveSteps
      <3>5. {n \in Names : owner'[n] = c} = {n \in Names : owner[n] = c} \cup {o[2]}
        BY <3>1, <3>2 DEF ClusterOK
      <3>6. {n \in p.namespaces : <<"namespace", n>> \in done \cup {o}} =
               {n \in p.namespaces : <<"namespace", n>> \in done} \cup {o[2]}
        BY <3>1, <3>4
      <3>7. o \notin RemoveSteps(p)
        BY <2>1 DEF RemoveSteps
      <3>8. \A s \in Scopes : <<"role", s>> # o
        BY <2>1
      <3>9. {n \in Names : owner'[n] = c} =
              st.namespaces \cup
                {n \in p.namespaces : <<"namespace", n>> \in done \cup {o}}
        BY <1>3, <3>5, <3>6
      <3>10. {x \in Object : <<Base[c], x>> \in objects'} =
               st.objects \cup ((done \cup {o}) \cap RemoveSteps(p))
        BY <1>3, <3>2, <3>7
      <3>11. rules'[Base[c]] = [s \in Scopes |-> IF <<"role", s>> \in done \cup {o}
                                    THEN p.rules[s] ELSE st.rules[s]]
        BY <1>3, <3>2, <3>8
      <3> QED
        BY <3>9, <3>10, <3>11
    <2>2. CASE o[1] # "namespace"
      <3>1. /\ o \in Object /\ o[2] \in Scopes /\ o[1] \in {"role", "binding"}
            /\ o = <<o[1], o[2]>> /\ o \in RemoveSteps(p)
        BY <2>2, StepIsTyped
      <3>2. objects' = objects \cup {<<Base[c], o>>} /\ UNCHANGED owner
        BY <2>2 DEF Put
      <3>3. {x \in Object : <<Base[c], x>> \in objects'} =
               {x \in Object : <<Base[c], x>> \in objects} \cup {o}
        BY <3>1, <3>2
      <3>4. \A n \in p.namespaces : <<"namespace", n>> # o
        BY <2>2
      <3>5. rules[Base[c]] \in [Scopes -> SUBSET Kinds] /\ Base[c] \in Bases
        BY DEF ClusterOK
      <3>6. CASE o[1] = "binding"
        <4>1. rules' = rules /\ \A s \in Scopes : <<"role", s>> # o
          BY <2>2, <3>6 DEF Put
        <4>2. rules'[Base[c]] = [s \in Scopes |-> IF <<"role", s>> \in done \cup {o}
                                     THEN p.rules[s] ELSE st.rules[s]]
          BY <1>3, <4>1
        <4> QED
          BY <1>3, <3>1, <3>2, <3>3, <3>4, <4>2
      <3>7. CASE o[1] = "role"
        <4>1. rules'[Base[c]] = [rules[Base[c]] EXCEPT ![o[2]] = p.rules[o[2]]]
          BY <2>2, <3>5, <3>7 DEF Put, ClusterOK
        <4>2. \A s \in Scopes : <<"role", s>> = o <=> s = o[2]
          BY <3>1, <3>7
        <4>3. rules'[Base[c]] = [s \in Scopes |-> IF <<"role", s>> \in done \cup {o}
                                     THEN p.rules[s] ELSE st.rules[s]]
          BY <1>3, <3>1, <3>5, <4>1, <4>2
        <4> QED
          BY <1>3, <3>1, <3>2, <3>3, <3>4, <4>3
      <3> QED
        BY <3>1, <3>6, <3>7
    <2> QED
      BY <2>1, <2>2
  <1>5. StoreOf(c)' = new
    BY <1>4 DEF StoreOf, Apply
  <1> QED
    BY <1>5 DEF Outcome

LEMMA OwnErase ==
    ASSUME ClusterOK, NEW c \in Compositions, ~Idle(c), WalkOK(c),
           job[c].op = "remove", StoreOf(c) = Outcome(job[c], job[c].done),
           NEW o \in Due(job[c]), Erase(c, o)
    PROVE  StoreOf(c)' = Outcome(job[c], job[c].done \cup {o})
  <1> USE InstallerAssumption
  <1> DEFINE done == job[c].done
             st   == job[c].start
             new  == Remove(st, done \cup {o})
  <1>1. StoreOf(c) = Remove(st, done)
    BY DEF Outcome
  <1>2. /\ StoreOf(c).namespaces = {n \in Names : owner[n] = c}
        /\ StoreOf(c).objects = {x \in Object : <<Base[c], x>> \in objects}
        /\ StoreOf(c).rules = rules[Base[c]]
    BY DEF StoreOf
  <1>3. /\ {n \in Names : owner[n] = c} = st.namespaces
        /\ {x \in Object : <<Base[c], x>> \in objects} = st.objects \ done
        /\ rules[Base[c]] = [s \in Scopes |-> IF <<"role", s>> \in done
                                  THEN {} ELSE st.rules[s]]
    BY <1>1, <1>2 DEF Remove
  <1>4. /\ o \in Object /\ o[2] \in Scopes /\ o[1] \in {"role", "binding"}
        /\ o = <<o[1], o[2]>>
    BY StepIsTyped
  <1>5. objects' = objects \ {<<Base[c], o>>} /\ UNCHANGED owner
    BY DEF Erase
  <1>6. {x \in Object : <<Base[c], x>> \in objects'} = st.objects \ (done \cup {o})
    BY <1>3, <1>4, <1>5
  <1>7. rules[Base[c]] \in [Scopes -> SUBSET Kinds] /\ Base[c] \in Bases
    BY DEF ClusterOK
  <1>8. rules'[Base[c]] = [s \in Scopes |-> IF <<"role", s>> \in done \cup {o}
                                THEN {} ELSE st.rules[s]]
    <2>1. CASE o[1] = "binding"
      <3>1. rules' = rules /\ \A s \in Scopes : <<"role", s>> # o
        BY <2>1 DEF Erase
      <3> QED
        BY <1>3, <3>1
    <2>2. CASE o[1] = "role"
      <3>1. rules'[Base[c]] = [rules[Base[c]] EXCEPT ![o[2]] = {}]
        BY <1>7, <2>2 DEF Erase, ClusterOK
      <3>2. \A s \in Scopes : <<"role", s>> = o <=> s = o[2]
        BY <1>4, <2>2
      <3> QED
        BY <1>3, <1>4, <1>7, <3>1, <3>2
    <2> QED
      BY <1>4, <2>1, <2>2
  <1>9. StoreOf(c)' = new
    BY <1>3, <1>5, <1>6, <1>8 DEF StoreOf, Remove
  <1> QED
    BY <1>9 DEF Outcome

-----------------------------------------------------------------------------
(* The inductive invariant. *)

\* Only the walk of d moves on: the rest of the invariant is untouched.
LEMMA Frame ==
    ASSUME IInv, NEW d \in Compositions,
           NEW new \in Job \cup {None}, NEW g \in SUBSET Resource,
           Onward(d, new), granted' = [granted EXCEPT ![d] = g],
           Untouched \/ (~Idle(d) /\ Change(d)) \/ Prune(d),
           WalkOK(d)', d \notin Shared => Undisturbed(d)'
    PROVE  IInv'
  <1>1. WalkOK(d)
    BY DEF IInv
  <1>2. ClusterOK' /\ Known'
    <2>1. CASE Untouched
      BY <2>1 DEF Untouched, IInv, ClusterOK, Known
    <2> QED
      BY <1>1, <2>1, ChangeKeepsCluster, PruneKeepsCluster DEF IInv
  <1>7. NeededOnly'
    BY <1>1, ChangeKeepsNeeded DEF IInv
  <1>3. /\ job' \in [Compositions -> Job \cup {None}]
        /\ granted' \in [Compositions -> SUBSET Resource]
    BY DEF IInv, Onward
  <1>4. ASSUME NEW c \in Compositions, c # d
        PROVE  job'[c] = job[c] /\ granted'[c] = granted[c]
    BY <1>4 DEF IInv, Onward
  <1>5. ASSUME NEW c \in Compositions PROVE WalkOK(c)'
    <2>1. CASE c # d
      BY <1>4, <2>1 DEF IInv, WalkOK, Idle
    <2> QED
      BY <2>1
  <1>6. ASSUME NEW c \in Compositions \ Shared PROVE Undisturbed(c)'
    <2>1. CASE c # d
      <3>1. StoreOf(c)' = StoreOf(c)
        <4>1. CASE Untouched
          BY <4>1 DEF Untouched, StoreOf
        <4> QED
          BY <1>1, <2>1, <4>1, OthersUnmoved DEF IInv
      <3>2. Undisturbed(c)
        BY DEF IInv
      <3>3. job'[c] = job[c] /\ granted'[c] = granted[c]
        BY <1>4, <2>1
      <3> QED
        BY <3>1, <3>2, <3>3 DEF Undisturbed, Idle
    <2> QED
      BY <2>1, <1>6
  <1> QED
    BY <1>2, <1>3, <1>5, <1>6, <1>7 DEF IInv

LEMMA NothingDone ==
    ASSUME NEW st \in Store, NEW p
    PROVE  Apply(st, p, {}) = st /\ Remove(st, {}) = st
  BY DEF Apply, Remove, Store

LEMMA NothingGranted == ASSUME NEW st PROVE Precise({}, st)
  BY DEF Precise

LEMMA StartStep ==
    ASSUME IInv, NEW d \in Compositions, NEW op \in {"apply", "remove"},
           NEW rs \in Lists[d], Start(d, op, rs)
    PROVE  IInv'
  <1> DEFINE new == [op |-> op, list |-> rs, done |-> {}, at |-> None,
                     found |-> FALSE, start |-> StoreOf(d)]
  <1>1. StoreOf(d) \in Store
    BY StoreOfType DEF IInv
  <1>2. new \in Job
    BY <1>1, InstallerAssumption DEF Job
  <1>3. Onward(d, new) /\ granted' = [granted EXCEPT ![d] = {}] /\ Untouched
    BY DEF Start
  <1>4. job'[d] = new /\ granted'[d] = {}
    BY <1>3 DEF IInv, Onward
  <1>5. Ordered(new)
    BY DEF Ordered, OneOpen, HalfDone
  <1>6. WalkOK(d)'
    BY <1>2, <1>4, <1>5 DEF WalkOK
  <1>7. StoreOf(d)' = StoreOf(d)
    BY <1>3 DEF Untouched, StoreOf
  <1>8. Outcome(new, new.done) = StoreOf(d)
    BY <1>1, NothingDone DEF Outcome
  <1>9. Undisturbed(d)'
    BY <1>4, <1>7, <1>8, NothingGranted DEF Undisturbed
  <1>10. {} \in SUBSET Resource
    OBVIOUS
  <1> HIDE DEF new
  <1> QED
    BY <1>2, <1>3, <1>6, <1>9, <1>10, Frame

LEMMA ProbeStep ==
    ASSUME IInv, NEW d \in Compositions, Probe(d)
    PROVE  IInv'
  <1>1. WalkOK(d) /\ ~Idle(d) /\ job[d].op = "apply" /\ Untouched
        /\ granted' = granted /\ job[d] \in Job
    BY DEF IInv, Probe, WalkOK
  <1>2. PICK o \in Due(job[d]), found \in BOOLEAN :
           Onward(d, [job[d] EXCEPT !.at = o, !.found = found])
    BY DEF Probe
  <1> DEFINE new == [job[d] EXCEPT !.at = o, !.found = found]
  <1>3. o \in Step
    BY <1>1, StepIsTyped, StepsOfType
  <1>5. new \in Job /\ new.at = o
    BY <1>1, <1>3 DEF Job
  <1>6. /\ new.op = job[d].op /\ new.list = job[d].list
        /\ new.done = job[d].done /\ new.start = job[d].start
    BY <1>1 DEF Job
  <1>7. job'[d] = new /\ granted'[d] = granted[d]
    BY <1>1, <1>2 DEF IInv, Onward
  <1> HIDE DEF new
  <1>8. Ordered(new) /\ Due(new) = Due(job[d])
    BY <1>1, <1>6 DEF WalkOK, Ordered, Due, StepsOf
  <1>9. WalkOK(d)'
    BY <1>1, <1>5, <1>6, <1>7, <1>8 DEF WalkOK
  <1>10. StoreOf(d)' = StoreOf(d)
    BY <1>1 DEF Untouched, StoreOf
  <1>11. d \notin Shared => Undisturbed(d)'
    BY <1>1, <1>6, <1>7, <1>10 DEF IInv, Undisturbed, Outcome
  <1>12. granted' = [granted EXCEPT ![d] = granted[d]] /\ granted[d] \in SUBSET Resource
    BY <1>1 DEF IInv
  <1>13. Onward(d, new)
    BY <1>2 DEF new
  <1> QED
    BY <1>1, <1>5, <1>9, <1>11, <1>12, <1>13, Frame

\* Write and Delete: a step that is due is taken.
LEMMA AdvanceStep ==
    ASSUME IInv, NEW d \in Compositions, ~Idle(d), NEW o \in Due(job[d]),
           \/ job[d].op = "apply" /\ Put(d, o)
           \/ job[d].op = "remove" /\ Erase(d, o),
           Advance(d, o), UNCHANGED granted
    PROVE  IInv'
  <1> DEFINE new == [job[d] EXCEPT !.done = @ \cup {o}, !.at = None,
                                   !.found = FALSE]
  <1>1. WalkOK(d) /\ job[d] \in Job /\ Ordered(job[d])
    BY DEF IInv, WalkOK
  <1>2. o \in Step /\ job[d].list \in SUBSET Resource
    BY <1>1, StepIsTyped, StepsOfType
  <1>3. new \in Job
    BY <1>1, <1>2 DEF Job
  <1>4. /\ new.op = job[d].op /\ new.list = job[d].list /\ new.at = None
        /\ new.done = job[d].done \cup {o} /\ new.start = job[d].start
    BY <1>1 DEF Job
  <1>5. Onward(d, new)
    BY DEF Advance
  <1>6. job'[d] = new /\ granted'[d] = granted[d]
    BY <1>5 DEF IInv, Onward
  <1> HIDE DEF new
  <1>7. Ordered(new)
    BY <1>1, <1>2, <1>4, DueKeepsOrder
  <1>8. WalkOK(d)'
    BY <1>1, <1>3, <1>4, <1>6, <1>7 DEF WalkOK
  <1>9. ASSUME d \notin Shared PROVE Undisturbed(d)'
    <2>1. StoreOf(d) = Outcome(job[d], job[d].done) /\ ClusterOK
      BY <1>9 DEF IInv, Undisturbed
    <2>2. StoreOf(d)' = Outcome(job[d], job[d].done \cup {o})
      BY <1>1, <2>1, OwnPut, OwnErase
    <2>3. Outcome(job[d], job[d].done \cup {o}) = Outcome(new, new.done)
      BY <1>4 DEF Outcome
    <2>4. granted[d] = {}
      BY <1>1 DEF WalkOK
    <2> QED
      BY <1>6, <2>2, <2>3, <2>4, NothingGranted DEF Undisturbed
  <1>10. granted' = [granted EXCEPT ![d] = granted[d]] /\ granted[d] \in SUBSET Resource
    BY DEF IInv
  <1>11. Change(d)
    BY DEF Change
  <1> QED
    BY <1>3, <1>5, <1>8, <1>9, <1>10, <1>11, Frame

LEMMA BreakStep ==
    ASSUME IInv, NEW d \in Compositions, Break(d)
    PROVE  IInv'
  <1>1. WalkOK(d) /\ ~Idle(d) /\ granted[d] = {} /\ granted' = granted
        /\ Onward(d, None) /\ Lose(d)
    BY DEF IInv, Break, WalkOK
  <1>2. Change(d)
    BY <1>1 DEF Lose, Change, WalkOK
  <1>3. job'[d] = None /\ granted'[d] = {}
    BY <1>1 DEF IInv, Onward
  <1>4. WalkOK(d)' /\ Undisturbed(d)'
    BY <1>3, NothingGranted DEF WalkOK, Idle, Undisturbed
  <1>5. granted' = [granted EXCEPT ![d] = granted[d]] /\ granted[d] \in SUBSET Resource
    BY <1>1 DEF IInv
  <1> QED
    BY <1>1, <1>2, <1>4, <1>5, Frame

LEMMA FinishStep ==
    ASSUME IInv, NEW d \in Compositions, Finish(d)
    PROVE  IInv'
  <1> DEFINE g == IF job[d].op = "apply" THEN job[d].list ELSE {}
  <1>1. WalkOK(d) /\ ~Idle(d) /\ job[d].done = StepsOf(job[d]) /\ Untouched
        /\ Onward(d, None) /\ granted' = [granted EXCEPT ![d] = g]
    BY DEF IInv, Finish
  <1>2. job[d].list \in SUBSET Resource /\ job[d].start \in Store
    BY <1>1 DEF WalkOK, Job
  <1>3. job'[d] = None /\ granted'[d] = g
    BY <1>1 DEF IInv, Onward
  <1>4. WalkOK(d)'
    BY <1>3 DEF WalkOK, Idle
  <1>5. StoreOf(d)' = StoreOf(d)
    BY <1>1 DEF Untouched, StoreOf
  <1>6. ASSUME d \notin Shared PROVE Precise(g, StoreOf(d))
    <2>1. StoreOf(d) = Outcome(job[d], StepsOf(job[d]))
      BY <1>1, <1>6 DEF IInv, Undisturbed
    <2>2. CASE job[d].op = "apply"
      <3>1. StoreOf(d) = Apply(job[d].start, Generate(job[d].list),
                               ApplySteps(Generate(job[d].list)))
        BY <2>1, <2>2 DEF Outcome, StepsOf
      <3> QED
        BY <1>2, <2>2, <3>1, ApplyCovers, ApplyIsExact DEF Precise
    <2> QED
      BY <2>2, NothingGranted
  <1>7. d \notin Shared => Undisturbed(d)'
    BY <1>3, <1>5, <1>6 DEF Undisturbed, Idle
  <1>8. g \in SUBSET Resource
    BY <1>2
  <1> HIDE DEF g
  <1> QED
    BY <1>1, <1>4, <1>7, <1>8, Frame

LEMMA PruneStep ==
    ASSUME IInv, NEW d \in Compositions, Prune(d)
    PROVE  IInv'
  <1>1. Idle(d) /\ granted' = [granted EXCEPT ![d] = {}] /\ job' = job
    BY DEF Prune
  <1>2. Onward(d, None)
    BY <1>1 DEF IInv, Onward, Idle
  <1>3. job'[d] = None /\ granted'[d] = {}
    BY <1>1, <1>2 DEF IInv, Idle
  <1>4. WalkOK(d)' /\ Undisturbed(d)'
    BY <1>3, NothingGranted DEF WalkOK, Idle, Undisturbed
  <1>5. {} \in SUBSET Resource
    OBVIOUS
  <1> QED
    BY <1>1, <1>2, <1>4, <1>5, Frame

LEMMA CrashStep ==
    ASSUME IInv, Crash
    PROVE  IInv'
  <1>1. \A c \in Compositions : Idle(c)' /\ StoreOf(c)' = StoreOf(c)
    BY DEF Crash, Idle, Untouched, StoreOf
  <1>2. \A c \in Compositions : WalkOK(c)'
    BY <1>1 DEF WalkOK
  <1>3. \A c \in Compositions \ Shared : Undisturbed(c)'
    BY <1>1 DEF IInv, Undisturbed, Crash
  <1>4. ClusterOK' /\ Known' /\ NeededOnly'
    BY DEF IInv, Crash, Untouched, ClusterOK, Known, NeededOnly
  <1> QED
    BY <1>2, <1>3, <1>4 DEF IInv, Crash

LEMMA IInvStep == IInv /\ [Next]_vars => IInv'
  <1> SUFFICES ASSUME IInv, [Next]_vars PROVE IInv'
    OBVIOUS
  <1>1. CASE UNCHANGED vars
    <2>1. \A c \in Compositions : StoreOf(c)' = StoreOf(c)
      BY <1>1 DEF vars, StoreOf
    <2>2. ClusterOK' /\ Known' /\ NeededOnly'
      BY <1>1 DEF vars, IInv, ClusterOK, Known, NeededOnly
    <2>3. \A c \in Compositions : WalkOK(c)'
      BY <1>1 DEF vars, IInv, WalkOK, Idle
    <2>4. \A c \in Compositions \ Shared : Undisturbed(c)'
      BY <1>1, <2>1 DEF vars, IInv, Undisturbed, Idle
    <2> QED
      BY <1>1, <2>2, <2>3, <2>4 DEF vars, IInv
  <1>2. ASSUME NEW c \in Compositions, NEW op \in {"apply", "remove"},
               NEW rs \in Lists[c], Start(c, op, rs)
        PROVE  IInv'
    BY <1>2, StartStep
  <1>3. ASSUME NEW c \in Compositions, Write(c) PROVE IInv'
    <2>1. job[c].at \in Due(job[c]) /\ job[c].op = "apply" /\ ~Idle(c)
      BY <1>3 DEF Write, IInv, WalkOK
    <2> QED
      BY <1>3, <2>1, AdvanceStep DEF Write
  <1>4. ASSUME NEW c \in Compositions, Delete(c) PROVE IInv'
    <2>1. PICK o \in Due(job[c]) : Erase(c, o) /\ Advance(c, o)
      BY <1>4 DEF Delete
    <2> QED
      BY <1>4, <2>1, AdvanceStep DEF Delete
  <1> QED
    BY <1>1, <1>2, <1>3, <1>4, ProbeStep, BreakStep, FinishStep, PruneStep,
       CrashStep DEF Next

LEMMA InitIInv == Init => IInv
  <1> SUFFICES ASSUME Init PROVE IInv
    OBVIOUS
  <1> USE InstallerAssumption
  <1>1. ClusterOK
    BY DEF Init, ClusterOK
  <1>2. Known /\ NeededOnly
    BY DEF Init, Known, NeededOnly
  <1>3. \A c \in Compositions : Idle(c) /\ granted[c] = {}
    BY DEF Init, Idle
  <1>4. job \in [Compositions -> Job \cup {None}]
        /\ granted \in [Compositions -> SUBSET Resource]
    BY DEF Init
  <1> QED
    <2>1. \A c \in Compositions : WalkOK(c)
      BY <1>3 DEF WalkOK
    <2>2. \A c \in Compositions : Undisturbed(c)
      BY <1>3, NothingGranted DEF Undisturbed
    <2> QED
      BY <1>1, <1>2, <1>4, <2>1, <2>2 DEF IInv

-----------------------------------------------------------------------------
(* Theorems. *)

\* What each walk has done so far is what its place in the order says, in
\* every reachable state of the cluster.
THEOREM Inductive == Spec => []IInv
  BY InitIInv, IInvStep, PTL DEF Spec

\* Every variable keeps its type, and the object a walk has probed is one
\* that may be requested next.
THEOREM TypeCorrect == Spec => []TypeOK
  <1>1. IInv => TypeOK
    BY DEF IInv, TypeOK, ClusterOK, WalkOK
  <1> QED
    BY <1>1, Inductive, PTL

\* What ApplyRBAC granted lasts until the composition's own handler acts.
THEOREM GrantsAreKept == Spec => []GrantsLast
  <1>1. IInv => GrantsLast
    BY DEF IInv, Undisturbed, Precise, Covered, GrantsLast
  <1> QED
    BY <1>1, Inductive, PTL

\* After ApplyRBAC the roles of the policy are exact; what UninstallRBAC has
\* deleted stays deleted; and no role ever holds what no chart of the
\* composition needs.
THEOREM GrantsAreExact == Spec => []NoMoreThanNeeded
  <1>1. ASSUME IInv, NEW c \in Compositions \ Shared
        PROVE  /\ granted[c] # {} => Exact(granted[c], StoreOf(c))
               /\ ~Idle(c) /\ job[c].op = "remove" =>
                     StoreOf(c).objects \cap job[c].done = {}
               /\ \A s \in Scopes : \A k \in StoreOf(c).rules[s] : NeedsEver(c, s, k)
    <2>1. Undisturbed(c)
      BY <1>1 DEF IInv
    <2>2. granted[c] # {} => Exact(granted[c], StoreOf(c))
      BY <2>1 DEF Undisturbed, Precise
    <2>3. ~Idle(c) /\ job[c].op = "remove" => StoreOf(c).objects \cap job[c].done = {}
      BY <2>1 DEF Undisturbed, Outcome, Remove
    <2>4. Base[c] \in Bases /\ \A e \in Compositions : Base[e] = Base[c] => e = c
      BY InstallerAssumption DEF Shared, Sharing
    <2>5. StoreOf(c).rules = rules[Base[c]]
      BY DEF StoreOf
    <2>6. \A s \in Scopes : \A k \in StoreOf(c).rules[s] : NeedsEver(c, s, k)
      BY <1>1, <2>4, <2>5 DEF IInv, NeededOnly
    <2> QED
      BY <2>2, <2>3, <2>6
  <1>2. IInv => NoMoreThanNeeded
    BY <1>1 DEF NoMoreThanNeeded
  <1> QED
    BY <1>2, Inductive, PTL

-----------------------------------------------------------------------------
(* The refinement. *)

\* The abstract module's operators on policies and stores are the same ones.
LEMMA SamePolicy ==
    ASSUME NEW rs, NEW p, NEW steps, NEW st, NEW done, NEW ns
    PROVE  /\ Walks!Generate(rs) = Generate(rs)
           /\ Walks!ApplySteps(p) = ApplySteps(p)
           /\ Walks!RemoveSteps(p) = RemoveSteps(p)
           /\ Walks!Progress(steps) = Progress(steps)
           /\ Walks!Apply(st, p, done) = Apply(st, p, done)
           /\ Walks!Remove(st, done) = Remove(st, done)
           /\ Walks!DropNamespaces(st, ns) = DropNamespaces(st, ns)
           /\ Walks!Store = Store
           /\ Walks!EmptyStore = EmptyStore
  <1>1. Walks!Generate(rs) = Generate(rs)
    BY DEF Walks!Generate, Generate, Walks!ShippedNamespaces, ShippedNamespaces,
           Walks!KindsIn, KindsIn, Walks!Scopes, Scopes
  <1>2. Walks!ApplySteps(p) = ApplySteps(p) /\ Walks!RemoveSteps(p) = RemoveSteps(p)
    BY DEF Walks!ApplySteps, ApplySteps, Walks!RemoveSteps, RemoveSteps
  <1>3. Walks!Progress(steps) = Progress(steps)
    <2>1. \A done0 : Walks!HalfDone(done0) = HalfDone(done0)
      BY DEF Walks!HalfDone, HalfDone
    <2>2. \A a, b : Walks!Precedes(a, b) <=> Precedes(a, b)
      BY DEF Walks!Precedes, Precedes
    <2> QED
      BY <2>1, <2>2 DEF Walks!Progress, Progress, Walks!Cardinality, Cardinality
  <1>4. Walks!Apply(st, p, done) = Apply(st, p, done)
    BY DEF Walks!Apply, Apply, Walks!RemoveSteps, RemoveSteps, Walks!Scopes, Scopes
  <1>5. Walks!Remove(st, done) = Remove(st, done)
    BY DEF Walks!Remove, Remove, Walks!Scopes, Scopes
  <1>6. Walks!DropNamespaces(st, ns) = DropNamespaces(st, ns)
    BY DEF Walks!DropNamespaces, DropNamespaces, Walks!Scopes, Scopes
  <1>7. Walks!Store = Store
    BY DEF Walks!Store, Store, Walks!Object, Object, Walks!Scopes, Scopes
  <1>8. Walks!EmptyStore = EmptyStore
    BY DEF Walks!EmptyStore, EmptyStore, Walks!Scopes, Scopes
  <1> QED
    BY <1>1, <1>2, <1>3, <1>4, <1>5, <1>6, <1>7, <1>8

\* What the handler of c has seen when the walk returns.
Returned(c) ==
    \E done \in Progress(StepsOf(job[c])) : StoreOf(c)' = Outcome(job[c], done)

LEMMA ReturnedIsWalk ==
    ASSUME NEW c \in Compositions \ Shared, ~Idle(c), job[c] \in Job,
           job[c].list \in Lists[c], Settled'[c] = StoreOf(c)', Returned(c)
    PROVE  Walks!Walk(c)
  <1>1. PICK done \in Progress(StepsOf(job[c])) : StoreOf(c)' = Outcome(job[c], done)
    BY DEF Returned
  <1>2. Settled[c] = job[c].start
    BY DEF Settled
  <1>3. CASE job[c].op = "apply"
    <2>1. Walks!ApplyRBAC(c)
      BY <1>1, <1>2, <1>3, SamePolicy DEF Outcome, StepsOf, Walks!ApplyRBAC
    <2> QED
      BY <2>1 DEF Walks!Walk
  <1>4. CASE job[c].op = "remove"
    <2>1. Walks!UninstallRBAC(c)
      BY <1>1, <1>2, <1>4, SamePolicy DEF Outcome, StepsOf, Walks!UninstallRBAC
    <2> QED
      BY <2>1 DEF Walks!Walk
  <1> QED
    BY <1>3, <1>4 DEF Job

\* A walk that ends here stopped where it stands.
LEMMA StoppedHere ==
    ASSUME IInv, NEW c \in Compositions \ Shared, ~Idle(c), StoreOf(c)' = StoreOf(c)
    PROVE  Returned(c)
  <1>1. Ordered(job[c]) /\ StoreOf(c) = Outcome(job[c], job[c].done)
    BY DEF IInv, WalkOK, Undisturbed
  <1> QED
    BY <1>1, OrderedIsProgress DEF Returned

\* A walk whose last request took effect stopped one step further.
LEMMA StoppedBehind ==
    ASSUME IInv, NEW c \in Compositions \ Shared, ~Idle(c), NEW o \in Due(job[c]),
           \/ job[c].op = "apply" /\ Put(c, o)
           \/ job[c].op = "remove" /\ Erase(c, o)
    PROVE  Returned(c)
  <1>1. /\ WalkOK(c) /\ Ordered(job[c]) /\ job[c].list \in SUBSET Resource
        /\ StoreOf(c) = Outcome(job[c], job[c].done) /\ ClusterOK
    BY DEF IInv, WalkOK, Undisturbed, Job
  <1>2. StoreOf(c)' = Outcome(job[c], job[c].done \cup {o})
    BY <1>1, OwnPut, OwnErase
  <1> DEFINE k == [op |-> job[c].op, list |-> job[c].list,
                   done |-> job[c].done \cup {o}]
  <1>3. k.op = job[c].op /\ k.list = job[c].list /\ k.done = job[c].done \cup {o}
    OBVIOUS
  <1> HIDE DEF k
  <1>4. Ordered(k) /\ StepsOf(k) = StepsOf(job[c])
    BY <1>1, <1>3, DueKeepsOrder DEF StepsOf
  <1>5. k.done \in Progress(StepsOf(k))
    BY <1>4, OrderedIsProgress
  <1> QED
    BY <1>2, <1>3, <1>4, <1>5 DEF Returned

SettledOK == Settled \in [Compositions -> Store]

LEMMA SettledType == IInv => SettledOK
  <1> SUFFICES ASSUME IInv, NEW c \in Compositions
               PROVE  (IF Idle(c) THEN StoreOf(c) ELSE job[c].start) \in Store
    BY DEF SettledOK, Settled
  <1>1. CASE Idle(c)
    BY <1>1, StoreOfType DEF IInv
  <1>2. CASE ~Idle(c)
    BY <1>2 DEF IInv, WalkOK, Job
  <1> QED
    BY <1>1, <1>2

LEMMA SettledTypeNext == IInv' => SettledOK'
  BY SettledType, PTL

\* The walk of d moves on, or Helm acts for d: what c has settled is the same.
LEMMA SettledByOthers ==
    ASSUME IInv, NEW d \in Compositions, NEW new, Onward(d, new),
           Untouched \/ (~Idle(d) /\ Change(d)) \/ Prune(d),
           NEW c \in Compositions \ Shared, c # d
    PROVE  Settled'[c] = Settled[c]
  <1>1. StoreOf(c)' = StoreOf(c)
    <2>1. CASE Untouched
      BY <2>1 DEF Untouched, StoreOf
    <2> QED
      BY <2>1, OthersUnmoved DEF IInv
  <1>2. job'[c] = job[c]
    BY DEF IInv, Onward
  <1> QED
    BY <1>1, <1>2 DEF Settled, Idle

LEMMA WalkOfOne ==
    ASSUME IInv, IInv', NEW d \in Compositions, NEW new, Onward(d, new),
           Untouched \/ (~Idle(d) /\ Change(d)) \/ Prune(d),
           d \notin Shared => Walks!Walk(d)
    PROVE  Walks!Next
  <1>1. ASSUME NEW c \in Compositions PROVE Walks!Walk(c)
    <2>1. CASE c \in Shared
      BY <2>1 DEF Walks!Walk
    <2>2. CASE c \notin Shared /\ c # d
      <3>1. Settled'[c] = Settled[c]
        BY <2>2, SettledByOthers
      <3> QED
        BY <3>1 DEF Walks!Walk
    <2> QED
      BY <2>1, <2>2
  <1>2. Settled' \in [Compositions -> Store]
    BY SettledTypeNext DEF SettledOK
  <1> QED
    BY <1>1, <1>2, SamePolicy DEF Walks!Next

\* A walk that goes on has settled nothing yet.
LEMMA Underway ==
    ASSUME IInv, NEW d \in Compositions, NEW new \in Job, Onward(d, new), ~Idle(d),
           new.start = job[d].start
    PROVE  Walks!Walk(d)
  <1>1. job'[d] = new /\ new # None
    BY InstallerAssumption DEF IInv, Onward
  <1>2. Settled'[d] = Settled[d]
    BY <1>1 DEF Settled, Idle
  <1> QED
    BY <1>2 DEF Walks!Walk

LEMMA RefineStep == IInv /\ IInv' /\ [Next]_vars => [Walks!Next]_Settled
  <1> SUFFICES ASSUME IInv, IInv', Next PROVE Walks!Next
    <2>1. ASSUME UNCHANGED vars PROVE UNCHANGED Settled
      BY <2>1 DEF vars, Settled, Idle, StoreOf
    <2> QED
      BY <2>1
  <1>1. ASSUME NEW d \in Compositions, NEW op \in {"apply", "remove"},
               NEW rs \in Lists[d], Start(d, op, rs)
        PROVE  Walks!Next
    <2> DEFINE new == [op |-> op, list |-> rs, done |-> {}, at |-> None,
                       found |-> FALSE, start |-> StoreOf(d)]
    <2>1. Idle(d) /\ Untouched /\ Onward(d, new)
      BY <1>1 DEF Start
    <2>2. job'[d] = new /\ StoreOf(d)' = StoreOf(d) /\ new.start = StoreOf(d)
      BY <2>1 DEF IInv, Onward, Untouched, StoreOf
    <2> HIDE DEF new
    <2>3. Settled'[d] = Settled[d]
      BY <2>1, <2>2 DEF Settled, Idle
    <2>4. Walks!Walk(d)
      BY <2>3 DEF Walks!Walk
    <2> QED
      BY <2>1, <2>4, WalkOfOne
  <1>2. ASSUME NEW d \in Compositions, Probe(d) PROVE Walks!Next
    <2>1. PICK o \in Due(job[d]), found \in BOOLEAN :
             Onward(d, [job[d] EXCEPT !.at = o, !.found = found])
      BY <1>2 DEF Probe
    <2> DEFINE new == [job[d] EXCEPT !.at = o, !.found = found]
    <2>2. ~Idle(d) /\ Untouched /\ job[d] \in Job /\ WalkOK(d)
      BY <1>2 DEF Probe, IInv, WalkOK
    <2>3. new \in Job /\ new.start = job[d].start
      BY <2>2, StepIsTyped, StepsOfType DEF Job
    <2>4. Onward(d, new)
      BY <2>1
    <2> HIDE DEF new
    <2> QED
      BY <2>2, <2>3, <2>4, Underway, WalkOfOne
  <1>3. ASSUME NEW d \in Compositions, NEW o \in Due(job[d]), ~Idle(d),
               \/ job[d].op = "apply" /\ Put(d, o)
               \/ job[d].op = "remove" /\ Erase(d, o),
               Advance(d, o)
        PROVE  Walks!Next
    <2> DEFINE new == [job[d] EXCEPT !.done = @ \cup {o}, !.at = None,
                                     !.found = FALSE]
    <2>1. job[d] \in Job /\ WalkOK(d)
      BY <1>3 DEF IInv, WalkOK
    <2>0. o \in Step
      BY <1>3, <2>1, StepIsTyped, StepsOfType
    <2>2. new \in Job /\ new.start = job[d].start
      BY <2>0, <2>1 DEF Job
    <2>3. Onward(d, new) /\ Change(d)
      BY <1>3 DEF Advance, Change
    <2> HIDE DEF new
    <2> QED
      BY <1>3, <2>2, <2>3, Underway, WalkOfOne
  <1>4. ASSUME NEW d \in Compositions, Write(d) PROVE Walks!Next
    <2>1. job[d].at \in Due(job[d]) /\ job[d].op = "apply" /\ ~Idle(d)
      BY <1>4 DEF Write, IInv, WalkOK
    <2> QED
      BY <1>3, <1>4, <2>1 DEF Write
  <1>5. ASSUME NEW d \in Compositions, Delete(d) PROVE Walks!Next
    <2>1. PICK o \in Due(job[d]) : Erase(d, o) /\ Advance(d, o)
      BY <1>5 DEF Delete
    <2> QED
      BY <1>3, <1>5, <2>1 DEF Delete
  <1>6. ASSUME NEW d \in Compositions, Break(d) \/ Finish(d) PROVE Walks!Next
    <2>1. /\ ~Idle(d) /\ Onward(d, None) /\ WalkOK(d)
          /\ job[d] \in Job /\ job[d].list \in Lists[d]
      BY <1>6 DEF Break, Finish, IInv, WalkOK
    <2>2. \/ Untouched
          \/ \E o \in Due(job[d]) :
                \/ job[d].op = "apply" /\ Put(d, o)
                \/ job[d].op = "remove" /\ Erase(d, o)
      BY <1>6, <2>1 DEF Break, Finish, Lose, WalkOK
    <2>3. Change(d)
      BY <2>2 DEF Change
    <2>4. ASSUME d \notin Shared PROVE Returned(d)
      <3>1. CASE Untouched
        <4>1. StoreOf(d)' = StoreOf(d)
          BY <3>1 DEF Untouched, StoreOf
        <4> QED
          BY <2>1, <2>4, <4>1, StoppedHere
      <3> QED
        BY <2>1, <2>2, <2>4, <3>1, StoppedBehind
    <2>5. Settled'[d] = StoreOf(d)'
      BY <2>1 DEF IInv, Onward, Settled, Idle
    <2> QED
      BY <2>1, <2>3, <2>4, <2>5, ReturnedIsWalk, WalkOfOne
  <1>7. ASSUME NEW d \in Compositions, Prune(d) PROVE Walks!Next
    <2>1. Idle(d) /\ job' = job
      BY <1>7 DEF Prune
    <2>2. PICK ns \in SUBSET ShippedBy(d) : Drop(ns)
      BY <1>7 DEF Prune
    <2>3. Settled[d] = StoreOf(d) /\ Settled'[d] = StoreOf(d)'
      BY <2>1 DEF Settled, Idle
    <2>4. ns \subseteq Names
      BY <2>2, InstallerAssumption DEF ShippedBy, ShippedNamespaces, Resource
    <2>5. {n \in Names : owner'[n] = d} = {n \in Names : owner[n] = d} \ ns
      BY <2>2, InstallerAssumption DEF Drop
    <2>6. {o \in Object : <<Base[d], o>> \in objects'} =
             {o \in Object : <<Base[d], o>> \in objects} \ ({"role", "binding"} \X ns)
      BY <2>2 DEF Drop, Object
    <2>7. rules'[Base[d]] = [s \in Scopes |-> IF s \in ns THEN {} ELSE rules[Base[d]][s]]
      BY <2>2, InstallerAssumption DEF Drop
    <2>8. StoreOf(d)' = DropNamespaces(StoreOf(d), ns)
      BY <2>5, <2>6, <2>7 DEF StoreOf, DropNamespaces
    <2>9. Walks!Walk(d)
      BY <2>3, <2>4, <2>8, SamePolicy DEF Walks!Walk, Walks!DropNamespacesOf
    <2>10. Onward(d, None)
      BY <2>1 DEF IInv, Onward, Idle
    <2> QED
      BY <1>7, <2>9, <2>10, WalkOfOne
  <1>8. CASE Crash
    <2>1. ASSUME NEW c \in Compositions PROVE Walks!Walk(c)
      <3>1. StoreOf(c)' = StoreOf(c) /\ Settled'[c] = StoreOf(c)'
        BY <1>8 DEF Crash, Untouched, StoreOf, Settled, Idle
      <3>2. CASE c \in Shared
        BY <3>2 DEF Walks!Walk
      <3>3. CASE Idle(c)
        BY <3>1, <3>3 DEF Settled, Walks!Walk
      <3>4. CASE c \notin Shared /\ ~Idle(c)
        <4>1. job[c] \in Job /\ job[c].list \in Lists[c]
          BY <3>4 DEF IInv, WalkOK
        <4> QED
          BY <3>1, <3>4, <4>1, StoppedHere, ReturnedIsWalk
      <3> QED
        BY <3>2, <3>3, <3>4
    <2>2. Settled' \in [Compositions -> Store]
      BY SettledTypeNext DEF SettledOK
    <2> QED
      BY <2>1, <2>2, SamePolicy DEF Walks!Next
  <1> QED
    BY <1>1, <1>2, <1>4, <1>5, <1>6, <1>7, <1>8 DEF Next

\* The walk, request by request, implements the one step the handler relies
\* on: see RBACWalks.
THEOREM Atomic == Spec => AtomicWalks
  <1>1. Init => Walks!Init
    <2> SUFFICES ASSUME Init, NEW c \in Compositions
                 PROVE  (IF Idle(c) THEN StoreOf(c) ELSE job[c].start) = EmptyStore
      BY SamePolicy DEF Walks!Init, Settled
    <2>1. Idle(c)
      BY DEF Init, Idle
    <2>2. {n \in Names : owner[n] = c} = {}
      BY InstallerAssumption DEF Init
    <2>3. {o \in Object : <<Base[c], o>> \in objects} = {}
      BY DEF Init
    <2>4. rules[Base[c]] = [s \in Scopes |-> {}]
      BY InstallerAssumption DEF Init
    <2> QED
      BY <2>1, <2>2, <2>3, <2>4 DEF StoreOf, EmptyStore
  <1> QED
    BY <1>1, RefineStep, Inductive, PTL DEF Spec, AtomicWalks, Walks!Spec

=============================================================================
