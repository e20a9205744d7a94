--------------------------- MODULE RBACInstaller ----------------------------
(***************************************************************************)
(* ApplyRBAC and UninstallRBAC request by request, for several             *)
(* compositions at once: the controller runs one worker per composition    *)
(* (--workers), every operation makes a generator and an installer of its  *)
(* own, and what they have in common is the API server.                    *)
(*                                                                         *)
(* A role or binding is known by its scope and by the base name of the     *)
(* composition, which is its release name: the label krateo.io/release-name*)
(* where the user has set it.  A namespace is known by its own name and    *)
(* carries two annotations, release name and namespace of the composition  *)
(* that wrote it last; together they identify the composition.             *)
(***************************************************************************)
EXTENDS RBACPolicy

CONSTANTS
    Compositions,
    Lists,      \* for each composition, the resource lists of its charts
    Bases,      \* base names
    Base,       \* the base name of each composition
    Already,    \* namespaces somebody else has created
    Foreign,    \* ... and what their annotations say
    None        \* no such namespace; no walk; no request under way

ShippedBy(c) == UNION {ShippedNamespaces(rs) : rs \in Lists[c]}
UsedBy(c)    == {r.scope : r \in UNION Lists[c]}

VARIABLES
    owner,      \* of each namespace: what its annotations say
    objects,    \* the roles and bindings in the cluster
    rules,      \* the rules of the roles
    job,        \* the walk each composition is on
    granted     \* the list its last complete ApplyRBAC was generated from

vars == <<owner, objects, rules, job, granted>>

\* What the API server holds for one composition.
StoreOf(c) ==
    [namespaces |-> {n \in Names : owner[n] = c},
     objects    |-> {o \in Object : <<Base[c], o>> \in objects},
     rules      |-> rules[Base[c]]]

(***************************************************************************)
(* A walk: its operation and resource list, the steps behind it, the step  *)
(* whose Get has been answered and whether that counts as found.  start is *)
(* history: what was there when the walk began.                            *)
(***************************************************************************)
Job == [op : {"apply", "remove"}, list : SUBSET Resource, done : SUBSET Step,
        at : Step \cup {None}, found : BOOLEAN, start : Store]

ASSUME InstallerAssumption ==
    /\ Lists \in [Compositions -> SUBSET SUBSET Resource]
    /\ Base \in [Compositions -> Bases]
    /\ Already \subseteq Names /\ Cluster \notin Names
    /\ Foreign \notin Compositions /\ None \notin Compositions /\ Foreign # None
    /\ None \notin Step \cup Job

Idle(c) == job[c] = None

StepsOf(j) == IF j.op = "apply" THEN ApplySteps(Generate(j.list))
                                ELSE RemoveSteps(Generate(j.list))

\* What the walk may request next.
Due(j) ==
    {o \in StepsOf(j) \ j.done :
        /\ \A a \in StepsOf(j) : Precedes(a, o) => a \in j.done
        /\ \A s \in HalfDone(j.done) : o = <<"binding", s>>}

-----------------------------------------------------------------------------
(* The API server *)

Exists(b, o) == IF o[1] = "namespace" THEN owner[o[2]] # None
                                      ELSE <<b, o>> \in objects

\* A role or binding of a namespace can be created only inside it.
HasPlace(o) ==
    o[1] # "namespace" => \A n \in Namespaces : o[2] = n => owner[n] # None

\* Faulty variant of Put: the rules are added to those the role has.
PutMerged(c, o) ==
    IF o[1] = "namespace"
    THEN owner' = [owner EXCEPT ![o[2]] = c] /\ UNCHANGED <<objects, rules>>
    ELSE /\ objects' = objects \cup {<<Base[c], o>>}
         /\ rules' = IF o[1] = "binding" THEN rules
                     ELSE [rules EXCEPT ![Base[c]][o[2]] =
                               @ \cup Generate(job[c].list).rules[o[2]]]
         /\ UNCHANGED owner

Put(c, o) ==
    IF o[1] = "namespace"
    THEN owner' = [owner EXCEPT ![o[2]] = c] /\ UNCHANGED <<objects, rules>>
    ELSE /\ objects' = objects \cup {<<Base[c], o>>}
         /\ rules' = IF o[1] = "binding" THEN rules
                     ELSE [rules EXCEPT ![Base[c]][o[2]] =
                               Generate(job[c].list).rules[o[2]]]
         /\ UNCHANGED owner

Erase(c, o) ==
    /\ objects' = objects \ {<<Base[c], o>>}
    /\ rules' = IF o[1] = "binding" THEN rules
                ELSE [rules EXCEPT ![Base[c]][o[2]] = {}]
    /\ UNCHANGED owner

Untouched == UNCHANGED <<owner, objects, rules>>

-----------------------------------------------------------------------------
(* The walk of one composition *)

Onward(c, new) == job' = [job EXCEPT ![c] = new]

Start(c, op, rs) ==
    /\ Idle(c)
    /\ Untouched
    /\ Onward(c, [op |-> op, list |-> rs, done |-> {}, at |-> None,
                  found |-> FALSE, start |-> StoreOf(c)])
    /\ granted' = [granted EXCEPT ![c] = {}]

(***************************************************************************)
(* The Get: only an answer NotFound leads to Create.  Found, or any other  *)
(* error, leads to Update.                                                 *)
(***************************************************************************)
Probe(c) ==
    /\ ~Idle(c) /\ job[c].op = "apply" /\ job[c].at = None
    /\ Untouched
    /\ \E o \in Due(job[c]), found \in BOOLEAN :
           /\ Exists(Base[c], o) => found
           /\ Onward(c, [job[c] EXCEPT !.at = o, !.found = found])
    /\ UNCHANGED granted

\* Create refuses what exists, Update what does not.
Accepts(c) == LET o == job[c].at IN
    IF job[c].found THEN Exists(Base[c], o)
                    ELSE ~Exists(Base[c], o) /\ HasPlace(o)

Advance(c, o) == Onward(c, [job[c] EXCEPT !.done = @ \cup {o}, !.at = None,
                                          !.found = FALSE])

\* Faulty variant of Write: what exists already is left as it is.
WriteIfMissing(c) ==
    /\ ~Idle(c) /\ job[c].at # None
    /\ IF Exists(Base[c], job[c].at) THEN Untouched
       ELSE Accepts(c) /\ Put(c, job[c].at)
    /\ Advance(c, job[c].at)
    /\ UNCHANGED granted

\* Faulty variant of Write: the walk stays where it is.
WriteAgain(c) ==
    /\ ~Idle(c) /\ job[c].at # None
    /\ Accepts(c)
    /\ Put(c, job[c].at)
    /\ Onward(c, [job[c] EXCEPT !.done = @ \cup {job[c].at}])
    /\ UNCHANGED granted

Write(c) ==
    /\ ~Idle(c) /\ job[c].at # None
    /\ Accepts(c)
    /\ Put(c, job[c].at)
    /\ Advance(c, job[c].at)
    /\ UNCHANGED granted

\* Deleting what is not there is no error.
Delete(c) ==
    /\ ~Idle(c) /\ job[c].op = "remove"
    /\ \E o \in Due(job[c]) : Erase(c, o) /\ Advance(c, o)
    /\ UNCHANGED granted

(***************************************************************************)
(* A request fails, or is refused, and the walk returns the error.  It may *)
(* have taken effect, the answer being lost.                               *)
(***************************************************************************)
Lose(c) ==
    \/ Untouched
    \/ job[c].at # None /\ Accepts(c) /\ Put(c, job[c].at)
    \/ job[c].op = "remove" /\ \E o \in Due(job[c]) : Erase(c, o)

\* Faulty variant of Break: the error is logged and forgotten.
BreakUnnoticed(c) ==
    /\ ~Idle(c)
    /\ Lose(c)
    /\ Onward(c, None)
    /\ granted' = [granted EXCEPT ![c] = IF job[c].op = "apply"
                                         THEN job[c].list ELSE {}]

Break(c) ==
    /\ ~Idle(c)
    /\ Lose(c)
    /\ Onward(c, None)
    /\ UNCHANGED granted

Finish(c) ==
    /\ ~Idle(c) /\ job[c].done = StepsOf(job[c])
    /\ Untouched
    /\ Onward(c, None)
    /\ granted' = [granted EXCEPT ![c] = IF job[c].op = "apply"
                                         THEN job[c].list ELSE {}]

-----------------------------------------------------------------------------
(* Around the walks *)

Drop(ns) ==
    /\ owner' = [n \in Names |-> IF n \in ns THEN None ELSE owner[n]]
    /\ objects' = {x \in objects : x[2][2] \notin ns}
    /\ rules' = [b \in Bases |-> [s \in Scopes |->
                     IF s \in ns THEN {} ELSE rules[b][s]]]

\* Between two walks Helm deletes namespaces of the release of c, with all
\* the roles and bindings in them.
Prune(c) ==
    /\ Idle(c)
    /\ \E ns \in SUBSET {n \in ShippedBy(c) : owner[n] \in Compositions} : Drop(ns)
    /\ granted' = [granted EXCEPT ![c] = {}]
    /\ UNCHANGED job

\* The process stops in the middle of everything.
Crash ==
    /\ job' = [c \in Compositions |-> None]
    /\ UNCHANGED granted
    /\ Untouched

-----------------------------------------------------------------------------

Init ==
    /\ owner = [n \in Names |-> IF n \in Already THEN Foreign ELSE None]
    /\ objects = {}
    /\ rules = [b \in Bases |-> [s \in Scopes |-> {}]]
    /\ job = [c \in Compositions |-> None]
    /\ granted = [c \in Compositions |-> {}]

Next ==
    \/ \E c \in Compositions :
          \/ \E op \in {"apply", "remove"}, rs \in Lists[c] : Start(c, op, rs)
          \/ Probe(c) \/ Write(c) \/ Delete(c) \/ Break(c) \/ Finish(c)
          \/ Prune(c)
    \/ Crash

Spec == Init /\ [][Next]_vars

-----------------------------------------------------------------------------
(* Properties *)

TypeOK ==
    /\ owner \in [Names -> Compositions \cup {Foreign, None}]
    /\ objects \subseteq Bases \X Object
    /\ rules \in [Bases -> [Scopes -> SUBSET Kinds]]
    /\ granted \in [Compositions -> SUBSET Resource]
    /\ \A c \in Compositions : ~Idle(c) =>
          /\ job[c] \in Job
          /\ job[c].list \in Lists[c]
          /\ job[c].at # None => job[c].op = "apply" /\ job[c].at \in Due(job[c])

\* Another composition has the same base name, or ships a namespace that
\* this one ships or has resources in.
Sharing(c) ==
    \E d \in Compositions \ {c} :
        \/ Base[d] = Base[c]
        \/ ShippedBy(d) \cap (ShippedBy(c) \cup UsedBy(c)) # {}

Shared == {c \in Compositions : Sharing(c)}

\* What the handler of c has seen come back: nothing while the walk lasts.
Settled == [c \in Compositions |->
              IF Idle(c) THEN StoreOf(c) ELSE job[c].start]

Walks == INSTANCE RBACWalks WITH store <- Settled

(***************************************************************************)
(* A walk is atomic to its handler: for a composition that shares nothing  *)
(* with another one, what a walk has changed when it returns is what the   *)
(* steps up to some point of it change, whatever request failed, whether   *)
(* its effect was lost or not, and whatever other walks did meanwhile.     *)
(***************************************************************************)
AtomicWalks == Walks!Spec

(***************************************************************************)
(* After an ApplyRBAC that reported success everything on its list is      *)
(* permitted, and stays so until the handler of that composition acts      *)
(* again: the walks, the crashes and the Helm operations of compositions   *)
(* that share nothing with it take nothing away.                           *)
(***************************************************************************)
GrantsLast ==
    \A c \in Compositions \ Shared : Covered(granted[c], StoreOf(c))

\* Some chart version of c needs the kind in the scope.
NeedsEver(c, s, k) == \E rs \in Lists[c] : k \in KindsIn(rs, s)

(***************************************************************************)
(* What holds of README.md:51, "*exactly* the permissions needed - no      *)
(* more, no less".  After an ApplyRBAC that reported success the roles of  *)
(* its policy allow what the list needs and nothing else, whatever was     *)
(* there before; what an UninstallRBAC has deleted does not come back; *)
(* and the roles a chart has left behind hold at most what one of the      *)
(* composition's charts needs there.                                       *)
(***************************************************************************)
NoMoreThanNeeded ==
    \A c \in Compositions \ Shared :
        LET st == StoreOf(c) IN
        /\ granted[c] # {} => Exact(granted[c], st)
        /\ ~Idle(c) /\ job[c].op = "remove" => st.objects \cap job[c].done = {}
        /\ \A s \in Scopes : \A k \in st.rules[s] : NeedsEver(c, s, k)

=============================================================================
