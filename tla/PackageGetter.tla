--------------------------- MODULE PackageGetter ----------------------------
(***************************************************************************)
(* Which composition definition an operation takes its chart from.  The    *)
(* dynamic getter asks for the definition the labels of the composition    *)
(* name; when it is not there, cannot be read or serves another API it     *)
(* searches all definitions.  Observe then writes the labels of the one it *)
(* took; Create, Update and Delete just use it.  Definitions come, change  *)
(* and go meanwhile, and the composition moves to another version.         *)
(*                                                                         *)
(* An API is a version with a kind: the label krateo.io/composition-version*)
(* and the kind of the composition, status.apiVersion and status.kind of a *)
(* definition.                                                             *)
(***************************************************************************)
EXTENDS FiniteSets, Naturals

CONSTANTS
    Definitions,    \* names of composition definitions, with namespace
    APIs,
    None,           \* no definition, no status yet, no operation
    MaxFaults       \* how many requests fail

ASSUME GetterAssumption ==
    /\ None \notin Definitions \cup APIs
    /\ MaxFaults \in Nat

(***************************************************************************)
(* sound: it has a chart url, and the secret with the password, if it      *)
(* names one, can be read.                                                 *)
(***************************************************************************)
Definition == [serves : APIs \cup {None}, sound : BOOLEAN]

(***************************************************************************)
(* A running operation: its copy of the labels and of the API, and whether *)
(* the copy is still the server's; the definition it took, the API that    *)
(* one served when it was read, and whether it was the only one.  lapsed   *)
(* is history: since the operation began the labelled definition has not   *)
(* always served the API, or the request for it has failed.                *)
(***************************************************************************)
Work == [op : {"Observe", "Use"}, labels : Definitions \cup {None}, api : APIs,
         fresh : BOOLEAN, pkg : Definitions \cup {None},
         seen : APIs \cup {None}, sole : BOOLEAN, lapsed : BOOLEAN]

ASSUME NoneAssumption == None \notin Definition \cup Work

VARIABLES
    defs,      \* the composition definitions in the API server
    api,       \* what the composition is
    labels,    \* the definition its labels name, None unless all five are set
    pc,        \* the request the operation is about to make
    w,         \* the operation
    faults     \* how many requests will still fail

vars == <<defs, api, labels, pc, w, faults>>

ServesIn(ds, d, a) == d \in Definitions /\ ds[d] # None /\ ds[d].serves = a

Serving(d, a) == ServesIn(defs, d, a)

Present == {d \in Definitions : defs[d] # None}

Fault == faults > 0 /\ faults' = faults - 1

\* Faulty variant of Fail: the operation is not cleared away.
FailHalfway == pc' = "idle" /\ UNCHANGED <<w, labels>>

Fail == pc' = "idle" /\ w' = None /\ UNCHANGED labels

-----------------------------------------------------------------------------
(* The getter *)

Begin(op) ==
    /\ pc = "idle"
    /\ w' = [op |-> op, labels |-> labels, api |-> api, fresh |-> TRUE,
             pkg |-> None, seen |-> None, sole |-> FALSE,
             lapsed |-> ~Serving(labels, api)]
    /\ pc' = IF labels = None THEN "search" ELSE "get"
    /\ UNCHANGED <<labels, faults>>

(***************************************************************************)
(* The chart is read from the definition as it was answered.  (A secret    *)
(* that lacks the key ends the process; so ends the operation.)            *)
(***************************************************************************)
Take(d) ==
    \/ /\ defs[d].sound
       /\ pc' = "chosen"
       /\ w' = [w EXCEPT !.pkg = d, !.seen = defs[d].serves,
                         !.sole = (Present = {d})]
       /\ UNCHANGED labels
    \/ ~defs[d].sound /\ Fail

Searching(lapsed) ==
    /\ pc' = "search"
    /\ w' = [w EXCEPT !.lapsed = lapsed]
    /\ UNCHANGED labels

\* Faulty variant of Get: a definition that serves another API is an error.
GetOrFail ==
    /\ pc = "get"
    /\ \/ Fault /\ Searching(TRUE)
       \/ /\ UNCHANGED faults
          /\ IF Serving(w.labels, w.api) THEN Take(w.labels) ELSE Fail

\* Faulty variant of Get: the labels are not trusted.
GetNothing ==
    /\ pc = "get"
    /\ Searching(w.lapsed)
    /\ UNCHANGED faults

(***************************************************************************)
(* Get by label.  An error is logged and the search takes over, but a      *)
(* definition without a status is an error of the operation.               *)
(***************************************************************************)
Get ==
    /\ pc = "get"
    /\ \/ Fault /\ Searching(TRUE)
       \/ /\ UNCHANGED faults
          /\ \/ Serving(w.labels, w.api) /\ Take(w.labels)
             \/ Serving(w.labels, None) /\ Fail
             \/ /\ \A a \in {w.api, None} : ~Serving(w.labels, a)
                /\ Searching(w.lapsed)

\* List.  The only definition is taken as it is, otherwise one that serves
\* the API; the order of the list is the server's.
Search ==
    /\ pc = "search"
    /\ \/ Fault /\ Fail
       \/ /\ UNCHANGED faults
          /\ \/ \E d \in Present :
                   (Present = {d} \/ Serving(d, w.api)) /\ Take(d)
             \/ /\ Cardinality(Present) # 1
                /\ \A d \in Present : ~Serving(d, w.api)
                /\ Fail

\* Faulty variant of Accepted: the labels are patched.
AlwaysAccepted == TRUE

\* The labels are written with the resourceVersion of the copy.
Accepted == w.fresh

\* All five labels are overwritten, by whatever definition was taken.
SetCompositionDefinitionLabels(d) == labels' = d

\* The secret can fail to be read, the write to be accepted or answered.
Chosen ==
    /\ pc = "chosen"
    /\ \/ /\ w.op = "Observe" /\ Accepted
          /\ SetCompositionDefinitionLabels(w.pkg)
          /\ pc' = "idle" /\ w' = None
          /\ faults' \in {faults} \cup (IF faults > 0 THEN {faults - 1} ELSE {})
       \/ w.op = "Observe" /\ ~Accepted /\ Fail /\ UNCHANGED faults
       \/ w.op = "Use" /\ Fail /\ UNCHANGED faults
       \/ Fault /\ Fail

Operation == Get \/ Search \/ Chosen

-----------------------------------------------------------------------------
(* Others: the definitions and the version of the composition *)

\* What the running operation does not know.
Noticed(moved) ==
    w' = IF w = None THEN None
         ELSE [w EXCEPT !.fresh = @ /\ ~moved,
                        !.lapsed = @ \/ ~ServesIn(defs', w.labels, w.api)]

Change(d) ==
    /\ \E new \in Definition \cup {None} :
           new # defs[d] /\ defs' = [defs EXCEPT ![d] = new]
    /\ UNCHANGED <<api, labels, pc, faults>>
    /\ Noticed(FALSE)

Migrate ==
    /\ api' \in APIs \ {api}
    /\ UNCHANGED <<defs, labels, pc, faults>>
    /\ Noticed(TRUE)

-----------------------------------------------------------------------------

Init ==
    /\ defs = [d \in Definitions |-> None]
    /\ api \in APIs
    /\ labels \in Definitions \cup {None}
    /\ pc = "idle"
    /\ w = None
    /\ faults = MaxFaults

Controller == (Operation \/ \E op \in {"Observe", "Use"} : Begin(op))
                  /\ UNCHANGED <<defs, api>>

Next ==
    \/ Controller
    \/ \E d \in Definitions : Change(d)
    \/ Migrate

Spec == Init /\ [][Next]_vars

(***************************************************************************)
(* Operations end, and the resync timer brings Observe again and again.    *)
(***************************************************************************)
FairSpec ==
    /\ Spec
    /\ WF_vars(Operation /\ UNCHANGED <<defs, api>>)
    /\ SF_vars(Begin("Observe") /\ UNCHANGED <<defs, api>>)

-----------------------------------------------------------------------------
(* Properties *)

TypeOK ==
    /\ defs \in [Definitions -> Definition \cup {None}]
    /\ api \in APIs
    /\ labels \in Definitions \cup {None}
    /\ pc \in {"idle", "get", "search", "chosen"}
    /\ w \in Work \cup {None}
    /\ pc = "idle" <=> w = None
    /\ faults \in 0..MaxFaults

(***************************************************************************)
(* An operation keeps to the definition the labels name unless it has a    *)
(* reason: at some moment since the operation began that definition did    *)
(* not serve the API, or the request for it failed.  (The failed request   *)
(* is reason enough: getter.go:168 only logs it, and from then on the      *)
(* composition may belong to another definition.)                          *)
(***************************************************************************)
DefinitionIsKept ==
    pc = "chosen" /\ w.labels # None => w.pkg = w.labels \/ w.lapsed

(***************************************************************************)
(* When the labels change they come to name a definition that served, when *)
(* it was read, the API the composition has now: a composition that moves  *)
(* to another version is not tied to the old definition by a late write.   *)
(* The exception is a definition that was the only one (getter.go:316).    *)
(***************************************************************************)
LabelsMatch ==
    [][labels' # labels => w.seen = api \/ w.sole]_vars

OnlyMatch(d) ==
    /\ Serving(d, api) /\ defs[d].sound
    /\ \A e \in Definitions \ {d} : ~Serving(e, api)

\* The labelled definition has no status: no operation gets past it.
Stuck == Serving(labels, None)

(***************************************************************************)
(* Once exactly one definition serves the API for good, the labels come to *)
(* name it and keep to it, whatever becomes of the other definitions, or   *)
(* the labels name one that is found without a status again and again.     *)
(***************************************************************************)
LabelsSettle ==
    \A d \in Definitions :
        <>[]OnlyMatch(d) => <>[](labels = d) \/ []<>Stuck

=============================================================================
