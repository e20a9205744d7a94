------------------------- MODULE PackageGetterProofs -------------------------
(***************************************************************************)
(* The safety of the choice of a definition, for any number of definitions *)
(* and APIs and any number of failing requests.                            *)
(***************************************************************************)
EXTENDS PackageGetter, TLAPS

USE GetterAssumption, NoneAssumption

(***************************************************************************)
(* Why the choice is right.  While the operation has not lost the labelled *)
(* definition from sight that definition serves the API right now, so Get  *)
(* takes it, and the search begins only when there is no label or it has   *)
(* lapsed.  A copy that is fresh is what the server has.                   *)
(***************************************************************************)
Reason ==
    w # None =>
      /\ pc = "get" => w.labels # None
      /\ pc \in {"get", "search"} /\ ~w.lapsed /\ w.labels # None =>
            pc = "get" /\ Serving(w.labels, w.api)
      /\ pc = "chosen" =>
            /\ w.pkg \in Definitions
            /\ w.labels # None => w.pkg = w.labels \/ w.lapsed
            /\ w.seen = w.api \/ w.sole
      /\ w.fresh => w.api = api

IInv == TypeOK /\ Reason

LEMMA ServesInBoolean ==
    ASSUME NEW ds, NEW d, NEW a
    PROVE  ServesIn(ds, d, a) \in BOOLEAN
  BY DEF ServesIn

LEMMA FaultType ==
    ASSUME faults \in 0..MaxFaults, Fault
    PROVE  faults' \in 0..MaxFaults
  BY DEF Fault

LEMMA FailStep ==
    ASSUME IInv, Fail, UNCHANGED <<defs, api>>, faults' \in 0..MaxFaults
    PROVE  IInv'
  BY DEF IInv, TypeOK, Reason, Fail

LEMMA TakeStep ==
    ASSUME IInv, w # None, UNCHANGED <<defs, api, faults>>,
           NEW d \in Present, Take(d),
           w.labels # None => d = w.labels \/ w.lapsed,
           Serving(d, w.api) \/ Present = {d}
    PROVE  IInv'
  <1>1. CASE Fail
    BY <1>1, FailStep DEF IInv, TypeOK
  <1>2. CASE ~Fail
    <2>1. /\ pc' = "chosen"
          /\ w' = [w EXCEPT !.pkg = d, !.seen = defs[d].serves,
                            !.sole = (Present = {d})]
          /\ UNCHANGED labels
      BY <1>2 DEF Take
    <2>2. w \in Work /\ d \in Definitions /\ defs[d].serves \in APIs \cup {None}
      BY DEF IInv, TypeOK, Present, Definition
    <2>3. w' \in Work /\ w' # None
      BY <2>1, <2>2 DEF Work
    <2>4. /\ w'.labels = w.labels /\ w'.api = w.api /\ w'.fresh = w.fresh
          /\ w'.lapsed = w.lapsed /\ w'.pkg = d /\ w'.seen = defs[d].serves
          /\ w'.sole = (Present = {d})
      BY <2>1, <2>2 DEF Work
    <2>5. w'.seen = w'.api \/ w'.sole
      BY <2>4 DEF Serving, ServesIn
    <2>6. Reason'
      BY <2>1, <2>2, <2>4, <2>5 DEF IInv, Reason
    <2>7. TypeOK'
      BY <2>1, <2>3 DEF IInv, TypeOK
    <2> QED
      BY <2>6, <2>7 DEF IInv
  <1> QED
    BY <1>1, <1>2

LEMMA SearchingStep ==
    ASSUME IInv, w # None, NEW lapsed \in BOOLEAN, Searching(lapsed),
           UNCHANGED <<defs, api>>, faults' \in 0..MaxFaults,
           w.labels # None => lapsed
    PROVE  IInv'
  <1>1. w \in Work
    BY DEF IInv, TypeOK
  <1>2. pc' = "search" /\ w' = [w EXCEPT !.lapsed = lapsed] /\ labels' = labels
    BY DEF Searching
  <1>3. w' \in Work /\ w' # None
    BY <1>1, <1>2 DEF Work
  <1>4. w'.labels = w.labels /\ w'.api = w.api /\ w'.fresh = w.fresh /\ w'.lapsed = lapsed
    BY <1>1, <1>2 DEF Work
  <1>5. Reason'
    BY <1>2, <1>4 DEF IInv, Reason
  <1> QED
    BY <1>2, <1>3, <1>5 DEF IInv, TypeOK

LEMMA BeginStep ==
    ASSUME IInv, NEW op \in {"Observe", "Use"}, Begin(op), UNCHANGED <<defs, api>>
    PROVE  IInv'
  <1>1. labels \in Definitions \cup {None} /\ api \in APIs
    BY DEF IInv, TypeOK
  <1> DEFINE new == [op |-> op, labels |-> labels, api |-> api, fresh |-> TRUE,
                     pkg |-> None, seen |-> None, sole |-> FALSE,
                     lapsed |-> ~Serving(labels, api)]
  <1>2. new \in Work
    BY <1>1 DEF Work
  <1>3. w' = new /\ pc' = (IF labels = None THEN "search" ELSE "get")
        /\ labels' = labels /\ faults' = faults
    BY DEF Begin
  <1>4. new.labels = labels /\ new.api = api /\ (~new.lapsed <=> Serving(labels, api))
    BY ServesInBoolean DEF Serving
  <1>5. new # None
    BY <1>2
  <1> HIDE DEF new
  <1>6. TypeOK'
    BY <1>1, <1>2, <1>3, <1>5 DEF IInv, TypeOK
  <1>7. Reason'
    BY <1>3, <1>4 DEF IInv, TypeOK, Reason, Serving
  <1> QED
    BY <1>6, <1>7 DEF IInv

LEMMA GetStep ==
    ASSUME IInv, Get, UNCHANGED <<defs, api>>
    PROVE  IInv'
  <1>1. w # None /\ w \in Work /\ w.labels # None /\ w.lapsed \in BOOLEAN
    BY DEF IInv, TypeOK, Reason, Get, Work
  <1>2. CASE Fault /\ Searching(TRUE)
    BY <1>1, <1>2, FaultType, SearchingStep DEF IInv, TypeOK
  <1>3. CASE UNCHANGED faults /\ Serving(w.labels, w.api) /\ Take(w.labels)
    <2>1. w.labels \in Present
      BY <1>3 DEF Serving, ServesIn, Present
    <2> QED
      BY <1>1, <1>3, <2>1, TakeStep
  <1>4. CASE UNCHANGED faults /\ Fail
    BY <1>4, FailStep DEF IInv, TypeOK
  <1>5. CASE /\ UNCHANGED faults /\ ~Serving(w.labels, w.api)
             /\ Searching(w.lapsed)
    <2>1. w.lapsed
      BY <1>1, <1>5 DEF IInv, Reason, Get
    <2> QED
      BY <1>1, <1>5, <2>1, SearchingStep DEF IInv, TypeOK
  <1> QED
    BY <1>2, <1>3, <1>4, <1>5 DEF Get

LEMMA SearchStep ==
    ASSUME IInv, Search, UNCHANGED <<defs, api>>
    PROVE  IInv'
  <1>1. w # None /\ (w.labels # None => w.lapsed)
    BY DEF IInv, TypeOK, Reason, Search
  <1>2. CASE Fail /\ (Fault \/ UNCHANGED faults)
    BY <1>2, FailStep, FaultType DEF IInv, TypeOK
  <1>3. ASSUME UNCHANGED faults, NEW d \in Present,
               Present = {d} \/ Serving(d, w.api), Take(d)
        PROVE  IInv'
    BY <1>1, <1>3, TakeStep
  <1> QED
    BY <1>2, <1>3 DEF Search

LEMMA ChosenStep ==
    ASSUME IInv, Chosen, UNCHANGED <<defs, api>>
    PROVE  IInv'
  <1>1. CASE Fail /\ (Fault \/ UNCHANGED faults)
    BY <1>1, FailStep, FaultType DEF IInv, TypeOK
  <1>2. CASE /\ labels' = w.pkg /\ pc' = "idle" /\ w' = None
             /\ faults' \in {faults} \cup (IF faults > 0 THEN {faults - 1} ELSE {})
    <2>1. w.pkg \in Definitions
      BY DEF IInv, TypeOK, Reason, Chosen, SetCompositionDefinitionLabels
    <2>2. faults' \in 0..MaxFaults
      BY <1>2 DEF IInv, TypeOK
    <2> QED
      BY <1>2, <2>1, <2>2 DEF IInv, TypeOK, Reason
  <1> QED
    BY <1>1, <1>2 DEF Chosen, SetCompositionDefinitionLabels

\* What others do is noticed in the history and in the freshness of the copy.
LEMMA NoticedStep ==
    ASSUME IInv, NEW moved \in BOOLEAN, Noticed(moved),
           defs' \in [Definitions -> Definition \cup {None}], api' \in APIs,
           moved \/ api' = api, UNCHANGED <<labels, pc, faults>>
    PROVE  IInv'
  <1>1. CASE w = None
    BY <1>1 DEF IInv, TypeOK, Reason, Noticed
  <1>2. CASE w # None
    <2>1. w \in Work
      BY <1>2 DEF IInv, TypeOK
    <2> DEFINE gone == ~ServesIn(defs', w.labels, w.api)
    <2>2. w' = [w EXCEPT !.fresh = @ /\ ~moved, !.lapsed = @ \/ gone]
      BY <1>2 DEF Noticed
    <2>3. gone \in BOOLEAN
      BY ServesInBoolean
    <2> HIDE DEF gone
    <2>4. w' \in Work /\ w' # None
      BY <2>1, <2>2, <2>3 DEF Work
    <2>5. /\ w'.labels = w.labels /\ w'.api = w.api /\ w'.pkg = w.pkg
          /\ w'.seen = w.seen /\ w'.sole = w.sole
          /\ (w'.fresh <=> w.fresh /\ ~moved) /\ (w'.lapsed <=> w.lapsed \/ gone)
      BY <2>1, <2>2, <2>3 DEF Work
    <2>6. ~gone => ServesIn(defs', w.labels, w.api)
      BY DEF gone
    <2>7. Reason'
      BY <1>2, <2>5, <2>6 DEF IInv, Reason, Serving
    <2> QED
      BY <1>2, <2>4, <2>7 DEF IInv, TypeOK
  <1> QED
    BY <1>1, <1>2

LEMMA IInvStep == IInv /\ [Next]_vars => IInv'
  <1> SUFFICES ASSUME IInv, [Next]_vars PROVE IInv'
    OBVIOUS
  <1>1. CASE UNCHANGED vars
    BY <1>1 DEF vars, IInv, TypeOK, Reason, Serving, ServesIn
  <1>2. ASSUME NEW d \in Definitions, Change(d) PROVE IInv'
    <2>1. defs' \in [Definitions -> Definition \cup {None}]
      BY <1>2 DEF Change, IInv, TypeOK
    <2> QED
      BY <1>2, <2>1, NoticedStep DEF Change, IInv, TypeOK
  <1>3. CASE Migrate
    BY <1>3, NoticedStep DEF Migrate, IInv, TypeOK
  <1> QED
    BY <1>1, <1>2, <1>3, BeginStep, GetStep, SearchStep, ChosenStep
       DEF Next, Controller, Operation

-----------------------------------------------------------------------------
(* Theorems. *)

\* The invariant that carries the two results below.
THEOREM Inductive == Spec => []IInv
  <1>1. Init => IInv
    BY DEF Init, IInv, TypeOK, Reason
  <1> QED
    BY <1>1, IInvStep, PTL DEF Spec

\* Every variable keeps its type; there is an operation exactly while the
\* worker is not idle.
THEOREM TypeCorrect == Spec => []TypeOK
  BY Inductive, PTL DEF IInv

\* An operation leaves the labelled definition only for a reason.
THEOREM DefinitionKept == Spec => []DefinitionIsKept
  <1>1. IInv => DefinitionIsKept
    BY DEF IInv, TypeOK, Reason, DefinitionIsKept
  <1> QED
    BY <1>1, Inductive, PTL

\* The labels change only to what matches the composition as it is now.
THEOREM LabelsMatchNow == Spec => LabelsMatch
  <1>1. IInv /\ [Next]_vars => [labels' # labels => w.seen = api \/ w.sole]_vars
    <2> SUFFICES ASSUME IInv, Next, labels' # labels
                 PROVE  w.seen = api \/ w.sole
      BY DEF vars
    <2>1. Chosen
      BY DEF Next, Controller, Operation, Change, Migrate, Begin, Get, Search,
             Fail, Searching, Take
    <2>2. w # None /\ w.fresh
      BY <2>1 DEF Chosen, SetCompositionDefinitionLabels, Fail, Accepted, IInv, TypeOK
    <2> QED
      BY <2>1, <2>2 DEF Chosen, SetCompositionDefinitionLabels, IInv, Reason
  <1> QED
    BY <1>1, Inductive, PTL DEF Spec, LabelsMatch

=============================================================================
