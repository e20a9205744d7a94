-------------------------- MODULE ReleaseResources ---------------------------
(***************************************************************************)
(* What the handler reports of a release: status.digest and status.managed.*)
(* Observe hashes the manifest in one go and compares; when the digests    *)
(* differ Update decodes the manifest document by document, hashes what    *)
(* the decoder reads on the way, and records both.  The decoder reads      *)
(* ahead, in chunks.  Create records what it has installed, or what the    *)
(* upgrade of a release it finds has returned.                             *)
(*                                                                         *)
(* The rest of the operations is CompositionHandler; here an operation is  *)
(* its release and its report.  The hash is taken to be injective.         *)
(***************************************************************************)
EXTENDS FiniteSets, Naturals, Sequences

CONSTANTS
    Objects,      \* records with group, version, kind, namespace and name
    Comment,      \* a document with no object in it
    Malformed,    \* a document that is no YAML
    Manifests,    \* the manifests a release can have: sequences of documents
    Core,         \* the group without a name
    None,         \* no release, no digest, no mapper, no namespace
    Plural,       \* the resource of a kind
    Served,       \* the kinds the pluralizer knows
    Mappers,      \* the REST mappers a handler may have: None or the
                  \* kinds it says are namespaced
    MaxFaults,    \* how many requests fail
    MaxChanges    \* how often the chart or the values change the manifest

Document == Objects \cup {Comment, Malformed}

ASSUME ReportAssumption ==
    /\ Comment \notin Objects /\ Malformed \notin Objects
    /\ Comment # Malformed
    /\ Manifests \subseteq Seq(Document)
    /\ None \notin Manifests
    /\ Core # None
    /\ MaxFaults \in Nat /\ MaxChanges \in Nat

VARIABLES
    mapper,     \* the REST mapper of the handler
    desired,    \* the manifest Helm would render now
    rel,        \* the manifest of the installed release
    status,     \* the digest and the managed resources of the composition
    queue,      \* the events Create and Update that are not dealt with yet
    pc,         \* the step the worker is about to take
    w,          \* the report it works on
    faults,     \* how many requests will still fail
    changes     \* how many changes are still to come

vars == <<mapper, desired, rel, status, queue, pc, w, faults, changes>>

-----------------------------------------------------------------------------
(* The digest *)

Hash(bytes) == [hash |-> bytes]

\* ComputeReleaseDigest: a blank manifest has no digest.
ComputeReleaseDigest(manifest) ==
    IF manifest \in {None, <<>>} THEN None ELSE Hash(manifest)

-----------------------------------------------------------------------------
(* The managed resources *)

\* Without a mapper every kind counts as cluster-scoped.
IsNamespaced(kind) == mapper # None /\ kind \in mapper

\* The segments of the API path of an object.
Segments(o, ns) ==
    LET r == Plural[o.kind]
    IN  IF o.group = Core
        THEN IF ns = None THEN <<"api", o.version, r, o.name>>
                          ELSE <<"api", o.version, "namespaces", ns, r, o.name>>
        ELSE IF ns = None THEN <<"apis", o.group, o.version, r, o.name>>
                          ELSE <<"apis", o.group, o.version, "namespaces", ns, r, o.name>>

\* Faulty variant of Path: the namespace is the one the object came with.
PathAsGiven(o, ns) == Segments(o, o.namespace)

Path(o, ns) == Segments(o, ns)

ManagedResource(o) ==
    LET ns == IF IsNamespaced(o.kind) THEN o.namespace ELSE None
    IN  [group |-> o.group, version |-> o.version, resource |-> Plural[o.kind],
         name |-> o.name, namespace |-> ns, path |-> Path(o, ns)]

ManagedResources(objects) == [i \in DOMAIN objects |-> ManagedResource(objects[i])]

(***************************************************************************)
(* What the tracer of Helm's requests takes a path for: the number of its  *)
(* segments decides, and the first one only tells whether it is one of the *)
(* Kubernetes API at all.                                                  *)
(***************************************************************************)
Traced(path) ==
    LET n == Len(path)
        As(group, version, ns) ==
            [group |-> group, version |-> version, resource |-> path[n - 1],
             name |-> path[n], namespace |-> ns]
    IN  IF n \notin 4..7 \/ path[1] \notin {"apis", "api"} THEN None
        ELSE IF n = 7 /\ path[4] = "namespaces" THEN As(path[2], path[3], path[5])
        ELSE IF n = 6 /\ path[3] = "namespaces" THEN As(Core, path[2], path[4])
        ELSE IF n = 5 THEN As(path[2], path[3], None)
        ELSE IF n = 4 THEN As(Core, path[2], None)
        ELSE None

-----------------------------------------------------------------------------
(* The operations *)

(***************************************************************************)
(* The operation, its copy of the composition's status and of the release, *)
(* how many documents the decoder has read and how many it has handed out, *)
(* and the objects among those.                                            *)
(***************************************************************************)
Report(op, manifest) ==
    [op |-> op, status |-> status, manifest |-> manifest,
     read |-> 0, decoded |-> 0, objects |-> <<>>]

Fault == faults > 0 /\ faults' = faults - 1

NoFault == UNCHANGED faults

Return(e) == pc' = "idle" /\ w' = None /\ queue' = queue \ {e}

\* Faulty variant of Fail: the report is kept.
FailHalfway(e) == pc' = "idle" /\ UNCHANGED w /\ queue' \in {queue, queue \ {e}}

\* The operation ends with an error: the event is dealt with again, or, when
\* it has failed too often, dropped.
Fail(e) == pc' = "idle" /\ w' = None /\ queue' \in {queue, queue \ {e}}

\* Observe without a release asks for Create; otherwise it upgrades and
\* compares the digests.  A digest that is not there is that of the release
\* before the upgrade.
Observe ==
    /\ pc = "idle"
    /\ IF rel = None
       THEN queue' = queue \cup {"Create"} /\ UNCHANGED <<rel, status>> /\ NoFault
       ELSE LET digest   == ComputeReleaseDigest(desired)
                previous == IF status.digest = None THEN ComputeReleaseDigest(rel)
                                                    ELSE status.digest
                upToDate == [status EXCEPT !.digest = digest]
            IN  \/ /\ digest # previous
                   /\ rel' = desired /\ queue' = queue \cup {"Update"}
                   /\ UNCHANGED status /\ NoFault
                \/ /\ digest = previous
                   /\ rel' = desired /\ UNCHANGED queue
                   /\ \/ status' = upToDate /\ NoFault
                      \/ status' \in {status, upToDate} /\ Fault
                \/ /\ rel' \in {rel, desired}
                   /\ UNCHANGED <<status, queue>> /\ Fault
    /\ UNCHANGED <<pc, w>>

\* Where an operation goes on that has a manifest to report.
Decoding(op, manifest) ==
    /\ w' = Report(op, manifest)
    /\ pc' = IF manifest = <<>> THEN "record" ELSE "decode"
    /\ UNCHANGED queue

(***************************************************************************)
(* The event can come again after an attempt that failed: the release may  *)
(* be there, and is upgraded.  The error of that upgrade is overwritten    *)
(* before it is looked at.  It may have returned its revision, and then    *)
(* nothing tells it from one that succeeded, or a nil release, of which    *)
(* DecodeMinRelease makes what it makes of a blank manifest.               *)
(***************************************************************************)
Create ==
    /\ pc = "idle" /\ "Create" \in queue
    /\ \/ rel' = desired /\ Decoding("Create", desired) /\ NoFault
       \/ rel = None /\ rel' \in {None, desired} /\ Fail("Create") /\ Fault
       \/ rel # None /\ UNCHANGED rel /\ Fail("Create") /\ Fault
       \/ rel # None /\ rel' \in {rel, desired} /\ Decoding("Create", <<>>) /\ Fault
    /\ UNCHANGED status

Update ==
    /\ pc = "idle" /\ "Update" \in queue
    /\ \/ rel = None /\ Fail("Update") /\ NoFault
       \/ rel # None /\ Decoding("Update", rel) /\ NoFault
       \/ Fail("Update") /\ Fault
    /\ UNCHANGED <<rel, status>>

\* The decoder asks for more, and gets a part of it or all.
Read ==
    /\ pc = "decode"
    /\ w.read < Len(w.manifest)
    /\ \E n \in w.read + 1 .. Len(w.manifest) : w' = [w EXCEPT !.read = n]
    /\ UNCHANGED <<rel, status, queue, pc>> /\ NoFault

Took(objects) ==
    /\ w' = [w EXCEPT !.decoded = @ + 1, !.objects = objects]
    /\ UNCHANGED <<pc, queue>>

\* Faulty variant of Take: a document without an object is the last one.
TakeUntilEmpty(doc) ==
    \/ doc = Malformed /\ Fail(w.op)
    \/ doc = Comment /\ pc' = "record" /\ UNCHANGED <<w, queue>>
    \/ doc \in Objects /\ Took(Append(w.objects, doc))

\* Faulty variant of Take: a document without an object is malformed.
TakeStrictly(doc) ==
    \/ doc \in {Malformed, Comment} /\ Fail(w.op)
    \/ doc \in Objects /\ Took(Append(w.objects, doc))

\* Faulty variant of Take: the newest object comes first.
TakeBackwards(doc) ==
    \/ doc = Malformed /\ Fail(w.op)
    \/ doc = Comment /\ Took(w.objects)
    \/ doc \in Objects /\ Took(<<doc>> \o w.objects)

\* Documents without an apiVersion are skipped.
Take(doc) ==
    \/ doc = Malformed /\ Fail(w.op)
    \/ doc = Comment /\ Took(w.objects)
    \/ doc \in Objects /\ Took(Append(w.objects, doc))

Decode ==
    /\ pc = "decode"
    /\ w.decoded < w.read
    /\ Take(w.manifest[w.decoded + 1])
    /\ UNCHANGED <<rel, status>> /\ NoFault

\* io.EOF: nothing is left to read, nor to decode.
EndOfManifest ==
    /\ pc = "decode"
    /\ w.read = Len(w.manifest) /\ w.decoded = w.read
    /\ pc' = "record"
    /\ UNCHANGED <<rel, status, queue, w>> /\ NoFault

\* The digest the pass has arrived at: the hash of what was read.
StreamedDigest ==
    IF w.manifest = <<>> THEN None ELSE Hash(SubSeq(w.manifest, 1, w.read))

\* Create leaves the managed resources alone when there is no object, Update
\* sets the empty list.
Recorded ==
    [digest  |-> StreamedDigest,
     managed |-> IF w.op = "Create" /\ w.objects = <<>>
                 THEN w.status.managed ELSE ManagedResources(w.objects)]

Record ==
    /\ pc = "record"
    /\ \/ /\ \A i \in DOMAIN w.objects : w.objects[i].kind \in Served
          /\ \/ status' = Recorded /\ Return(w.op) /\ NoFault
             \/ status' \in {status, Recorded} /\ Fail(w.op) /\ Fault
       \/ /\ \E i \in DOMAIN w.objects : w.objects[i].kind \notin Served
          /\ UNCHANGED status /\ Fail(w.op) /\ NoFault
       \/ UNCHANGED status /\ Fail(w.op) /\ Fault
    /\ UNCHANGED rel

Operation == Observe \/ Create \/ Update \/ Read \/ Decode \/ EndOfManifest \/ Record

-----------------------------------------------------------------------------
(* Others: the manifest changes, the release is uninstalled by hand *)

Change ==
    /\ changes > 0 /\ changes' = changes - 1
    /\ \/ desired' \in Manifests \ {desired} /\ UNCHANGED rel
       \/ rel # None /\ rel' = None /\ UNCHANGED desired
    /\ UNCHANGED <<mapper, status, queue, pc, w, faults>>

-----------------------------------------------------------------------------

Init ==
    /\ mapper \in Mappers
    /\ desired \in Manifests
    /\ rel = None
    /\ status = [digest |-> None, managed |-> <<>>]
    /\ queue = {}
    /\ pc = "idle"
    /\ w = None
    /\ faults = MaxFaults
    /\ changes = MaxChanges

Run(operation) == operation /\ UNCHANGED <<mapper, desired, changes>>

Controller == Run(Operation)

Next == Controller \/ Change

Spec == Init /\ [][Next]_vars

\* The worker does not stop, the resync timer starts Observe again and again,
\* and the work queue is first in, first out.
FairSpec == /\ Spec
            /\ WF_vars(Controller)
            /\ SF_vars(Run(Observe)) /\ SF_vars(Run(Create)) /\ SF_vars(Run(Update))

-----------------------------------------------------------------------------
(* Properties *)

Digests == {None} \cup {Hash(m) : m \in Manifests}

TypeOK ==
    /\ mapper \in Mappers /\ desired \in Manifests
    /\ rel \in Manifests \cup {None}
    /\ status.digest \in Digests
    /\ queue \subseteq {"Create", "Update"}
    /\ pc \in {"idle", "decode", "record"}
    /\ pc = "idle" => w = None
    /\ pc # "idle" =>
          /\ w.op \in queue
          /\ w.manifest \in Manifests \cup {<<>>}
          /\ w.decoded \in 0..w.read /\ w.read \in 0..Len(w.manifest)
          /\ w.objects \in Seq(Objects) /\ Len(w.objects) <= w.decoded
    /\ faults \in 0..MaxFaults /\ changes \in 0..MaxChanges

(***************************************************************************)
(* The digest that is streamed while the manifest is decoded is the one    *)
(* Observe computes of it, however far the decoder read ahead: otherwise   *)
(* every Observe would find the composition out of date.                   *)
(***************************************************************************)
DigestsAgree ==
    pc = "record" => StreamedDigest = ComputeReleaseDigest(w.manifest)

\* How many of the first n documents have an object in them.
ObjectsUpTo(manifest, n) == Cardinality({i \in 1..n : manifest[i] \in Objects})

\* The objects of the first n documents, each in its place and nothing else.
AreObjectsOf(objects, manifest, n) ==
    /\ Len(objects) = ObjectsUpTo(manifest, n)
    /\ \A i \in 1..n :
          manifest[i] \in Objects => objects[ObjectsUpTo(manifest, i)] = manifest[i]

(***************************************************************************)
(* What is about to be reported are the objects of the manifest, all of    *)
(* them and in their order: what DecodeMinRelease skips is skipped, and it *)
(* stops at the end of the manifest and not before.                        *)
(***************************************************************************)
ObjectsInOrder ==
    pc = "record" => AreObjectsOf(w.objects, w.manifest, Len(w.manifest))

LeadsBack(m) ==
    Traced(m.path) = [group |-> m.group, version |-> m.version,
                      resource |-> m.resource, name |-> m.name,
                      namespace |-> m.namespace]

(***************************************************************************)
(* The path of a managed resource leads back to that resource: the tracer, *)
(* which tells groups, namespaces and the core group apart by the number   *)
(* of segments, reads it as what it stands for.                            *)
(***************************************************************************)
PathsLeadBack ==
    \A i \in DOMAIN status.managed : LeadsBack(status.managed[i])

\* The manifest can be reported: it decodes, and the cluster knows its kinds.
Reportable(manifest) ==
    \A i \in DOMAIN manifest :
        manifest[i] # Malformed /\ (manifest[i] \in Objects => manifest[i].kind \in Served)

(***************************************************************************)
(* When the manifest has stopped changing, the release comes to be that    *)
(* manifest and, if it can be reported, the status its digest, for good:   *)
(* Observe and Update do not chase each other.                             *)
(***************************************************************************)
Settles ==
    \A m \in Manifests :
        Reportable(m) /\ <>[](desired = m) =>
            <>[](rel = m /\ status.digest = ComputeReleaseDigest(m))

=============================================================================
