----------------------- MODULE ReleaseResourcesProofs ------------------------
(***************************************************************************)
(* The safety of the reports, for any objects, manifests and mappers.      *)
(***************************************************************************)
EXTENDS ReleaseResources, FiniteSetTheorems, SequenceTheorems, TLAPS

USE ReportAssumption

(***************************************************************************)
(* A managed resource is made of an object; its path has four, five, six   *)
(* or seven segments, and the number tells what they are.                  *)
(***************************************************************************)
LEMMA SegmentsLeadBack ==
    ASSUME NEW o, NEW ns
    PROVE  Traced(Segments(o, ns)) =
               [group |-> o.group, version |-> o.version,
                resource |-> Plural[o.kind], name |-> o.name,
                namespace |-> ns]
  <1> DEFINE p == Segments(o, ns)
  <1>1. CASE o.group = Core /\ ns = None
    <2>1. /\ Len(p) = 4 /\ p[1] = "api" /\ p[2] = o.version /\ p[3] = Plural[o.kind] /\ p[4] = o.name
      BY <1>1 DEF Segments
    <2> HIDE DEF p
    <2>2. Traced(p) = [group |-> o.group, version |-> o.version,
                       resource |-> Plural[o.kind], name |-> o.name,
                       namespace |-> ns]
      BY <1>1, <2>1 DEF Traced
    <2> QED
      BY <2>2 DEF p
  <1>2. CASE o.group = Core /\ ns # None
    <2>1. /\ Len(p) = 6 /\ p[1] = "api" /\ p[2] = o.version /\ p[3] = "namespaces" /\ p[4] = ns
          /\ p[5] = Plural[o.kind] /\ p[6] = o.name
      BY <1>2 DEF Segments
    <2> HIDE DEF p
    <2>2. Traced(p) = [group |-> o.group, version |-> o.version,
                       resource |-> Plural[o.kind], name |-> o.name,
                       namespace |-> ns]
      BY <1>2, <2>1 DEF Traced
    <2> QED
      BY <2>2 DEF p
  <1>3. CASE o.group # Core /\ ns = None
    <2>1. /\ Len(p) = 5 /\ p[1] = "apis" /\ p[2] = o.group /\ p[3] = o.version /\ p[4] = Plural[o.kind]
          /\ p[5] = o.name
      BY <1>3 DEF Segments
    <2> HIDE DEF p
    <2>2. Traced(p) = [group |-> o.group, version |-> o.version,
                       resource |-> Plural[o.kind], name |-> o.name,
                       namespace |-> ns]
      BY <1>3, <2>1 DEF Traced
    <2> QED
      BY <2>2 DEF p
  <1>4. CASE o.group # Core /\ ns # None
    <2>1. /\ Len(p) = 7 /\ p[1] = "apis" /\ p[2] = o.group /\ p[3] = o.version /\ p[4] = "namespaces"
          /\ p[5] = ns /\ p[6] = Plural[o.kind] /\ p[7] = o.name
      BY <1>4 DEF Segments
    <2> HIDE DEF p
    <2>2. Traced(p) = [group |-> o.group, version |-> o.version,
                       resource |-> Plural[o.kind], name |-> o.name,
                       namespace |-> ns]
      BY <1>4, <2>1 DEF Traced
    <2> QED
      BY <2>2 DEF p
  <1> QED
    BY <1>1, <1>2, <1>3, <1>4

LEMMA ResourceLeadsBack ==
    ASSUME NEW o
    PROVE  LeadsBack(ManagedResource(o))
  BY SegmentsLeadBack DEF LeadsBack, ManagedResource, Path

-----------------------------------------------------------------------------

LeadBack(managed) == \A i \in DOMAIN managed : LeadsBack(managed[i])

(***************************************************************************)
(* Why the report is right.  It is not recorded before the decoder has     *)
(* read all, so that what was hashed on the way is the whole manifest; and *)
(* the managed resources, in the cluster or in the copy a Create may write *)
(* back, were all made by ManagedResource.  The objects are, at every step *)
(* of the decoder, those of the documents it has handed out.               *)
(***************************************************************************)
Streamed ==
    /\ LeadBack(status.managed)
    /\ status = [digest |-> status.digest, managed |-> status.managed]
    /\ pc \in {"decode", "record"} =>
          /\ w = [op |-> w.op, status |-> w.status, manifest |-> w.manifest,
                  read |-> w.read, decoded |-> w.decoded, objects |-> w.objects]
          /\ LeadBack(w.status.managed)
          /\ AreObjectsOf(w.objects, w.manifest, w.decoded)
    /\ pc = "record" => w.read = Len(w.manifest) /\ w.decoded = w.read

IInv == TypeOK /\ Streamed

\* No document, no object; one more document, one more object or none.
LEMMA CountNone ==
    ASSUME NEW manifest
    PROVE  ObjectsUpTo(manifest, 0) = 0
  <1>1. {i \in 1..0 : manifest[i] \in Objects} = {}
    OBVIOUS
  <1> QED
    BY <1>1, FS_EmptySet DEF ObjectsUpTo

LEMMA CountNext ==
    ASSUME NEW manifest, NEW n \in Nat
    PROVE  /\ ObjectsUpTo(manifest, n) \in 0..n
           /\ ObjectsUpTo(manifest, n + 1) =
                  IF manifest[n + 1] \in Objects THEN ObjectsUpTo(manifest, n) + 1
                                                ELSE ObjectsUpTo(manifest, n)
  <1> DEFINE P(k) == {i \in 1..k : manifest[i] \in Objects}
  <1>1. IsFiniteSet(1..n) /\ Cardinality(1..n) = n
    BY FS_Interval
  <1>2. P(n) \in SUBSET (1..n)
    OBVIOUS
  <1>3. /\ IsFiniteSet(P(n)) /\ Cardinality(P(n)) <= n
    BY <1>1, <1>2, FS_Subset
  <1>4. Cardinality(P(n)) \in 0..n
    BY <1>3, FS_CardinalityType
  <1>5. n + 1 \notin P(n)
    OBVIOUS
  <1>6. CASE manifest[n + 1] \in Objects
    <2>1. P(n + 1) = P(n) \cup {n + 1}
      BY <1>6
    <2>2. Cardinality(P(n) \cup {n + 1}) = Cardinality(P(n)) + 1
      BY <1>3, <1>5, FS_AddElement
    <2> QED
      BY <1>4, <1>6, <2>1, <2>2 DEF ObjectsUpTo
  <1>7. CASE manifest[n + 1] \notin Objects
    <2>1. P(n + 1) = P(n)
      BY <1>7
    <2> QED
      BY <1>4, <1>7, <2>1 DEF ObjectsUpTo
  <1> QED
    BY <1>6, <1>7

\* The count does not go down, and does not exceed that of a longer prefix.
LEMMA CountGrows ==
    ASSUME NEW manifest, NEW m \in Nat, NEW n \in Nat, m <= n
    PROVE  ObjectsUpTo(manifest, m) <= ObjectsUpTo(manifest, n)
  <1> DEFINE P(k) == {i \in 1..k : manifest[i] \in Objects}
  <1>1. IsFiniteSet(1..n)
    BY FS_Interval
  <1>2. P(n) \in SUBSET (1..n) /\ P(m) \in SUBSET P(n)
    OBVIOUS
  <1>3. IsFiniteSet(P(n))
    BY <1>1, <1>2, FS_Subset
  <1> QED
    BY <1>2, <1>3, FS_Subset DEF ObjectsUpTo

\* An object has a place in the report.
LEMMA ObjectCounts ==
    ASSUME NEW manifest, NEW i \in Nat \ {0}, manifest[i] \in Objects
    PROVE  ObjectsUpTo(manifest, i) \in Nat \ {0}
  <1>1. i - 1 \in Nat /\ (i - 1) + 1 = i
    OBVIOUS
  <1>2. ObjectsUpTo(manifest, i) = ObjectsUpTo(manifest, i - 1) + 1
    BY <1>1, CountNext
  <1>3. ObjectsUpTo(manifest, i - 1) \in Nat
    BY <1>1, CountNext
  <1> QED
    BY <1>2, <1>3

\* Different objects have different places, in their order.
LEMMA PlacesDiffer ==
    ASSUME NEW manifest, NEW i \in Nat, NEW j \in Nat \ {0}, i < j,
           manifest[j] \in Objects
    PROVE  ObjectsUpTo(manifest, i) < ObjectsUpTo(manifest, j)
  <1>1. j - 1 \in Nat /\ (j - 1) + 1 = j /\ i <= j - 1
    OBVIOUS
  <1>2. ObjectsUpTo(manifest, j) = ObjectsUpTo(manifest, j - 1) + 1
    BY <1>1, CountNext
  <1>3. /\ ObjectsUpTo(manifest, i) <= ObjectsUpTo(manifest, j - 1)
        /\ ObjectsUpTo(manifest, i) \in Nat /\ ObjectsUpTo(manifest, j - 1) \in Nat
    BY <1>1, CountGrows, CountNext
  <1> QED
    BY <1>2, <1>3

\* Every place of the report is the place of an object: there are as many
\* objects as places, and no two share one.
LEMMA EveryPlaceTaken ==
    ASSUME NEW manifest, NEW n \in Nat, NEW k \in 1..ObjectsUpTo(manifest, n)
    PROVE  \E i \in 1..n : manifest[i] \in Objects /\ ObjectsUpTo(manifest, i) = k
  <1> DEFINE P      == {i \in 1..n : manifest[i] \in Objects}
             places == 1..ObjectsUpTo(manifest, n)
             f      == [i \in P |-> ObjectsUpTo(manifest, i)]
  <1>0. \A i \in Nat : ObjectsUpTo(manifest, i) \in Nat
    BY CountNext
  <1>1. ObjectsUpTo(manifest, n) \in Nat
    BY <1>0
  <1>2. IsFiniteSet(places) /\ Cardinality(places) = ObjectsUpTo(manifest, n)
    BY <1>1, FS_Interval
  <1>3. Cardinality(P) = Cardinality(places)
    BY <1>2 DEF ObjectsUpTo
  <1>4. ASSUME NEW i \in P
        PROVE  i \in Nat \ {0} /\ f[i] \in places
    <2>1. i \in Nat \ {0} /\ i <= n /\ manifest[i] \in Objects
      OBVIOUS
    <2>2. ObjectsUpTo(manifest, i) \in Nat \ {0}
      BY <2>1, ObjectCounts
    <2>3. ObjectsUpTo(manifest, i) <= ObjectsUpTo(manifest, n)
      BY <2>1, CountGrows
    <2> QED
      BY <1>1, <2>1, <2>2, <2>3
  <1>5. \A i, j \in P : f[i] = f[j] => i = j
    <2>1. ASSUME NEW i \in P, NEW j \in P, i < j
          PROVE  f[i] # f[j]
      <3>1. ObjectsUpTo(manifest, i) < ObjectsUpTo(manifest, j)
        BY <1>4, <2>1, PlacesDiffer
      <3>2. ObjectsUpTo(manifest, i) \in Nat /\ ObjectsUpTo(manifest, j) \in Nat
        BY <1>0, <1>4
      <3> QED
        BY <3>1, <3>2
    <2>2. \A i, j \in P : i < j \/ j < i \/ i = j
      BY <1>4
    <2> QED
      BY <2>1, <2>2
  <1>6. f \in Injection(P, places)
    BY <1>4, <1>5 DEF Injection, IsInjective
  <1>7. f \in Surjection(P, places)
    BY <1>2, <1>3, <1>6, FS_Injection
  <1> QED
    BY <1>7 DEF Surjection

\* What ObjectsInOrder asks for leaves no choice: a manifest has one report.
THEOREM OneReport ==
    ASSUME NEW manifest, NEW n \in Nat,
           NEW a \in Seq(Objects), AreObjectsOf(a, manifest, n),
           NEW b \in Seq(Objects), AreObjectsOf(b, manifest, n)
    PROVE  a = b
  <1>1. Len(a) = Len(b) /\ Len(a) = ObjectsUpTo(manifest, n)
    BY DEF AreObjectsOf
  <1>2. ASSUME NEW k \in 1..Len(a) PROVE a[k] = b[k]
    <2>1. PICK i \in 1..n : manifest[i] \in Objects /\ ObjectsUpTo(manifest, i) = k
      BY <1>1, <1>2, EveryPlaceTaken
    <2> QED
      BY <2>1 DEF AreObjectsOf
  <1> QED
    BY <1>1, <1>2, SeqEqual

\* The decoder hands out a document without an object.
LEMMA SkipsDocument ==
    ASSUME NEW objects, NEW manifest, NEW n \in Nat,
           AreObjectsOf(objects, manifest, n), manifest[n + 1] \notin Objects
    PROVE  AreObjectsOf(objects, manifest, n + 1)
  <1>1. ObjectsUpTo(manifest, n + 1) = ObjectsUpTo(manifest, n)
    BY CountNext
  <1>2. \A i \in 1..(n + 1) : i = n + 1 \/ i \in 1..n
    OBVIOUS
  <1> QED
    BY <1>1, <1>2 DEF AreObjectsOf

\* The decoder hands out an object: it goes to the end.
LEMMA TakesObject ==
    ASSUME NEW objects \in Seq(Objects), NEW manifest, NEW n \in Nat,
           AreObjectsOf(objects, manifest, n), manifest[n + 1] \in Objects
    PROVE  AreObjectsOf(Append(objects, manifest[n + 1]), manifest, n + 1)
  <1> DEFINE doc == manifest[n + 1]
             new == Append(objects, doc)
  <1>1. /\ ObjectsUpTo(manifest, n) \in Nat
        /\ ObjectsUpTo(manifest, n + 1) = ObjectsUpTo(manifest, n) + 1
    BY CountNext
  <1>2. Len(objects) = ObjectsUpTo(manifest, n)
    BY DEF AreObjectsOf
  <1>3. /\ Len(new) = Len(objects) + 1
        /\ \A k \in 1..Len(objects) : new[k] = objects[k]
        /\ new[Len(objects) + 1] = doc
    BY AppendProperties
  <1>4. ASSUME NEW i \in 1..n, manifest[i] \in Objects
        PROVE  new[ObjectsUpTo(manifest, i)] = manifest[i]
    <2>1. ObjectsUpTo(manifest, i) \in 1..Len(objects)
      BY <1>1, <1>2, <1>4, CountGrows, ObjectCounts
    <2>2. objects[ObjectsUpTo(manifest, i)] = manifest[i]
      BY <1>4 DEF AreObjectsOf
    <2> QED
      BY <1>3, <2>1, <2>2
  <1>5. new[ObjectsUpTo(manifest, n + 1)] = doc
    BY <1>1, <1>2, <1>3
  <1>6. \A i \in 1..(n + 1) : i = n + 1 \/ i \in 1..n
    OBVIOUS
  <1>7. Len(new) = ObjectsUpTo(manifest, n + 1)
    BY <1>1, <1>2, <1>3
  <1> QED
    BY <1>4, <1>5, <1>6, <1>7 DEF AreObjectsOf

\* What is decoded is a manifest, or the blank one of a release that is not
\* known.
LEMMA ReportedManifest ==
    ASSUME NEW m \in Manifests \cup {<<>>}
    PROVE  m \in Seq(Document) /\ Len(m) \in Nat
  <1>1. <<>> \in Seq(Document)
    BY EmptySeq
  <1>2. m \in Seq(Document)
    BY <1>1
  <1> QED
    BY <1>2, LenProperties

LEMMA WholeIsHashed ==
    ASSUME IInv, pc = "record"
    PROVE  StreamedDigest = ComputeReleaseDigest(w.manifest)
  <1>1. w.manifest \in Manifests \cup {<<>>}
    BY DEF IInv, TypeOK
  <1>2. SubSeq(w.manifest, 1, w.read) = w.manifest
    BY <1>1, ReportedManifest, SubSeqFull DEF IInv, Streamed
  <1>3. CASE w.manifest = <<>>
    BY <1>3 DEF StreamedDigest, ComputeReleaseDigest
  <1>4. CASE w.manifest # <<>>
    BY <1>1, <1>2, <1>4 DEF StreamedDigest, ComputeReleaseDigest
  <1> QED
    BY <1>3, <1>4

LEMMA FaultType ==
    ASSUME faults \in 0..MaxFaults, Fault \/ NoFault
    PROVE  faults' \in 0..MaxFaults
  BY DEF Fault, NoFault

LEMMA QueueType ==
    ASSUME TypeOK, NEW e, Return(e) \/ Fail(e)
    PROVE  queue' \subseteq {"Create", "Update"}
  BY DEF TypeOK, Return, Fail

\* The operation is over and nothing is recorded.
LEMMA EndStep ==
    ASSUME IInv, NEW e, Return(e) \/ Fail(e), faults' \in 0..MaxFaults,
           rel' \in Manifests \cup {None},
           UNCHANGED <<mapper, desired, status, changes>>
    PROVE  IInv'
  <1>1. pc' = "idle" /\ w' = None
    BY DEF Return, Fail
  <1>2. queue' \subseteq {"Create", "Update"}
    BY QueueType DEF IInv
  <1> QED
    BY <1>1, <1>2 DEF IInv, TypeOK, Streamed, LeadBack, LeadsBack

\* The digest Observe records.
LEMMA DigestType ==
    ASSUME NEW m \in Manifests \cup {<<>>}
    PROVE  ComputeReleaseDigest(m) \in Digests
  BY DEF ComputeReleaseDigest, Digests

LEMMA ObserveStep ==
    ASSUME IInv, Observe, UNCHANGED <<mapper, desired, changes>>
    PROVE  IInv'
  <1>1. w = None /\ pc = "idle" /\ w' = None
    BY DEF IInv, TypeOK, Observe
  <1>2. faults' \in 0..MaxFaults
    BY FaultType DEF IInv, TypeOK, Observe
  <1>3. /\ pc' = "idle" /\ rel' \in Manifests \cup {None}
        /\ queue' \subseteq {"Create", "Update"}
    BY <1>1 DEF IInv, TypeOK, Observe
  <1>4. \/ status' = status
        \/ status' = [status EXCEPT !.digest = ComputeReleaseDigest(desired)]
    BY DEF Observe
  <1>5. /\ status'.managed = status.managed /\ status'.digest \in Digests
        /\ status' = [digest |-> status'.digest, managed |-> status'.managed]
    BY <1>4, DigestType DEF IInv, TypeOK, Streamed
  <1>6. LeadBack(status.managed)'
    BY <1>5 DEF IInv, Streamed, LeadBack, LeadsBack
  <1> QED
    BY <1>1, <1>2, <1>3, <1>5, <1>6 DEF IInv, TypeOK, Streamed

\* Create and Update begin to decode.
LEMMA DecodingStep ==
    ASSUME IInv, NEW op \in queue, NEW m \in Manifests \cup {<<>>},
           Decoding(op, m), rel' \in Manifests \cup {None},
           faults' \in 0..MaxFaults,
           UNCHANGED <<mapper, desired, status, changes>>
    PROVE  IInv'
  <1>1. w' = [op |-> op, status |-> status, manifest |-> m,
              read |-> 0, decoded |-> 0, objects |-> <<>>]
    BY DEF Decoding, Report
  <1>2. /\ w'.op = op /\ w'.status = status /\ w'.manifest = m /\ w'.read = 0
        /\ w'.decoded = 0 /\ w'.objects = <<>>
    BY <1>1
  <1>3. m \in Seq(Document) /\ Len(m) \in Nat
    BY ReportedManifest
  <1>4. /\ pc' \in {"decode", "record"} /\ (pc' = "record" => m = <<>>)
        /\ queue' = queue
    BY DEF Decoding
  <1>5. LeadBack(status.managed)' /\ LeadBack(w.status.managed)'
    BY <1>2 DEF IInv, Streamed, LeadBack, LeadsBack
  <1>6. TypeOK'
    BY <1>2, <1>3, <1>4 DEF IInv, TypeOK
  <1>7. AreObjectsOf(w.objects, w.manifest, w.decoded)'
    <2>1. Len(w'.objects) = 0 /\ \A i \in 1..0 : FALSE
      BY <1>2
    <2>2. AreObjectsOf(w'.objects, m, 0)
      BY <2>1, CountNone DEF AreObjectsOf
    <2> QED
      BY <1>2, <2>2 DEF AreObjectsOf, ObjectsUpTo
  <1>8. pc' = "record" => w'.read = Len(w'.manifest) /\ w'.decoded = w'.read
    <2>1. Len(<<>>) = 0
      OBVIOUS
    <2> QED
      BY <1>2, <1>4, <2>1
  <1>9. Streamed'
    BY <1>1, <1>2, <1>4, <1>5, <1>7, <1>8 DEF IInv, Streamed
  <1> QED
    BY <1>6, <1>9 DEF IInv

\* What a step of the decoder may do to the report.
LEMMA TookStep ==
    ASSUME IInv, pc = "decode", NEW read, NEW decoded \in 0..read,
           read \in 0..Len(w.manifest),
           NEW objects \in Seq(Objects), Len(objects) <= decoded,
           AreObjectsOf(objects, w.manifest, decoded),
           w' = [w EXCEPT !.read = read, !.decoded = decoded, !.objects = objects],
           pc' \in {"decode", "record"}, pc' = "record" => read = Len(w.manifest) /\ decoded = read,
           NoFault, UNCHANGED <<mapper, desired, rel, status, queue, changes>>
    PROVE  IInv'
  <1>1. w = [op |-> w.op, status |-> w.status, manifest |-> w.manifest,
             read |-> w.read, decoded |-> w.decoded, objects |-> w.objects]
    BY DEF IInv, Streamed
  <1>2. w' = [op |-> w.op, status |-> w.status, manifest |-> w.manifest,
              read |-> read, decoded |-> decoded, objects |-> objects]
    BY <1>1
  <1>3. /\ w'.op = w.op /\ w'.status = w.status /\ w'.manifest = w.manifest
        /\ w'.read = read /\ w'.decoded = decoded /\ w'.objects = objects
    BY <1>2
  <1>4. LeadBack(status.managed)' /\ LeadBack(w.status.managed)'
    BY <1>3 DEF IInv, Streamed, LeadBack, LeadsBack
  <1>5. TypeOK'
    BY <1>3 DEF IInv, TypeOK, NoFault
  <1>6. AreObjectsOf(w.objects, w.manifest, w.decoded)'
    BY <1>3 DEF AreObjectsOf, ObjectsUpTo
  <1>7. Streamed'
    BY <1>2, <1>3, <1>4, <1>6 DEF IInv, Streamed
  <1> QED
    BY <1>5, <1>7 DEF IInv

LEMMA DecodeStep ==
    ASSUME IInv, Decode, UNCHANGED <<mapper, desired, changes>>
    PROVE  IInv'
  <1> DEFINE doc == w.manifest[w.decoded + 1]
  <1>1. /\ pc = "decode" /\ w.decoded < w.read /\ Take(doc)
        /\ UNCHANGED <<rel, status>> /\ NoFault
    BY DEF Decode
  <1>2. /\ w.decoded \in Nat /\ w.read \in 0..Len(w.manifest) /\ w.read \in Nat
        /\ w.objects \in Seq(Objects) /\ Len(w.objects) <= w.decoded
        /\ Len(w.objects) \in Nat
    <2>1. w.manifest \in Seq(Document) /\ w.objects \in Seq(Objects)
      BY <1>1, ReportedManifest DEF IInv, TypeOK
    <2>2. Len(w.manifest) \in Nat /\ Len(w.objects) \in Nat
      BY <2>1, LenProperties
    <2> QED
      BY <1>1, <2>1, <2>2 DEF IInv, TypeOK
  <1>3. w = [op |-> w.op, status |-> w.status, manifest |-> w.manifest,
             read |-> w.read, decoded |-> w.decoded, objects |-> w.objects]
    BY <1>1 DEF IInv, Streamed
  <1>4. AreObjectsOf(w.objects, w.manifest, w.decoded)
    BY <1>1 DEF IInv, Streamed
  <1>5. ASSUME NEW objects \in Seq(Objects), Took(objects),
               Len(objects) <= w.decoded + 1,
               AreObjectsOf(objects, w.manifest, w.decoded + 1)
        PROVE  IInv'
    <2>1. w' = [w EXCEPT !.read = w.read, !.decoded = w.decoded + 1,
                         !.objects = objects]
      BY <1>3, <1>5 DEF Took
    <2>2. w.decoded + 1 \in 0..w.read /\ pc' = "decode" /\ queue' = queue
      BY <1>1, <1>2, <1>5 DEF Took
    <2> QED
      BY <1>1, <1>2, <1>5, <2>1, <2>2, TookStep
  <1>6. CASE doc = Malformed /\ Fail(w.op)
    BY <1>1, <1>6, EndStep DEF IInv, TypeOK, NoFault
  <1>7. CASE doc = Comment /\ Took(w.objects)
    <2>1. Len(w.objects) <= w.decoded + 1
      BY <1>2
    <2>2. AreObjectsOf(w.objects, w.manifest, w.decoded + 1)
      BY <1>2, <1>7, <1>4, SkipsDocument
    <2> QED
      BY <1>2, <1>5, <1>7, <2>1, <2>2
  <1>8. CASE doc \in Objects /\ Took(Append(w.objects, doc))
    <2>1. Append(w.objects, doc) \in Seq(Objects)
          /\ Len(Append(w.objects, doc)) = Len(w.objects) + 1
      BY <1>2, <1>8, AppendProperties
    <2>2. Len(Append(w.objects, doc)) <= w.decoded + 1
      BY <1>2, <2>1
    <2>3. AreObjectsOf(Append(w.objects, doc), w.manifest, w.decoded + 1)
      BY <1>2, <1>8, <1>4, TakesObject
    <2> QED
      BY <1>5, <1>8, <2>1, <2>2, <2>3
  <1> QED
    BY <1>1, <1>6, <1>7, <1>8 DEF Take

\* What Create and Update record.
LEMMA RecordStep ==
    ASSUME IInv, Record, UNCHANGED <<mapper, desired, changes>>
    PROVE  IInv'
  <1>1. /\ pc = "record" /\ (Return(w.op) \/ Fail(w.op)) /\ UNCHANGED rel
        /\ (status' = status \/ status' = Recorded)
        /\ (Fault \/ NoFault)
    BY DEF Record
  <1>2. faults' \in 0..MaxFaults
    BY <1>1, FaultType DEF IInv, TypeOK
  <1>3. CASE status' = status
    BY <1>1, <1>2, <1>3, EndStep DEF IInv, TypeOK
  <1>4. CASE status' = Recorded
    <2>1. status'.digest = StreamedDigest
      BY <1>4 DEF Recorded
    <2>2. status'.digest \in Digests
      BY <1>1, <2>1, WholeIsHashed, DigestType DEF IInv, TypeOK
    <2>3. \/ status'.managed = w.status.managed
          \/ status'.managed = ManagedResources(w.objects)
      BY <1>4 DEF Recorded
    <2>4. LeadBack(ManagedResources(w.objects))
      BY ResourceLeadsBack DEF LeadBack, ManagedResources
    <2>5. LeadBack(w.status.managed)
      BY <1>1 DEF IInv, Streamed
    <2>6. LeadBack(status.managed)'
      BY <2>3, <2>4, <2>5 DEF LeadBack, LeadsBack
    <2>7. status' = [digest |-> status'.digest, managed |-> status'.managed]
      BY <1>4 DEF Recorded
    <2>8. pc' = "idle" /\ w' = None
      BY <1>1 DEF Return, Fail
    <2>9. queue' \subseteq {"Create", "Update"}
      BY <1>1, QueueType DEF IInv
    <2> QED
      BY <1>1, <1>2, <2>2, <2>6, <2>7, <2>8, <2>9 DEF IInv, TypeOK, Streamed
  <1> QED
    BY <1>1, <1>3, <1>4

-----------------------------------------------------------------------------

LEMMA InitIInv == Init => IInv
  BY DEF Init, IInv, TypeOK, Streamed, Digests, LeadBack

LEMMA NextIInv ==
    ASSUME IInv, [Next]_vars
    PROVE  IInv'
  <1>1. CASE Controller
    <2>1. UNCHANGED <<mapper, desired, changes>>
      BY <1>1 DEF Controller, Run
    <2>2. CASE Observe
      BY <2>1, <2>2, ObserveStep
    <2>3. CASE Create
      <3>1. /\ "Create" \in queue /\ UNCHANGED status
            /\ rel' \in Manifests \cup {None} /\ faults' \in 0..MaxFaults
        BY <2>3, FaultType DEF Create, IInv, TypeOK
      <3>2. CASE \E m \in Manifests \cup {<<>>} : Decoding("Create", m)
        BY <2>1, <3>1, <3>2, DecodingStep
      <3>3. CASE Fail("Create")
        BY <2>1, <3>1, <3>3, EndStep
      <3> QED
        BY <2>3, <3>2, <3>3 DEF Create, IInv, TypeOK
    <2>4. CASE Update
      <3>1. /\ "Update" \in queue /\ UNCHANGED <<rel, status>>
            /\ rel' \in Manifests \cup {None} /\ faults' \in 0..MaxFaults
        BY <2>4, FaultType DEF Update, IInv, TypeOK
      <3>2. CASE rel # None /\ Decoding("Update", rel)
        BY <2>1, <3>1, <3>2, DecodingStep DEF IInv, TypeOK
      <3>3. CASE Fail("Update")
        BY <2>1, <3>1, <3>3, EndStep
      <3> QED
        BY <2>4, <3>2, <3>3 DEF Update
    <2>5. CASE Read
      <3>1. PICK n \in w.read + 1 .. Len(w.manifest) : w' = [w EXCEPT !.read = n]
        BY <2>5 DEF Read
      <3>2. w.manifest \in Seq(Document) /\ pc = "decode"
        BY <2>5, ReportedManifest DEF Read, IInv, TypeOK
      <3>3. Len(w.manifest) \in Nat
        BY <3>2, LenProperties
      <3>4. w = [op |-> w.op, status |-> w.status, manifest |-> w.manifest,
                 read |-> w.read, decoded |-> w.decoded, objects |-> w.objects]
        BY <3>2 DEF IInv, Streamed
      <3>5. /\ w.decoded \in 0..w.read /\ w.read \in 0..Len(w.manifest)
            /\ w.objects \in Seq(Objects) /\ Len(w.objects) <= w.decoded
            /\ AreObjectsOf(w.objects, w.manifest, w.decoded)
        BY <3>2 DEF IInv, TypeOK, Streamed
      <3>6. w' = [w EXCEPT !.read = n, !.decoded = w.decoded,
                           !.objects = w.objects]
        BY <3>1, <3>4
      <3>7. n \in 0..Len(w.manifest) /\ w.decoded \in 0..n
        BY <3>3, <3>5
      <3> QED
        BY <2>1, <2>5, <3>2, <3>5, <3>6, <3>7, TookStep DEF Read
    <2>6. CASE Decode
      BY <2>1, <2>6, DecodeStep
    <2>7. CASE EndOfManifest
      BY <2>1, <2>7
      DEF EndOfManifest, NoFault, IInv, TypeOK, Streamed, LeadBack, LeadsBack
    <2>8. CASE Record
      BY <2>1, <2>8, RecordStep
    <2>9. Operation
      BY <1>1 DEF Controller, Run
    <2> QED
      BY <2>2, <2>3, <2>4, <2>5, <2>6, <2>7, <2>8, <2>9 DEF Operation
  <1>2. CASE Change
    <2>1. UNCHANGED <<mapper, status, queue, pc, w, faults>>
      BY <1>2 DEF Change
    <2>2. TypeOK'
      <3>1. rel' \in Manifests \cup {None} /\ desired' \in Manifests
        BY <1>2 DEF Change, IInv, TypeOK
      <3>2. changes' \in 0..MaxChanges
        BY <1>2 DEF Change, IInv, TypeOK
      <3> QED
        BY <2>1, <3>1, <3>2 DEF IInv, TypeOK
    <2>3. Streamed'
      BY <2>1 DEF IInv, Streamed, LeadBack, LeadsBack
    <2> QED
      BY <2>2, <2>3 DEF IInv
  <1>3. CASE UNCHANGED vars
    BY <1>3 DEF vars, IInv, TypeOK, Streamed, LeadBack, LeadsBack
  <1> QED
    BY <1>1, <1>2, <1>3 DEF Next

\* The inductive invariant holds of every behaviour of the reports.
THEOREM Inductive == Spec => []IInv
  <1>1. Init => IInv
    BY InitIInv
  <1>2. IInv /\ [Next]_vars => IInv'
    BY NextIInv
  <1> QED
    BY <1>1, <1>2, PTL DEF Spec

\* The variables keep their types.
THEOREM TypeCorrect == Spec => []TypeOK
  <1>1. IInv => TypeOK
    BY DEF IInv
  <1> QED
    BY <1>1, Inductive, PTL

\* What DecodeRelease hashes on the way is what ComputeReleaseDigest hashes,
\* however the decoder reads ahead.
THEOREM OneDigest == Spec => []DigestsAgree
  <1>1. IInv => DigestsAgree
    BY WholeIsHashed DEF DigestsAgree
  <1> QED
    BY <1>1, Inductive, PTL

\* What DecodeMinRelease returns are the objects of the manifest, all of them
\* and in their order, wherever documents without one stand between them.
THEOREM WholeReport == Spec => []ObjectsInOrder
  <1>1. IInv => ObjectsInOrder
    BY DEF IInv, Streamed, ObjectsInOrder
  <1> QED
    BY <1>1, Inductive, PTL

\* The path of every managed resource leads back to it, whatever its group,
\* its scope and the names.
THEOREM PathsAreUnambiguous == Spec => []PathsLeadBack
  <1>1. IInv => PathsLeadBack
    BY DEF IInv, Streamed, LeadBack, PathsLeadBack
  <1> QED
    BY <1>1, Inductive, PTL

=============================================================================
