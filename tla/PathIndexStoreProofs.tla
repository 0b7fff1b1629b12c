-------------------------- MODULE PathIndexStoreProofs --------------------------
(***************************************************************************)
(* The path-index store, for any number of writers, versions, keys and     *)
(* compactions: types, the order of publication, what readable chains      *)
(* answer, that objects never change and outcomes are true, and that the   *)
(* whole implements the abstract index.                                    *)
(*                                                                         *)
(* ManifestsClosed is not inductive: that the manifest a writer commits is *)
(* closed depends on how far that writer has come.  JobOK records it: the  *)
(* objects before the one being published are in S3, and stay there.       *)
(*                                                                         *)
(* Nor is PrefixesAreVersions: a chain that a writer is still building or  *)
(* uploading must be right before it is readable.  ContentInv says of each *)
(* running call what its chain answers.                                    *)
(***************************************************************************)
EXTENDS PathIndexStore, PathIndexFormatProofs, SequenceTheorems

\* What a running call knows, given the segments that are stored.
JobOK(j, stored) ==
    /\ j.pc \in Running =>
          /\ j.manifest \in Manifest
          /\ j.manifest.segments # <<>>
    /\ j.pc = "compact" => j.stack # <<>> /\ j.next = 1
    /\ j.pc \in {"inspect", "put"} =>
          /\ j.next \in 1 .. Len(j.manifest.segments) + 1
          /\ \A i \in 1 .. j.next - 1 : Digest(j.manifest.segments[i]) \in stored

\* Every readable manifest has a base.
ChainsHaveBases == \A m \in Readable : m.segments # <<>>

PublicationInv ==
    /\ TypeOK
    /\ ManifestsClosed
    /\ ChainsHaveBases
    /\ \A w \in Writer : JobOK(job[w], segments)

-----------------------------------------------------------------------------
(* Jobs.                                                                    *)

LEMMA IdleType == Idle \in JobType
<1>1. 0 \in 0 .. MaxAttempts - 1
  BY StoreAssumption
<1> QED BY <1>1 DEF Idle, JobType

\* A job that is not running satisfies its part of the invariant.
LEMMA StoppedJob ==
  ASSUME NEW outcome \in {"idle", "done", "conflict"}, NEW stored
  PROVE  /\ [Idle EXCEPT !.pc = outcome] \in JobType
         /\ JobOK([Idle EXCEPT !.pc = outcome], stored)
<1>1. [Idle EXCEPT !.pc = outcome] \in JobType
  BY IdleType DEF JobType
<1>2. [Idle EXCEPT !.pc = outcome].pc = outcome
  BY IdleType DEF JobType
<1>3. JobOK([Idle EXCEPT !.pc = outcome], stored)
  BY <1>2 DEF JobOK, Running
<1> QED BY <1>1, <1>3

\* More stored segments never hurt a job.
LEMMA JobMonotone ==
  ASSUME NEW j, NEW stored, NEW more, stored \subseteq more, JobOK(j, stored)
  PROVE  JobOK(j, more)
  BY DEF JobOK

\* A step of one writer keeps the jobs of all writers in order.
LEMMA JobsStep ==
  ASSUME TypeOK, \A w \in Writer : JobOK(job[w], segments),
         NEW w \in Writer, NEW j,
         j \in JobType, JobOK(j, segments'),
         job' = [job EXCEPT ![w] = j],
         segments \subseteq segments'
  PROVE  /\ job' \in [Writer -> JobType]
         /\ \A v \in Writer : JobOK(job'[v], segments')
<1>1. job \in [Writer -> JobType]
  BY DEF TypeOK
<1>2. job' \in [Writer -> JobType]
  BY <1>1
<1>3. ASSUME NEW v \in Writer PROVE JobOK(job'[v], segments')
  <2>1. CASE v = w
    BY <1>1, <2>1
  <2>2. CASE v # w
    <3>1. job'[v] = job[v]
      BY <1>1, <2>2
    <3> QED BY <3>1, JobMonotone
  <2> QED BY <2>1, <2>2
<1> QED BY <1>2, <1>3

\* A step that leaves the store alone keeps the invariant if it leaves its own
\* writer's job in order.
LEMMA LocalStep ==
  ASSUME PublicationInv, NEW w \in Writer, NEW j,
         j \in JobType, JobOK(j, segments),
         job' = [job EXCEPT ![w] = j], UNCHANGED objects
  PROVE  PublicationInv'
<1>1. UNCHANGED <<segments, versions, checkpoints>>
  BY DEF objects
<1>2. Readable' = Readable
  BY <1>1 DEF Readable, Published
<1>3. /\ job' \in [Writer -> JobType]
      /\ \A v \in Writer : JobOK(job'[v], segments')
  BY <1>1, JobsStep DEF PublicationInv
<1>4. TypeOK'
  BY <1>1, <1>3 DEF PublicationInv, TypeOK
<1>5. ManifestsClosed'
  BY <1>1, <1>2 DEF PublicationInv, ManifestsClosed
<1>6. ChainsHaveBases'
  BY <1>2 DEF PublicationInv, ChainsHaveBases
<1> QED BY <1>3, <1>4, <1>5, <1>6 DEF PublicationInv

-----------------------------------------------------------------------------
(* Building.                                                                *)

\* A call starts to publish a manifest: nothing is demanded of it yet.
LEMMA NewPublication ==
  ASSUME NEW j \in JobType, NEW stored,
         j.pc = "inspect", j.next = 1,
         j.manifest \in Manifest, j.manifest.segments # <<>>
  PROVE  JobOK(j, stored)
<1>1. Len(j.manifest.segments) \in Nat
  BY DEF Manifest
<1> QED BY <1>1 DEF JobOK, Running

LEMMA ReadableType ==
  ASSUME TypeOK, NEW m \in Readable
  PROVE  m \in Manifest
  BY DEF TypeOK, Readable, Published

LEMMA StartCreateStep ==
  ASSUME PublicationInv, NEW w \in Writer, NEW v \in Version, NEW content \in Content,
         StartCreate(w, v, content)
  PROVE  PublicationInv'
<1> DEFINE base == BaseReference(v, content)
           m    == [version |-> v, parent |-> NoVersion, segments |-> <<base>>]
           call == [version |-> v, previous |-> NoVersion,
                    entries |-> content, removed |-> {}]
           j    == [Idle EXCEPT !.pc = "inspect", !.call = call,
                                !.manifest = m, !.local = {Digest(base)}]
<1>1. base \in Reference
  BY BaseReferenceType
<1>2. Digest(base) \in Segment
  BY <1>1, DigestType
<1>3. call \in Call
  BY DEF Call, Content
<1> HIDE DEF base
<1>4. m \in Manifest /\ m.segments # <<>>
  BY <1>1 DEF Manifest
<1>5. job' = [job EXCEPT ![w] = j] /\ UNCHANGED objects
  BY DEF StartCreate, base
<1> HIDE DEF m, call
<1>6. j \in JobType /\ j.pc = "inspect" /\ j.next = 1 /\ j.manifest = m
  BY <1>2, <1>3, <1>4, IdleType DEF JobType, Running, Idle
<1>7. JobOK(j, segments)
  BY <1>4, <1>6, NewPublication
<1> QED BY <1>5, <1>6, <1>7, LocalStep

LEMMA StartUpdateStep ==
  ASSUME PublicationInv, NEW w \in Writer, NEW v \in Version, NEW previous \in Readable,
         NEW entries \in Content, NEW removed \in SUBSET Key,
         StartUpdate(w, v, previous, entries, removed)
  PROVE  PublicationInv'
<1> DEFINE delta == DeltaReference(v, previous.version, entries, removed)
           m     == [version |-> v, parent |-> previous.version,
                     segments |-> Append(previous.segments, delta)]
           call  == [version |-> v, previous |-> previous.version,
                     entries |-> entries, removed |-> removed]
           j     == [Idle EXCEPT !.pc = "inspect", !.call = call,
                                 !.manifest = m, !.local = {Digest(delta)}]
<1>0. previous \in Manifest
  BY ReadableType DEF PublicationInv
<1>1. delta \in Reference
  BY <1>0, DeltaReferenceType DEF Manifest
<1>2. Digest(delta) \in Segment
  BY <1>1, DigestType
<1>3. call \in Call
  BY <1>0 DEF Call, Content, Manifest
<1> HIDE DEF delta
<1>4. m \in Manifest /\ m.segments # <<>>
  BY <1>0, <1>1 DEF Manifest
<1>5. job' = [job EXCEPT ![w] = j] /\ UNCHANGED objects
  BY DEF StartUpdate, delta
<1> HIDE DEF m, call
<1>6. j \in JobType /\ j.pc = "inspect" /\ j.next = 1 /\ j.manifest = m
  BY <1>2, <1>3, <1>4, IdleType DEF JobType, Running, Idle
<1>7. JobOK(j, segments)
  BY <1>4, <1>6, NewPublication
<1> QED BY <1>5, <1>6, <1>7, LocalStep

LEMMA DigestsType ==
  ASSUME NEW refs \in Seq(Reference)
  PROVE  Digests(refs) \subseteq Segment
  BY DigestType DEF Digests

LEMMA StartRebaseStep ==
  ASSUME PublicationInv, NEW w \in Writer, NEW source \in Readable, StartRebase(w, source)
  PROVE  PublicationInv'
<1> DEFINE base  == BaseReference(source.version, View(source.segments))
           m     == [source EXCEPT !.segments = <<base>>]
           local == Digests(source.segments) \cup {Digest(base)}
           j     == [Idle EXCEPT !.pc = "inspect", !.checkpoint = TRUE,
                                 !.manifest = m, !.local = local]
<1>0. source \in Manifest
  BY ReadableType DEF PublicationInv
<1>1. base \in Reference
  BY <1>0, ViewType, BaseReferenceType DEF Manifest
<1>2. local \subseteq Segment
  BY <1>0, <1>1, DigestType, DigestsType DEF Manifest
<1> HIDE DEF base
<1>3. <<base>> \in Seq(Reference) /\ <<base>> # <<>>
  BY <1>1
<1>4. m \in Manifest /\ m.segments # <<>>
  <2> DEFINE refs == <<base>>
  <2> HIDE DEF refs
  <2>1. refs \in Seq(Reference) /\ refs # <<>>
    BY <1>3 DEF refs
  <2>2. [source EXCEPT !.segments = refs] \in Manifest
    BY <1>0, <2>1 DEF Manifest
  <2>3. [source EXCEPT !.segments = refs].segments = refs
    BY <1>0 DEF Manifest
  <2> QED BY <2>1, <2>2, <2>3 DEF refs
<1>5. job' = [job EXCEPT ![w] = j] /\ UNCHANGED objects
  BY DEF StartRebase, base
<1> HIDE DEF m, local
<1>6. j \in JobType /\ j.pc = "inspect" /\ j.next = 1 /\ j.manifest = m
  BY <1>2, <1>4, IdleType DEF JobType, Running, Idle
<1>7. JobOK(j, segments)
  BY <1>4, <1>6, NewPublication
<1> QED BY <1>5, <1>6, <1>7, LocalStep

LEMMA StartCompactStep ==
  ASSUME PublicationInv, NEW w \in Writer, NEW source \in Readable, StartCompact(w, source)
  PROVE  PublicationInv'
<1> DEFINE first == <<Head(source.segments)>>
           rest  == Tail(source.segments)
           local == Digests(source.segments)
           j     == [Idle EXCEPT !.pc = "compact", !.checkpoint = TRUE,
                                 !.manifest = source, !.local = local,
                                 !.stack = first, !.rest = rest]
<1>0. source \in Manifest /\ source.segments # <<>>
  BY ReadableType DEF PublicationInv, ChainsHaveBases
<1>1. first \in Seq(Reference) /\ first # <<>> /\ rest \in Seq(Reference)
  BY <1>0 DEF Manifest
<1>2. local \subseteq Segment
  BY <1>0, DigestsType DEF Manifest
<1>5. job' = [job EXCEPT ![w] = j] /\ UNCHANGED objects
  BY DEF StartCompact
<1> HIDE DEF first, rest, local
<1>6. /\ j \in JobType /\ j.pc = "compact" /\ j.next = 1
      /\ j.manifest = source /\ j.stack = first
  BY <1>0, <1>1, <1>2, IdleType DEF JobType, Running, Idle
<1>7. JobOK(j, segments)
  BY <1>0, <1>1, <1>6 DEF JobOK, Running
<1> QED BY <1>5, <1>6, <1>7, LocalStep

LEMMA PushedSequences ==
  ASSUME NEW stack \in Seq(Reference), NEW rest \in Seq(Reference), rest # <<>>
  PROVE  /\ Append(stack, Head(rest)) \in Seq(Reference)
         /\ Append(stack, Head(rest)) # <<>>
         /\ Tail(rest) \in Seq(Reference)
  OBVIOUS

\* compact() moves references between the two sequences of the job.
LEMMA CompactPushStep ==
  ASSUME PublicationInv, NEW w \in Writer, CompactPush(w)
  PROVE  PublicationInv'
<1> DEFINE stack == Append(job[w].stack, Head(job[w].rest))
           rest  == Tail(job[w].rest)
           j     == [job[w] EXCEPT !.stack = stack, !.rest = rest]
<1>1. /\ job \in [Writer -> JobType] /\ job[w] \in JobType
      /\ JobOK(job[w], segments)
  BY DEF PublicationInv, TypeOK
<1>2. /\ job[w].pc = "compact" /\ job[w].rest # <<>>
      /\ job[w].stack \in Seq(Reference) /\ job[w].rest \in Seq(Reference)
  BY <1>1 DEF CompactPush, JobType
<1>3. stack \in Seq(Reference) /\ stack # <<>> /\ rest \in Seq(Reference)
  BY <1>2, PushedSequences
<1>4. job' = [job EXCEPT ![w] = j] /\ UNCHANGED objects
  BY <1>1 DEF CompactPush
<1> HIDE DEF stack, rest
<1>5. /\ j \in JobType /\ j.pc = "compact" /\ j.stack = stack
      /\ j.next = job[w].next /\ j.manifest = job[w].manifest
  BY <1>1, <1>2, <1>3 DEF JobType
<1>6. JobOK(j, segments)
  BY <1>1, <1>2, <1>3, <1>5 DEF JobOK, Running
<1> QED BY <1>4, <1>5, <1>6, LocalStep

LEMMA CompactMergeStep ==
  ASSUME PublicationInv, NEW w \in Writer, CompactMerge(w)
  PROVE  PublicationInv'
<1> DEFINE stack == MergeTop(job[w].stack)
           local == job[w].local \cup {Digest(TopMerged(job[w].stack))}
           j     == [job[w] EXCEPT !.stack = stack, !.local = local]
<1>1. /\ job \in [Writer -> JobType] /\ job[w] \in JobType
      /\ JobOK(job[w], segments)
  BY DEF PublicationInv, TypeOK
<1>2. /\ job[w].pc = "compact" /\ EqualLevels(job[w].stack)
      /\ job[w].stack \in Seq(Reference) /\ job[w].local \subseteq Segment
  BY <1>1 DEF CompactMerge, JobType
<1>3. stack \in Seq(Reference) /\ stack # <<>>
  <2>1. /\ TopMerged(job[w].stack) \in Reference
        /\ SubSeq(job[w].stack, 1, Len(job[w].stack) - 2) \in Seq(Reference)
    BY <1>2, MergeTopShape
  <2> QED BY <2>1 DEF MergeTop
<1>4. local \subseteq Segment
  BY <1>2, MergeTopShape, DigestType
<1>5. job' = [job EXCEPT ![w] = j] /\ UNCHANGED objects
  BY <1>1 DEF CompactMerge
<1> HIDE DEF stack, local
<1>6. /\ j \in JobType /\ j.pc = "compact" /\ j.stack = stack
      /\ j.next = job[w].next /\ j.manifest = job[w].manifest
  BY <1>1, <1>2, <1>3, <1>4 DEF JobType
<1>7. JobOK(j, segments)
  BY <1>1, <1>2, <1>3, <1>6 DEF JobOK, Running
<1> QED BY <1>5, <1>6, <1>7, LocalStep

LEMMA CompactDoneStep ==
  ASSUME PublicationInv, NEW w \in Writer, CompactDone(w)
  PROVE  PublicationInv'
<1> DEFINE m == [job[w].manifest EXCEPT !.segments = job[w].stack]
           none == <<>>
           j == [job[w] EXCEPT !.pc = "inspect", !.manifest = m, !.stack = none]
<1>1. /\ job \in [Writer -> JobType] /\ job[w] \in JobType
      /\ JobOK(job[w], segments)
  BY DEF PublicationInv, TypeOK
<1>2. /\ job[w].pc = "compact" /\ job[w].next = 1
      /\ job[w].stack \in Seq(Reference) /\ job[w].stack # <<>>
      /\ job[w].manifest \in Manifest
  BY <1>1 DEF CompactDone, JobType, JobOK, Running
<1>3. m \in Manifest /\ m.segments # <<>>
  BY <1>2 DEF Manifest
<1>4. job' = [job EXCEPT ![w] = j] /\ UNCHANGED objects
  BY <1>1 DEF CompactDone
<1>0. none \in Seq(Reference)
  OBVIOUS
<1> HIDE DEF m, none
<1>5. j \in JobType /\ j.pc = "inspect" /\ j.next = 1 /\ j.manifest = m
  <2>1. job[w] \in JobType /\ m \in Manifest
    BY <1>1, <1>3
  <2>2. j \in JobType /\ j.pc = "inspect" /\ j.next = job[w].next /\ j.manifest = m
    BY <1>0, <2>1 DEF JobType, Running
  <2> QED BY <1>2, <2>2
<1>6. JobOK(j, segments)
  BY <1>3, <1>5, NewPublication
<1> QED BY <1>4, <1>5, <1>6, LocalStep

-----------------------------------------------------------------------------
(* Publishing.                                                              *)

\* A call that ends, whatever its outcome, leaves the invariant alone.
LEMMA AbortStep ==
  ASSUME PublicationInv, NEW w \in Writer, NEW outcome \in {"idle", "done", "conflict"},
         Abort(w, outcome), UNCHANGED objects
  PROVE  PublicationInv'
  BY StoppedJob, LocalStep DEF Abort

LEMMA NextObjectJob ==
  ASSUME NEW j \in JobType
  PROVE  LET k == [j EXCEPT !.pc = "inspect", !.next = j.next + 1, !.attempt = 0]
         IN  /\ k \in JobType
             /\ k.pc = "inspect" /\ k.next = j.next + 1 /\ k.manifest = j.manifest
             /\ k.checkpoint = j.checkpoint
<1>1. 0 \in 0 .. MaxAttempts - 1 /\ j.next + 1 \in Nat
  BY StoreAssumption DEF JobType
<1> QED BY <1>1 DEF JobType, Running

\* The job that Advance leaves behind: over, or at its next object.
LEMMA AdvanceJob ==
  ASSUME PublicationInv, NEW w \in Writer, NEW stored,
         job[w].pc \in {"inspect", "put"}, segments \subseteq stored,
         ~AtManifest(job[w]) => CurrentDigest(job[w]) \in stored,
         Advance(w)
  PROVE  \E j \in JobType : JobOK(j, stored) /\ job' = [job EXCEPT ![w] = j]
<1>1. /\ job \in [Writer -> JobType] /\ job[w] \in JobType
      /\ JobOK(job[w], segments)
  BY DEF PublicationInv, TypeOK
<1>2. CASE AtManifest(job[w])
  <2>1. job' = [job EXCEPT ![w] = [Idle EXCEPT !.pc = "done"]]
    BY <1>1, <1>2 DEF Advance, Finished
  <2> QED BY <2>1, StoppedJob
<1>3. CASE ~AtManifest(job[w])
  <2> DEFINE j == [job[w] EXCEPT !.pc = "inspect", !.next = job[w].next + 1, !.attempt = 0]
             n == Len(job[w].manifest.segments)
  <2>1. job' = [job EXCEPT ![w] = j]
    BY <1>1, <1>3 DEF Advance
  <2>2. /\ j \in JobType /\ j.pc = "inspect" /\ j.next = job[w].next + 1
        /\ j.manifest = job[w].manifest
    BY <1>1, NextObjectJob
  <2>3. /\ job[w].manifest \in Manifest /\ job[w].manifest.segments # <<>>
        /\ job[w].next \in 1 .. n + 1
        /\ \A i \in 1 .. job[w].next - 1 : Digest(job[w].manifest.segments[i]) \in stored
    BY <1>1 DEF JobOK, Running
  <2>4. n \in Nat /\ job[w].next <= n
    BY <1>3, <2>3 DEF AtManifest, Manifest
  <2>5. Digest(job[w].manifest.segments[job[w].next]) \in stored
    BY <1>3 DEF CurrentDigest
  <2>6. \A i \in 1 .. j.next - 1 : Digest(j.manifest.segments[i]) \in stored
    BY <2>2, <2>3, <2>4, <2>5
  <2>7. JobOK(j, stored)
    BY <2>2, <2>3, <2>4, <2>6 DEF JobOK, Running
  <2> QED BY <2>1, <2>2, <2>7
<1> QED BY <1>2, <1>3

\* HEAD saw the object: it is there, so the call may go on.
LEMMA CompareStep ==
  ASSUME PublicationInv, NEW w \in Writer, job[w].pc \in {"inspect", "put"},
         Exists(job[w]), Compare(w), UNCHANGED objects
  PROVE  PublicationInv'
<1>1. ~AtManifest(job[w]) => CurrentDigest(job[w]) \in segments
  BY DEF Exists
<1>2. CASE Matches(job[w])
  <2>1. Advance(w)
    BY <1>2 DEF Compare
  <2> QED BY <1>1, <2>1, AdvanceJob, LocalStep
<1>3. CASE ~Matches(job[w])
  <2>1. Abort(w, "conflict")
    BY <1>3 DEF Compare
  <2> QED BY <2>1, AbortStep
<1> QED BY <1>2, <1>3

LEMMA InspectStep ==
  ASSUME PublicationInv, NEW w \in Writer, Inspect(w)
  PROVE  PublicationInv'
  BY CompareStep DEF Inspect

LEMMA PutExistsStep ==
  ASSUME PublicationInv, NEW w \in Writer, PutExists(w)
  PROVE  PublicationInv'
  BY CompareStep DEF PutExists

\* The writer stays at its object: only pc or attempt change.
LEMMA SameObjectJob ==
  ASSUME NEW j \in JobType, NEW stored, JobOK(j, stored), j.pc \in {"inspect", "put"},
         NEW n \in 0 .. MaxAttempts - 1
  PROVE  LET k == [j EXCEPT !.pc = "put", !.attempt = n]
         IN  k \in JobType /\ JobOK(k, stored)
<1> DEFINE k == [j EXCEPT !.pc = "put", !.attempt = n]
<1>1. k \in JobType /\ k.pc = "put" /\ k.manifest = j.manifest /\ k.next = j.next
  BY DEF JobType, Running
<1> HIDE DEF k
<1>2. JobOK(k, stored)
  BY <1>1 DEF JobOK, Running
<1> QED BY <1>1, <1>2 DEF k

LEMMA InspectMissingStep ==
  ASSUME PublicationInv, NEW w \in Writer, NEW forbidden \in BOOLEAN,
         InspectMissing(w, forbidden)
  PROVE  PublicationInv'
<1>1. /\ job \in [Writer -> JobType] /\ job[w] \in JobType
      /\ JobOK(job[w], segments)
  BY DEF PublicationInv, TypeOK
<1>2. job[w].pc = "inspect" /\ UNCHANGED objects
  BY DEF InspectMissing
<1>3. CASE IsLocal(job[w])
  <2> DEFINE j == [job[w] EXCEPT !.pc = "put", !.attempt = job[w].attempt]
  <2>1. job' = [job EXCEPT ![w] = j]
    BY <1>1, <1>3 DEF InspectMissing, JobType
  <2>2. job[w].attempt \in 0 .. MaxAttempts - 1
    BY <1>1 DEF JobType
  <2>3. j \in JobType /\ JobOK(j, segments)
    BY <1>1, <1>2, <2>2, SameObjectJob
  <2> QED BY <1>2, <2>1, <2>3, LocalStep
<1>4. CASE ~IsLocal(job[w])
  BY <1>2, <1>4, AbortStep DEF InspectMissing
<1> QED BY <1>3, <1>4

LEMMA PutRetryStep ==
  ASSUME PublicationInv, NEW w \in Writer, PutRetry(w)
  PROVE  PublicationInv'
<1>1. /\ job \in [Writer -> JobType] /\ job[w] \in JobType
      /\ JobOK(job[w], segments)
  BY DEF PublicationInv, TypeOK
<1>2. job[w].pc = "put" /\ UNCHANGED objects
  BY DEF PutRetry
<1>3. CASE job[w].attempt < MaxAttempts - 1
  <2> DEFINE n == job[w].attempt + 1
             j == [job[w] EXCEPT !.pc = "put", !.attempt = n]
  <2>1. job' = [job EXCEPT ![w] = j]
    BY <1>1, <1>2, <1>3 DEF PutRetry, JobType
  <2>2. n \in 0 .. MaxAttempts - 1
    BY <1>1, <1>3, StoreAssumption DEF JobType
  <2> HIDE DEF n
  <2>3. j \in JobType /\ JobOK(j, segments)
    BY <1>1, <1>2, <2>2, SameObjectJob
  <2> QED BY <1>2, <2>1, <2>3, LocalStep
<1>4. CASE ~(job[w].attempt < MaxAttempts - 1)
  BY <1>2, <1>4, AbortStep DEF PutRetry
<1> QED BY <1>3, <1>4

LEMMA StopStep ==
  ASSUME PublicationInv, NEW w \in Writer, Stop(w)
  PROVE  PublicationInv'
  BY AbortStep DEF Stop

-----------------------------------------------------------------------------
(* Storing an object: the segments first, the manifest last.                *)

\* What a PUT does to the store.
LEMMA StoredObject ==
  ASSUME PublicationInv, NEW w \in Writer, job[w].pc = "put", StoreObject(job[w])
  PROVE  /\ segments' \subseteq Segment /\ segments \subseteq segments'
         /\ ~AtManifest(job[w]) => CurrentDigest(job[w]) \in segments'
         /\ versions' \in [Version -> Manifest \cup {NoManifest}]
         /\ checkpoints' \subseteq Manifest
         /\ \A m \in Readable' :
               \/ m \in Readable
               \/ m = job[w].manifest /\ AtManifest(job[w])
<1>1. /\ job[w] \in JobType /\ JobOK(job[w], segments)
      /\ segments \subseteq Segment /\ checkpoints \subseteq Manifest
      /\ versions \in [Version -> Manifest \cup {NoManifest}]
  BY DEF PublicationInv, TypeOK
<1>2. /\ job[w].manifest \in Manifest
      /\ job[w].next \in 1 .. Len(job[w].manifest.segments) + 1
  BY <1>1 DEF JobOK, Running
<1>3. CASE ~AtManifest(job[w])
  <2>1. CurrentDigest(job[w]) \in Segment
    <3>1. job[w].next \in 1 .. Len(job[w].manifest.segments)
      BY <1>2, <1>3 DEF AtManifest, Manifest
    <3>2. job[w].manifest.segments[job[w].next] \in Reference
      BY <1>2, <3>1 DEF Manifest
    <3> QED BY <3>2, DigestType DEF CurrentDigest
  <2>2. /\ segments' = segments \cup {CurrentDigest(job[w])}
        /\ checkpoints' = checkpoints /\ versions' = versions
    BY <1>3 DEF StoreObject
  <2>3. Readable' = Readable
    BY <2>2 DEF Readable, Published
  <2> QED BY <1>1, <1>3, <2>1, <2>2, <2>3
<1>4. CASE AtManifest(job[w]) /\ job[w].checkpoint
  <2>1. /\ segments' = segments /\ versions' = versions
        /\ checkpoints' = checkpoints \cup {job[w].manifest}
    BY <1>4 DEF StoreObject
  <2>2. \A m \in Readable' : m \in Readable \/ m = job[w].manifest
    BY <2>1 DEF Readable, Published
  <2> QED BY <1>1, <1>2, <1>4, <2>1, <2>2
<1>5. CASE AtManifest(job[w]) /\ ~job[w].checkpoint
  <2>1. /\ segments' = segments /\ checkpoints' = checkpoints
        /\ versions' = [versions EXCEPT ![job[w].manifest.version] = job[w].manifest]
    BY <1>5 DEF StoreObject
  <2>2. versions' \in [Version -> Manifest \cup {NoManifest}]
    BY <1>1, <1>2, <2>1
  <2>3. \A m \in Readable' : m \in Readable \/ m = job[w].manifest
    <3>1. \A v \in Version : versions'[v] = versions[v] \/ versions'[v] = job[w].manifest
      BY <1>1, <2>1
    <3> QED BY <2>1, <3>1 DEF Readable, Published
  <2> QED BY <1>1, <1>5, <2>1, <2>2, <2>3
<1> QED BY <1>3, <1>4, <1>5

\* Whoever stores an object and leaves a job in order keeps the invariant: when
\* the object is a manifest, all its segments were stored before.
LEMMA StoreStep ==
  ASSUME PublicationInv, NEW w \in Writer, job[w].pc = "put", StoreObject(job[w]),
         NEW j \in JobType, JobOK(j, segments'), job' = [job EXCEPT ![w] = j]
  PROVE  PublicationInv'
<1>1. /\ segments' \subseteq Segment /\ segments \subseteq segments'
      /\ versions' \in [Version -> Manifest \cup {NoManifest}]
      /\ checkpoints' \subseteq Manifest
      /\ \A m \in Readable' :
            \/ m \in Readable
            \/ m = job[w].manifest /\ AtManifest(job[w])
  BY StoredObject
<1>2. /\ job' \in [Writer -> JobType]
      /\ \A v \in Writer : JobOK(job'[v], segments')
  BY <1>1, JobsStep DEF PublicationInv
<1>3. TypeOK'
  BY <1>1, <1>2 DEF TypeOK
<1>4. ASSUME NEW m \in Readable'
      PROVE  Digests(m.segments) \subseteq segments' /\ m.segments # <<>>
  <2>1. CASE m \in Readable
    BY <1>1, <2>1 DEF PublicationInv, ManifestsClosed, ChainsHaveBases
  <2>2. CASE m = job[w].manifest /\ AtManifest(job[w])
    <3>1. /\ m \in Manifest /\ m.segments # <<>>
          /\ job[w].next \in 1 .. Len(m.segments) + 1
          /\ \A i \in 1 .. job[w].next - 1 : Digest(m.segments[i]) \in segments
      BY <2>2 DEF PublicationInv, JobOK, Running
    <3>2. job[w].next > Len(m.segments) /\ Len(m.segments) \in Nat
      BY <2>2, <3>1 DEF AtManifest, Manifest
    <3>3. \A i \in 1 .. Len(m.segments) : Digest(m.segments[i]) \in segments
      BY <3>1, <3>2
    <3> QED BY <1>1, <3>1, <3>3 DEF Digests
  <2> QED BY <1>1, <1>4, <2>1, <2>2
<1>5. ManifestsClosed' /\ ChainsHaveBases'
  BY <1>4 DEF ManifestsClosed, ChainsHaveBases
<1> QED BY <1>2, <1>3, <1>5 DEF PublicationInv

LEMMA PutStep ==
  ASSUME PublicationInv, NEW w \in Writer, Put(w)
  PROVE  PublicationInv'
<1>1. job[w].pc = "put" /\ StoreObject(job[w]) /\ Advance(w)
  BY DEF Put
<1>2. /\ segments \subseteq segments'
      /\ ~AtManifest(job[w]) => CurrentDigest(job[w]) \in segments'
  BY <1>1, StoredObject
<1>3. PICK j \in JobType : JobOK(j, segments') /\ job' = [job EXCEPT ![w] = j]
  BY <1>1, <1>2, AdvanceJob
<1> QED BY <1>1, <1>3, StoreStep

LEMMA PutLostResponseStep ==
  ASSUME PublicationInv, NEW w \in Writer, PutLostResponse(w)
  PROVE  PublicationInv'
<1>1. /\ job[w].pc = "put" /\ StoreObject(job[w])
      /\ job' = [job EXCEPT ![w] = [Idle EXCEPT !.pc = "idle"]]
  BY DEF PutLostResponse, Abort
<1> QED BY <1>1, StoppedJob, StoreStep

-----------------------------------------------------------------------------
(* The theorems.                                                            *)

LEMMA PublicationInit == Init => PublicationInv
<1> SUFFICES ASSUME Init PROVE PublicationInv
  OBVIOUS
<1>1. Idle.pc = "idle" /\ Idle \in JobType
  BY IdleType DEF Idle
<1>2. Readable = {}
  BY DEF Init, Readable, Published
<1>3. TypeOK
  BY <1>1 DEF Init, TypeOK
<1>4. \A w \in Writer : JobOK(job[w], segments)
  BY <1>1 DEF Init, JobOK, Running
<1> QED BY <1>2, <1>3, <1>4 DEF PublicationInv, ManifestsClosed, ChainsHaveBases

LEMMA PublicationNext == PublicationInv /\ [Next]_vars => PublicationInv'
<1> SUFFICES ASSUME PublicationInv, [Next]_vars PROVE PublicationInv'
  OBVIOUS
<1>1. CASE UNCHANGED vars
  BY <1>1 DEF vars, objects, PublicationInv, TypeOK, ManifestsClosed, ChainsHaveBases,
              Readable, Published
<1>2. ASSUME NEW w \in Writer, Start(w) PROVE PublicationInv'
  BY <1>2, StartCreateStep, StartUpdateStep, StartRebaseStep, StartCompactStep DEF Start
<1>3. ASSUME NEW w \in Writer, Step(w) PROVE PublicationInv'
  BY <1>3, CompactPushStep, CompactMergeStep, CompactDoneStep, InspectStep,
     InspectMissingStep, PutStep, PutExistsStep, PutRetryStep, PutLostResponseStep
     DEF Step, Publish
<1>4. ASSUME NEW w \in Writer, Stop(w) PROVE PublicationInv'
  BY <1>4, StopStep
<1> QED BY <1>1, <1>2, <1>3, <1>4 DEF Next

\* The invariant of publication holds in every reachable state.
THEOREM PublicationInvariant == Spec => []PublicationInv
  BY PublicationInit, PublicationNext, PTL DEF Spec

\* The store and the jobs of all writers keep their types.
THEOREM TypeCorrect == Spec => []TypeOK
<1>1. PublicationInv => TypeOK
  BY DEF PublicationInv
<1> QED BY <1>1, PublicationInvariant, PTL

\* S3IndexStore._publish: a manifest that can be read never names a segment that
\* is not in S3, for any number of writers, crashes, retries and lost answers.
THEOREM ManifestsAreClosed == Spec => []ManifestsClosed
<1>1. PublicationInv => ManifestsClosed
  BY DEF PublicationInv
<1> QED BY <1>1, PublicationInvariant, PTL

-----------------------------------------------------------------------------
(* What readable chains, and chains under way, answer.                      *)
(*                                                                         *)
(* The published manifests are a parameter, so that a fact about a chain    *)
(* can be carried to the next state, where more of them are published.      *)

\* The chain, cut after segment i, answers as the version the segment ends at.
Carries(published, refs, i) ==
    LET v == refs[i].end
    IN  /\ published[v] # NoManifest
        /\ View(SubSeq(refs, 1, i)) = View(published[v].segments)

CarriesAll(published, refs) == \A i \in 1 .. Len(refs) : Carries(published, refs, i)

EndsAt(refs, v) == refs # <<>> /\ refs[Len(refs)].end = v

\* The content a call asks for.
Asked(published, c) ==
    [k \in Key |->
        IF c.entries[k] # NoEntry THEN c.entries[k]
        ELSE IF c.previous = NoVersion \/ k \in c.removed THEN NoEntry
        ELSE View(published[c.previous].segments)[k]]

Answers(published, j) ==
    /\ j.call \in Call /\ j.call.version = j.manifest.version
    /\ j.call.previous # NoVersion => published[j.call.previous] # NoManifest
    /\ View(j.manifest.segments) = Asked(published, j.call)

\* A compaction holds a chain of published contents in its two halves; a new
\* version only lacks its own publication, and has the content that was asked for.
JobContent(published, j) ==
    /\ j.pc \notin Running \/ j.checkpoint => j.call = NoCall
    /\ j.pc = "compact" => /\ j.checkpoint
                           /\ CarriesAll(published, j.stack \o j.rest)
                           /\ EndsAt(j.stack \o j.rest, j.manifest.version)
    /\ j.pc \in {"inspect", "put"} =>
          LET refs == j.manifest.segments
          IN  /\ EndsAt(refs, j.manifest.version)
              /\ \A i \in 1 .. Len(refs) - 1 : Carries(published, refs, i)
              /\ IF j.checkpoint THEN CarriesAll(published, refs) ELSE Answers(published, j)

ContentInv ==
    /\ \A m \in Readable : CarriesAll(versions, m.segments) /\ EndsAt(m.segments, m.version)
    /\ \A w \in Writer : JobContent(versions, job[w])

\* Versions are published once.
Extends(published, more) ==
    \A v \in Version : published[v] # NoManifest => more[v] = published[v]

LEMMA CarriesExtends ==
  ASSUME NEW published, NEW more, Extends(published, more),
         NEW refs \in Seq(Reference), NEW i \in 1 .. Len(refs), Carries(published, refs, i)
  PROVE  Carries(more, refs, i)
<1>1. refs[i] \in Reference
  OBVIOUS
<1>2. refs[i].end \in Version
  BY <1>1 DEF Reference
<1> QED BY <1>2 DEF Carries, Extends

LEMMA AnswersExtend ==
  ASSUME NEW published, NEW more, Extends(published, more), NEW j, Answers(published, j)
  PROVE  Answers(more, j)
<1>1. j.call.previous \in Version \cup {NoVersion}
  BY DEF Answers, Call
<1>2. j.call.previous # NoVersion => more[j.call.previous] = published[j.call.previous]
  BY <1>1 DEF Answers, Extends
<1>3. Asked(more, j.call) = Asked(published, j.call)
  BY <1>2 DEF Asked
<1> QED BY <1>2, <1>3 DEF Answers

LEMMA JobContentExtends ==
  ASSUME NEW published, NEW more, Extends(published, more),
         NEW j \in JobType, NEW stored, JobOK(j, stored), JobContent(published, j)
  PROVE  JobContent(more, j)
<1>1. j.stack \in Seq(Reference) /\ j.rest \in Seq(Reference)
  BY DEF JobType
<1>2. j.stack \o j.rest \in Seq(Reference)
  BY <1>1
<1>3. j.pc = "compact" => CarriesAll(more, j.stack \o j.rest)
  BY <1>2, CarriesExtends DEF JobContent, CarriesAll
<1>4. CASE j.pc \in {"inspect", "put"}
  <2>1. j.manifest.segments \in Seq(Reference) /\ Len(j.manifest.segments) \in Nat
    BY <1>4 DEF JobOK, Running, Manifest
  <2>2. \A i \in 1 .. Len(j.manifest.segments) :
            Carries(published, j.manifest.segments, i) => Carries(more, j.manifest.segments, i)
    BY <2>1, CarriesExtends
  <2>3. /\ \A i \in 1 .. Len(j.manifest.segments) - 1 : Carries(more, j.manifest.segments, i)
        /\ j.checkpoint => CarriesAll(more, j.manifest.segments)
    BY <1>4, <2>1, <2>2 DEF JobContent, CarriesAll
  <2>4. ~j.checkpoint => Answers(more, j)
    BY <1>4, AnswersExtend DEF JobContent
  <2> QED BY <1>3, <1>4, <2>3, <2>4 DEF JobContent
<1>5. CASE j.pc \notin {"inspect", "put"}
  BY <1>3, <1>5 DEF JobContent
<1> QED BY <1>4, <1>5

\* A chain answers at its cuts whatever comes after them.
LEMMA CarriesBelow ==
  ASSUME NEW published, NEW lower \in Seq(Reference), NEW upper \in Seq(Reference),
         NEW i \in 1 .. Len(lower)
  PROVE  Carries(published, lower \o upper, i) <=> Carries(published, lower, i)
<1>1. (lower \o upper)[i] = lower[i]
  OBVIOUS
<1>2. SubSeq(lower \o upper, 1, i) = SubSeq(lower, 1, i)
  OBVIOUS
<1> QED BY <1>1, <1>2 DEF Carries

\* The cut at the end of a chain is the chain.
LEMMA CarriesWhole ==
  ASSUME NEW published, NEW refs \in Seq(Reference), NEW v, EndsAt(refs, v)
  PROVE  /\ Len(refs) \in 1 .. Len(refs)
         /\ Carries(published, refs, Len(refs))
               <=> published[v] # NoManifest /\ View(refs) = View(published[v].segments)
<1>1. Len(refs) \in Nat /\ Len(refs) # 0
  BY DEF EndsAt
<1>2. SubSeq(refs, 1, Len(refs)) = refs
  OBVIOUS
<1>3. refs[Len(refs)].end = v
  BY DEF EndsAt
<1>4. Carries(published, refs, Len(refs))
         <=> published[v] # NoManifest /\ View(refs) = View(published[v].segments)
  BY <1>2, <1>3, Zenon DEF Carries
<1> QED BY <1>1, <1>4

LEMMA ExtendsItself == ASSUME NEW published PROVE Extends(published, published)
  BY DEF Extends

\* What a step has to show: its writer's job, and the manifest it stored, if any.
LEMMA ContentStep ==
  ASSUME PublicationInv, ContentInv, Extends(versions, versions'),
         NEW w \in Writer, NEW j, job' = [job EXCEPT ![w] = j], JobContent(versions', j),
         \A m \in Readable' : \/ m \in Readable
                              \/ /\ CarriesAll(versions', m.segments)
                                 /\ EndsAt(m.segments, m.version)
  PROVE  ContentInv'
<1>1. ASSUME NEW m \in Readable
      PROVE  CarriesAll(versions', m.segments) /\ EndsAt(m.segments, m.version)
  <2>1. m.segments \in Seq(Reference)
    BY ReadableType DEF PublicationInv, Manifest
  <2> QED BY <1>1, <2>1, CarriesExtends DEF ContentInv, CarriesAll
<1>2. ASSUME NEW x \in Writer PROVE JobContent(versions', job'[x])
  <2>0. job \in [Writer -> JobType]
    BY DEF PublicationInv, TypeOK
  <2>1. CASE x = w
    BY <2>0, <2>1
  <2>2. CASE x # w
    <3>1. job'[x] = job[x] /\ job[x] \in JobType
      BY <2>0, <2>2
    <3>2. JobOK(job[x], segments) /\ JobContent(versions, job[x])
      BY DEF PublicationInv, ContentInv
    <3> QED BY <3>1, <3>2, JobContentExtends
  <2> QED BY <2>1, <2>2
<1> QED BY <1>1, <1>2 DEF ContentInv, CarriesAll, Carries, JobContent, Answers, Asked

\* A step that stores nothing.
LEMMA ContentLocalStep ==
  ASSUME PublicationInv, ContentInv, UNCHANGED objects,
         NEW w \in Writer, NEW j, job' = [job EXCEPT ![w] = j], JobContent(versions, j)
  PROVE  ContentInv'
<1>1. versions' = versions /\ Readable' = Readable
  BY DEF objects, Readable, Published
<1>2. Extends(versions, versions') /\ JobContent(versions', j)
  BY <1>1, ExtendsItself
<1> QED BY <1>1, <1>2, ContentStep

LEMMA StoppedContent ==
  ASSUME NEW published, NEW outcome \in {"idle", "done", "conflict"}
  PROVE  JobContent(published, [Idle EXCEPT !.pc = outcome])
<1>1. /\ [Idle EXCEPT !.pc = outcome].pc = outcome
      /\ [Idle EXCEPT !.pc = outcome].call = NoCall
  BY DEF Idle
<1> QED BY <1>1 DEF JobContent, Running

-----------------------------------------------------------------------------
(* Merging two runs of a chain loses one cut and keeps all others.          *)

LEMMA ChainsConcatenate ==
  \A a, b, c \in Seq(Reference) : (a \o b) \o c = a \o (b \o c)
  BY ConcatAssociative

\* Lengths and last segments of chains put together.
LEMMA ConcatenatedChains ==
  \A a, b \in Seq(Reference) :
      /\ a \o b \in Seq(Reference) /\ Len(a) \in Nat /\ Len(b) \in Nat
      /\ Len(a \o b) = Len(a) + Len(b)
      /\ b # <<>> => (a \o b)[Len(a) + Len(b)] = b[Len(b)]
  OBVIOUS

LEMMA ShortChains ==
  \A r, s \in Reference :
      /\ <<r>> \in Seq(Reference) /\ Len(<<r>>) = 1 /\ <<r>> # <<>>
      /\ <<r, s>> \in Seq(Reference) /\ Len(<<r, s>>) = 2
  OBVIOUS

LEMMA CarriesWholeView ==
  ASSUME NEW published, NEW a \in Seq(Reference), NEW b \in Seq(Reference), NEW v,
         EndsAt(a, v), EndsAt(b, v), \A k \in Key : NewestOperation(a, k) = NewestOperation(b, k)
  PROVE  Carries(published, a, Len(a)) <=> Carries(published, b, Len(b))
<1>1. View(a) = View(b)
  BY DEF View
<1> QED BY <1>1, CarriesWhole

\* A chain that continues below and above the cut after its lower part.
LEMMA CutOf ==
  ASSUME NEW published, NEW lower \in Seq(Reference), NEW upper \in Seq(Reference),
         NEW i \in 1 .. Len(upper)
  PROVE  LET cut == lower \o SubSeq(upper, 1, i)
         IN  /\ cut \in Seq(Reference) /\ Len(cut) = Len(lower) + i
             /\ EndsAt(cut, upper[i].end)
             /\ Carries(published, lower \o upper, Len(lower) + i)
                   <=> Carries(published, cut, Len(cut))
<1> DEFINE part == SubSeq(upper, 1, i)
           cut  == lower \o part
           rest == SubSeq(upper, i + 1, Len(upper))
<1>1. /\ part \in Seq(Reference) /\ Len(part) = i /\ part[i] = upper[i]
      /\ rest \in Seq(Reference)
  OBVIOUS
<1>2. part \o rest = upper
  BY ConcatAdjacentSubSeq, SubSeqFull
<1> HIDE DEF part, rest
<1>3. cut \in Seq(Reference) /\ Len(cut) = Len(lower) + i /\ cut[Len(lower) + i] = upper[i]
  BY <1>1
<1>4. EndsAt(cut, upper[i].end)
  BY <1>1, <1>3 DEF EndsAt
<1>5. lower \o upper = cut \o rest
  BY <1>1, <1>2, ChainsConcatenate, Zenon
<1>6. Len(cut) \in 1 .. Len(cut)
  BY <1>1, <1>3
<1>7. Carries(published, lower \o upper, Len(lower) + i) <=> Carries(published, cut, Len(cut))
  <2> HIDE DEF cut
  <2>1. Carries(published, cut \o rest, Len(cut)) <=> Carries(published, cut, Len(cut))
    BY <1>1, <1>3, <1>6, CarriesBelow, Zenon
  <2> QED BY <1>3, <1>5, <2>1, Zenon
<1> QED BY <1>3, <1>4, <1>7 DEF part

\* The cuts above a lower part do not depend on how it is divided.
LEMMA SameAbove ==
  ASSUME NEW published,
         NEW a \in Seq(Reference), NEW b \in Seq(Reference), NEW upper \in Seq(Reference),
         \A k \in Key : NewestOperation(a, k) = NewestOperation(b, k),
         NEW i \in 1 .. Len(upper)
  PROVE  Carries(published, a \o upper, Len(a) + i) <=> Carries(published, b \o upper, Len(b) + i)
<1> DEFINE part == SubSeq(upper, 1, i)
<1>1. part \in Seq(Reference)
  OBVIOUS
<1>2. \A k \in Key : NewestOperation(a \o part, k) = NewestOperation(b \o part, k)
  BY <1>1, SameBelow
<1>3. /\ a \o part \in Seq(Reference) /\ EndsAt(a \o part, upper[i].end)
      /\ Carries(published, a \o upper, Len(a) + i) <=> Carries(published, a \o part, Len(a \o part))
  BY CutOf
<1>4. /\ b \o part \in Seq(Reference) /\ EndsAt(b \o part, upper[i].end)
      /\ Carries(published, b \o upper, Len(b) + i) <=> Carries(published, b \o part, Len(b \o part))
  BY CutOf
<1> HIDE DEF part
<1>5. Carries(published, a \o part, Len(a \o part)) <=> Carries(published, b \o part, Len(b \o part))
  BY <1>2, <1>3, <1>4, CarriesWholeView
<1> QED BY <1>3, <1>4, <1>5

LEMMA StackedChains ==
  \A a, b, c \in Seq(Reference) :
      /\ (a \o b) \o c \in Seq(Reference)
      /\ Len((a \o b) \o c) = Len(a) + Len(b) + Len(c)
      /\ Len(b) > 0 => (a \o b)[Len(a) + Len(b)] = b[Len(b)]
<1> TAKE a, b, c \in Seq(Reference)
<1> DEFINE ab == a \o b
<1>1. ab \in Seq(Reference) /\ Len(ab) = Len(a) + Len(b)
  BY ConcatenatedChains
<1>2. Len(b) > 0 => ab[Len(a) + Len(b)] = b[Len(b)]
  <2>1. Len(b) > 0 => b # <<>>
    OBVIOUS
  <2> QED BY <2>1, ConcatenatedChains
<1> HIDE DEF ab
<1>3. ab \o c \in Seq(Reference) /\ Len(ab \o c) = Len(ab) + Len(c)
  BY <1>1, ConcatenatedChains
<1>4. Len(ab \o c) = Len(a) + Len(b) + Len(c)
  BY <1>1, <1>3, Zenon
<1> QED BY <1>2, <1>3, <1>4 DEF ab

\* A merged chain ends where the chain ended.
LEMMA MergeTopEnd ==
  ASSUME NEW stack \in Seq(Reference), EqualLevels(stack)
  PROVE  /\ Len(MergeTop(stack)) = Len(stack) - 1
         /\ MergeTop(stack)[Len(stack) - 1].end = stack[Len(stack)].end
<1> DEFINE lower == SubSeq(stack, 1, Len(stack) - 2)
           top   == TopMerged(stack)
           n     == Len(stack)
<1>1. /\ n \in Nat /\ lower \in Seq(Reference) /\ Len(lower) = n - 2 /\ top \in Reference
  BY MergeTopShape
<1>2. MergeTop(stack) = Append(lower, top) /\ top.end = stack[n].end
  BY DEF TopMerged, MergedReference, MergeTop
<1> HIDE DEF lower, top, n
<1>3. Len(Append(lower, top)) = n - 1 /\ Append(lower, top)[n - 1] = top
  BY <1>1, AppendProperties
<1> QED BY <1>2, <1>3 DEF n

\* Two runs over a common lower part give way to one run that decides alike.
LEMMA MergedPair ==
  ASSUME NEW published, NEW v,
         NEW stack \in Seq(Reference), NEW merged \in Seq(Reference), NEW rest \in Seq(Reference),
         Len(stack) >= 3, Len(merged) = Len(stack) - 1,
         merged[Len(stack) - 1].end = stack[Len(stack)].end,
         \A i \in 1 .. Len(stack) - 2 :
             Carries(published, stack \o rest, i) => Carries(published, merged \o rest, i),
         \A k \in Key : NewestOperation(merged, k) = NewestOperation(stack, k),
         CarriesAll(published, stack \o rest), EndsAt(stack \o rest, v)
  PROVE  CarriesAll(published, merged \o rest) /\ EndsAt(merged \o rest, v)
<1> DEFINE n == Len(stack) - 2
<1>1. /\ n \in Nat /\ Len(stack) = n + 2 /\ Len(merged) = n + 1
      /\ merged[n + 1].end = stack[n + 2].end
  OBVIOUS
<1>2. \A i \in 1 .. n : Carries(published, stack \o rest, i) => Carries(published, merged \o rest, i)
  OBVIOUS
<1> HIDE DEF n
<1>3. /\ Len(rest) \in Nat
      /\ Len(stack \o rest) = n + 2 + Len(rest) /\ Len(merged \o rest) = n + 1 + Len(rest)
  <2>1. Len(rest) \in Nat
    OBVIOUS
  <2>2. /\ Len(stack \o rest) = Len(stack) + Len(rest)
        /\ Len(merged \o rest) = Len(merged) + Len(rest)
    BY ConcatenatedChains, Zenon
  <2>3. Len(stack \o rest) = n + 2 + Len(rest) /\ Len(merged \o rest) = n + 1 + Len(rest)
    BY <1>1, <2>2, Zenon
  <2> QED BY <2>1, <2>3, Zenon
<1>6. ASSUME NEW i \in 1 .. n PROVE Carries(published, merged \o rest, i)
  BY <1>1, <1>2, <1>3 DEF CarriesAll
<1>7. Carries(published, merged \o rest, n + 1)
  <2>1. /\ Carries(published, stack \o rest, n + 2)
        /\ n + 2 \in 1 .. Len(stack) /\ n + 1 \in 1 .. Len(merged)
    BY <1>1, <1>3 DEF CarriesAll
  <2>2. Carries(published, stack, n + 2)
    BY <2>1, CarriesBelow
  <2>3. EndsAt(stack, stack[n + 2].end) /\ EndsAt(merged, stack[n + 2].end)
    BY <1>1 DEF EndsAt
  <2>4. Carries(published, merged, n + 1)
    BY <1>1, <2>2, <2>3, CarriesWholeView
  <2> QED BY <2>1, <2>4, CarriesBelow
<1>8. ASSUME NEW i \in 1 .. Len(rest) PROVE Carries(published, merged \o rest, n + 1 + i)
  <2>1. Carries(published, stack \o rest, n + 2 + i)
    BY <1>1, <1>3 DEF CarriesAll
  <2> QED BY <1>1, <2>1, SameAbove
<1>9. CarriesAll(published, merged \o rest)
  <2> SUFFICES ASSUME NEW i \in 1 .. n + 1 + Len(rest)
               PROVE  Carries(published, merged \o rest, i)
    BY <1>1, <1>3 DEF CarriesAll
  <2>1. CASE i \in 1 .. n
    BY <1>6, <2>1
  <2>2. CASE i = n + 1
    BY <1>7, <2>2
  <2>3. CASE i > n + 1
    <3>1. i - (n + 1) \in 1 .. Len(rest) /\ n + 1 + (i - (n + 1)) = i
      BY <1>1, <2>3
    <3> QED BY <1>8, <3>1
  <2> QED BY <1>1, <2>1, <2>2, <2>3
<1>10. EndsAt(merged \o rest, v)
  <2>1. CASE rest = <<>>
    <3>1. stack \o rest = stack /\ merged \o rest = merged
      BY <2>1
    <3>2. merged # <<>>
      BY <1>1
    <3>3. stack[n + 2].end = v
      BY <1>1, <3>1 DEF EndsAt
    <3>4. merged[Len(merged)].end = v
      BY <1>1, <3>3, Zenon
    <3> QED BY <3>1, <3>2, <3>4, Zenon DEF EndsAt
  <2>2. CASE rest # <<>>
    <3>1. Len(rest) >= 1
      BY <2>2
    <3>2. /\ (stack \o rest)[n + 2 + Len(rest)] = rest[Len(rest)]
          /\ (merged \o rest)[n + 1 + Len(rest)] = rest[Len(rest)]
      <4>1. /\ (stack \o rest)[Len(stack) + Len(rest)] = rest[Len(rest)]
            /\ (merged \o rest)[Len(merged) + Len(rest)] = rest[Len(rest)]
        BY <2>2, ConcatenatedChains, Zenon
      <4> QED BY <1>1, <4>1, Zenon
    <3>3. merged \o rest # <<>>
      BY <1>1, <1>3, <3>1
    <3> QED BY <1>3, <3>2, <3>3 DEF EndsAt
  <2> QED BY <2>1, <2>2
<1> QED BY <1>9, <1>10

\* One step of a compaction keeps what every remaining cut of the chain answers.
LEMMA MergeKeeps ==
  ASSUME NEW published, NEW stack \in Seq(Reference), NEW rest \in Seq(Reference), NEW v,
         EqualLevels(stack), CarriesAll(published, stack \o rest), EndsAt(stack \o rest, v)
  PROVE  /\ CarriesAll(published, MergeTop(stack) \o rest)
         /\ EndsAt(MergeTop(stack) \o rest, v)
<1> DEFINE n      == Len(stack)
           lower  == SubSeq(stack, 1, n - 2)
           pair   == <<stack[n - 1], stack[n]>>
           single == <<TopMerged(stack)>>
           merged == MergeTop(stack)
<1>1. /\ n \in Nat /\ n >= 3 /\ stack[n - 1] \in Reference /\ stack[n] \in Reference
      /\ TopMerged(stack) \in Reference /\ lower \in Seq(Reference) /\ Len(lower) = n - 2
      /\ stack = lower \o pair /\ merged = lower \o single /\ merged \in Seq(Reference)
  BY MergeTopShape
<1>2. pair \in Seq(Reference) /\ single \in Seq(Reference)
  BY <1>1, ShortChains
<1>3. Len(merged) = n - 1 /\ merged[n - 1].end = stack[n].end
  BY MergeTopEnd
<1>4. \A k \in Key : NewestOperation(merged, k) = NewestOperation(stack, k)
  BY MergeTopNewest
<1> HIDE DEF lower, pair, single, merged
<1>5. /\ stack \o rest = lower \o (pair \o rest) /\ pair \o rest \in Seq(Reference)
      /\ merged \o rest = lower \o (single \o rest) /\ single \o rest \in Seq(Reference)
  <2>0. lower \in Seq(Reference)
    BY <1>1
  <2>1. (lower \o pair) \o rest = lower \o (pair \o rest)
    BY <1>2, <2>0, ChainsConcatenate, Zenon
  <2>3. (lower \o single) \o rest = lower \o (single \o rest)
    BY <1>2, <2>0, ChainsConcatenate, Zenon
  <2>2. pair \o rest \in Seq(Reference) /\ single \o rest \in Seq(Reference)
    BY <1>2, ConcatenatedChains, Zenon
  <2> QED BY <1>1, <2>1, <2>2, <2>3, Zenon
<1>6. ASSUME NEW i \in 1 .. n - 2, Carries(published, stack \o rest, i)
      PROVE  Carries(published, merged \o rest, i)
  <2>1. lower \in Seq(Reference) /\ i \in 1 .. Len(lower)
    BY <1>1
  <2>2. Carries(published, lower, i)
    BY <1>5, <1>6, <2>1, CarriesBelow
  <2> QED BY <1>5, <2>1, <2>2, CarriesBelow
<1>7. CarriesAll(published, merged \o rest) /\ EndsAt(merged \o rest, v)
  <2>1. merged \in Seq(Reference) /\ n >= 3
    BY <1>1
  <2> QED BY <1>3, <1>4, <1>6, <2>1, MergedPair
<1> QED BY <1>7 DEF merged

-----------------------------------------------------------------------------
(* Building.                                                                *)

LEMMA StartCreateContent ==
  ASSUME PublicationInv, ContentInv,
         NEW w \in Writer, NEW v \in Version, NEW content \in Content, StartCreate(w, v, content)
  PROVE  ContentInv'
<1> DEFINE base == BaseReference(v, content)
           refs == <<base>>
           m    == [version |-> v, parent |-> NoVersion, segments |-> refs]
           call == [version |-> v, previous |-> NoVersion,
                    entries |-> content, removed |-> {}]
           j    == [Idle EXCEPT !.pc = "inspect", !.call = call,
                                !.manifest = m, !.local = {Digest(base)}]
<1>1. job' = [job EXCEPT ![w] = j] /\ UNCHANGED objects
  BY DEF StartCreate
<1>2. call \in Call
  BY DEF Call, Content
<1>3. base \in Reference /\ base.end = v
  BY BaseReferenceType DEF BaseReference
<1>4. View(refs) = content
  BY BaseView
<1>5. Asked(versions, call) = content
  BY DEF Asked, Content
<1> HIDE DEF base
<1>6. refs # <<>> /\ Len(refs) = 1 /\ refs[1] = base
  BY <1>3, ShortChains
<1> HIDE DEF refs
<1>7. m.version = v /\ m.segments = refs /\ call.version = v /\ call.previous = NoVersion
  OBVIOUS
<1> HIDE DEF m, call
<1>8. j.pc = "inspect" /\ j.call = call /\ j.manifest = m /\ ~j.checkpoint
  BY DEF Idle
<1> HIDE DEF j
<1>9. EndsAt(refs, v)
  BY <1>3, <1>6 DEF EndsAt
<1>10. Answers(versions, j)
  BY <1>2, <1>4, <1>5, <1>7, <1>8 DEF Answers
<1>11. \A i \in 1 .. Len(refs) - 1 : Carries(versions, refs, i)
  BY <1>6
<1>12. JobContent(versions, j)
  BY <1>7, <1>8, <1>9, <1>10, <1>11, Zenon DEF JobContent, Running
<1> QED BY <1>1, <1>12, ContentLocalStep

\* A delta is put on a chain whose cuts are all published versions.
LEMMA StartUpdateContent ==
  ASSUME PublicationInv, ContentInv, NEW w \in Writer, NEW v \in Version,
         NEW previous \in Readable, NEW entries \in Content, NEW removed \in SUBSET Key,
         StartUpdate(w, v, previous, entries, removed)
  PROVE  ContentInv'
<1> DEFINE older == previous.segments
           delta == DeltaReference(v, previous.version, entries, removed)
           refs  == Append(older, delta)
           m     == [version |-> v, parent |-> previous.version, segments |-> refs]
           call  == [version |-> v, previous |-> previous.version,
                     entries |-> entries, removed |-> removed]
           j     == [Idle EXCEPT !.pc = "inspect", !.call = call,
                                 !.manifest = m, !.local = {Digest(delta)}]
<1>1. job' = [job EXCEPT ![w] = j] /\ UNCHANGED objects
  BY DEF StartUpdate
<1>2. previous \in Manifest
  BY ReadableType DEF PublicationInv
<1>3. older \in Seq(Reference) /\ previous.version \in Version
  BY <1>2 DEF Manifest
<1>4. CarriesAll(versions, older) /\ EndsAt(older, previous.version)
  BY DEF ContentInv
<1>5. /\ versions[previous.version] # NoManifest
      /\ View(older) = View(versions[previous.version].segments)
  BY <1>3, <1>4, CarriesWhole DEF CarriesAll
<1>6. call \in Call
  BY <1>3 DEF Call, Content
<1>7. delta \in Reference /\ delta.end = v
  BY <1>3, DeltaReferenceType DEF DeltaReference
<1>8. View(refs) = [k \in Key |-> IF entries[k] # NoEntry THEN entries[k]
                                  ELSE IF k \in removed THEN NoEntry ELSE View(older)[k]]
  BY <1>3, DeltaView
<1>9. previous.version # NoVersion
  BY <1>3, FormatAssumption
<1>10. Asked(versions, call) = View(refs)
  BY <1>5, <1>8, <1>9 DEF Asked
<1> HIDE DEF delta
<1>11. /\ refs = older \o <<delta>> /\ <<delta>> \in Seq(Reference)
       /\ refs # <<>> /\ Len(refs) = Len(older) + 1 /\ refs[Len(refs)] = delta
       /\ Len(older) \in Nat
  BY <1>3, <1>7
<1> HIDE DEF older, refs
<1>12. \A i \in 1 .. Len(refs) - 1 : Carries(versions, refs, i)
  <2> SUFFICES ASSUME NEW i \in 1 .. Len(older) PROVE Carries(versions, refs, i)
    BY <1>11
  <2>1. Carries(versions, older, i)
    BY <1>4 DEF CarriesAll
  <2> QED BY <1>3, <1>11, <2>1, CarriesBelow
<1>13. m.version = v /\ m.segments = refs /\ call.version = v /\ call.previous = previous.version
  OBVIOUS
<1> HIDE DEF m, call
<1>14. j.pc = "inspect" /\ j.call = call /\ j.manifest = m /\ ~j.checkpoint
  BY DEF Idle
<1> HIDE DEF j
<1>15. EndsAt(refs, v)
  BY <1>7, <1>11 DEF EndsAt
<1>16. Answers(versions, j)
  BY <1>5, <1>6, <1>10, <1>13, <1>14 DEF Answers
<1>17. JobContent(versions, j)
  BY <1>12, <1>13, <1>14, <1>15, <1>16 DEF JobContent, Running
<1> QED BY <1>1, <1>17, ContentLocalStep

\* A rebase answers as the whole chain it replaces.
LEMMA StartRebaseContent ==
  ASSUME PublicationInv, ContentInv,
         NEW w \in Writer, NEW source \in Readable, StartRebase(w, source)
  PROVE  ContentInv'
<1> DEFINE base  == BaseReference(source.version, View(source.segments))
           refs  == <<base>>
           m     == [source EXCEPT !.segments = refs]
           local == Digests(source.segments) \cup {Digest(base)}
           j     == [Idle EXCEPT !.pc = "inspect", !.checkpoint = TRUE,
                                 !.manifest = m, !.local = local]
<1>1. job' = [job EXCEPT ![w] = j] /\ UNCHANGED objects
  BY DEF StartRebase
<1>2. source \in Manifest
  BY ReadableType DEF PublicationInv
<1>3. source.segments \in Seq(Reference) /\ source.version \in Version
  BY <1>2 DEF Manifest
<1>4. CarriesAll(versions, source.segments) /\ EndsAt(source.segments, source.version)
  BY DEF ContentInv
<1>5. base \in Reference /\ base.end = source.version
  BY <1>3, ViewType, BaseReferenceType DEF BaseReference
<1>6. View(refs) = View(source.segments)
  BY <1>3, RebaseView
<1> HIDE DEF base, local
<1>7. refs \in Seq(Reference) /\ refs # <<>> /\ Len(refs) = 1 /\ refs[1] = base
  BY <1>5, ShortChains
<1> HIDE DEF refs
<1>8. m.version = source.version /\ m.segments = refs
  BY <1>2 DEF Manifest
<1> HIDE DEF m
<1>9. j.pc = "inspect" /\ j.call = NoCall /\ j.manifest = m /\ j.checkpoint
  BY DEF Idle
<1> HIDE DEF j
<1>10. EndsAt(refs, source.version)
  BY <1>5, <1>7 DEF EndsAt
<1>11. /\ versions[source.version] # NoManifest
       /\ View(source.segments) = View(versions[source.version].segments)
  BY <1>3, <1>4, CarriesWhole DEF CarriesAll
<1>12. Carries(versions, refs, 1)
  BY <1>6, <1>7, <1>10, <1>11, CarriesWhole
<1>13. CarriesAll(versions, refs)
  BY <1>7, <1>12 DEF CarriesAll
<1>14. JobContent(versions, j)
  <2>1. \A i \in 1 .. Len(refs) - 1 : Carries(versions, refs, i)
    BY <1>7
  <2> QED BY <1>8, <1>9, <1>10, <1>13, <2>1, Zenon DEF JobContent, Running
<1> QED BY <1>1, <1>14, ContentLocalStep

LEMMA SplitChain ==
  ASSUME NEW refs \in Seq(Reference), refs # <<>>
  PROVE  <<Head(refs)>> \o Tail(refs) = refs
  OBVIOUS

LEMMA StartCompactContent ==
  ASSUME PublicationInv, ContentInv,
         NEW w \in Writer, NEW source \in Readable, StartCompact(w, source)
  PROVE  ContentInv'
<1> DEFINE first == <<Head(source.segments)>>
           rest  == Tail(source.segments)
           local == Digests(source.segments)
           j     == [Idle EXCEPT !.pc = "compact", !.checkpoint = TRUE,
                                 !.manifest = source, !.local = local,
                                 !.stack = first, !.rest = rest]
<1>1. job' = [job EXCEPT ![w] = j] /\ UNCHANGED objects
  BY DEF StartCompact
<1>2. source.segments \in Seq(Reference) /\ source.segments # <<>>
  BY ReadableType DEF PublicationInv, ChainsHaveBases, Manifest
<1>3. CarriesAll(versions, source.segments) /\ EndsAt(source.segments, source.version)
  BY DEF ContentInv
<1>4. first \o rest = source.segments
  BY <1>2, SplitChain
<1> HIDE DEF first, rest, local
<1>5. /\ j.pc = "compact" /\ j.call = NoCall /\ j.manifest = source /\ j.checkpoint
      /\ j.stack = first /\ j.rest = rest
  BY DEF Idle
<1> HIDE DEF j
<1>6. JobContent(versions, j)
  BY <1>3, <1>4, <1>5 DEF JobContent, Running
<1> QED BY <1>1, <1>6, ContentLocalStep

LEMMA MovedReference ==
  ASSUME NEW stack \in Seq(Reference), NEW rest \in Seq(Reference), rest # <<>>
  PROVE  Append(stack, Head(rest)) \o Tail(rest) = stack \o rest
<1> DEFINE top  == Head(rest)
           tail == Tail(rest)
<1>1. top \in Reference /\ tail \in Seq(Reference) /\ <<top>> \o tail = rest
  BY SplitChain
<1> HIDE DEF top, tail
<1>2. Append(stack, top) = stack \o <<top>> /\ <<top>> \in Seq(Reference)
  BY <1>1, ShortChains
<1>3. (stack \o <<top>>) \o tail = stack \o (<<top>> \o tail)
  BY <1>1, <1>2, ChainsConcatenate, Zenon
<1> QED BY <1>1, <1>2, <1>3 DEF top, tail

\* What compact() knows of its job before one of its steps.
LEMMA CompactingJob ==
  ASSUME PublicationInv, ContentInv, NEW w \in Writer, job[w].pc = "compact"
  PROVE  /\ job \in [Writer -> JobType] /\ job[w] \in JobType
         /\ job[w].stack \in Seq(Reference) /\ job[w].rest \in Seq(Reference)
         /\ job[w].manifest \in Manifest
         /\ job[w].call = NoCall /\ job[w].checkpoint
         /\ CarriesAll(versions, job[w].stack \o job[w].rest)
         /\ EndsAt(job[w].stack \o job[w].rest, job[w].manifest.version)
<1>1. job \in [Writer -> JobType] /\ job[w] \in JobType /\ JobOK(job[w], segments)
  BY DEF PublicationInv, TypeOK
<1>2. JobContent(versions, job[w])
  BY DEF ContentInv
<1>3. job[w].stack \in Seq(Reference) /\ job[w].rest \in Seq(Reference)
  BY <1>1 DEF JobType
<1>4. job[w].manifest \in Manifest
  BY <1>1 DEF JobOK, Running
<1> QED BY <1>1, <1>2, <1>3, <1>4 DEF JobContent

LEMMA CompactPushContent ==
  ASSUME PublicationInv, ContentInv, NEW w \in Writer, CompactPush(w)
  PROVE  ContentInv'
<1> DEFINE stack == Append(job[w].stack, Head(job[w].rest))
           rest  == Tail(job[w].rest)
           j     == [job[w] EXCEPT !.stack = stack, !.rest = rest]
<1>1. job[w].pc = "compact" /\ job[w].rest # <<>>
  BY DEF CompactPush
<1>2. /\ job \in [Writer -> JobType] /\ job[w] \in JobType
      /\ job[w].stack \in Seq(Reference) /\ job[w].rest \in Seq(Reference)
      /\ job[w].call = NoCall /\ job[w].checkpoint
      /\ CarriesAll(versions, job[w].stack \o job[w].rest)
      /\ EndsAt(job[w].stack \o job[w].rest, job[w].manifest.version)
  BY <1>1, CompactingJob
<1>3. job' = [job EXCEPT ![w] = j] /\ UNCHANGED objects
  BY <1>2 DEF CompactPush
<1>4. stack \o rest = job[w].stack \o job[w].rest
  BY <1>1, <1>2, MovedReference
<1> HIDE DEF stack, rest
<1>5. /\ j.pc = "compact" /\ j.call = NoCall /\ j.checkpoint
      /\ j.manifest = job[w].manifest /\ j.stack = stack /\ j.rest = rest
  BY <1>1, <1>2 DEF JobType
<1> HIDE DEF j
<1>6. JobContent(versions, j)
  BY <1>2, <1>4, <1>5 DEF JobContent, Running
<1> QED BY <1>3, <1>6, ContentLocalStep

LEMMA CompactMergeContent ==
  ASSUME PublicationInv, ContentInv, NEW w \in Writer, CompactMerge(w)
  PROVE  ContentInv'
<1> DEFINE stack == MergeTop(job[w].stack)
           local == job[w].local \cup {Digest(TopMerged(job[w].stack))}
           j     == [job[w] EXCEPT !.stack = stack, !.local = local]
<1>1. job[w].pc = "compact" /\ EqualLevels(job[w].stack)
  BY DEF CompactMerge
<1>2. /\ job \in [Writer -> JobType] /\ job[w] \in JobType
      /\ job[w].stack \in Seq(Reference) /\ job[w].rest \in Seq(Reference)
      /\ job[w].call = NoCall /\ job[w].checkpoint
      /\ CarriesAll(versions, job[w].stack \o job[w].rest)
      /\ EndsAt(job[w].stack \o job[w].rest, job[w].manifest.version)
  BY <1>1, CompactingJob
<1>3. job' = [job EXCEPT ![w] = j] /\ UNCHANGED objects
  BY <1>2 DEF CompactMerge
<1>4. /\ CarriesAll(versions, stack \o job[w].rest)
      /\ EndsAt(stack \o job[w].rest, job[w].manifest.version)
  BY <1>1, <1>2, MergeKeeps
<1> HIDE DEF stack, local
<1>5. /\ j.pc = "compact" /\ j.call = NoCall /\ j.checkpoint
      /\ j.manifest = job[w].manifest /\ j.stack = stack /\ j.rest = job[w].rest
  BY <1>1, <1>2 DEF JobType
<1> HIDE DEF j
<1>6. JobContent(versions, j)
  BY <1>4, <1>5 DEF JobContent, Running
<1> QED BY <1>3, <1>6, ContentLocalStep

LEMMA CompactDoneContent ==
  ASSUME PublicationInv, ContentInv, NEW w \in Writer, CompactDone(w)
  PROVE  ContentInv'
<1> DEFINE refs == job[w].stack
           m    == [job[w].manifest EXCEPT !.segments = refs]
           none == <<>>
           j    == [job[w] EXCEPT !.pc = "inspect", !.manifest = m, !.stack = none]
<1>1. job[w].pc = "compact" /\ job[w].rest = <<>>
  BY DEF CompactDone
<1>2. /\ job \in [Writer -> JobType] /\ job[w] \in JobType
      /\ refs \in Seq(Reference) /\ job[w].manifest \in Manifest
      /\ job[w].call = NoCall /\ job[w].checkpoint
      /\ CarriesAll(versions, job[w].stack \o job[w].rest)
      /\ EndsAt(job[w].stack \o job[w].rest, job[w].manifest.version)
  BY <1>1, CompactingJob
<1>3. job' = [job EXCEPT ![w] = j] /\ UNCHANGED objects
  BY <1>2 DEF CompactDone
<1>4. job[w].stack \o job[w].rest = refs
  BY <1>1, <1>2, ConcatEmptySeq
<1>5. CarriesAll(versions, refs) /\ EndsAt(refs, job[w].manifest.version)
  BY <1>2, <1>4, Zenon
<1> HIDE DEF refs, none
<1>6. m.version = job[w].manifest.version /\ m.segments = refs
  BY <1>2 DEF Manifest
<1> HIDE DEF m
<1>7. /\ j.pc = "inspect" /\ j.call = NoCall /\ j.checkpoint /\ j.manifest = m
  BY <1>2 DEF JobType
<1> HIDE DEF j
<1>8. Len(refs) \in Nat
  BY <1>2
<1>9. JobContent(versions, j)
  BY <1>5, <1>6, <1>7, <1>8 DEF JobContent, Running, CarriesAll
<1> QED BY <1>3, <1>9, ContentLocalStep

-----------------------------------------------------------------------------
(* Publishing.                                                              *)

\* The call stays at its manifest: only pc, next or attempt change.
LEMMA SameContent ==
  ASSUME NEW published, NEW j, JobContent(published, j), j.pc \in {"inspect", "put"},
         NEW k, k.pc \in {"inspect", "put"}, k.manifest = j.manifest,
         k.call = j.call, k.checkpoint = j.checkpoint
  PROVE  JobContent(published, k)
<1>1. j.pc \in Running /\ k.pc # "compact"
  BY DEF Running
<1>2. j.checkpoint => j.call = NoCall
  BY DEF JobContent
<1>3. /\ EndsAt(j.manifest.segments, j.manifest.version)
      /\ \A i \in 1 .. Len(j.manifest.segments) - 1 :
             Carries(published, j.manifest.segments, i)
      /\ j.checkpoint => CarriesAll(published, j.manifest.segments)
      /\ ~j.checkpoint => Answers(published, j)
  BY DEF JobContent
<1>4. Answers(published, j) => Answers(published, k)
  BY DEF Answers
<1>5. k.pc \in Running
  BY DEF Running
<1> QED BY <1>1, <1>2, <1>3, <1>4, <1>5, Zenon DEF JobContent

\* The job after Advance: over, or at the next object of the same manifest.
LEMMA AdvancedContent ==
  ASSUME PublicationInv, NEW w \in Writer, job[w].pc \in {"inspect", "put"},
         NEW published, JobContent(published, job[w]), Advance(w)
  PROVE  \E j \in JobType :
            /\ JobContent(published, j) /\ job' = [job EXCEPT ![w] = j]
            /\ AtManifest(job[w]) => j = [Idle EXCEPT !.pc = "done"]
            /\ ~AtManifest(job[w]) => j.pc = "inspect" /\ j.call = job[w].call
<1>1. job[w] \in JobType
  BY DEF PublicationInv, TypeOK
<1>2. CASE AtManifest(job[w])
  <2>1. job' = [job EXCEPT ![w] = [Idle EXCEPT !.pc = "done"]]
    BY <1>2 DEF Advance, Finished
  <2> QED BY <1>2, <2>1, StoppedContent, StoppedJob
<1>3. CASE ~AtManifest(job[w])
  <2> DEFINE j == [job[w] EXCEPT !.pc = "inspect", !.next = job[w].next + 1, !.attempt = 0]
  <2>1. job' = [job EXCEPT ![w] = j]
    BY <1>3 DEF Advance
  <2>2. /\ j \in JobType /\ j.pc = "inspect"
        /\ j.manifest = job[w].manifest /\ j.checkpoint = job[w].checkpoint
    BY <1>1, NextObjectJob
  <2>3. j.call = job[w].call
    BY <1>1 DEF JobType
  <2> HIDE DEF j
  <2>4. JobContent(published, j)
    BY <2>2, <2>3, SameContent
  <2> QED BY <1>3, <2>1, <2>2, <2>3, <2>4
<1> QED BY <1>2, <1>3

LEMMA AbortContent ==
  ASSUME PublicationInv, ContentInv, NEW w \in Writer,
         NEW outcome \in {"idle", "done", "conflict"}, Abort(w, outcome), UNCHANGED objects
  PROVE  ContentInv'
  BY StoppedContent, ContentLocalStep DEF Abort

LEMMA CompareContent ==
  ASSUME PublicationInv, ContentInv, NEW w \in Writer, job[w].pc \in {"inspect", "put"},
         Compare(w), UNCHANGED objects
  PROVE  ContentInv'
<1>1. JobContent(versions, job[w])
  BY DEF ContentInv
<1>2. CASE Matches(job[w])
  <2>1. Advance(w)
    BY <1>2 DEF Compare
  <2> QED BY <1>1, <2>1, AdvancedContent, ContentLocalStep
<1>3. CASE ~Matches(job[w])
  BY <1>3, AbortContent DEF Compare
<1> QED BY <1>2, <1>3

LEMMA InspectMissingContent ==
  ASSUME PublicationInv, ContentInv, NEW w \in Writer, NEW forbidden \in BOOLEAN,
         InspectMissing(w, forbidden)
  PROVE  ContentInv'
<1>1. job \in [Writer -> JobType] /\ job[w] \in JobType /\ JobContent(versions, job[w])
  BY DEF PublicationInv, TypeOK, ContentInv
<1>2. job[w].pc = "inspect" /\ UNCHANGED objects
  BY DEF InspectMissing
<1>3. CASE IsLocal(job[w])
  <2> DEFINE j == [job[w] EXCEPT !.pc = "put"]
  <2>1. job' = [job EXCEPT ![w] = j]
    BY <1>1, <1>3 DEF InspectMissing
  <2>2. /\ j.pc = "put" /\ j.manifest = job[w].manifest /\ j.call = job[w].call
        /\ j.checkpoint = job[w].checkpoint
    BY <1>1 DEF JobType
  <2> HIDE DEF j
  <2>3. JobContent(versions, j)
    BY <1>1, <1>2, <2>2, SameContent
  <2> QED BY <1>2, <2>1, <2>3, ContentLocalStep
<1>4. CASE ~IsLocal(job[w])
  BY <1>2, <1>4, AbortContent DEF InspectMissing
<1> QED BY <1>3, <1>4

LEMMA PutRetryContent ==
  ASSUME PublicationInv, ContentInv, NEW w \in Writer, PutRetry(w)
  PROVE  ContentInv'
<1>1. job \in [Writer -> JobType] /\ job[w] \in JobType /\ JobContent(versions, job[w])
  BY DEF PublicationInv, TypeOK, ContentInv
<1>2. job[w].pc = "put" /\ UNCHANGED objects
  BY DEF PutRetry
<1>3. CASE job[w].attempt < MaxAttempts - 1
  <2> DEFINE n == job[w].attempt + 1
             j == [job[w] EXCEPT !.attempt = n]
  <2>1. job' = [job EXCEPT ![w] = j]
    BY <1>1, <1>3 DEF PutRetry
  <2> HIDE DEF n
  <2>2. /\ j.pc = "put" /\ j.manifest = job[w].manifest /\ j.call = job[w].call
        /\ j.checkpoint = job[w].checkpoint
    BY <1>1, <1>2 DEF JobType
  <2> HIDE DEF j
  <2>3. JobContent(versions, j)
    BY <1>1, <1>2, <2>2, SameContent
  <2> QED BY <1>2, <2>1, <2>3, ContentLocalStep
<1>4. CASE ~(job[w].attempt < MaxAttempts - 1)
  BY <1>2, <1>4, AbortContent DEF PutRetry
<1> QED BY <1>3, <1>4

-----------------------------------------------------------------------------
(* Storing an object.                                                       *)

\* What a create-only PUT does to the version names.
LEMMA StoredVersions ==
  ASSUME PublicationInv, NEW w \in Writer, job[w].pc = "put",
         ~Exists(job[w]), StoreObject(job[w])
  PROVE  /\ Extends(versions, versions')
         /\ ~AtManifest(job[w]) \/ job[w].checkpoint => versions' = versions
         /\ AtManifest(job[w]) /\ ~job[w].checkpoint =>
               LET m == job[w].manifest
               IN  /\ versions[m.version] = NoManifest
                   /\ versions' = [versions EXCEPT ![m.version] = m]
                   /\ versions'[m.version] = m /\ m # NoManifest
<1> DEFINE m == job[w].manifest
<1>1. /\ versions \in [Version -> Manifest \cup {NoManifest}]
      /\ m \in Manifest /\ m.version \in Version
  BY DEF PublicationInv, TypeOK, JobOK, Running, Manifest
<1>2. CASE ~AtManifest(job[w]) \/ job[w].checkpoint
  <2>1. versions' = versions
    BY <1>2 DEF StoreObject
  <2> QED BY <1>2, <2>1, ExtendsItself
<1>3. CASE AtManifest(job[w]) /\ ~job[w].checkpoint
  <2>1. versions[m.version] = NoManifest
    BY <1>3 DEF Exists
  <2>2. versions' = [versions EXCEPT ![m.version] = m]
    BY <1>3 DEF StoreObject
  <2>3. versions'[m.version] = m /\ Extends(versions, versions')
    BY <1>1, <2>1, <2>2 DEF Extends
  <2>4. m # NoManifest
    BY <1>1, StoreAssumption
  <2> QED BY <1>3, <2>1, <2>2, <2>3, <2>4
<1> QED BY <1>2, <1>3

\* The manifest that a PUT makes readable is cut at published versions, itself
\* included.
LEMMA StoredManifest ==
  ASSUME PublicationInv, ContentInv, NEW w \in Writer, job[w].pc = "put",
         ~Exists(job[w]), StoreObject(job[w]), AtManifest(job[w])
  PROVE  LET m == job[w].manifest
         IN  CarriesAll(versions', m.segments) /\ EndsAt(m.segments, m.version)
<1> DEFINE m    == job[w].manifest
           refs == m.segments
<1>1. m \in Manifest /\ refs \in Seq(Reference) /\ Len(refs) \in Nat
  BY DEF PublicationInv, JobOK, Running, Manifest
<1>2. JobContent(versions, job[w]) /\ Extends(versions, versions')
  BY StoredVersions DEF ContentInv
<1>3. /\ EndsAt(refs, m.version)
      /\ \A i \in 1 .. Len(refs) - 1 : Carries(versions, refs, i)
      /\ job[w].checkpoint => CarriesAll(versions, refs)
  BY <1>2 DEF JobContent
<1>4. CASE job[w].checkpoint
  BY <1>1, <1>2, <1>3, <1>4, CarriesExtends DEF CarriesAll
<1>5. CASE ~job[w].checkpoint
  <2>1. versions'[m.version] = m /\ m # NoManifest
    BY <1>5, StoredVersions
  <2>2. Carries(versions', refs, Len(refs))
    BY <1>1, <1>3, <2>1, CarriesWhole
  <2>3. ASSUME NEW i \in 1 .. Len(refs) PROVE Carries(versions', refs, i)
    <3>1. CASE i = Len(refs)
      BY <2>2, <3>1
    <3>2. CASE i # Len(refs)
      <4>1. i \in 1 .. Len(refs) - 1
        BY <1>1, <3>2
      <4> QED BY <1>1, <1>2, <1>3, <4>1, CarriesExtends
    <3> QED BY <3>1, <3>2
  <2> QED BY <1>3, <2>3 DEF CarriesAll
<1> QED BY <1>4, <1>5

LEMMA StoreContent ==
  ASSUME PublicationInv, ContentInv, NEW w \in Writer, job[w].pc = "put",
         ~Exists(job[w]), StoreObject(job[w]),
         NEW j, job' = [job EXCEPT ![w] = j], JobContent(versions', j)
  PROVE  ContentInv'
<1>0. \A m \in Readable' :
         \/ m \in Readable
         \/ m = job[w].manifest /\ AtManifest(job[w])
  BY StoredObject
<1>1. ASSUME NEW m \in Readable'
      PROVE  \/ m \in Readable
             \/ /\ CarriesAll(versions', m.segments)
                /\ EndsAt(m.segments, m.version)
  <2>1. m \in Readable \/ (m = job[w].manifest /\ AtManifest(job[w]))
    BY <1>0, <1>1
  <2> QED BY <2>1, StoredManifest
<1>2. Extends(versions, versions')
  BY StoredVersions
<1> QED BY <1>1, <1>2, ContentStep

LEMMA PutContent ==
  ASSUME PublicationInv, ContentInv, NEW w \in Writer, Put(w)
  PROVE  ContentInv'
<1>1. job[w].pc = "put" /\ ~Exists(job[w]) /\ StoreObject(job[w]) /\ Advance(w)
  BY DEF Put
<1>2. JobContent(versions, job[w]) /\ Extends(versions, versions')
  BY <1>1, StoredVersions DEF ContentInv
<1>3. job[w] \in JobType /\ JobOK(job[w], segments)
  BY DEF PublicationInv, TypeOK
<1>4. JobContent(versions', job[w])
  BY <1>2, <1>3, JobContentExtends
<1>5. PICK j \in JobType : JobContent(versions', j) /\ job' = [job EXCEPT ![w] = j]
  BY <1>1, <1>4, AdvancedContent
<1> QED BY <1>1, <1>5, StoreContent

LEMMA PutLostResponseContent ==
  ASSUME PublicationInv, ContentInv, NEW w \in Writer, PutLostResponse(w)
  PROVE  ContentInv'
<1>1. job[w].pc = "put" /\ ~Exists(job[w]) /\ StoreObject(job[w]) /\ Abort(w, "idle")
  BY DEF PutLostResponse
<1> QED BY <1>1, StoppedContent, StoreContent DEF Abort

LEMMA ContentInit == Init => ContentInv
<1> SUFFICES ASSUME Init PROVE ContentInv
  OBVIOUS
<1>1. Readable = {}
  BY DEF Init, Readable, Published
<1>2. Idle.pc = "idle" /\ Idle.call = NoCall
  BY DEF Idle
<1>3. \A w \in Writer : JobContent(versions, job[w])
  BY <1>2 DEF Init, JobContent, Running
<1> QED BY <1>1, <1>3 DEF ContentInv

LEMMA ContentNext == PublicationInv /\ ContentInv /\ [Next]_vars => ContentInv'
<1> SUFFICES ASSUME PublicationInv, ContentInv, [Next]_vars PROVE ContentInv'
  OBVIOUS
<1>1. CASE UNCHANGED vars
  <2>1. versions' = versions /\ job' = job /\ Readable' = Readable
    BY <1>1 DEF vars, Readable, Published
  <2>2. /\ \A m \in Readable' : CarriesAll(versions', m.segments) /\ EndsAt(m.segments, m.version)
        /\ \A w \in Writer : JobContent(versions', job'[w])
    BY <2>1, Zenon DEF ContentInv
  <2> QED BY <2>2, Zenon DEF ContentInv
<1>2. ASSUME NEW w \in Writer, Start(w) PROVE ContentInv'
  BY <1>2, StartCreateContent, StartUpdateContent, StartRebaseContent, StartCompactContent
     DEF Start
<1>3. ASSUME NEW w \in Writer, Inspect(w) \/ PutExists(w) PROVE ContentInv'
  BY <1>3, CompareContent DEF Inspect, PutExists
<1>4. ASSUME NEW w \in Writer, NEW forbidden \in BOOLEAN, InspectMissing(w, forbidden)
      PROVE  ContentInv'
  BY <1>4, InspectMissingContent
<1>5. ASSUME NEW w \in Writer, Step(w) PROVE ContentInv'
  BY <1>3, <1>4, <1>5, CompactPushContent, CompactMergeContent, CompactDoneContent,
     PutContent, PutRetryContent, PutLostResponseContent DEF Step, Publish
<1>6. ASSUME NEW w \in Writer, Stop(w) PROVE ContentInv'
  BY <1>6, AbortContent DEF Stop
<1> QED BY <1>1, <1>2, <1>5, <1>6 DEF Next

\* What every readable chain and every running call answers, in every reachable
\* state.
THEOREM ContentInvariant == Spec => []ContentInv
<1>1. Init => PublicationInv /\ ContentInv
  BY PublicationInit, ContentInit
<1>2. PublicationInv /\ ContentInv /\ [Next]_vars => (PublicationInv /\ ContentInv)'
  BY PublicationNext, ContentNext
<1> QED BY <1>1, <1>2, PTL DEF Spec

\* IndexStore.compact and update: cutting any readable chain after any of its
\* segments gives the content of the version that segment ends at, for any
\* number of versions, keys, writers, compactions and rebases.
THEOREM EveryPrefixIsAVersion == Spec => []PrefixesAreVersions
<1>1. ContentInv => PrefixesAreVersions
  BY DEF ContentInv, PrefixesAreVersions, CarriesAll, Carries
<1> QED BY <1>1, ContentInvariant, PTL

-----------------------------------------------------------------------------
(* Action properties.                                                       *)

\* The objects a step stores are added to those that were there.
ObjectsGrow ==
    /\ segments \subseteq segments'
    /\ checkpoints \subseteq checkpoints'
    /\ \A v \in Version : versions[v] # NoManifest => versions'[v] = versions[v]

LEMMA UnchangedGrow == UNCHANGED objects => ObjectsGrow
  BY DEF objects, ObjectsGrow

LEMMA StoreGrows ==
  ASSUME PublicationInv, NEW w \in Writer, job[w].pc = "put",
         ~Exists(job[w]), StoreObject(job[w])
  PROVE  ObjectsGrow
<1>1. segments \subseteq segments' /\ checkpoints \subseteq checkpoints'
  BY DEF StoreObject
<1>2. Extends(versions, versions')
  BY StoredVersions
<1> QED BY <1>1, <1>2 DEF Extends, ObjectsGrow

LEMMA StepGrows == PublicationInv /\ [Next]_vars => ObjectsGrow
<1> SUFFICES ASSUME PublicationInv, [Next]_vars PROVE ObjectsGrow
  OBVIOUS
<1>1. CASE UNCHANGED vars
  BY <1>1, UnchangedGrow DEF vars, objects
<1>2. ASSUME NEW w \in Writer, Put(w) \/ PutLostResponse(w) PROVE ObjectsGrow
  BY <1>2, StoreGrows DEF Put, PutLostResponse
<1>3. ASSUME NEW w \in Writer, Start(w) PROVE ObjectsGrow
  BY <1>3, UnchangedGrow DEF Start, StartCreate, StartUpdate, StartRebase, StartCompact
<1>4. ASSUME NEW w \in Writer, Step(w) PROVE ObjectsGrow
  BY <1>2, <1>4, UnchangedGrow DEF Step, Publish, CompactPush, CompactMerge, CompactDone,
     Inspect, InspectMissing, PutExists, PutRetry
<1>5. ASSUME NEW w \in Writer, Stop(w) PROVE ObjectsGrow
  BY <1>5, UnchangedGrow DEF Stop
<1> QED BY <1>1, <1>3, <1>4, <1>5 DEF Next

\* S3IndexStore._put: no race, retry, lost answer or crash of any number of
\* writers replaces or removes an object that is stored.
THEOREM ObjectsNeverChange == Spec => ObjectsImmutable
<1>1. PublicationInv /\ [Next]_vars =>
          [ /\ segments \subseteq segments'
            /\ checkpoints \subseteq checkpoints'
            /\ \A v \in Version :
                   versions[v] # NoManifest => versions'[v] = versions[v] ]_vars
  BY StepGrows DEF ObjectsGrow
<1> QED BY <1>1, PublicationInvariant, PTL DEF Spec, ObjectsImmutable

\* What writer w's step tells its caller, if it ends the call.
OutcomeIsTrue(w) ==
    job[w].pc \in {"inspect", "put"} =>
        LET m == job[w].manifest
        IN  /\ job'[w].pc = "done" =>
                  m \in IF job[w].checkpoint THEN checkpoints'
                        ELSE {versions'[m.version]}
            /\ job'[w].pc = "conflict" =>
                  versions'[m.version] \notin {NoManifest, m}

\* A step that leaves the writer running, or stopped without an answer.
LEMMA NoOutcome ==
  ASSUME NEW w \in Writer, job'[w].pc \notin {"done", "conflict"}
  PROVE  OutcomeIsTrue(w)
  BY DEF OutcomeIsTrue

LEMMA AbortedJob ==
  ASSUME TypeOK, NEW w \in Writer, NEW outcome, Abort(w, outcome)
  PROVE  job'[w].pc = outcome
<1>1. [Idle EXCEPT !.pc = outcome].pc = outcome
  BY DEF Idle
<1>2. job'[w] = [Idle EXCEPT !.pc = outcome]
  BY DEF Abort, TypeOK
<1> QED BY <1>1, <1>2

\* Advance ends a call only behind its manifest, and never in a conflict.
LEMMA AdvancedPc ==
  ASSUME TypeOK, NEW w \in Writer, Advance(w)
  PROVE  job'[w].pc = IF AtManifest(job[w]) THEN "done" ELSE "inspect"
<1>0. job \in [Writer -> JobType] /\ job[w] \in JobType
  BY DEF TypeOK
<1>1. CASE AtManifest(job[w])
  <2>1. job'[w] = [Idle EXCEPT !.pc = "done"]
    BY <1>0, <1>1 DEF Advance, Finished
  <2>2. [Idle EXCEPT !.pc = "done"].pc = "done"
    BY DEF Idle
  <2> QED BY <1>1, <2>1, <2>2
<1>2. CASE ~AtManifest(job[w])
  <2> DEFINE j == [job[w] EXCEPT !.pc = "inspect", !.next = job[w].next + 1, !.attempt = 0]
  <2>1. job'[w] = j
    BY <1>0, <1>2 DEF Advance
  <2>2. j.pc = "inspect"
    BY <1>0 DEF JobType
  <2> QED BY <1>2, <2>1, <2>2
<1> QED BY <1>1, <1>2

LEMMA CompareOutcome ==
  ASSUME TypeOK, NEW w \in Writer, Exists(job[w]), Compare(w), UNCHANGED objects
  PROVE  OutcomeIsTrue(w)
<1>1. versions' = versions /\ checkpoints' = checkpoints
  BY DEF objects
<1>2. CASE Matches(job[w])
  <2>1. job'[w].pc = IF AtManifest(job[w]) THEN "done" ELSE "inspect"
    BY <1>2, AdvancedPc DEF Compare
  <2> QED BY <1>1, <1>2, <2>1 DEF OutcomeIsTrue, Exists, Matches
<1>3. CASE ~Matches(job[w])
  <2>1. job'[w].pc = "conflict"
    BY <1>3, AbortedJob DEF Compare
  <2> QED BY <1>1, <1>3, <2>1 DEF OutcomeIsTrue, Exists, Matches
<1> QED BY <1>2, <1>3

LEMMA PutOutcome ==
  ASSUME PublicationInv, NEW w \in Writer, Put(w)
  PROVE  OutcomeIsTrue(w)
<1>1. job[w].pc = "put" /\ ~Exists(job[w]) /\ StoreObject(job[w]) /\ Advance(w)
  BY DEF Put
<1>2. job'[w].pc = IF AtManifest(job[w]) THEN "done" ELSE "inspect"
  BY <1>1, AdvancedPc DEF PublicationInv
<1>3. CASE AtManifest(job[w]) /\ job[w].checkpoint
  BY <1>1, <1>2, <1>3 DEF StoreObject, OutcomeIsTrue
<1>4. CASE AtManifest(job[w]) /\ ~job[w].checkpoint
  <2>1. versions'[job[w].manifest.version] = job[w].manifest
    BY <1>1, <1>4, StoredVersions
  <2> QED BY <1>2, <1>4, <2>1 DEF OutcomeIsTrue
<1>5. CASE ~AtManifest(job[w])
  BY <1>2, <1>5, NoOutcome
<1> QED BY <1>3, <1>4, <1>5

LEMMA OwnStepOutcome ==
  ASSUME PublicationInv, NEW w \in Writer, Start(w) \/ Step(w) \/ Stop(w)
  PROVE  OutcomeIsTrue(w)
<1>0. TypeOK /\ job \in [Writer -> JobType] /\ job[w] \in JobType
  BY DEF PublicationInv, TypeOK
<1>1. CASE job[w].pc \notin {"inspect", "put"}
  BY <1>1 DEF OutcomeIsTrue
<1>2. CASE Start(w)
  <2>1. job[w].pc \notin Running
    BY <1>2, Zenon DEF Start, StartCreate, StartUpdate, StartRebase, StartCompact
  <2> QED BY <1>1, <2>1 DEF Running
<1>3. CASE CompactPush(w) \/ CompactMerge(w) \/ CompactDone(w)
  BY <1>3 DEF CompactPush, CompactMerge, CompactDone, OutcomeIsTrue
<1>4. CASE Inspect(w) \/ PutExists(w)
  BY <1>0, <1>4, CompareOutcome DEF Inspect, PutExists
<1>5. ASSUME NEW forbidden \in BOOLEAN, InspectMissing(w, forbidden)
      PROVE  OutcomeIsTrue(w)
  <2>1. CASE IsLocal(job[w])
    <3>1. job'[w] = [job[w] EXCEPT !.pc = "put"]
      BY <1>0, <1>5, <2>1 DEF InspectMissing
    <3>2. job'[w].pc = "put"
      BY <1>0, <3>1 DEF JobType
    <3> QED BY <3>2, NoOutcome
  <2>2. CASE ~IsLocal(job[w])
    BY <1>0, <1>5, <2>2, AbortedJob, NoOutcome DEF InspectMissing
  <2> QED BY <2>1, <2>2
<1>6. CASE Put(w)
  BY <1>6, PutOutcome
<1>7. CASE PutRetry(w)
  <2>1. CASE job[w].attempt < MaxAttempts - 1
    <3>1. job'[w] = [job[w] EXCEPT !.attempt = job[w].attempt + 1] /\ job[w].pc = "put"
      BY <1>0, <1>7, <2>1 DEF PutRetry
    <3>2. job'[w].pc = "put"
      BY <1>0, <3>1 DEF JobType
    <3> QED BY <3>2, NoOutcome
  <2>2. CASE ~(job[w].attempt < MaxAttempts - 1)
    BY <1>0, <1>7, <2>2, AbortedJob, NoOutcome DEF PutRetry
  <2> QED BY <2>1, <2>2
<1>8. CASE PutLostResponse(w) \/ Stop(w)
  BY <1>0, <1>8, AbortedJob, NoOutcome DEF PutLostResponse, Stop
<1> QED BY <1>2, <1>3, <1>4, <1>5, <1>6, <1>7, <1>8 DEF Step, Publish

\* The other writers' calls are where they were.
LEMMA OthersWait ==
  ASSUME TypeOK, NEW w \in Writer, Start(w) \/ Step(w) \/ Stop(w),
         NEW x \in Writer, x # w
  PROVE  job'[x] = job[x]
<1>0. job \in [Writer -> JobType]
  BY DEF TypeOK
<1>1. CASE Start(w)
  <2>1. \E j : job' = [job EXCEPT ![w] = j]
    BY <1>1, Zenon DEF Start, StartCreate, StartUpdate, StartRebase, StartCompact
  <2> QED BY <1>0, <2>1
<1>2. CASE CompactPush(w) \/ CompactMerge(w) \/ CompactDone(w)
  BY <1>0, <1>2 DEF CompactPush, CompactMerge, CompactDone
<1>3. CASE Publish(w) \/ Stop(w)
  BY <1>0, <1>3 DEF Publish, Inspect, InspectMissing, Put, PutExists, PutRetry,
                    PutLostResponse, Compare, Advance, Abort, Stop
<1> QED BY <1>1, <1>2, <1>3 DEF Step

LEMMA StepOutcomes == PublicationInv /\ [Next]_vars => \A w \in Writer : OutcomeIsTrue(w)
<1> SUFFICES ASSUME PublicationInv, [Next]_vars, NEW x \in Writer PROVE OutcomeIsTrue(x)
  OBVIOUS
<1>1. CASE job'[x] = job[x]
  BY <1>1 DEF OutcomeIsTrue
<1>2. CASE UNCHANGED vars
  BY <1>1, <1>2 DEF vars
<1>3. ASSUME NEW w \in Writer, Start(w) \/ Step(w) \/ Stop(w) PROVE OutcomeIsTrue(x)
  <2>1. CASE x = w
    BY <1>3, <2>1, OwnStepOutcome
  <2>2. CASE x # w
    BY <1>1, <1>3, <2>2, OthersWait DEF PublicationInv
  <2> QED BY <2>1, <2>2
<1> QED BY <1>2, <1>3 DEF Next

\* S3IndexStore._publish: a call that returns has its own manifest in the store,
\* and a conflict means that a different one is there.
THEOREM OutcomesAreAlwaysTrue == Spec => OutcomesAreTrue
<1>1. PublicationInv /\ [Next]_vars =>
          [ \A w \in Writer : job[w].pc \in {"inspect", "put"} =>
              LET m == job[w].manifest
              IN  /\ job'[w].pc = "done" =>
                        m \in IF job[w].checkpoint THEN checkpoints'
                              ELSE {versions'[m.version]}
                  /\ job'[w].pc = "conflict" =>
                        versions'[m.version] \notin {NoManifest, m} ]_vars
  BY StepOutcomes DEF OutcomeIsTrue
<1> QED BY <1>1, PublicationInvariant, PTL DEF Spec, OutcomesAreTrue

-----------------------------------------------------------------------------
(* The store implements the abstract index.                                 *)

\* The abstract content and calls, as functions of the concrete state.
ContentOf(published) ==
    [v \in Version |-> IF published[v] = NoManifest THEN NoManifest
                       ELSE View(published[v].segments)]

CallsOf(jobs) == [w \in Writer |-> jobs[w].call]

\* A manifest's content is never mistaken for an unpublished version.
LEMMA ContentIsPublished ==
  ASSUME TypeOK, NEW v \in Version
  PROVE  ContentOf(versions)[v] = NoManifest <=> versions[v] = NoManifest
<1>1. CASE versions[v] # NoManifest
  <2>1. versions[v] \in Manifest
    BY <1>1 DEF TypeOK
  <2>2. versions[v].segments \in Seq(Reference)
    BY <2>1 DEF Manifest
  <2>3. View(versions[v].segments) # NoManifest
    BY <2>2, ViewType, StoreAssumption
  <2> QED BY <1>1, <2>3 DEF ContentOf
<1>2. CASE versions[v] = NoManifest
  BY <1>2 DEF ContentOf
<1> QED BY <1>1, <1>2

\* A step of one writer changes the abstract call of that writer only.
LEMMA CallsStep ==
  ASSUME TypeOK, NEW w \in Writer, NEW j, job' = [job EXCEPT ![w] = j]
  PROVE  CallsOf(job') = [CallsOf(job) EXCEPT ![w] = j.call]
  BY DEF CallsOf, TypeOK

LEMMA SameCalls ==
  ASSUME TypeOK, NEW w \in Writer, NEW j, job' = [job EXCEPT ![w] = j], j.call = job[w].call
  PROVE  CallsOf(job') = CallsOf(job)
  BY DEF CallsOf, TypeOK

\* A call that starts is the call the abstract index begins.
LEMMA BeginsCall ==
  ASSUME PublicationInv, NEW w \in Writer, NEW j, job' = [job EXCEPT ![w] = j],
         UNCHANGED objects, job[w].call = NoCall,
         j.call \in Call, j.call.previous # j.call.version,
         j.call.previous # NoVersion => versions[j.call.previous] # NoManifest
  PROVE  Index!Begin(w)
<1>1. TypeOK /\ versions' = versions
  BY DEF PublicationInv, objects
<1>2. CallsOf(job') = [CallsOf(job) EXCEPT ![w] = j.call]
  BY <1>1, CallsStep
<1>3. CallsOf(job)[w] = NoCall /\ CallsOf(job')[w] = j.call
  BY <1>2 DEF CallsOf
<1>4. j.call.previous # NoVersion => ContentOf(versions)[j.call.previous] # NoManifest
  <2>1. j.call.previous # NoVersion => j.call.previous \in Version
    BY DEF Call
  <2> QED BY <1>1, <2>1, ContentIsPublished
<1>5. ContentOf(versions') = ContentOf(versions)
  BY <1>1
<1> QED BY <1>2, <1>3, <1>4, <1>5 DEF Index!Begin, Index!Call, Call, CallsOf, ContentOf

\* A step that leaves contents and calls alone is a stutter of the abstract index.
LEMMA Stutters ==
  ASSUME CallsOf(job') = CallsOf(job), versions' = versions
  PROVE  UNCHANGED Index!vars
  BY DEF Index!vars, CallsOf, ContentOf

\* A call that ends without storing its manifest.
LEMMA EndsCall ==
  ASSUME TypeOK, NEW w \in Writer, NEW j, job' = [job EXCEPT ![w] = j],
         j.call = NoCall, versions' = versions
  PROVE  Index!End(w) \/ UNCHANGED Index!vars
<1>1. CASE job[w].call = NoCall
  BY <1>1, SameCalls, Stutters
<1>2. CASE job[w].call # NoCall
  <2>1. CallsOf(job') = [CallsOf(job) EXCEPT ![w] = NoCall]
    BY CallsStep
  <2>2. CallsOf(job)[w] # NoCall
    BY <1>2 DEF CallsOf
  <2> QED BY <2>1, <2>2 DEF Index!End, CallsOf, ContentOf
<1> QED BY <1>1, <1>2

\* Storing a version's manifest publishes the content that its call asked for.
LEMMA CommitsCall ==
  ASSUME PublicationInv, ContentInv, NEW w \in Writer, job[w].pc = "put",
         ~Exists(job[w]), StoreObject(job[w]), AtManifest(job[w]), ~job[w].checkpoint,
         NEW j, job' = [job EXCEPT ![w] = j], j.call = NoCall
  PROVE  Index!Commit(w)
<1> DEFINE m == job[w].manifest
           c == job[w].call
<1>1. TypeOK /\ m \in Manifest /\ m.version \in Version
  BY DEF PublicationInv, JobOK, Running, Manifest
<1>2. Answers(versions, job[w])
  BY DEF ContentInv, JobContent
<1>3. /\ c \in Call /\ c.version = m.version
      /\ c.previous # NoVersion => versions[c.previous] # NoManifest
      /\ View(m.segments) = Asked(versions, c)
  BY <1>2 DEF Answers
<1>4. /\ versions[m.version] = NoManifest /\ versions' = [versions EXCEPT ![m.version] = m]
      /\ m # NoManifest
  BY StoredVersions
<1> HIDE DEF m
<1>5. CallsOf(job)[w] = c /\ c # NoCall
  BY <1>3, StoreAssumption DEF CallsOf
<1>6. ContentOf(versions)[c.version] = NoManifest
  BY <1>1, <1>3, <1>4, ContentIsPublished
<1>7. ContentOf(versions') = [ContentOf(versions) EXCEPT ![c.version] = View(m.segments)]
  BY <1>1, <1>3, <1>4 DEF ContentOf, TypeOK
<1>8. c.previous # NoVersion =>
          ContentOf(versions)[c.previous] = View(versions[c.previous].segments)
  <2>1. c.previous # NoVersion => c.previous \in Version
    BY <1>3 DEF Call
  <2> QED BY <1>3, <2>1 DEF ContentOf
<1>9. View(m.segments) =
         [k \in Key |-> IF c.entries[k] # NoEntry THEN c.entries[k]
                        ELSE IF c.previous = NoVersion \/ k \in c.removed THEN NoEntry
                        ELSE ContentOf(versions)[c.previous][k]]
  BY <1>3, <1>8 DEF Asked
<1>10. CallsOf(job') = [CallsOf(job) EXCEPT ![w] = NoCall]
  BY <1>1, CallsStep
<1>11. Index!Result(c) = View(m.segments)
  BY <1>9 DEF Index!Result, ContentOf
<1> HIDE DEF c
<1>12. /\ CallsOf(job)[w] # NoCall
       /\ ContentOf(versions)[CallsOf(job)[w].version] = NoManifest
       /\ ContentOf(versions') = [ContentOf(versions) EXCEPT
                                     ![CallsOf(job)[w].version] = Index!Result(CallsOf(job)[w])]
       /\ CallsOf(job') \in {CallsOf(job), [CallsOf(job) EXCEPT ![w] = NoCall]}
  BY <1>5, <1>6, <1>7, <1>10, <1>11
<1> QED BY <1>12, Zenon DEF Index!Commit, CallsOf, ContentOf

\* What the abstract index may do in one step.
AbstractStep == Index!Next \/ UNCHANGED Index!vars

LEMMA WriterActs ==
  ASSUME NEW w \in Writer, Index!Begin(w) \/ Index!Commit(w) \/ Index!End(w)
  PROVE  AbstractStep
  BY DEF AbstractStep, Index!Next

\* A writer that is not running has no abstract call in progress.
LEMMA IdleHasNoCall ==
  ASSUME ContentInv, NEW w \in Writer, job[w].pc \notin Running
  PROVE  job[w].call = NoCall
  BY DEF ContentInv, JobContent

\* Contents and calls as they were.
LEMMA SameStep ==
  ASSUME TypeOK, NEW w \in Writer, NEW j, job' = [job EXCEPT ![w] = j],
         j.call = job[w].call, versions' = versions
  PROVE  AbstractStep
  BY SameCalls, Stutters DEF AbstractStep

LEMMA EndStep ==
  ASSUME TypeOK, NEW w \in Writer, NEW j, job' = [job EXCEPT ![w] = j],
         j.call = NoCall, versions' = versions
  PROVE  AbstractStep
  BY EndsCall, WriterActs DEF AbstractStep

LEMMA StoppedCall ==
  ASSUME NEW outcome
  PROVE  [Idle EXCEPT !.pc = outcome].call = NoCall
  BY DEF Idle

LEMMA AbortImplements ==
  ASSUME TypeOK, NEW w \in Writer, NEW outcome, Abort(w, outcome), versions' = versions
  PROVE  AbstractStep
  BY StoppedCall, EndStep DEF Abort

LEMMA AdvanceImplements ==
  ASSUME PublicationInv, ContentInv, NEW w \in Writer, job[w].pc \in {"inspect", "put"},
         Advance(w), versions' = versions
  PROVE  AbstractStep
<1>1. TypeOK /\ JobContent(versions, job[w])
  BY DEF PublicationInv, ContentInv
<1>2. PICK j \in JobType :
         /\ job' = [job EXCEPT ![w] = j]
         /\ AtManifest(job[w]) => j = [Idle EXCEPT !.pc = "done"]
         /\ ~AtManifest(job[w]) => j.call = job[w].call
  BY <1>1, AdvancedContent
<1>3. CASE AtManifest(job[w])
  BY <1>1, <1>2, <1>3, StoppedCall, EndStep
<1>4. CASE ~AtManifest(job[w])
  BY <1>1, <1>2, <1>4, SameStep
<1> QED BY <1>3, <1>4

LEMMA StartCreateImplements ==
  ASSUME PublicationInv, ContentInv,
         NEW w \in Writer, NEW v \in Version, NEW content \in Content, StartCreate(w, v, content)
  PROVE  AbstractStep
<1> DEFINE base == BaseReference(v, content)
           m    == [version |-> v, parent |-> NoVersion, segments |-> <<base>>]
           call == [version |-> v, previous |-> NoVersion,
                    entries |-> content, removed |-> {}]
           j    == [Idle EXCEPT !.pc = "inspect", !.call = call,
                                !.manifest = m, !.local = {Digest(base)}]
<1>1. job' = [job EXCEPT ![w] = j] /\ UNCHANGED objects /\ job[w].pc \notin Running
  BY DEF StartCreate
<1>2. call \in Call /\ call.previous # call.version /\ call.previous = NoVersion
  BY FormatAssumption DEF Call, Content
<1> HIDE DEF base, m, call
<1>3. j.call = call
  BY DEF Idle
<1> HIDE DEF j
<1> QED BY <1>1, <1>2, <1>3, IdleHasNoCall, BeginsCall, WriterActs

LEMMA StartUpdateImplements ==
  ASSUME PublicationInv, ContentInv, NEW w \in Writer, NEW v \in Version,
         NEW previous \in Readable, NEW entries \in Content, NEW removed \in SUBSET Key,
         StartUpdate(w, v, previous, entries, removed)
  PROVE  AbstractStep
<1> DEFINE delta == DeltaReference(v, previous.version, entries, removed)
           m     == [version |-> v, parent |-> previous.version,
                     segments |-> Append(previous.segments, delta)]
           call  == [version |-> v, previous |-> previous.version,
                     entries |-> entries, removed |-> removed]
           j     == [Idle EXCEPT !.pc = "inspect", !.call = call,
                                 !.manifest = m, !.local = {Digest(delta)}]
<1>1. /\ job' = [job EXCEPT ![w] = j] /\ UNCHANGED objects /\ job[w].pc \notin Running
      /\ v # previous.version
  BY DEF StartUpdate
<1>2. previous \in Manifest
  BY ReadableType DEF PublicationInv
<1>3. previous.segments \in Seq(Reference) /\ previous.version \in Version
  BY <1>2 DEF Manifest
<1>4. versions[previous.version] # NoManifest
  BY <1>3, CarriesWhole DEF ContentInv, CarriesAll
<1>5. /\ call \in Call /\ call.previous # call.version
      /\ versions[call.previous] # NoManifest
  BY <1>1, <1>3, <1>4 DEF Call, Content
<1> HIDE DEF delta, m, call
<1>6. j.call = call
  BY DEF Idle
<1> HIDE DEF j
<1> QED BY <1>1, <1>5, <1>6, IdleHasNoCall, BeginsCall, WriterActs

LEMMA StartCheckpointImplements ==
  ASSUME PublicationInv, ContentInv, NEW w \in Writer, NEW source \in Readable,
         StartRebase(w, source) \/ StartCompact(w, source)
  PROVE  AbstractStep
<1>1. TypeOK /\ versions' = versions
  BY DEF PublicationInv, StartRebase, StartCompact, objects
<1>2. CASE StartRebase(w, source)
  <2> DEFINE base  == BaseReference(source.version, View(source.segments))
             m     == [source EXCEPT !.segments = <<base>>]
             local == Digests(source.segments) \cup {Digest(base)}
             j     == [Idle EXCEPT !.pc = "inspect", !.checkpoint = TRUE,
                                   !.manifest = m, !.local = local]
  <2>1. job' = [job EXCEPT ![w] = j]
    BY <1>2 DEF StartRebase
  <2> HIDE DEF base, m, local
  <2>2. j.call = NoCall
    BY DEF Idle
  <2> HIDE DEF j
  <2> QED BY <1>1, <2>1, <2>2, EndStep
<1>3. CASE StartCompact(w, source)
  <2> DEFINE first == <<Head(source.segments)>>
             rest  == Tail(source.segments)
             local == Digests(source.segments)
             j     == [Idle EXCEPT !.pc = "compact", !.checkpoint = TRUE,
                                   !.manifest = source, !.local = local,
                                   !.stack = first, !.rest = rest]
  <2>1. job' = [job EXCEPT ![w] = j]
    BY <1>3 DEF StartCompact
  <2> HIDE DEF first, rest, local
  <2>2. j.call = NoCall
    BY DEF Idle
  <2> HIDE DEF j
  <2> QED BY <1>1, <2>1, <2>2, EndStep
<1> QED BY <1>2, <1>3

\* A step of compact() that keeps building.
LEMMA CompactImplements ==
  ASSUME PublicationInv, NEW w \in Writer,
         CompactPush(w) \/ CompactMerge(w) \/ CompactDone(w)
  PROVE  AbstractStep
<1>1. TypeOK /\ versions' = versions
  BY DEF PublicationInv, CompactPush, CompactMerge, CompactDone, objects
<1>2. job \in [Writer -> JobType] /\ job[w] \in JobType
  BY <1>1 DEF TypeOK
<1>3. job'[w].call = job[w].call
  BY <1>2 DEF CompactPush, CompactMerge, CompactDone, JobType
<1>4. job' = [job EXCEPT ![w] = job'[w]]
  BY <1>2 DEF CompactPush, CompactMerge, CompactDone
<1> QED BY <1>1, <1>3, <1>4, SameStep

LEMMA CompareImplements ==
  ASSUME PublicationInv, ContentInv, NEW w \in Writer, job[w].pc \in {"inspect", "put"},
         Compare(w), UNCHANGED objects
  PROVE  AbstractStep
<1>1. TypeOK /\ versions' = versions
  BY DEF PublicationInv, objects
<1> QED BY <1>1, AdvanceImplements, AbortImplements DEF Compare

LEMMA InspectMissingImplements ==
  ASSUME PublicationInv, NEW w \in Writer, NEW forbidden \in BOOLEAN,
         InspectMissing(w, forbidden)
  PROVE  AbstractStep
<1>1. /\ TypeOK /\ versions' = versions
      /\ job \in [Writer -> JobType] /\ job[w] \in JobType
  BY DEF PublicationInv, TypeOK, InspectMissing, objects
<1>2. CASE IsLocal(job[w])
  <2> DEFINE j == [job[w] EXCEPT !.pc = "put"]
  <2>1. job' = [job EXCEPT ![w] = j]
    BY <1>1, <1>2 DEF InspectMissing
  <2>2. j.call = job[w].call
    BY <1>1 DEF JobType
  <2> QED BY <1>1, <2>1, <2>2, SameStep
<1>3. CASE ~IsLocal(job[w])
  BY <1>1, <1>3, AbortImplements DEF InspectMissing
<1> QED BY <1>2, <1>3

LEMMA PutRetryImplements ==
  ASSUME PublicationInv, NEW w \in Writer, PutRetry(w)
  PROVE  AbstractStep
<1>1. /\ TypeOK /\ versions' = versions
      /\ job \in [Writer -> JobType] /\ job[w] \in JobType
  BY DEF PublicationInv, TypeOK, PutRetry, objects
<1>2. CASE job[w].attempt < MaxAttempts - 1
  <2> DEFINE n == job[w].attempt + 1
             j == [job[w] EXCEPT !.attempt = n]
  <2>1. job' = [job EXCEPT ![w] = j]
    BY <1>1, <1>2 DEF PutRetry
  <2> HIDE DEF n
  <2>2. j.call = job[w].call
    BY <1>1 DEF JobType
  <2> QED BY <1>1, <2>1, <2>2, SameStep
<1>3. CASE ~(job[w].attempt < MaxAttempts - 1)
  BY <1>1, <1>3, AbortImplements DEF PutRetry
<1> QED BY <1>2, <1>3

\* Storing a version's manifest commits, whether or not the caller learns it;
\* storing anything else is not seen by the abstract index.
LEMMA StoreImplements ==
  ASSUME PublicationInv, ContentInv, NEW w \in Writer, job[w].pc = "put",
         ~Exists(job[w]), StoreObject(job[w]), Advance(w) \/ Abort(w, "idle")
  PROVE  AbstractStep
<1>0. TypeOK /\ JobContent(versions, job[w])
  BY DEF PublicationInv, ContentInv
<1>1. CASE ~AtManifest(job[w]) \/ job[w].checkpoint
  <2>1. versions' = versions
    BY <1>1, StoredVersions
  <2> QED BY <1>0, <2>1, AdvanceImplements, AbortImplements
<1>2. CASE AtManifest(job[w]) /\ ~job[w].checkpoint
  <2>1. \E outcome \in {"done", "idle"} :
            job' = [job EXCEPT ![w] = [Idle EXCEPT !.pc = outcome]]
    BY <1>2 DEF Advance, Finished, Abort
  <2> QED BY <1>2, <2>1, StoppedCall, CommitsCall, WriterActs
<1> QED BY <1>1, <1>2

LEMMA StepImplements == PublicationInv /\ ContentInv /\ [Next]_vars => AbstractStep
<1> SUFFICES ASSUME PublicationInv, ContentInv, [Next]_vars PROVE AbstractStep
  OBVIOUS
<1>1. CASE UNCHANGED vars
  BY <1>1, Stutters DEF vars, AbstractStep
<1>2. ASSUME NEW w \in Writer, Start(w) PROVE AbstractStep
  BY <1>2, StartCreateImplements, StartUpdateImplements, StartCheckpointImplements DEF Start
<1>3. ASSUME NEW w \in Writer, Inspect(w) \/ PutExists(w) PROVE AbstractStep
  BY <1>3, CompareImplements DEF Inspect, PutExists
<1>4. ASSUME NEW w \in Writer, Put(w) \/ PutLostResponse(w) PROVE AbstractStep
  BY <1>4, StoreImplements DEF Put, PutLostResponse
<1>5. ASSUME NEW w \in Writer, Step(w) PROVE AbstractStep
  BY <1>3, <1>4, <1>5, CompactImplements, InspectMissingImplements, PutRetryImplements
     DEF Step, Publish
<1>6. ASSUME NEW w \in Writer, Stop(w) PROVE AbstractStep
  <2>1. TypeOK /\ versions' = versions
    BY <1>6 DEF PublicationInv, Stop, objects
  <2> QED BY <1>6, <2>1, AbortImplements DEF Stop
<1> QED BY <1>1, <1>2, <1>5, <1>6 DEF Next

LEMMA InitImplements == Init => Index!Init
<1> SUFFICES ASSUME Init PROVE Index!Init
  OBVIOUS
<1>1. ContentOf(versions) = [v \in Version |-> NoManifest]
  BY DEF Init, ContentOf
<1>2. Idle.call = NoCall
  BY DEF Idle
<1>3. CallsOf(job) = [w \in Writer |-> NoCall]
  BY <1>2 DEF Init, CallsOf
<1> QED BY <1>1, <1>3 DEF Index!Init, ContentOf, CallsOf

\* The store, with its segments, checkpoints, compactions, retries and crashes,
\* implements the index in which a version's content is decided by one call,
\* becomes visible at one moment and never changes.
THEOREM StoreImplementsIndex == Spec => ImplementsIndex
<1>1. PublicationInv /\ ContentInv /\ [Next]_vars => [Index!Next]_Index!vars
  BY StepImplements DEF AbstractStep
<1> QED BY <1>1, InitImplements, PublicationInvariant, ContentInvariant, PTL
        DEF Spec, ImplementsIndex, Index!Spec

=============================================================================
