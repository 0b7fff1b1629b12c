---------------------------- MODULE PathIndexStore ----------------------------
(***************************************************************************)
(* The S3 store of one domain/repository namespace: several writer         *)
(* processes build a base, a delta or a compacted checkpoint in a private  *)
(* scratch directory, then upload every segment before the manifest with   *)
(* HEAD and create-only PUT.                                               *)
(*                                                                         *)
(* A writer may be killed at any point, S3 may fail or hide an answer, may *)
(* store an object and lose the response, and may ask for a retry of a     *)
(* conditional PUT.  Objects are never deleted by the engine.              *)
(***************************************************************************)
EXTENDS PathIndexFormat, FiniteSets

CONSTANTS
    Writer,       \* task processes that use the namespace
    MaxSegments,  \* IndexStore.max_segments, the lookup bound
    MaxAttempts,  \* conditional PUTs of one object: 3 in _put
    MaxCheckpoints,  \* bound of the model: compactions start below this number
    NoManifest,   \* no object under this version's name
    NoCall        \* a writer that is compacting, or idle

Call == [version  : Version,
         previous : Version \cup {NoVersion},
         entries  : [Key -> Entry \cup {NoEntry}],
         removed  : SUBSET Key]

ASSUME StoreAssumption ==
    /\ MaxSegments \in 2 .. 32
    /\ MaxAttempts \in Nat \ {0}
    /\ MaxCheckpoints \in Nat
    /\ NoManifest \notin Manifest \cup Content
    /\ NoCall \notin Call

VARIABLES
    segments,     \* digests stored under segments/
    versions,     \* the manifest stored under versions/<version>.json
    checkpoints,  \* manifests stored under checkpoints/<digest>.json
    job           \* each writer's call in progress

objects == <<segments, versions, checkpoints>>
vars == <<segments, versions, checkpoints, job>>

Idle == [pc         |-> "idle",
         call       |-> NoCall,
         manifest   |-> NoManifest,
         checkpoint |-> FALSE,
         local      |-> {},      \* digests in the scratch directory
         stack      |-> <<>>,    \* compact: references already placed
         rest       |-> <<>>,    \* compact: references still to place
         next       |-> 1,       \* the object being published
         attempt    |-> 0]

Running == {"compact", "inspect", "put"}

Published == {versions[v] : v \in Version} \ {NoManifest}

Readable == Published \cup checkpoints

Digests(refs) == {Digest(refs[i]) : i \in 1 .. Len(refs)}

-----------------------------------------------------------------------------
(* Building in the scratch directory.                                       *)

\* IndexStore.create: the first base of a version.
StartCreate(w, v, content) ==
    LET base == BaseReference(v, content)
    IN  /\ job[w].pc \notin Running
        /\ job' = [job EXCEPT ![w] =
                [Idle EXCEPT !.pc = "inspect",
                             !.call = [version  |-> v, previous |-> NoVersion,
                                       entries  |-> content, removed |-> {}],
                             !.manifest = [version |-> v, parent |-> NoVersion,
                                           segments |-> <<base>>],
                             !.local = {Digest(base)}]]
        /\ UNCHANGED objects

\* IndexStore.update: one more delta after a stored predecessor.
StartUpdate(w, v, previous, entries, removed) ==
    LET delta == DeltaReference(v, previous.version, entries, removed)
        manifest == [version  |-> v,
                     parent   |-> previous.version,
                     segments |-> Append(previous.segments, delta)]
    IN  /\ job[w].pc \notin Running
        /\ v # previous.version
        /\ Len(previous.segments) < MaxSegments
        /\ ManifestValid(manifest)
        /\ job' = [job EXCEPT ![w] =
                [Idle EXCEPT !.pc = "inspect",
                             !.call = [version  |-> v,
                                       previous |-> previous.version,
                                       entries  |-> entries, removed |-> removed],
                             !.manifest = manifest,
                             !.local = {Digest(delta)}]]
        /\ UNCHANGED objects

\* compact(rebase=True): all live entries of the view in one base.
StartRebase(w, source) ==
    LET base == BaseReference(source.version, View(source.segments))
    IN  /\ job[w].pc \notin Running
        /\ Cardinality(checkpoints) < MaxCheckpoints
        /\ Digests(source.segments) \subseteq segments
        /\ job' = [job EXCEPT ![w] =
                [Idle EXCEPT !.pc = "inspect",
                             !.checkpoint = TRUE,
                             !.manifest = [source EXCEPT !.segments = <<base>>],
                             !.local = Digests(source.segments) \cup {Digest(base)}]]
        /\ UNCHANGED objects

\* compact(): every source is opened before anything is written.
StartCompact(w, source) ==
    /\ job[w].pc \notin Running
    /\ Cardinality(checkpoints) < MaxCheckpoints
    /\ Digests(source.segments) \subseteq segments
    /\ job' = [job EXCEPT ![w] =
            [Idle EXCEPT !.pc = "compact",
                         !.checkpoint = TRUE,
                         !.manifest = source,
                         !.local = Digests(source.segments),
                         !.stack = <<Head(source.segments)>>,
                         !.rest = Tail(source.segments)]]
    /\ UNCHANGED objects

\* references.append(reference)
CompactPush(w) ==
    /\ job[w].pc = "compact"
    /\ ~EqualLevels(job[w].stack)
    /\ job[w].rest # <<>>
    /\ job' = [job EXCEPT ![w].stack = Append(@, Head(job[w].rest)),
                          ![w].rest = Tail(@)]
    /\ UNCHANGED objects

\* references[-2:] = [merged]
CompactMerge(w) ==
    /\ job[w].pc = "compact"
    /\ EqualLevels(job[w].stack)
    /\ job' = [job EXCEPT ![w].stack = MergeTop(@),
                          ![w].local = @ \cup {Digest(TopMerged(job[w].stack))}]
    /\ UNCHANGED objects

CompactDone(w) ==
    /\ job[w].pc = "compact"
    /\ ~EqualLevels(job[w].stack)
    /\ job[w].rest = <<>>
    /\ job' = [job EXCEPT ![w].pc = "inspect",
                          ![w].manifest.segments = job[w].stack,
                          ![w].stack = <<>>]
    /\ UNCHANGED objects

-----------------------------------------------------------------------------
(* Publication: objects 1 .. Len(segments) are the manifest's segments, the *)
(* last object is the manifest itself.                                      *)

AtManifest(j) == j.next > Len(j.manifest.segments)

CurrentDigest(j) == Digest(j.manifest.segments[j.next])

\* The builder holds the object; otherwise a predecessor must already be in S3.
IsLocal(j) == AtManifest(j) \/ CurrentDigest(j) \in j.local

Exists(j) ==
    IF ~AtManifest(j) THEN CurrentDigest(j) \in segments
    ELSE IF j.checkpoint THEN j.manifest \in checkpoints
    ELSE versions[j.manifest.version] # NoManifest

\* Mutant: an existing name is taken for an existing copy of these bytes.
Matches_Unchecked(j) == TRUE

\* _check_object: only a version's name can hold different bytes.
Matches(j) ==
    AtManifest(j) /\ ~j.checkpoint => versions[j.manifest.version] = j.manifest

Finished(j) == [Idle EXCEPT !.pc = "done"]

\* Publishing continues with the next object, or has succeeded.
Advance(w) ==
    LET j == job[w]
    IN  job' = [job EXCEPT ![w] =
            IF AtManifest(j) THEN Finished(j)
            ELSE [j EXCEPT !.pc = "inspect", !.next = j.next + 1, !.attempt = 0]]

Abort(w, outcome) == job' = [job EXCEPT ![w] = [Idle EXCEPT !.pc = outcome]]

\* _check_object after a HEAD that saw the object.
Compare(w) == IF Matches(job[w]) THEN Advance(w) ELSE Abort(w, "conflict")

\* HEAD answers that the object exists.
Inspect(w) ==
    /\ job[w].pc = "inspect"
    /\ Exists(job[w])
    /\ Compare(w)
    /\ UNCHANGED objects

\* Mutant: a forbidden HEAD before a PUT is taken for an existing object.
InspectMissing_ForbiddenIsPresent(w, forbidden) ==
    /\ job[w].pc = "inspect"
    /\ forbidden \/ ~Exists(job[w])
    /\ IF ~IsLocal(job[w]) THEN Abort(w, "idle")
       ELSE IF forbidden THEN Advance(w)
       ELSE job' = [job EXCEPT ![w].pc = "put"]
    /\ UNCHANGED objects

\* HEAD answers 404, or 403, which hides both a missing and an existing object.
InspectMissing(w, forbidden) ==
    /\ job[w].pc = "inspect"
    /\ forbidden \/ ~Exists(job[w])
    /\ IF IsLocal(job[w])
       THEN job' = [job EXCEPT ![w].pc = "put"]
       ELSE Abort(w, "idle")
    /\ UNCHANGED objects

StoreObject(j) ==
    /\ segments' = IF AtManifest(j) THEN segments ELSE segments \cup {CurrentDigest(j)}
    /\ checkpoints' = IF AtManifest(j) /\ j.checkpoint
                      THEN checkpoints \cup {j.manifest} ELSE checkpoints
    /\ versions' = IF AtManifest(j) /\ ~j.checkpoint
                   THEN [versions EXCEPT ![j.manifest.version] = j.manifest] ELSE versions

\* Mutant: the PUT is sent without If-None-Match.
Put_Unconditional(w) ==
    /\ job[w].pc = "put"
    /\ StoreObject(job[w])
    /\ Advance(w)

\* PUT If-None-Match created the object.
Put(w) ==
    /\ job[w].pc = "put"
    /\ ~Exists(job[w])
    /\ StoreObject(job[w])
    /\ Advance(w)

\* 412: somebody, or an earlier attempt, created it; HEAD again and compare.
PutExists(w) ==
    /\ job[w].pc = "put"
    /\ Exists(job[w])
    /\ Compare(w)
    /\ UNCHANGED objects

\* Mutant: one attempt too many.
PutRetry_OffByOne(w) ==
    /\ job[w].pc = "put"
    /\ IF job[w].attempt < MaxAttempts
       THEN job' = [job EXCEPT ![w].attempt = @ + 1]
       ELSE Abort(w, "idle")
    /\ UNCHANGED objects

\* 409: S3 asks to retry the conditional PUT.
PutRetry(w) ==
    /\ job[w].pc = "put"
    /\ IF job[w].attempt < MaxAttempts - 1
       THEN job' = [job EXCEPT ![w].attempt = @ + 1]
       ELSE Abort(w, "idle")
    /\ UNCHANGED objects

\* The PUT took effect, its response did not arrive.
PutLostResponse(w) ==
    /\ job[w].pc = "put"
    /\ ~Exists(job[w])
    /\ StoreObject(job[w])
    /\ Abort(w, "idle")

\* A transport or server error raises, or the worker process is killed: either
\* way only an abandoned scratch directory is left behind.
Stop(w) ==
    /\ job[w].pc \in Running
    /\ Abort(w, "idle")
    /\ UNCHANGED objects

-----------------------------------------------------------------------------

Init ==
    /\ segments = {}
    /\ versions = [v \in Version |-> NoManifest]
    /\ checkpoints = {}
    /\ job = [w \in Writer |-> Idle]

Start(w) ==
    \/ \E v \in Version, content \in Content : StartCreate(w, v, content)
    \/ \E v \in Version, previous \in Readable,
          entries \in Content, removed \in SUBSET Key :
              StartUpdate(w, v, previous, entries, removed)
    \/ \E source \in Readable : StartRebase(w, source) \/ StartCompact(w, source)

Publish(w) ==
    \/ Inspect(w)
    \/ \E forbidden \in BOOLEAN : InspectMissing(w, forbidden)
    \/ Put(w) \/ PutExists(w) \/ PutRetry(w) \/ PutLostResponse(w)

Step(w) == CompactPush(w) \/ CompactMerge(w) \/ CompactDone(w) \/ Publish(w)

Next == \E w \in Writer : Start(w) \/ Step(w) \/ Stop(w)

Spec == Init /\ [][Next]_vars

-----------------------------------------------------------------------------
(* Properties.                                                              *)

JobType ==
    [pc         : Running \cup {"idle", "done", "conflict"},
     call       : Call \cup {NoCall},
     manifest   : Manifest \cup {NoManifest},
     checkpoint : BOOLEAN,
     local      : SUBSET Segment,
     stack      : Seq(Reference),
     rest       : Seq(Reference),
     next       : Nat,
     attempt    : 0 .. MaxAttempts - 1]

\* The store holds digests and manifests under the names the engine gives them.
TypeOK ==
    /\ segments \subseteq Segment
    /\ versions \in [Version -> Manifest \cup {NoManifest}]
    /\ checkpoints \subseteq Manifest
    /\ job \in [Writer -> JobType]

\* _publish commits a manifest only after all objects it names are available:
\* whatever was lost, hidden or killed in between, a manifest that can be read
\* never points at a segment that is not in S3.
ManifestsClosed ==
    \A m \in Readable : Digests(m.segments) \subseteq segments

\* Each reference of a readable chain, compacted or not, carries the index
\* exactly from the version it starts at to the version it ends at: cutting the
\* chain after any segment gives the content published for that end version.
PrefixesAreVersions ==
    \A m \in Readable : \A i \in 1 .. Len(m.segments) :
        LET v == m.segments[i].end
        IN  /\ versions[v] # NoManifest
            /\ View(SubSeq(m.segments, 1, i)) = View(versions[v].segments)

\* Objects are create-only: no race, retry or crash of writers replaces or
\* removes what a committed descriptor may already name.
ObjectsImmutable ==
    [][ /\ segments \subseteq segments'
        /\ checkpoints \subseteq checkpoints'
        /\ \A v \in Version :
               versions[v] # NoManifest => versions'[v] = versions[v] ]_vars

\* A call returns only when its own manifest is what the store serves under
\* that name, and reports PublicationConflict only when a different manifest
\* is there: repeating an interrupted call with the same inputs is safe.
OutcomesAreTrue ==
    [][ \A w \in Writer : job[w].pc \in {"inspect", "put"} =>
          LET m == job[w].manifest
          IN  /\ job'[w].pc = "done" =>
                    m \in IF job[w].checkpoint THEN checkpoints'
                          ELSE {versions'[m.version]}
              /\ job'[w].pc = "conflict" =>
                    versions'[m.version] \notin {NoManifest, m} ]_vars

\* The store implements the abstract index: a version's content is the one its
\* create or update call asked for, through any number of compactions.
Index == INSTANCE VersionedIndex WITH
    Unpublished <- NoManifest,
    content <- [v \in Version |-> IF versions[v] = NoManifest THEN NoManifest
                                  ELSE View(versions[v].segments)],
    call <- [w \in Writer |-> job[w].call]

ImplementsIndex == Index!Spec

=============================================================================
