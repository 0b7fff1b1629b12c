-------------------------- MODULE PathIndexPublication --------------------------
(***************************************************************************)
(* The path index of one repository through its life: modify, build and    *)
(* compact tasks publish manifests to the S3 namespace of the storage      *)
(* profile, and a version's info advertises one of them only when the      *)
(* database row is saved.  Tasks run one at a time under the repository's  *)
(* reservation; labels and storage settings change at any moment, a task   *)
(* works with the values it loaded, and it can be killed between any two   *)
(* of its steps.                                                           *)
(*                                                                         *)
(* A store call is one step here: PathIndexStore shows that it commits at  *)
(* the moment its manifest is created.                                     *)
(***************************************************************************)
EXTENDS PathIndexFormat

CONSTANTS
    Path,         \* relative paths of content artifacts
    Page,         \* those that end in index.html
    Alias,        \* the directory path each page also answers
    Required,     \* the pages of the directories above a path
    Artifact,     \* stored artifacts
    Remote,       \* content whose artifact has not been downloaded
    Unit,         \* content units: one path, artifact and type each
    Profile,      \* storage configurations of the domain
    MaxSegments,  \* IndexStore.max_segments
    MaxChanges,   \* bound of the model: configuration changes
    NoManifest,   \* no object under this version's name
    NoInfo,       \* a version that advertises no index
    NoTask        \* the reservation is free

\* The digest in a descriptor identifies the manifest; it is the manifest here.
Descriptor == [profile : Profile, manifest : Manifest, checkpoint : BOOLEAN]

Task == [kind     : {"modify", "build", "compact"},
         pc       : {"finalize", "update", "retry", "publish", "save"},
         version  : Version,
         enabled  : BOOLEAN,
         profile  : Profile,
         manifest : Manifest \cup {NoManifest}]

\* A directory has one page, which is in the directory it answers for.
ASSUME PublicationAssumption ==
    /\ Page \subseteq Path
    /\ Alias \in [Page -> Key \ Path]
    /\ \A p, q \in Page : Alias[p] = Alias[q] => p = q
    /\ Required \in [Path -> SUBSET Page]
    /\ \A p \in Path : \A q \in Required[p] : q \in Required[q]
    /\ Key = Path \cup {Alias[p] : p \in Page}
    /\ Entry = Artifact
    /\ Unit \subseteq [path : Path, artifact : Artifact \cup {Remote}, page : BOOLEAN]
    /\ MaxSegments \in 2 .. 32
    /\ Version \subseteq Nat /\ 0 \in Version
    /\ MaxChanges \in Nat
    /\ NoManifest \notin Manifest /\ NoTask \notin Task

VARIABLES
    label,        \* pulp_labels["path_index"] is "true"
    profile,      \* the domain's current storage profile
    changes,      \* configuration changes so far
    state,        \* each version's row: unused, draft, complete or deleted
    content,      \* each version's content units
    info,         \* the advertised manifest of each version
    manifests,    \* versions/<version>.json in each profile's namespace
    checkpoints,  \* checkpoints/<digest>.json in each profile's namespace
    task          \* the task that holds the reservation

config == <<label, profile, changes>>
rows == <<state, content, info>>
bucket == <<manifests, checkpoints>>
vars == <<label, profile, changes, state, content, info, manifests, checkpoints, task>>

Complete == {v \in Version : state[v] = "complete"}

Newest(versions) == CHOOSE v \in versions : \A u \in versions : u <= v

Previous(v) == Newest({u \in Complete : u < v})

-----------------------------------------------------------------------------
(* extract.py and publish.py: what a version serves, and the checks that    *)
(* make a miss authoritative.                                               *)

\* artifact_entries: a page is also the answer for its directory.
Keys(p) == {p} \cup (IF p \in Page THEN {Alias[p]} ELSE {})

Files(units, paths) == {u \in units : u.path \in paths}

Entries(units) ==
    [k \in Key |->
        LET providers == {u \in units : k \in Keys(u.path)}
        IN  IF providers = {} THEN NoEntry
            ELSE (CHOOSE u \in providers : TRUE).artifact]

\* checked_rows: one downloaded artifact per path.
CheckedRows(units) ==
    /\ \A u, w \in units : u.path = w.path => u = w
    /\ \A u \in units : u.artifact # Remote

\* check_directories: a directory that holds files has its generated page.
CheckDirectories(units, paths) ==
    \A q \in UNION {Required[p] : p \in paths} :
        \/ Files(units, {q}) # {}
        \/ \A u \in units : q \in Required[u.path] => u.page

AllPaths(units) == {u.path : u \in units}

\* baseline_entries goes through without raising.
BaselineOK(units) == CheckedRows(units) /\ CheckDirectories(units, AllPaths(units))

\* changed_paths: paths of every unit the version added or removed.
ChangedPaths(old, new) == AllPaths((old \ new) \cup (new \ old))

\* Mutant: only paths that were added are checked.
ChangedOK_AddedOnly(old, new) ==
    LET paths == AllPaths(new \ old)
    IN  CheckedRows(Files(new, paths)) /\ CheckDirectories(new, paths)

ChangedOK(old, new) ==
    LET paths == ChangedPaths(old, new)
    IN  CheckedRows(Files(new, paths)) /\ CheckDirectories(new, paths)

ChangedEntries(old, new) == Entries(Files(new, ChangedPaths(old, new)))

DeletedHashes(old, new) == UNION {Keys(p) : p \in ChangedPaths(old, new)}

-----------------------------------------------------------------------------
(* The store calls, atomic at this level.                                   *)

BaseManifest(v, entries) ==
    [version |-> v, parent |-> NoVersion, segments |-> <<BaseReference(v, entries)>>]

\* Mutant: the parent is the source's own parent.
DeltaManifest_InheritsParent(v, source, entries, removed) ==
    [version  |-> v,
     parent   |-> source.parent,
     segments |-> Append(source.segments,
                         DeltaReference(v, source.version, entries, removed))]

DeltaManifest(v, source, entries, removed) ==
    [version  |-> v,
     parent   |-> source.version,
     segments |-> Append(source.segments,
                         DeltaReference(v, source.version, entries, removed))]

Rebased(m) ==
    [m EXCEPT !.segments = <<BaseReference(m.version, View(m.segments))>>]

\* finalize compacts when two adjacent runs have one level.
HasEqualRuns(m) ==
    \E i \in 2 .. Len(m.segments) - 1 : m.segments[i].level = m.segments[i + 1].level

\* What state.read finds under a descriptor.
Readable(d) ==
    IF d.checkpoint THEN d.manifest \in checkpoints[d.profile]
    ELSE manifests[d.profile][d.manifest.version] = d.manifest

-----------------------------------------------------------------------------
(* Configuration, by users and operators, outside any reservation.          *)

SetLabel ==
    /\ changes < MaxChanges
    /\ changes' = changes + 1
    /\ label' = ~label
    /\ UNCHANGED <<profile, task>> /\ UNCHANGED rows /\ UNCHANGED bucket

SetProfile ==
    /\ changes < MaxChanges
    /\ changes' = changes + 1
    /\ \E p \in Profile \ {profile} : profile' = p
    /\ UNCHANGED <<label, task>> /\ UNCHANGED rows /\ UNCHANGED bucket

-----------------------------------------------------------------------------
(* Tasks.                                                                   *)

NewTask(kind, pc, v) ==
    [kind |-> kind, pc |-> pc, version |-> v, enabled |-> label,
     profile |-> profile, manifest |-> NoManifest]

\* Core removes a version's row.
Drop(versions) ==
    /\ state' = [v \in Version |-> IF v \in versions THEN "deleted" ELSE state[v]]
    /\ content' = [v \in Version |-> IF v \in versions THEN {} ELSE content[v]]
    /\ info' = [v \in Version |-> IF v \in versions THEN NoInfo ELSE info[v]]

\* An exception: core deletes the draft of a failed modify.
Fail ==
    /\ task' = NoTask
    /\ Drop(IF task.kind = "modify" THEN {task.version} ELSE {})
    /\ UNCHANGED bucket /\ UNCHANGED config

\* Mutant: the namespace is looked up again while the descriptor is not.
PublishVersion_CurrentProfile(m) ==
    IF manifests[profile][m.version] \in {NoManifest, m}
    THEN /\ manifests' = [manifests EXCEPT ![profile][m.version] = m]
         /\ task' = [task EXCEPT !.pc = "save", !.manifest = m]
         /\ UNCHANGED checkpoints /\ UNCHANGED rows /\ UNCHANGED config
    ELSE Fail

\* Create-only publication of versions/<v>.json in the task's namespace.
PublishVersion(m) ==
    IF manifests[task.profile][m.version] \in {NoManifest, m}
    THEN /\ manifests' = [manifests EXCEPT ![task.profile][m.version] = m]
         /\ task' = [task EXCEPT !.pc = "save", !.manifest = m]
         /\ UNCHANGED checkpoints /\ UNCHANGED rows /\ UNCHANGED config
    ELSE Fail

PublishCheckpoint(m, pc) ==
    /\ checkpoints' = [checkpoints EXCEPT ![task.profile] = @ \cup {m}]
    /\ task' = [task EXCEPT !.pc = pc, !.manifest = m]
    /\ UNCHANGED manifests /\ UNCHANGED rows /\ UNCHANGED config

\* new_version: the draft of a content change; a killed task's draft goes first.
StartModify(v, units) ==
    /\ task = NoTask
    /\ state[v] = "unused" /\ \A u \in Version : u < v => state[u] # "unused"
    /\ units # content[Previous(v)]
    /\ state' = [u \in Version |-> IF u = v THEN "draft"
                                   ELSE IF state[u] = "draft" THEN "deleted" ELSE state[u]]
    /\ content' = [u \in Version |-> IF u = v THEN units
                                     ELSE IF state[u] = "draft" THEN {} ELSE content[u]]
    /\ task' = NewTask("modify", "finalize", v)
    /\ UNCHANGED info /\ UNCHANGED bucket /\ UNCHANGED config

\* finalize up to the choice of the predecessor manifest.
Finalize ==
    LET v == task.version
        prev == Previous(v)
        m == info[prev].manifest
    IN  /\ task # NoTask /\ task.pc = "finalize"
        /\ IF ~task.enabled
           THEN /\ task' = [task EXCEPT !.pc = "save"]
                /\ UNCHANGED rows /\ UNCHANGED bucket /\ UNCHANGED config
           ELSE IF info[prev] = NoInfo
           THEN IF BaselineOK(content[v])
                THEN PublishVersion(BaseManifest(v, Entries(content[v])))
                ELSE Fail
           ELSE IF info[prev].profile # task.profile \/ ~Readable(info[prev])
           THEN Fail
           ELSE IF HasEqualRuns(m)
           THEN PublishCheckpoint(Compacted(m), "update")
           ELSE /\ task' = [task EXCEPT !.pc = "update", !.manifest = m]
                /\ UNCHANGED rows /\ UNCHANGED bucket /\ UNCHANGED config

\* IndexStore.update with what the version changed.
UpdateFrom(v) ==
    LET old == content[Previous(v)]
        new == content[v]
        m == DeltaManifest(v, task.manifest,
                           ChangedEntries(old, new), DeletedHashes(old, new))
    IN  IF ChangedOK(old, new) /\ ManifestValid(m) THEN PublishVersion(m) ELSE Fail

AtLimit == Len(task.manifest.segments) >= MaxSegments

\* Mutant: the segment limit is not enforced.
Update_Unlimited ==
    /\ task # NoTask /\ task.pc = "update"
    /\ UpdateFrom(task.version)

\* A chain at the limit raises NeedsCompaction; it is rewritten as one base.
Update ==
    /\ task # NoTask /\ task.pc = "update"
    /\ IF AtLimit
       THEN PublishCheckpoint(Rebased(task.manifest), "retry")
       ELSE UpdateFrom(task.version)

\* The second update; nothing catches another NeedsCompaction.
Retry ==
    /\ task # NoTask /\ task.pc = "retry"
    /\ IF AtLimit THEN Fail ELSE UpdateFrom(task.version)

\* Mutant: a descriptor is attached whether or not an index was published.
CompleteModify_AlwaysAttaches ==
    /\ task # NoTask /\ task.kind = "modify" /\ task.pc = "save"
    /\ state' = [state EXCEPT ![task.version] = "complete"]
    /\ info' = [info EXCEPT ![task.version] =
            [profile |-> task.profile, manifest |-> task.manifest, checkpoint |-> FALSE]]
    /\ task' = NoTask
    /\ UNCHANGED content /\ UNCHANGED bucket /\ UNCHANGED config

\* Core saves the version's info together with complete=True.
CompleteModify ==
    /\ task # NoTask /\ task.kind = "modify" /\ task.pc = "save"
    /\ state' = [state EXCEPT ![task.version] = "complete"]
    /\ info' = [info EXCEPT ![task.version] =
            IF task.enabled
            THEN [profile |-> task.profile, manifest |-> task.manifest, checkpoint |-> FALSE]
            ELSE NoInfo]
    /\ task' = NoTask
    /\ UNCHANGED content /\ UNCHANGED bucket /\ UNCHANGED config

StartBuild(v) ==
    /\ task = NoTask /\ label /\ v \in Complete
    /\ task' = NewTask("build", "publish", v)
    /\ UNCHANGED rows /\ UNCHANGED bucket /\ UNCHANGED config

StartCompact ==
    /\ task = NoTask /\ label
    /\ task' = NewTask("compact", "publish", Newest(Complete))
    /\ UNCHANGED rows /\ UNCHANGED bucket /\ UNCHANGED config

\* The version already has a descriptor of this profile.
Current(v) == info[v] # NoInfo /\ info[v].profile = task.profile

\* build_path_index up to the S3 publication.
Build ==
    LET v == task.version
    IN  /\ task # NoTask /\ task.kind = "build" /\ task.pc = "publish"
        /\ IF Current(v)
           THEN Fail  \* reads the advertised manifest, and ends either way
           ELSE IF ~BaselineOK(content[v]) THEN Fail
           ELSE PublishVersion(BaseManifest(v, Entries(content[v])))

\* compact_path_index up to the S3 publication.
Compact ==
    LET d == info[task.version]
    IN  /\ task # NoTask /\ task.kind = "compact" /\ task.pc = "publish"
        /\ IF d = NoInfo THEN Fail
           ELSE IF d.profile # task.profile \/ ~Readable(d) THEN Fail
           ELSE PublishCheckpoint(Rebased(d.manifest), "save")

\* version.save(update_fields=["info"])
SaveInfo ==
    /\ task # NoTask /\ task.kind \in {"build", "compact"} /\ task.pc = "save"
    /\ info' = [info EXCEPT ![task.version] =
            [profile |-> task.profile, manifest |-> task.manifest,
             checkpoint |-> task.kind = "compact"]]
    /\ task' = NoTask
    /\ UNCHANGED <<state, content>> /\ UNCHANGED bucket /\ UNCHANGED config

\* Storage is unavailable, or the database refuses the save.
TaskError == task # NoTask /\ Fail

\* The worker is killed; an unfinished draft stays until the next modify.
Crash ==
    /\ task # NoTask
    /\ task' = NoTask
    /\ UNCHANGED rows /\ UNCHANGED bucket /\ UNCHANGED config

\* Retention or an explicit delete; one complete version always remains.
DeleteVersion(v) ==
    /\ task = NoTask
    /\ v \in Complete /\ Complete # {v}
    /\ Drop({v})
    /\ UNCHANGED task /\ UNCHANGED bucket /\ UNCHANGED config

Init ==
    /\ label = FALSE /\ profile \in Profile /\ changes = 0
    /\ state = [v \in Version |-> IF v = 0 THEN "complete" ELSE "unused"]
    /\ content = [v \in Version |-> {}]
    /\ info = [v \in Version |-> NoInfo]
    /\ manifests = [p \in Profile |-> [v \in Version |-> NoManifest]]
    /\ checkpoints = [p \in Profile |-> {}]
    /\ task = NoTask

Work == Finalize \/ Update \/ Retry \/ CompleteModify \/ Build \/ Compact \/ SaveInfo

Next ==
    \/ SetLabel \/ SetProfile
    \/ \E v \in Version, units \in SUBSET Unit : StartModify(v, units)
    \/ \E v \in Version : StartBuild(v) \/ DeleteVersion(v)
    \/ StartCompact
    \/ Work
    \/ TaskError \/ Crash

Spec == Init /\ [][Next]_vars

-----------------------------------------------------------------------------
(* Properties.                                                              *)

TypeOK ==
    /\ label \in BOOLEAN /\ profile \in Profile /\ changes \in 0 .. MaxChanges
    /\ state \in [Version -> {"unused", "draft", "complete", "deleted"}]
    /\ content \in [Version -> SUBSET Unit]
    /\ info \in [Version -> Descriptor \cup {NoInfo}]
    /\ manifests \in [Profile -> [Version -> Manifest \cup {NoManifest}]]
    /\ checkpoints \in [Profile -> SUBSET Manifest]
    /\ task \in Task \cup {NoTask}

\* The index is authoritative: what a complete version advertises is in S3 under
\* its descriptor and answers every path of the version, misses included, as
\* the database would, however its chain of deltas and checkpoints came about.
AdvertisedIndexIsExact ==
    \A v \in Complete : info[v] # NoInfo =>
        /\ Readable(info[v])
        /\ View(info[v].manifest.segments) = Entries(content[v])

\* A delta checks the changed paths only; every path of the whole version has
\* nevertheless one downloaded artifact, and a page above it unless it is one.
IndexedVersionsAreCovered ==
    \A v \in Complete : info[v] # NoInfo =>
        \A u \in content[v] :
            /\ u.artifact \in Artifact
            /\ \A other \in content[v] \ {u} : other.path # u.path
            /\ u.page \/ Required[u.path] \subseteq AllPaths(content[v])

\* A chain that grows by one delta per version stays within the lookup bound.
LookupsAreBounded ==
    \A v \in Complete : info[v] # NoInfo =>
        /\ Len(info[v].manifest.segments) <= MaxSegments
        /\ ManifestValid(info[v].manifest)

\* A modify that was not killed completes, unless its content fails the checks
\* or its predecessor was advertised under other storage settings: crashed or
\* deleted versions, compaction and the segment limit never block it.
ModifyFailsOnlyForCause ==
    [][ (Finalize \/ Update \/ Retry) /\ task' = NoTask =>
          \/ ~BaselineOK(content[task.version])
          \/ info[Previous(task.version)].profile # task.profile ]_vars

\* config.py: configuration changes get a fresh immutable namespace so a retained
\* version can be rebuilt without overwriting its previous manifest.
RebuildsSucceed ==
    [][ Build /\ task' = NoTask =>
          Current(task.version) \/ ~BaselineOK(content[task.version]) ]_vars

=============================================================================
