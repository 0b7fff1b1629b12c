---------------------- MODULE PathIndexPublicationProofs ----------------------
(***************************************************************************)
(* The path index of a repository is exact, covered and bounded, and a     *)
(* modify fails only for cause: for every set of paths, pages, units,      *)
(* versions and profiles, and through any history of modifies, builds,     *)
(* compactions, deletions, failures and kills.                             *)
(***************************************************************************)
EXTENDS PathIndexPublication, PathIndexFormatProofs

-----------------------------------------------------------------------------
(* The inductive invariant.                                                 *)

\* What update() relies on besides the manifest's own checks: versions of a chain
\* are not newer than its manifest, so the next one is not among them.
ValidChain(m) ==
    /\ m \in Manifest
    /\ ManifestValid(m)
    /\ \A i \in 1 .. Len(m.segments) : m.segments[i].end <= m.version

\* What checked_rows and check_directories establish for a whole version.
Covered(units) ==
    /\ CheckedRows(units)
    /\ \A u \in units : u.page \/ Required[u.path] \subseteq AllPaths(units)

\* The manifest may be advertised for a version with these units.
Describes(m, units) ==
    /\ ValidChain(m)
    /\ Len(m.segments) <= MaxSegments
    /\ View(m.segments) = Entries(units)
    /\ Covered(units)

\* Version numbers are taken in order: only the newest may be unfinished.
VersionsInOrder ==
    /\ \E v \in Complete : \A u \in Complete : u <= v
    /\ \A v \in Version : state[v] \in {"unused", "draft"} =>
           \A u \in Version : v < u => state[u] = "unused"

\* Nothing was published for a number that was not taken.
UnusedAreUnpublished ==
    \A v \in Version : state[v] = "unused" =>
        \A p \in Profile : manifests[p][v] = NoManifest

IndexesAreExact ==
    \A v \in Version : info[v] # NoInfo =>
        /\ state[v] = "complete"
        /\ info[v].manifest.version = v
        /\ Readable(info[v])
        /\ Describes(info[v].manifest, content[v])

\* A modify has a draft, with nothing published for it before its last step.
OnDraft(t) ==
    t.kind = "modify" =>
        /\ t.pc \in {"finalize", "update", "retry", "save"}
        /\ state[t.version] = "draft"
        /\ t.pc # "save" => \A p \in Profile : manifests[p][t.version] = NoManifest

\* Builds and compactions have a complete version.
OnComplete(t) ==
    t.kind # "modify" =>
        /\ t.pc \in {"publish", "save"} /\ t.enabled
        /\ state[t.version] = "complete"

\* update() gets the manifest of the version before.
HasPredecessor(t) ==
    t.pc \in {"update", "retry"} =>
        /\ t.kind = "modify"
        /\ info[Previous(t.version)] # NoInfo
        /\ info[Previous(t.version)].profile = t.profile
        /\ t.manifest.version = Previous(t.version)
        /\ Describes(t.manifest, content[Previous(t.version)])
        /\ t.pc = "retry" => Len(t.manifest.segments) < MaxSegments

\* What a task is about to save is in S3 and describes its version.
HasManifest(t) ==
    t.pc = "save" /\ t.enabled =>
        /\ t.manifest.version = t.version
        /\ Describes(t.manifest, content[t.version])
        /\ IF t.kind = "compact" THEN t.manifest \in checkpoints[t.profile]
           ELSE manifests[t.profile][t.version] = t.manifest

TaskKnows ==
    task # NoTask =>
        OnDraft(task) /\ OnComplete(task) /\ HasPredecessor(task) /\ HasManifest(task)

RowsInv == VersionsInOrder /\ UnusedAreUnpublished /\ IndexesAreExact

PublicationInv == TypeOK /\ RowsInv /\ TaskKnows

-----------------------------------------------------------------------------
(* What extract.py and publish.py compute from a version's units.           *)

\* artifact_entries: a key belongs to one path.
LEMMA KeyHasOnePath ==
  ASSUME NEW p \in Path, NEW q \in Path, NEW k \in Keys(p), k \in Keys(q)
  PROVE  p = q
<1>1. \A x \in Path : \A y \in Keys(x) : y = x \/ (x \in Page /\ y = Alias[x] /\ y \notin Path)
  BY PublicationAssumption DEF Keys
<1> QED BY <1>1, PublicationAssumption

\* The keys of a path are keys.
LEMMA KeysAreKeys ==
  ASSUME NEW p \in Path
  PROVE  Keys(p) \subseteq Key
  BY PublicationAssumption DEF Keys

\* What is known of a content unit.
LEMMA UnitType ==
  ASSUME NEW u \in Unit
  PROVE  u.path \in Path /\ u.artifact \in Artifact \cup {Remote} /\ u.page \in BOOLEAN
  BY PublicationAssumption

\* Entries of checked rows are contents of an index.
LEMMA EntriesType ==
  ASSUME NEW units \in SUBSET Unit, CheckedRows(units)
  PROVE  Entries(units) \in Content
<1>1. ASSUME NEW k \in Key PROVE Entries(units)[k] \in Entry \cup {NoEntry}
  <2> DEFINE providers == {u \in units : k \in Keys(u.path)}
  <2>1. Entries(units)[k] = IF providers = {} THEN NoEntry
                            ELSE (CHOOSE u \in providers : TRUE).artifact
    BY DEF Entries
  <2>2. CASE providers = {}
    BY <2>1, <2>2
  <2>3. CASE providers # {}
    <3>1. (CHOOSE u \in providers : TRUE) \in providers
      BY <2>3
    <3>2. \A u \in providers : u.artifact \in Artifact
      BY UnitType DEF CheckedRows
    <3> HIDE DEF providers
    <3> QED BY <2>1, <2>3, <3>1, <3>2, PublicationAssumption
  <2> QED BY <2>2, <2>3
<1>2. Entries(units) = [k \in Key |-> Entries(units)[k]]
  BY DEF Entries
<1> QED BY <1>1, <1>2 DEF Content

\* Checked rows stay checked when some are left out.
LEMMA CheckedRowsSubset ==
  ASSUME NEW units \in SUBSET Unit, NEW some \in SUBSET units, CheckedRows(units)
  PROVE  CheckedRows(some)
  BY DEF CheckedRows

\* Only keys of changed paths change: deleting them all and adding what the new
\* version has there gives what the new version serves.
LEMMA ChangesGiveEntries ==
  ASSUME NEW old \in SUBSET Unit, NEW new \in SUBSET Unit
  PROVE  [k \in Key |->
            IF ChangedEntries(old, new)[k] # NoEntry THEN ChangedEntries(old, new)[k]
            ELSE IF k \in DeletedHashes(old, new) THEN NoEntry ELSE Entries(old)[k]]
         = Entries(new)
<1> DEFINE paths == ChangedPaths(old, new)
           changed == Files(new, paths)
           Providers(units, k) == {u \in units : k \in Keys(u.path)}
<1>1. \A units : \A k \in Key : Entries(units)[k] =
          IF Providers(units, k) = {} THEN NoEntry
          ELSE (CHOOSE u \in Providers(units, k) : TRUE).artifact
  BY DEF Entries
<1>2. \A u \in Unit : (u \in old /\ u \notin new) \/ (u \in new /\ u \notin old) => u.path \in paths
  BY DEF ChangedPaths, AllPaths
<1>3. paths \subseteq Path
  BY UnitType DEF ChangedPaths, AllPaths
<1>4. changed = {u \in new : u.path \in paths}
  BY DEF Files
<1>5. DeletedHashes(old, new) = UNION {Keys(p) : p \in paths}
  BY DEF DeletedHashes
<1>6. ChangedEntries(old, new) = Entries(changed)
  BY DEF ChangedEntries
<1> HIDE DEF paths, changed
<1>7. ASSUME NEW k \in Key, k \in DeletedHashes(old, new)
      PROVE  Providers(changed, k) = Providers(new, k)
  <2>1. PICK p \in paths : k \in Keys(p)
    BY <1>5, <1>7
  <2>2. ASSUME NEW u \in new, k \in Keys(u.path) PROVE u \in changed
    <3>1. u.path = p
      BY <1>3, <2>1, <2>2, KeyHasOnePath, UnitType
    <3> QED BY <1>4, <2>1, <3>1
  <2> QED BY <1>4, <2>2
<1>8. ASSUME NEW k \in Key, k \notin DeletedHashes(old, new)
      PROVE  Providers(changed, k) = {} /\ Providers(old, k) = Providers(new, k)
  <2>1. \A p \in paths : k \notin Keys(p)
    BY <1>5, <1>8
  <2>2. Providers(changed, k) = {}
    BY <1>4, <2>1
  <2>3. ASSUME NEW u \in Unit, k \in Keys(u.path) PROVE u \in old <=> u \in new
    BY <1>2, <2>1, <2>3
  <2> QED BY <2>2, <2>3
<1> HIDE DEF Providers
<1>9. ASSUME NEW k \in Key
      PROVE  (IF ChangedEntries(old, new)[k] # NoEntry THEN ChangedEntries(old, new)[k]
              ELSE IF k \in DeletedHashes(old, new) THEN NoEntry ELSE Entries(old)[k])
             = Entries(new)[k]
  <2>1. CASE k \in DeletedHashes(old, new)
    <3>1. Entries(changed)[k] = Entries(new)[k]
      BY <1>1, <1>7, <2>1
    <3> QED BY <1>6, <2>1, <3>1
  <2>2. CASE k \notin DeletedHashes(old, new)
    <3>1. Entries(changed)[k] = NoEntry /\ Entries(old)[k] = Entries(new)[k]
      BY <1>1, <1>8, <2>2
    <3> QED BY <1>6, <2>2, <3>1
  <2> QED BY <2>1, <2>2
<1>10. Entries(new) = [k \in Key |-> Entries(new)[k]]
  BY DEF Entries
<1> QED BY <1>9, <1>10

\* A full build checks the whole version.
LEMMA BaselineCovers ==
  ASSUME NEW units \in SUBSET Unit, BaselineOK(units)
  PROVE  Covered(units)
<1>1. ASSUME NEW u \in units, ~u.page, NEW q \in Required[u.path] PROVE q \in AllPaths(units)
  <2>1. q \in UNION {Required[p] : p \in AllPaths(units)}
    BY DEF AllPaths
  <2>2. Files(units, {q}) # {}
    BY <1>1, <2>1 DEF BaselineOK, CheckDirectories
  <2> QED BY <2>2 DEF Files, AllPaths
<1> QED BY <1>1 DEF Covered, BaselineOK

\* A covered version stays covered when only the changed paths are checked: a page
\* that is gone is a changed path, and lies in its own directory.
LEMMA ChangesKeepCover ==
  ASSUME NEW old \in SUBSET Unit, NEW new \in SUBSET Unit,
         Covered(old), ChangedOK(old, new)
  PROVE  Covered(new)
<1> DEFINE paths == ChangedPaths(old, new)
<1>1. \A u \in Unit : (u \in old /\ u \notin new) \/ (u \in new /\ u \notin old) => u.path \in paths
  BY DEF ChangedPaths, AllPaths
<1>2. CheckedRows({u \in new : u.path \in paths}) /\ CheckDirectories(new, paths)
  BY DEF ChangedOK, Files
<1>3. CheckedRows(old)
  BY DEF Covered
<1> HIDE DEF paths
<1>4. CheckedRows(new)
  <2>1. ASSUME NEW u \in new, NEW w \in new, u.path = w.path PROVE u = w
    <3>1. CASE u.path \in paths
      BY <1>2, <2>1, <3>1 DEF CheckedRows
    <3>2. CASE u.path \notin paths
      <4>1. u \in old /\ w \in old
        BY <1>1, <2>1, <3>2
      <4> QED BY <1>3, <2>1, <4>1 DEF CheckedRows
    <3> QED BY <3>1, <3>2
  <2>2. ASSUME NEW u \in new PROVE u.artifact # Remote
    <3>1. CASE u.path \in paths
      BY <1>2, <3>1 DEF CheckedRows
    <3>2. CASE u.path \notin paths
      BY <1>1, <1>3, <3>2 DEF CheckedRows
    <3> QED BY <3>1, <3>2
  <2> QED BY <2>1, <2>2 DEF CheckedRows
<1>5. ASSUME NEW u \in new, ~u.page, NEW q \in Required[u.path] PROVE q \in AllPaths(new)
  <2>1. \A p \in paths : q \in Required[p] => Files(new, {q}) # {}
    <3> SUFFICES ASSUME NEW p \in paths, q \in Required[p] PROVE Files(new, {q}) # {}
      OBVIOUS
    <3>1. q \in UNION {Required[x] : x \in paths}
      OBVIOUS
    <3> QED BY <1>2, <1>5, <3>1 DEF CheckDirectories
  <2>2. Files(new, {q}) # {} => q \in AllPaths(new)
    BY DEF Files, AllPaths
  <2>3. CASE u.path \in paths
    BY <1>5, <2>1, <2>2, <2>3
  <2>4. CASE u.path \notin paths
    <3>1. u \in old
      BY <1>1, <2>4
    <3>2. PICK w \in old : w.path = q
      BY <1>5, <3>1 DEF Covered, AllPaths
    <3>3. CASE w \in new
      BY <3>2, <3>3 DEF AllPaths
    <3>4. CASE w \notin new
      <4>1. q \in paths
        BY <1>1, <3>2, <3>4
      <4>2. q \in Required[q]
        BY <1>5, UnitType, PublicationAssumption
      <4> QED BY <2>1, <2>2, <4>1, <4>2
    <3> QED BY <3>3, <3>4
  <2> QED BY <2>3, <2>4
<1> QED BY <1>4, <1>5 DEF Covered

\* A version that a full build accepts is accepted by an update as well.
LEMMA BaselineAcceptsChanges ==
  ASSUME NEW old \in SUBSET Unit, NEW new \in SUBSET Unit, BaselineOK(new)
  PROVE  ChangedOK(old, new)
<1> DEFINE paths == ChangedPaths(old, new)
<1>1. CheckedRows(Files(new, paths))
  BY CheckedRowsSubset DEF BaselineOK, Files
<1>2. CheckDirectories(new, paths)
  <2> SUFFICES ASSUME NEW q \in UNION {Required[p] : p \in paths},
                      NEW u \in new, q \in Required[u.path], ~u.page
               PROVE  Files(new, {q}) # {}
    BY DEF CheckDirectories
  <2>1. q \in UNION {Required[p] : p \in AllPaths(new)}
    BY DEF AllPaths
  <2> QED BY <2>1 DEF BaselineOK, CheckDirectories
<1> QED BY <1>1, <1>2 DEF ChangedOK

-----------------------------------------------------------------------------
(* The manifests that create, update and compact make.                      *)

\* A one-element sequence of references.
LEMMA OneReference ==
  ASSUME NEW r \in Reference
  PROVE  <<r>> \in Seq(Reference) /\ Len(<<r>>) = 1 /\ <<r>>[1] = r
  OBVIOUS

\* Appending a reference, element by element.
LEMMA AppendElements ==
  ASSUME NEW refs \in Seq(Reference), NEW r \in Reference
  PROVE  /\ Append(refs, r) \in Seq(Reference)
         /\ Len(Append(refs, r)) = Len(refs) + 1 /\ Len(refs) \in Nat
         /\ \A i \in 1 .. Len(refs) : Append(refs, r)[i] = refs[i]
         /\ Append(refs, r)[Len(refs) + 1] = r
  OBVIOUS

\* A manifest of one base is a valid chain.
LEMMA BaseIsValid ==
  ASSUME NEW m \in Manifest, NEW entries \in Content, m.parent # m.version,
         m.segments = <<BaseReference(m.version, entries)>>
  PROVE  /\ ValidChain(m)
         /\ Len(m.segments) = 1
         /\ View(m.segments) = entries
<1> DEFINE r == BaseReference(m.version, entries)
<1>1. m.version \in Version /\ r \in Reference
  BY BaseReferenceType DEF Manifest
<1>2. View(m.segments) = entries
  BY <1>1, BaseView
<1>3. r.kind = "base" /\ r.end = m.version
  BY DEF BaseReference
<1>4. m.version \in Nat
  BY <1>1, PublicationAssumption
<1>5. m.segments = <<r>>
  OBVIOUS
<1> HIDE DEF r
<1>6. Len(m.segments) = 1 /\ m.segments[1] = r
  BY <1>1, <1>5, OneReference
<1>7. Contiguous(m.segments)
  BY <1>6 DEF Contiguous
<1>8. ManifestValid(m)
  BY <1>3, <1>6, <1>7 DEF ManifestValid
<1>9. \A i \in 1 .. Len(m.segments) : m.segments[i].end <= m.version
  BY <1>3, <1>4, <1>6
<1> QED BY <1>2, <1>6, <1>8, <1>9, Zenon DEF ValidChain

\* create()
LEMMA BaseDescribes ==
  ASSUME NEW v \in Version, NEW units \in SUBSET Unit, BaselineOK(units)
  PROVE  LET m == BaseManifest(v, Entries(units))
         IN  m \in Manifest /\ m.version = v /\ Describes(m, units)
<1> DEFINE m == BaseManifest(v, Entries(units))
<1>1. Entries(units) \in Content
  BY EntriesType DEF BaselineOK
<1>2. BaseReference(v, Entries(units)) \in Reference
  BY <1>1, BaseReferenceType
<1>3. /\ m.version = v /\ m.parent = NoVersion
      /\ m.segments = <<BaseReference(v, Entries(units))>>
  BY DEF BaseManifest
<1>4. m \in Manifest
  BY <1>2 DEF BaseManifest, Manifest
<1> HIDE DEF m
<1>5. m.parent # m.version
  BY <1>3, FormatAssumption
<1>6. ValidChain(m) /\ Len(m.segments) = 1 /\ View(m.segments) = Entries(units)
  BY <1>1, <1>3, <1>4, <1>5, BaseIsValid, Zenon
<1>7. Len(m.segments) <= MaxSegments
  BY <1>6, PublicationAssumption
<1>8. Covered(units)
  BY BaselineCovers
<1>9. Describes(m, units)
  BY <1>6, <1>7, <1>8 DEF Describes
<1> QED BY <1>3, <1>4, <1>9 DEF m

\* compact(rebase=True): one base in the place of the chain.
LEMMA RebasedDescribes ==
  ASSUME NEW d, NEW units, Describes(d, units)
  PROVE  LET m == Rebased(d)
         IN  /\ m \in Manifest /\ m.version = d.version
             /\ Len(m.segments) < MaxSegments
             /\ Describes(m, units)
<1> DEFINE m == Rebased(d)
<1>1. d \in Manifest /\ d.parent # d.version /\ View(d.segments) = Entries(units)
  BY DEF Describes, ValidChain, ManifestValid
<1>2. d.segments \in Seq(Reference) /\ d.version \in Version
  BY <1>1 DEF Manifest
<1>3. View(d.segments) \in Content
  BY <1>2, ViewType
<1>4. BaseReference(d.version, View(d.segments)) \in Reference
  BY <1>2, <1>3, BaseReferenceType
<1>5. /\ m.version = d.version /\ m.parent = d.parent
      /\ m.segments = <<BaseReference(d.version, View(d.segments))>>
      /\ m \in Manifest
  <2> DEFINE b == BaseReference(d.version, View(d.segments))
  <2>1. m = [d EXCEPT !.segments = <<b>>]
    BY DEF Rebased
  <2>2. b \in Reference
    BY <1>4
  <2> HIDE DEF m, b
  <2>3. <<b>> \in Seq(Reference)
    BY <2>2
  <2>4. /\ m.version = d.version /\ m.parent = d.parent /\ m.segments = <<b>>
        /\ m \in Manifest
    BY <1>1, <2>1, <2>3 DEF Manifest
  <2> QED BY <2>4, Zenon DEF b
<1> HIDE DEF m
<1>6. ValidChain(m) /\ Len(m.segments) = 1 /\ View(m.segments) = View(d.segments)
  <2>1. m.parent # m.version /\ m.segments = <<BaseReference(m.version, View(d.segments))>>
    BY <1>1, <1>5, Zenon
  <2> QED BY <1>3, <1>5, <2>1, BaseIsValid, Zenon
<1>7. Len(m.segments) <= MaxSegments /\ Len(m.segments) < MaxSegments
  BY <1>6, PublicationAssumption
<1>8. Covered(units)
  BY DEF Describes
<1>9. Describes(m, units)
  BY <1>1, <1>6, <1>7, <1>8 DEF Describes
<1> QED BY <1>5, <1>7, <1>9 DEF m

\* compact(): neighbouring runs merged.
LEMMA CompactedDescribes ==
  ASSUME NEW d, NEW units, Describes(d, units)
  PROVE  LET m == Compacted(d)
         IN  m \in Manifest /\ m.version = d.version /\ Describes(m, units)
<1> DEFINE m == Compacted(d)
<1>1. d \in Manifest /\ ManifestValid(d)
  BY DEF Describes, ValidChain
<1>2. d.segments \in Seq(Reference) /\ Len(d.segments) \in Nat /\ d.version \in Nat
  BY <1>1, PublicationAssumption DEF Manifest
<1>3. d.segments # <<>>
  <2>1. Len(d.segments) >= 1
    BY <1>1 DEF ManifestValid
  <2> QED BY <2>1
<1>4. /\ m \in Manifest /\ m.version = d.version
      /\ SameChain(d, m.segments) /\ ManifestValid(m)
  BY <1>1, <1>3, CompactedIsEquivalent, Zenon
<1> HIDE DEF m
<1>5. View(m.segments) = Entries(units) /\ Covered(units)
  BY <1>4 DEF SameChain, Describes
<1>6. m.segments \in Seq(Reference) /\ Len(m.segments) \in Nat
  BY <1>4 DEF SameChain
<1>7. Len(m.segments) <= MaxSegments
  <2>1. Len(m.segments) <= Len(d.segments) /\ Len(d.segments) <= MaxSegments
    BY <1>4 DEF SameChain, Describes
  <2>2. MaxSegments \in Nat
    BY PublicationAssumption
  <2> QED BY <1>2, <1>6, <2>1, <2>2
<1>8. \A i \in 1 .. Len(m.segments) : m.segments[i].end <= m.version
  BY <1>4 DEF SameChain, Describes, ValidChain
<1>9. Describes(m, units)
  BY <1>4, <1>5, <1>7, <1>8 DEF Describes, ValidChain
<1> QED BY <1>4, <1>9 DEF m

\* One more delta on a valid chain of an older version.
LEMMA DeltaIsValid ==
  ASSUME NEW d, ValidChain(d), NEW v \in Version, d.version < v,
         NEW entries \in Content, NEW removed \in SUBSET Key
  PROVE  LET m == DeltaManifest(v, d, entries, removed)
         IN  /\ ValidChain(m) /\ m.version = v
             /\ Len(m.segments) = Len(d.segments) + 1
<1> DEFINE m == DeltaManifest(v, d, entries, removed)
           r == DeltaReference(v, d.version, entries, removed)
           refs == d.segments
<1>1. d \in Manifest /\ ManifestValid(d) /\ \A i \in 1 .. Len(refs) : refs[i].end <= d.version
  BY DEF ValidChain
<1>2. /\ refs \in Seq(Reference) /\ d.version \in Version
      /\ d.version \in Nat /\ v \in Nat /\ NoVersion \notin Version
  BY <1>1, PublicationAssumption, FormatAssumption DEF Manifest
<1>3. r \in Reference
  BY <1>2, DeltaReferenceType
<1>4. r.kind = "delta" /\ r.start = d.version /\ r.end = v /\ r.level = 0
  BY DEF DeltaReference
<1>5. m.version = v /\ m.parent = d.version /\ m.segments = Append(refs, r)
  BY DEF DeltaManifest
<1> HIDE DEF r
<1>6. m \in Manifest
  <2>1. Append(refs, r) \in Seq(Reference)
    BY <1>2, <1>3
  <2> QED BY <1>2, <2>1 DEF DeltaManifest, Manifest, r
<1> HIDE DEF m, refs
<1> DEFINE new == m.segments
           n == Len(refs)
<1>7. /\ new \in Seq(Reference) /\ Len(new) = n + 1 /\ n \in Nat
      /\ \A i \in 1 .. n : new[i] = refs[i]
      /\ new[n + 1] = r
  <2>1. new = Append(refs, r)
    BY <1>5, Zenon
  <2> HIDE DEF new
  <2> QED BY <1>2, <1>3, <2>1, AppendElements, Zenon
<1>8. /\ n >= 1 /\ refs[1].kind = "base" /\ refs[n].end = d.version
      /\ \A i \in 2 .. n : /\ refs[i].kind = "delta"
                           /\ refs[i].start = refs[i - 1].end
                           /\ \A j \in 1 .. i - 1 : refs[j].end # refs[i].end
  BY <1>1 DEF ManifestValid, Contiguous, refs
<1>9. \A i \in 1 .. n : refs[i].end \in Nat /\ refs[i].end <= d.version
  <2>1. \A i \in 1 .. n : refs[i] \in Reference
    BY <1>2
  <2> QED BY <1>1, <2>1, PublicationAssumption DEF Reference, refs
<1> HIDE DEF new, n
<1>10. ASSUME NEW i \in 2 .. Len(new)
       PROVE  /\ new[i].kind = "delta"
              /\ new[i].start = new[i - 1].end
              /\ \A j \in 1 .. i - 1 : new[j].end # new[i].end
  <2>1. CASE i <= n
    BY <2>1, <1>7, <1>8
  <2>2. CASE i = n + 1
    <3>1. new[i] = r /\ i - 1 = n /\ n \in 1 .. n /\ new[n] = refs[n]
      BY <2>2, <1>7, <1>8
    <3>2. ASSUME NEW j \in 1 .. i - 1 PROVE new[j].end # new[i].end
      <4>1. j \in 1 .. n
        BY <3>1
      <4>2. new[j].end \in Nat /\ new[j].end <= d.version
        BY <4>1, <1>7, <1>9
      <4> QED BY <3>1, <4>2, <1>2, <1>4
    <3> QED BY <3>1, <3>2, <1>4, <1>8
  <2> QED BY <2>1, <2>2, <1>7
<1>11. Contiguous(new)
  BY <1>10, Zenon DEF Contiguous
<1>12. new[1] = refs[1] /\ new[Len(new)] = r /\ Len(new) >= 1
  BY <1>7, <1>8
<1>13. ManifestValid(m)
  <2>1. m.parent # m.version
    BY <1>2, <1>5
  <2>2. m.parent # NoVersion
    BY <1>2, <1>5
  <2> QED BY <2>1, <2>2, <1>4, <1>5, <1>8, <1>11, <1>12 DEF ManifestValid, new
<1>14. ASSUME NEW i \in 1 .. Len(new) PROVE new[i].end <= m.version
  <2>1. CASE i <= n
    BY <2>1, <1>2, <1>5, <1>7, <1>9
  <2>2. CASE i = n + 1
    BY <2>2, <1>2, <1>4, <1>5, <1>7
  <2> QED BY <2>1, <2>2, <1>7
<1>15. ValidChain(m)
  BY <1>6, <1>13, <1>14 DEF ValidChain, new
<1> QED BY <1>5, <1>7, <1>15 DEF m, new, n, refs

\* update()
LEMMA DeltaDescribes ==
  ASSUME NEW d, NEW old \in SUBSET Unit, NEW new \in SUBSET Unit, NEW v \in Version,
         Describes(d, old), ChangedOK(old, new)
  PROVE  LET m == DeltaManifest(v, d, ChangedEntries(old, new), DeletedHashes(old, new))
         IN  /\ d.version < v => ValidChain(m) /\ m.version = v
             /\ d.version < v /\ Len(d.segments) < MaxSegments => Describes(m, new)
<1> DEFINE entries == ChangedEntries(old, new)
           removed == DeletedHashes(old, new)
           m == DeltaManifest(v, d, entries, removed)
<1>1. entries \in Content
  <2>1. CheckedRows(Files(new, ChangedPaths(old, new)))
    BY DEF ChangedOK
  <2>2. Files(new, ChangedPaths(old, new)) \in SUBSET Unit
    BY DEF Files
  <2> QED BY <2>1, <2>2, EntriesType DEF ChangedEntries
<1>2. removed \in SUBSET Key
  <2>1. ChangedPaths(old, new) \subseteq Path
    BY UnitType DEF ChangedPaths, AllPaths
  <2> QED BY <2>1, KeysAreKeys DEF DeletedHashes
<1>3. ValidChain(d) /\ View(d.segments) = Entries(old)
  BY DEF Describes
<1>4. d \in Manifest
  BY <1>3 DEF ValidChain
<1>5. d.segments \in Seq(Reference) /\ d.version \in Version
  BY <1>4 DEF Manifest
<1>6. View(m.segments) = Entries(new)
  <2>1. m.segments = Append(d.segments, DeltaReference(v, d.version, entries, removed))
    BY DEF DeltaManifest
  <2>2. View(m.segments) =
          [k \in Key |-> IF entries[k] # NoEntry THEN entries[k]
                         ELSE IF k \in removed THEN NoEntry ELSE View(d.segments)[k]]
    <3> HIDE DEF m, entries, removed
    <3> QED BY <1>1, <1>2, <1>5, <2>1, DeltaView
  <2>3. [k \in Key |-> IF entries[k] # NoEntry THEN entries[k]
                       ELSE IF k \in removed THEN NoEntry ELSE Entries(old)[k]]
        = Entries(new)
    BY ChangesGiveEntries, Zenon
  <2> QED BY <1>3, <2>2, <2>3, Zenon
<1>7. ASSUME d.version < v
      PROVE  /\ ValidChain(m) /\ m.version = v
             /\ Len(m.segments) = Len(d.segments) + 1
  <2> HIDE DEF entries, removed
  <2> QED BY <1>1, <1>2, <1>3, <1>7, DeltaIsValid, Zenon
<1>8. Covered(new)
  BY ChangesKeepCover DEF Describes
<1> HIDE DEF m
<1>9. Len(d.segments) \in Nat /\ MaxSegments \in Nat
  <2>1. \A s \in Seq(Reference) : Len(s) \in Nat
    OBVIOUS
  <2>2. MaxSegments \in Nat
    BY PublicationAssumption
  <2> QED BY <1>5, <2>1, <2>2, Zenon
<1>10. \A x, y \in Nat : x < y => x + 1 <= y
  OBVIOUS
<1>11. ASSUME d.version < v, Len(d.segments) < MaxSegments PROVE Len(m.segments) <= MaxSegments
  BY <1>7, <1>9, <1>10, <1>11, Zenon
<1>12. ASSUME d.version < v, Len(d.segments) < MaxSegments PROVE Describes(m, new)
  BY <1>6, <1>7, <1>8, <1>11, <1>12 DEF Describes
<1> QED BY <1>7, <1>12 DEF m

-----------------------------------------------------------------------------
(* Versions.                                                                *)

\* A bounded, non-empty set of numbers has a greatest one.
LEMMA BoundedHasNewest ==
  ASSUME NEW S \in SUBSET Nat, S # {}, NEW n \in Nat, \A u \in S : u <= n
  PROVE  \E v \in S : \A u \in S : u <= v
<1> DEFINE T == {u + 1 : u \in S}
<1>1. T \in SUBSET (1 .. n + 1) /\ T # {} /\ n + 1 \in Nat
  <2>1. \A u \in S : u + 1 \in 1 .. n + 1
    OBVIOUS
  <2>2. T # {}
    OBVIOUS
  <2> QED BY <2>1, <2>2
<1>2. PICK i \in T : \A j \in T : j <= i
  <2> HIDE DEF T
  <2> QED BY <1>1, LastExists, Zenon
<1>3. PICK v \in S : i = v + 1
  OBVIOUS
<1>4. \A u \in S : u + 1 <= v + 1
  BY <1>2, <1>3
<1> QED BY <1>4

\* The newest of versions that have a newest one.
LEMMA NewestIsNewest ==
  ASSUME NEW S, \E v \in S : \A u \in S : u <= v
  PROVE  Newest(S) \in S /\ \A u \in S : u <= Newest(S)
  BY DEF Newest

\* finalize looks for the predecessor of a draft: the newest complete version.
LEMMA PreviousOfDraft ==
  ASSUME VersionsInOrder, NEW v \in Version, state[v] = "draft"
  PROVE  /\ Previous(v) \in Complete /\ Previous(v) < v
         /\ Previous(v) \in Version /\ state[Previous(v)] = "complete"
<1>1. \A u \in Complete : u \in Version /\ u \in Nat /\ v \in Nat /\ state[u] = "complete"
  BY PublicationAssumption DEF Complete
<1>2. \A u \in Complete : u < v
  <2> SUFFICES ASSUME NEW u \in Complete, v < u PROVE FALSE
    BY <1>1
  <2>1. state[u] = "unused"
    BY <1>1 DEF VersionsInOrder
  <2> QED BY <1>1, <2>1
<1>3. {u \in Complete : u < v} = Complete
  BY <1>2
<1>4. Previous(v) = Newest(Complete)
  BY <1>3, Zenon DEF Previous
<1>5. Newest(Complete) \in Complete
  BY NewestIsNewest, Zenon DEF VersionsInOrder
<1> QED BY <1>1, <1>2, <1>4, <1>5

-----------------------------------------------------------------------------
(* What keeps the rows and the bucket in order.                             *)

\* Objects stay: a step that changes no row and only adds to the bucket, and
\* nothing for a number that was not taken.
BucketGrows ==
    /\ \A p \in Profile, v \in Version :
           manifests[p][v] # NoManifest \/ state[v] = "unused"
              => manifests'[p][v] = manifests[p][v]
    /\ \A p \in Profile : checkpoints[p] \subseteq checkpoints'[p]

LEMMA RowsKept ==
  ASSUME TypeOK, RowsInv, UNCHANGED rows, BucketGrows
  PROVE  RowsInv'
<1>1. state' = state /\ content' = content /\ info' = info
  BY DEF rows
<1>2. VersionsInOrder'
  BY <1>1 DEF RowsInv, VersionsInOrder, Complete
<1>3. UnusedAreUnpublished'
  BY <1>1 DEF RowsInv, UnusedAreUnpublished, BucketGrows
<1>4. IndexesAreExact'
  <2> SUFFICES ASSUME NEW v \in Version, info[v] # NoInfo
               PROVE  /\ state[v] = "complete"
                      /\ info[v].manifest.version = v
                      /\ Readable(info[v])'
                      /\ Describes(info[v].manifest, content[v])
    BY <1>1 DEF IndexesAreExact
  <2>1. /\ state[v] = "complete" /\ info[v].manifest.version = v
        /\ Readable(info[v]) /\ Describes(info[v].manifest, content[v])
    BY DEF RowsInv, IndexesAreExact
  <2>2. /\ info[v].profile \in Profile /\ info[v].manifest \in Manifest
        /\ info[v].manifest # NoManifest
    BY PublicationAssumption DEF TypeOK, Descriptor
  <2>3. Readable(info[v])'
    BY <1>1, <2>1, <2>2 DEF Readable, BucketGrows
  <2> QED BY <2>1, <2>3
<1> QED BY <1>2, <1>3, <1>4 DEF RowsInv

\* Core removes rows; a complete version remains.
LEMMA DropKeeps ==
  ASSUME TypeOK, RowsInv, NEW versions \in SUBSET Version, Drop(versions),
         UNCHANGED bucket, Complete \ versions # {},
         \A v \in versions : state[v] # "unused"
  PROVE  /\ RowsInv'
         /\ state' \in [Version -> {"unused", "draft", "complete", "deleted"}]
         /\ content' \in [Version -> SUBSET Unit]
         /\ info' \in [Version -> Descriptor \cup {NoInfo}]
<1>1. /\ manifests' = manifests /\ checkpoints' = checkpoints
  BY DEF bucket
<1>2. \A v \in Version :
        /\ state'[v] = IF v \in versions THEN "deleted" ELSE state[v]
        /\ content'[v] = IF v \in versions THEN {} ELSE content[v]
        /\ info'[v] = IF v \in versions THEN NoInfo ELSE info[v]
  BY DEF Drop
<1>3. /\ state' \in [Version -> {"unused", "draft", "complete", "deleted"}]
      /\ content' \in [Version -> SUBSET Unit]
      /\ info' \in [Version -> Descriptor \cup {NoInfo}]
  BY DEF Drop, TypeOK
<1>4. VersionsInOrder'
  <2>1. Complete' = Complete \ versions
    BY <1>2 DEF Complete
  <2>2. PICK n \in Complete : \A u \in Complete : u <= n
    BY DEF RowsInv, VersionsInOrder
  <2>3. Complete \subseteq Nat
    BY PublicationAssumption DEF Complete
  <2>4. \E v \in Complete \ versions : \A u \in Complete \ versions : u <= v
    <3>1. Complete \ versions \in SUBSET Nat /\ n \in Nat
          /\ \A u \in Complete \ versions : u <= n
      BY <2>2, <2>3
    <3> QED BY <3>1, BoundedHasNewest, Zenon
  <2>5. ASSUME NEW v \in Version, state'[v] \in {"unused", "draft"},
               NEW u \in Version, v < u
        PROVE  state'[u] = "unused"
    <3>1. state[u] = "unused"
      BY <1>2, <2>5 DEF RowsInv, VersionsInOrder
    <3> QED BY <1>2, <3>1
  <2> QED BY <2>1, <2>4, <2>5 DEF VersionsInOrder
<1>5. UnusedAreUnpublished'
  BY <1>1, <1>2 DEF RowsInv, UnusedAreUnpublished
<1>6. IndexesAreExact'
  BY <1>1, <1>2 DEF RowsInv, IndexesAreExact, Readable
<1> QED BY <1>3, <1>4, <1>5, <1>6 DEF RowsInv

\* An exception ends the task; a failed modify loses its draft.
LEMMA FailKeeps ==
  ASSUME PublicationInv, task # NoTask, Fail
  PROVE  PublicationInv'
<1> DEFINE versions == IF task.kind = "modify" THEN {task.version} ELSE {}
<1>1. /\ task' = NoTask /\ Drop(versions) /\ UNCHANGED bucket
      /\ label' = label /\ profile' = profile /\ changes' = changes
  BY DEF Fail, config
<1>2. TypeOK /\ RowsInv /\ task \in Task
  BY DEF PublicationInv, TypeOK
<1>3. versions \in SUBSET Version
  BY <1>2 DEF Task
<1>4. \A v \in versions : state[v] = "draft"
  BY DEF PublicationInv, TaskKnows, OnDraft
<1>5. Complete \ versions # {}
  <2>1. Complete # {}
    BY <1>2 DEF RowsInv, VersionsInOrder
  <2> QED BY <1>4, <2>1 DEF Complete
<1> HIDE DEF versions
<1>6. \A v \in versions : state[v] # "unused"
  BY <1>4
<1>7. /\ RowsInv'
      /\ state' \in [Version -> {"unused", "draft", "complete", "deleted"}]
      /\ content' \in [Version -> SUBSET Unit]
      /\ info' \in [Version -> Descriptor \cup {NoInfo}]
  BY <1>1, <1>2, <1>3, <1>5, <1>6, DropKeeps, Zenon
<1>8. TypeOK'
  BY <1>1, <1>2, <1>7 DEF TypeOK, bucket
<1>9. TaskKnows'
  BY <1>1 DEF TaskKnows
<1> QED BY <1>7, <1>8, <1>9 DEF PublicationInv

-----------------------------------------------------------------------------
(* The store calls of a task.                                               *)

\* The descriptor of what a task published is stored for its version.
LEMMA PublishKeeps ==
  ASSUME PublicationInv, task # NoTask, NEW m \in Manifest,
         m.version = task.version, Describes(m, content[task.version]),
         task.kind # "compact", PublishVersion(m)
  PROVE  PublicationInv'
<1>1. CASE manifests[task.profile][m.version] \notin {NoManifest, m}
  <2>1. Fail
    BY <1>1 DEF PublishVersion
  <2> QED BY <2>1, FailKeeps
<1>2. CASE manifests[task.profile][m.version] \in {NoManifest, m}
  <2> DEFINE v == task.version
  <2>1. /\ manifests' = [manifests EXCEPT ![task.profile][m.version] = m]
        /\ task' = [task EXCEPT !.pc = "save", !.manifest = m]
        /\ UNCHANGED checkpoints /\ UNCHANGED rows /\ UNCHANGED config
    BY <1>2 DEF PublishVersion
  <2>2. TypeOK /\ RowsInv /\ task \in Task
    BY DEF PublicationInv, TypeOK
  <2>3. v \in Version /\ task.profile \in Profile
    BY <2>2 DEF Task
  <2>4. /\ task' \in Task /\ task'.kind = task.kind /\ task'.pc = "save"
        /\ task'.version = v /\ task'.profile = task.profile /\ task'.manifest = m
        /\ task'.enabled = task.enabled
    BY <2>1, <2>2 DEF Task
  <2>5. \A p \in Profile, u \in Version :
            manifests'[p][u] = IF p = task.profile /\ u = v THEN m ELSE manifests[p][u]
    BY <2>1, <2>2, <2>3 DEF TypeOK
  <2>6. manifests' \in [Profile -> [Version -> Manifest \cup {NoManifest}]]
    BY <2>1, <2>2, <2>3 DEF TypeOK
  <2>7. TypeOK'
    BY <2>1, <2>2, <2>4, <2>6 DEF TypeOK, rows, config
  <2>8. state[v] # "unused"
    BY DEF PublicationInv, TaskKnows, OnDraft, OnComplete
  <2>9. BucketGrows
    BY <1>2, <2>1, <2>5, <2>8 DEF BucketGrows
  <2>10. RowsInv'
    BY <2>1, <2>2, <2>9, RowsKept
  <2>11. state' = state /\ content' = content /\ info' = info
    BY <2>1 DEF rows
  <2>12. OnDraft(task) /\ OnComplete(task)
    BY DEF PublicationInv, TaskKnows
  <2>13. OnDraft(task)'
    BY <2>4, <2>11, <2>12 DEF OnDraft
  <2>14. OnComplete(task)'
    BY <2>4, <2>11, <2>12 DEF OnComplete
  <2>15. HasPredecessor(task)'
    BY <2>4 DEF HasPredecessor
  <2>16. HasManifest(task)'
    <3>1. manifests'[task.profile][v] = m
      BY <2>3, <2>5
    <3> QED BY <2>4, <2>11, <3>1 DEF HasManifest
  <2>17. TaskKnows'
    BY <2>13, <2>14, <2>15, <2>16 DEF TaskKnows
  <2> QED BY <2>7, <2>10, <2>17 DEF PublicationInv
<1> QED BY <1>1, <1>2

\* What publishing a checkpoint leaves to show: that the task may use it.
LEMMA CheckpointKeeps ==
  ASSUME PublicationInv, task # NoTask, NEW m \in Manifest,
         NEW pc \in {"update", "retry", "save"}, PublishCheckpoint(m, pc)
  PROVE  /\ TypeOK' /\ RowsInv'
         /\ state' = state /\ content' = content /\ info' = info /\ manifests' = manifests
         /\ task'.kind = task.kind /\ task'.pc = pc /\ task'.version = task.version
         /\ task'.enabled = task.enabled /\ task'.profile = task.profile
         /\ task'.manifest = m /\ m \in checkpoints'[task.profile]
<1>1. /\ checkpoints' = [checkpoints EXCEPT ![task.profile] = @ \cup {m}]
      /\ task' = [task EXCEPT !.pc = pc, !.manifest = m]
      /\ UNCHANGED manifests /\ UNCHANGED rows /\ UNCHANGED config
  BY DEF PublishCheckpoint
<1>2. TypeOK /\ RowsInv /\ task \in Task
  BY DEF PublicationInv, TypeOK
<1>3. task.profile \in Profile
  BY <1>2 DEF Task
<1>4. /\ task' \in Task /\ task'.kind = task.kind /\ task'.pc = pc
      /\ task'.version = task.version /\ task'.profile = task.profile
      /\ task'.enabled = task.enabled /\ task'.manifest = m
  BY <1>1, <1>2 DEF Task
<1>5. \A p \in Profile : checkpoints'[p] = IF p = task.profile THEN checkpoints[p] \cup {m}
                                           ELSE checkpoints[p]
  BY <1>1, <1>2, <1>3 DEF TypeOK
<1>6. checkpoints' \in [Profile -> SUBSET Manifest]
  BY <1>1, <1>2, <1>3 DEF TypeOK
<1>7. TypeOK'
  BY <1>1, <1>2, <1>4, <1>6 DEF TypeOK, rows, config
<1>8. BucketGrows
  BY <1>1, <1>5 DEF BucketGrows
<1>9. RowsInv'
  BY <1>1, <1>2, <1>8, RowsKept
<1> QED BY <1>1, <1>3, <1>4, <1>5, <1>7, <1>9 DEF rows

-----------------------------------------------------------------------------
(* The steps of a modify.                                                   *)

\* A modify that has not saved yet: its draft and the version before.
LEMMA ModifyFacts ==
  ASSUME PublicationInv, task # NoTask, task.pc \in {"finalize", "update", "retry"}
  PROVE  /\ task \in Task /\ task.kind = "modify"
         /\ task.version \in Version /\ state[task.version] = "draft"
         /\ task.profile \in Profile
         /\ Previous(task.version) \in Version /\ Previous(task.version) < task.version
         /\ state[Previous(task.version)] = "complete"
         /\ content[task.version] \in SUBSET Unit
         /\ content[Previous(task.version)] \in SUBSET Unit
         /\ \A p \in Profile : manifests[p][task.version] = NoManifest
<1>1. task \in Task /\ TypeOK /\ VersionsInOrder
  BY DEF PublicationInv, TypeOK, RowsInv
<1>2. task.kind = "modify"
  BY DEF PublicationInv, TaskKnows, OnComplete
<1>3. /\ state[task.version] = "draft"
      /\ \A p \in Profile : manifests[p][task.version] = NoManifest
  BY <1>2 DEF PublicationInv, TaskKnows, OnDraft
<1>4. task.version \in Version /\ task.profile \in Profile
  BY <1>1 DEF Task
<1>5. /\ Previous(task.version) \in Version /\ Previous(task.version) < task.version
      /\ state[Previous(task.version)] = "complete"
  BY <1>1, <1>3, <1>4, PreviousOfDraft
<1> QED BY <1>1, <1>2, <1>3, <1>4, <1>5 DEF TypeOK

\* The predecessor's manifest, once the task has it.
LEMMA UpdateFacts ==
  ASSUME PublicationInv, task # NoTask, task.pc \in {"update", "retry"}
  PROVE  /\ info[Previous(task.version)] # NoInfo
         /\ info[Previous(task.version)].profile = task.profile
         /\ task.manifest \in Manifest
         /\ task.manifest.version = Previous(task.version)
         /\ Describes(task.manifest, content[Previous(task.version)])
         /\ task.pc = "retry" => Len(task.manifest.segments) < MaxSegments
  BY DEF PublicationInv, TaskKnows, HasPredecessor, Describes, ValidChain

\* What a complete version advertises describes it.
LEMMA InfoFacts ==
  ASSUME PublicationInv, NEW v \in Version, info[v] # NoInfo
  PROVE  /\ info[v].profile \in Profile /\ info[v].manifest \in Manifest
         /\ info[v].manifest.version = v
         /\ Readable(info[v]) /\ Describes(info[v].manifest, content[v])
  BY DEF PublicationInv, TypeOK, RowsInv, IndexesAreExact, Descriptor

\* Only the task changes: what holds of rows and bucket still does.
LEMMA TaskOnly ==
  ASSUME PublicationInv, UNCHANGED rows, UNCHANGED bucket
  PROVE  /\ RowsInv'
         /\ state' = state /\ content' = content /\ info' = info
         /\ manifests' = manifests /\ checkpoints' = checkpoints
<1>1. BucketGrows
  BY DEF BucketGrows, bucket
<1>2. RowsInv'
  BY <1>1, RowsKept DEF PublicationInv
<1> QED BY <1>2 DEF rows, bucket

\* A task that goes on with the manifest of the version before.
LEMMA UpdateNext ==
  ASSUME PublicationInv, task # NoTask, task.pc \in {"finalize", "update"},
         NEW m \in Manifest, m.version = Previous(task.version),
         Describes(m, content[Previous(task.version)]),
         info[Previous(task.version)] # NoInfo,
         info[Previous(task.version)].profile = task.profile,
         state' = state, content' = content, info' = info, manifests' = manifests,
         task'.kind = task.kind, task'.pc \in {"update", "retry"},
         task'.version = task.version, task'.profile = task.profile, task'.manifest = m,
         task'.pc = "retry" => Len(m.segments) < MaxSegments
  PROVE  TaskKnows'
<1> DEFINE v == task.version
<1>1. task.kind = "modify" /\ state[v] = "draft"
      /\ \A p \in Profile : manifests[p][v] = NoManifest
  BY ModifyFacts
<1>2. Previous(v)' = Previous(v)
  BY DEF Previous, Complete
<1>3. OnDraft(task)'
  BY <1>1 DEF OnDraft
<1>4. OnComplete(task)' /\ HasManifest(task)'
  BY <1>1 DEF OnComplete, HasManifest
<1>5. HasPredecessor(task)'
  <2>1. Previous(task.version)' = Previous(v)
    BY <1>2, Zenon
  <2> QED BY <1>1, <2>1 DEF HasPredecessor
<1> QED BY <1>3, <1>4, <1>5 DEF TaskKnows

\* finalize: without a label, from scratch, or from the predecessor's manifest.
LEMMA FinalizeKeeps ==
  ASSUME PublicationInv, Finalize
  PROVE  PublicationInv'
<1> DEFINE v == task.version
           prev == Previous(v)
           m == info[prev].manifest
<1>1. task # NoTask /\ task.pc = "finalize"
  BY DEF Finalize
<1>2. /\ task \in Task /\ task.kind = "modify" /\ v \in Version /\ state[v] = "draft"
      /\ prev \in Version /\ content[v] \in SUBSET Unit
  BY <1>1, ModifyFacts
<1>3. CASE ~task.enabled
  <2>1. task' = [task EXCEPT !.pc = "save"] /\ UNCHANGED rows /\ UNCHANGED bucket
        /\ UNCHANGED config
    BY <1>3 DEF Finalize
  <2>2. /\ RowsInv' /\ state' = state /\ content' = content /\ info' = info
        /\ manifests' = manifests /\ checkpoints' = checkpoints
    BY <2>1, TaskOnly
  <2>3. /\ task' \in Task /\ task'.kind = "modify" /\ task'.pc = "save"
        /\ task'.version = v /\ task'.enabled = task.enabled
    BY <1>2, <2>1 DEF Task
  <2>4. TypeOK'
    BY <2>1, <2>2, <2>3 DEF PublicationInv, TypeOK, config
  <2>5. OnDraft(task)' /\ OnComplete(task)' /\ HasPredecessor(task)' /\ HasManifest(task)'
    BY <1>2, <1>3, <2>2, <2>3 DEF OnDraft, OnComplete, HasPredecessor, HasManifest
  <2> QED BY <2>2, <2>4, <2>5 DEF PublicationInv, TaskKnows
<1>4. CASE task.enabled /\ info[prev] = NoInfo
  <2>1. CASE BaselineOK(content[v])
    <3> DEFINE b == BaseManifest(v, Entries(content[v]))
    <3>1. b \in Manifest /\ b.version = v /\ Describes(b, content[v])
      BY <1>2, <2>1, BaseDescribes, Zenon
    <3>2. PublishVersion(b)
      BY <1>4, <2>1 DEF Finalize
    <3> HIDE DEF b
    <3> QED BY <1>1, <1>2, <3>1, <3>2, PublishKeeps
  <2>2. CASE ~BaselineOK(content[v])
    <3>1. Fail
      BY <1>4, <2>2, Zenon DEF Finalize
    <3> QED BY <1>1, <3>1, FailKeeps
  <2> QED BY <2>1, <2>2
<1>5. CASE task.enabled /\ info[prev] # NoInfo
  <2>1. /\ m \in Manifest /\ m.version = prev /\ Describes(m, content[prev])
        /\ Readable(info[prev])
    BY <1>2, <1>5, InfoFacts
  <2>2. CASE info[prev].profile # task.profile
    <3>1. Fail
      BY <1>5, <2>2, Zenon DEF Finalize
    <3> QED BY <1>1, <3>1, FailKeeps
  <2>3. CASE info[prev].profile = task.profile /\ HasEqualRuns(m)
    <3> DEFINE c == Compacted(m)
    <3>1. c \in Manifest /\ c.version = m.version /\ Describes(c, content[prev])
      BY <2>1, CompactedDescribes, Zenon
    <3>2. PublishCheckpoint(c, "update")
      BY <1>5, <2>1, <2>3, Zenon DEF Finalize
    <3> HIDE DEF c
    <3>3. /\ TypeOK' /\ RowsInv'
          /\ state' = state /\ content' = content /\ info' = info /\ manifests' = manifests
          /\ task'.kind = task.kind /\ task'.pc = "update" /\ task'.version = task.version
          /\ task'.profile = task.profile /\ task'.manifest = c
      BY <1>1, <3>1, <3>2, CheckpointKeeps
    <3>4. TaskKnows'
      BY <1>1, <1>5, <2>1, <2>3, <3>1, <3>3, UpdateNext
    <3> QED BY <3>3, <3>4 DEF PublicationInv
  <2>4. CASE info[prev].profile = task.profile /\ ~HasEqualRuns(m)
    <3>1. /\ task' = [task EXCEPT !.pc = "update", !.manifest = m]
          /\ UNCHANGED rows /\ UNCHANGED bucket /\ UNCHANGED config
      BY <1>5, <2>1, <2>4, Zenon DEF Finalize
    <3> HIDE DEF m
    <3>2. /\ RowsInv' /\ state' = state /\ content' = content /\ info' = info
          /\ manifests' = manifests /\ checkpoints' = checkpoints
      BY <3>1, TaskOnly
    <3>3. /\ task' \in Task /\ task'.kind = task.kind /\ task'.pc = "update"
          /\ task'.version = v /\ task'.profile = task.profile /\ task'.manifest = m
      BY <1>2, <2>1, <3>1 DEF Task
    <3>4. TypeOK'
      BY <3>1, <3>2, <3>3 DEF PublicationInv, TypeOK, config
    <3>5. TaskKnows'
      BY <1>1, <1>5, <2>1, <2>4, <3>2, <3>3, UpdateNext
    <3> QED BY <3>2, <3>4, <3>5 DEF PublicationInv
  <2> QED BY <2>2, <2>3, <2>4
<1> QED BY <1>3, <1>4, <1>5

\* The delta of a modify whose predecessor is not at the limit.
LEMMA UpdateFromKeeps ==
  ASSUME PublicationInv, task # NoTask, task.pc \in {"update", "retry"}, ~AtLimit,
         UpdateFrom(task.version)
  PROVE  PublicationInv'
<1> DEFINE v == task.version
           old == content[Previous(v)]
           new == content[v]
           m == DeltaManifest(v, task.manifest, ChangedEntries(old, new), DeletedHashes(old, new))
<1>1. /\ task.kind = "modify" /\ v \in Version /\ Previous(v) < v
      /\ new \in SUBSET Unit /\ old \in SUBSET Unit
  BY ModifyFacts
<1>2. task.manifest.version = Previous(v) /\ Describes(task.manifest, old)
      /\ task.manifest \in Manifest
  BY UpdateFacts
<1>3. Len(task.manifest.segments) < MaxSegments
  <2>1. \A x \in Manifest : Len(x.segments) \in Nat
    <3>1. \A s \in Seq(Reference) : Len(s) \in Nat
      OBVIOUS
    <3> QED BY <3>1 DEF Manifest
  <2>2. MaxSegments \in Nat
    BY PublicationAssumption
  <2>3. \A x, y \in Nat : ~(x >= y) => x < y
    OBVIOUS
  <2> QED BY <1>2, <2>1, <2>2, <2>3, Zenon DEF AtLimit
<1>4. CASE ChangedOK(old, new) /\ ManifestValid(m)
  <2>1. ValidChain(m) /\ m.version = v /\ Describes(m, new)
    <3> HIDE DEF old, new, v
    <3>1. task.manifest.version < v
      BY <1>1, <1>2
    <3>2. ChangedOK(old, new) /\ Describes(task.manifest, old)
      BY <1>2, <1>4
    <3>3. /\ task.manifest.version < v => ValidChain(m) /\ m.version = v
          /\ task.manifest.version < v /\ Len(task.manifest.segments) < MaxSegments
                => Describes(m, new)
      BY <1>1, <3>2, DeltaDescribes, Zenon
    <3> QED BY <1>3, <3>1, <3>3, Zenon
  <2>2. PublishVersion(m)
    BY <1>4, Zenon DEF UpdateFrom
  <2>3. m \in Manifest
    BY <2>1, Zenon DEF ValidChain
  <2> HIDE DEF m
  <2> QED BY <1>1, <2>1, <2>2, <2>3, PublishKeeps
<1>5. CASE ~(ChangedOK(old, new) /\ ManifestValid(m))
  <2>1. Fail
    BY <1>5, Zenon DEF UpdateFrom
  <2> QED BY <2>1, FailKeeps
<1> QED BY <1>4, <1>5

\* update(): a chain at the limit is rewritten first.
LEMMA UpdateKeeps ==
  ASSUME PublicationInv, Update
  PROVE  PublicationInv'
<1>1. task # NoTask /\ task.pc = "update"
  BY DEF Update
<1>2. CASE ~AtLimit
  <2>1. UpdateFrom(task.version)
    BY <1>2 DEF Update
  <2> QED BY <1>1, <1>2, <2>1, UpdateFromKeeps
<1>3. CASE AtLimit
  <2> DEFINE prev == Previous(task.version)
             c == Rebased(task.manifest)
  <2>1. PublishCheckpoint(c, "retry")
    BY <1>3 DEF Update
  <2>2. /\ info[prev] # NoInfo /\ info[prev].profile = task.profile
        /\ task.manifest.version = prev /\ Describes(task.manifest, content[prev])
    BY <1>1, UpdateFacts
  <2>3. /\ c \in Manifest /\ c.version = prev /\ Describes(c, content[prev])
        /\ Len(c.segments) < MaxSegments
    BY <2>2, RebasedDescribes
  <2> HIDE DEF c
  <2>4. /\ TypeOK' /\ RowsInv'
        /\ state' = state /\ content' = content /\ info' = info /\ manifests' = manifests
        /\ task'.kind = task.kind /\ task'.pc = "retry" /\ task'.version = task.version
        /\ task'.profile = task.profile /\ task'.manifest = c
    BY <1>1, <2>1, <2>3, CheckpointKeeps
  <2>5. TaskKnows'
    BY <1>1, <2>2, <2>3, <2>4, UpdateNext
  <2> QED BY <2>4, <2>5 DEF PublicationInv
<1> QED BY <1>2, <1>3

\* The second update.
LEMMA RetryKeeps ==
  ASSUME PublicationInv, Retry
  PROVE  PublicationInv'
<1>1. task # NoTask /\ task.pc = "retry"
  BY DEF Retry
<1>2. CASE ~AtLimit
  <2>1. UpdateFrom(task.version)
    BY <1>2 DEF Retry
  <2> QED BY <1>1, <1>2, <2>1, UpdateFromKeeps
<1>3. CASE AtLimit
  <2>1. Fail
    BY <1>3 DEF Retry
  <2> QED BY <1>1, <2>1, FailKeeps
<1> QED BY <1>2, <1>3

\* A new draft; the one of a killed task goes.
LEMMA StartModifyKeeps ==
  ASSUME PublicationInv, NEW v \in Version, NEW units \in SUBSET Unit, StartModify(v, units)
  PROVE  PublicationInv'
<1>1. /\ task = NoTask /\ state[v] = "unused"
      /\ \A u \in Version : u < v => state[u] # "unused"
      /\ task' = NewTask("modify", "finalize", v)
      /\ info' = info /\ manifests' = manifests /\ checkpoints' = checkpoints
      /\ label' = label /\ profile' = profile /\ changes' = changes
  BY DEF StartModify, bucket, config
<1>2. \A u \in Version :
        /\ state'[u] = IF u = v THEN "draft" ELSE IF state[u] = "draft" THEN "deleted" ELSE state[u]
        /\ content'[u] = IF u = v THEN units ELSE IF state[u] = "draft" THEN {} ELSE content[u]
  BY DEF StartModify
<1>3. TypeOK /\ RowsInv
  BY DEF PublicationInv
<1>4. /\ task' \in Task /\ task'.kind = "modify" /\ task'.pc = "finalize" /\ task'.version = v
  BY <1>1, <1>3 DEF NewTask, Task, TypeOK
<1>5. TypeOK'
  <2>1. state' \in [Version -> {"unused", "draft", "complete", "deleted"}]
    BY <1>3 DEF StartModify, TypeOK
  <2>2. content' \in [Version -> SUBSET Unit]
    BY <1>3 DEF StartModify, TypeOK
  <2> QED BY <1>1, <1>3, <1>4, <2>1, <2>2 DEF TypeOK
<1>6. VersionsInOrder'
  <2>1. Complete' = Complete
    BY <1>1, <1>2 DEF Complete
  <2>2. ASSUME NEW w \in Version, state'[w] \in {"unused", "draft"},
               NEW u \in Version, w < u
        PROVE  state'[u] = "unused"
    <3>1. CASE w = v
      <4>1. state[u] = "unused" /\ u # v
        BY <1>1, <1>3, <2>2, <3>1, PublicationAssumption DEF RowsInv, VersionsInOrder
      <4> QED BY <1>2, <4>1
    <3>2. CASE w # v
      <4>1. state[w] = "unused"
        BY <1>2, <2>2, <3>2
      <4>2. state[u] = "unused" /\ u # v
        BY <1>1, <1>3, <2>2, <4>1 DEF RowsInv, VersionsInOrder
      <4> QED BY <1>2, <4>2
    <3> QED BY <3>1, <3>2
  <2> QED BY <1>3, <2>1, <2>2 DEF RowsInv, VersionsInOrder
<1>7. UnusedAreUnpublished'
  BY <1>1, <1>2, <1>3 DEF RowsInv, UnusedAreUnpublished
<1>8. IndexesAreExact'
  <2> SUFFICES ASSUME NEW w \in Version, info[w] # NoInfo
               PROVE  /\ state'[w] = "complete" /\ info[w].manifest.version = w
                      /\ Readable(info[w])' /\ Describes(info[w].manifest, content'[w])
    BY <1>1 DEF IndexesAreExact
  <2>1. /\ state[w] = "complete" /\ info[w].manifest.version = w
        /\ Readable(info[w]) /\ Describes(info[w].manifest, content[w])
    BY <1>3 DEF RowsInv, IndexesAreExact
  <2>2. state'[w] = "complete" /\ content'[w] = content[w]
    BY <1>1, <1>2, <2>1
  <2>3. Readable(info[w])'
    BY <1>1, <2>1 DEF Readable
  <2> QED BY <2>1, <2>2, <2>3
<1>9. TaskKnows'
  <2>1. state'[v] = "draft" /\ \A p \in Profile : manifests'[p][v] = NoManifest
    BY <1>1, <1>2, <1>3 DEF RowsInv, UnusedAreUnpublished
  <2>2. OnDraft(task)' /\ OnComplete(task)' /\ HasPredecessor(task)' /\ HasManifest(task)'
    BY <1>4, <2>1 DEF OnDraft, OnComplete, HasPredecessor, HasManifest
  <2> QED BY <2>2 DEF TaskKnows
<1> QED BY <1>5, <1>6, <1>7, <1>8, <1>9 DEF PublicationInv, RowsInv

\* A descriptor that is saved with a version's row is readable and describes it.
LEMMA SavedIsExact ==
  ASSUME PublicationInv, task # NoTask, task.pc = "save", task.enabled,
         NEW d, d = [profile |-> task.profile, manifest |-> task.manifest,
                     checkpoint |-> task.kind = "compact"]
  PROVE  /\ d \in Descriptor /\ d.manifest.version = task.version
         /\ Readable(d) /\ Describes(d.manifest, content[task.version])
<1>1. task \in Task
  BY DEF PublicationInv, TypeOK
<1>2. /\ task.manifest.version = task.version
      /\ Describes(task.manifest, content[task.version])
      /\ IF task.kind = "compact" THEN task.manifest \in checkpoints[task.profile]
         ELSE manifests[task.profile][task.version] = task.manifest
  BY DEF PublicationInv, TaskKnows, HasManifest
<1>3. task.manifest \in Manifest /\ task.profile \in Profile
  BY <1>1, <1>2 DEF Task, Describes, ValidChain
<1> QED BY <1>2, <1>3 DEF Descriptor, Readable

\* Core completes the version.
LEMMA CompleteModifyKeeps ==
  ASSUME PublicationInv, CompleteModify
  PROVE  PublicationInv'
<1> DEFINE v == task.version
           d == [profile |-> task.profile, manifest |-> task.manifest, checkpoint |-> FALSE]
<1>1. /\ task # NoTask /\ task.kind = "modify" /\ task.pc = "save" /\ task' = NoTask
      /\ state' = [state EXCEPT ![v] = "complete"]
      /\ info' = [info EXCEPT ![v] = IF task.enabled THEN d ELSE NoInfo]
      /\ content' = content /\ manifests' = manifests /\ checkpoints' = checkpoints
      /\ label' = label /\ profile' = profile /\ changes' = changes
  BY DEF CompleteModify, bucket, config
<1>2. TypeOK /\ RowsInv /\ task \in Task
  BY <1>1 DEF PublicationInv, TypeOK
<1>3. v \in Version /\ v \in Nat
  BY <1>2, PublicationAssumption DEF Task
<1>4. state[v] = "draft"
  BY <1>1 DEF PublicationInv, TaskKnows, OnDraft
<1>5. task.enabled => /\ d \in Descriptor /\ d.manifest.version = v
                      /\ Readable(d) /\ Describes(d.manifest, content[v])
  <2> SUFFICES ASSUME task.enabled
               PROVE  /\ d \in Descriptor /\ d.manifest.version = v
                      /\ Readable(d) /\ Describes(d.manifest, content[v])
    OBVIOUS
  <2>1. d = [profile |-> task.profile, manifest |-> task.manifest,
             checkpoint |-> task.kind = "compact"]
    BY <1>1
  <2> HIDE DEF d
  <2> QED BY <1>1, <2>1, SavedIsExact
<1> HIDE DEF d
<1>6. \A u \in Version :
        /\ state'[u] = IF u = v THEN "complete" ELSE state[u]
        /\ info'[u] = IF u = v THEN (IF task.enabled THEN d ELSE NoInfo) ELSE info[u]
  BY <1>1, <1>2 DEF TypeOK
<1>7. TypeOK'
  <2>1. state' \in [Version -> {"unused", "draft", "complete", "deleted"}]
    BY <1>1, <1>2 DEF TypeOK
  <2>2. info' \in [Version -> Descriptor \cup {NoInfo}]
    BY <1>1, <1>2, <1>5 DEF TypeOK
  <2> QED BY <1>1, <1>2, <2>1, <2>2 DEF TypeOK
<1>8. VersionsInOrder'
  <2>1. Complete' = Complete \cup {v}
    BY <1>3, <1>6 DEF Complete
  <2>2. \A u \in Complete : u <= v
    <3> SUFFICES ASSUME NEW u \in Complete, v < u PROVE FALSE
      BY <1>3, PublicationAssumption DEF Complete
    <3>1. u \in Version /\ state[u] = "complete"
      BY DEF Complete
    <3>2. state[u] = "unused"
      BY <1>2, <1>3, <1>4, <3>1 DEF RowsInv, VersionsInOrder
    <3> QED BY <3>1, <3>2
  <2>3. \A u \in Complete' : u <= v
    BY <1>3, <2>1, <2>2
  <2>4. ASSUME NEW w \in Version, state'[w] \in {"unused", "draft"},
               NEW u \in Version, w < u
        PROVE  state'[u] = "unused"
    <3>1. state[u] = "unused"
      BY <1>2, <1>6, <2>4 DEF RowsInv, VersionsInOrder
    <3> QED BY <1>4, <1>6, <3>1
  <2> QED BY <2>1, <2>3, <2>4 DEF VersionsInOrder
<1>9. UnusedAreUnpublished'
  BY <1>1, <1>2, <1>6 DEF RowsInv, UnusedAreUnpublished
<1>10. IndexesAreExact'
  <2> SUFFICES ASSUME NEW w \in Version, info'[w] # NoInfo
               PROVE  /\ state'[w] = "complete" /\ info'[w].manifest.version = w
                      /\ Readable(info[w])' /\ Describes(info'[w].manifest, content[w])
    BY <1>1 DEF IndexesAreExact
  <2>1. CASE w = v
    <3>1. info'[w] = d /\ task.enabled
      BY <1>6, <2>1
    <3>2. Readable(info[w])'
      BY <1>1, <1>5, <3>1 DEF Readable
    <3> QED BY <1>5, <1>6, <2>1, <3>1, <3>2
  <2>2. CASE w # v
    <3>1. info'[w] = info[w] /\ state'[w] = state[w]
      BY <1>6, <2>2
    <3>2. /\ state[w] = "complete" /\ info[w].manifest.version = w
          /\ Readable(info[w]) /\ Describes(info[w].manifest, content[w])
      BY <1>2, <3>1 DEF RowsInv, IndexesAreExact
    <3>3. Readable(info[w])'
      BY <1>1, <3>1, <3>2 DEF Readable
    <3> QED BY <3>1, <3>2, <3>3
  <2> QED BY <2>1, <2>2
<1>11. TaskKnows'
  BY <1>1 DEF TaskKnows
<1> QED BY <1>7, <1>8, <1>9, <1>10, <1>11 DEF PublicationInv, RowsInv

\* version.save(update_fields=["info"]) of a build or a compaction.
LEMMA SaveInfoKeeps ==
  ASSUME PublicationInv, SaveInfo
  PROVE  PublicationInv'
<1> DEFINE v == task.version
           d == [profile |-> task.profile, manifest |-> task.manifest,
                 checkpoint |-> task.kind = "compact"]
<1>1. /\ task # NoTask /\ task.kind # "modify" /\ task.pc = "save" /\ task' = NoTask
      /\ info' = [info EXCEPT ![v] = d] /\ state' = state
      /\ content' = content /\ manifests' = manifests /\ checkpoints' = checkpoints
      /\ label' = label /\ profile' = profile /\ changes' = changes
  BY DEF SaveInfo, bucket, config
<1>2. TypeOK /\ RowsInv /\ task \in Task
  BY <1>1 DEF PublicationInv, TypeOK
<1>3. v \in Version
  BY <1>2 DEF Task
<1>4. task.enabled /\ state[v] = "complete"
  BY <1>1 DEF PublicationInv, TaskKnows, OnComplete
<1>5. /\ d \in Descriptor /\ d.manifest.version = v
      /\ Readable(d) /\ Describes(d.manifest, content[v])
  BY <1>1, <1>4, SavedIsExact
<1> HIDE DEF d
<1>6. \A u \in Version : info'[u] = IF u = v THEN d ELSE info[u]
  BY <1>1, <1>2 DEF TypeOK
<1>7. TypeOK'
  <2>1. info' \in [Version -> Descriptor \cup {NoInfo}]
    BY <1>1, <1>2, <1>5 DEF TypeOK
  <2> QED BY <1>1, <1>2, <2>1 DEF TypeOK
<1>8. VersionsInOrder' /\ UnusedAreUnpublished'
  BY <1>1, <1>2 DEF RowsInv, VersionsInOrder, UnusedAreUnpublished, Complete
<1>9. IndexesAreExact'
  <2> SUFFICES ASSUME NEW w \in Version, info'[w] # NoInfo
               PROVE  /\ state[w] = "complete" /\ info'[w].manifest.version = w
                      /\ Readable(info[w])' /\ Describes(info'[w].manifest, content[w])
    BY <1>1 DEF IndexesAreExact
  <2>1. CASE w = v
    <3>1. info'[w] = d
      BY <1>6, <2>1
    <3>2. Readable(info[w])'
      BY <1>1, <1>5, <3>1 DEF Readable
    <3> QED BY <1>4, <1>5, <2>1, <3>1, <3>2
  <2>2. CASE w # v
    <3>1. info'[w] = info[w]
      BY <1>6, <2>2
    <3>2. /\ state[w] = "complete" /\ info[w].manifest.version = w
          /\ Readable(info[w]) /\ Describes(info[w].manifest, content[w])
      BY <1>2, <3>1 DEF RowsInv, IndexesAreExact
    <3>3. Readable(info[w])'
      BY <1>1, <3>1, <3>2 DEF Readable
    <3> QED BY <3>1, <3>2, <3>3
  <2> QED BY <2>1, <2>2
<1>10. TaskKnows'
  BY <1>1 DEF TaskKnows
<1> QED BY <1>7, <1>8, <1>9, <1>10 DEF PublicationInv, RowsInv

\* A build or a compaction starts on a complete version.
LEMMA StartKeeps ==
  ASSUME PublicationInv, NEW kind \in {"build", "compact"}, NEW v \in Complete,
         task = NoTask, label, task' = NewTask(kind, "publish", v),
         UNCHANGED rows, UNCHANGED bucket, UNCHANGED config
  PROVE  PublicationInv'
<1>1. /\ RowsInv' /\ state' = state /\ content' = content /\ info' = info
      /\ manifests' = manifests /\ checkpoints' = checkpoints
  BY TaskOnly
<1>2. v \in Version /\ state[v] = "complete"
  BY DEF Complete
<1>3. TypeOK
  BY DEF PublicationInv
<1>4. /\ task' \in Task /\ task'.kind = kind /\ task'.pc = "publish" /\ task'.version = v
      /\ task'.enabled
  BY <1>2, <1>3 DEF NewTask, Task, TypeOK
<1>5. TypeOK'
  BY <1>1, <1>3, <1>4 DEF TypeOK, config
<1>6. OnDraft(task)' /\ OnComplete(task)' /\ HasPredecessor(task)' /\ HasManifest(task)'
  BY <1>1, <1>2, <1>4 DEF OnDraft, OnComplete, HasPredecessor, HasManifest
<1> QED BY <1>1, <1>5, <1>6 DEF PublicationInv, TaskKnows

\* build_path_index up to its publication.
LEMMA BuildKeeps ==
  ASSUME PublicationInv, Build
  PROVE  PublicationInv'
<1> DEFINE v == task.version
<1>1. task # NoTask /\ task.kind = "build" /\ task.pc = "publish"
  BY DEF Build
<1>2. v \in Version /\ content[v] \in SUBSET Unit
  <2>1. task \in Task /\ TypeOK
    BY <1>1 DEF PublicationInv, TypeOK
  <2> QED BY <2>1 DEF Task, TypeOK
<1>3. CASE ~Current(v) /\ BaselineOK(content[v])
  <2> DEFINE b == BaseManifest(v, Entries(content[v]))
  <2>1. b \in Manifest /\ b.version = v /\ Describes(b, content[v])
    BY <1>2, <1>3, BaseDescribes, Zenon
  <2>2. PublishVersion(b)
    BY <1>3 DEF Build
  <2> HIDE DEF b
  <2> QED BY <1>1, <2>1, <2>2, PublishKeeps
<1>4. CASE Current(v) \/ ~BaselineOK(content[v])
  <2>1. Fail
    BY <1>4, Zenon DEF Build
  <2> QED BY <1>1, <2>1, FailKeeps
<1> QED BY <1>3, <1>4

\* compact_path_index up to its publication.
LEMMA CompactKeeps ==
  ASSUME PublicationInv, Compact
  PROVE  PublicationInv'
<1> DEFINE v == task.version
           d == info[v]
<1>1. task # NoTask /\ task.kind = "compact" /\ task.pc = "publish"
  BY DEF Compact
<1>2. task \in Task /\ v \in Version
  <2>1. task \in Task
    BY <1>1 DEF PublicationInv, TypeOK
  <2> QED BY <2>1 DEF Task
<1>3. CASE d # NoInfo /\ d.profile = task.profile /\ Readable(d)
  <2> DEFINE m == Rebased(d.manifest)
  <2>1. d.manifest.version = v /\ Describes(d.manifest, content[v])
    BY <1>2, <1>3, InfoFacts
  <2>2. m \in Manifest /\ m.version = v /\ Describes(m, content[v])
    <3> HIDE DEF d, v
    <3> QED BY <2>1, RebasedDescribes, Zenon
  <2>3. PublishCheckpoint(m, "save")
    BY <1>3, Zenon DEF Compact
  <2> HIDE DEF m
  <2>4. /\ TypeOK' /\ RowsInv'
        /\ state' = state /\ content' = content /\ info' = info /\ manifests' = manifests
        /\ task'.kind = task.kind /\ task'.pc = "save" /\ task'.version = v
        /\ task'.enabled = task.enabled /\ task'.profile = task.profile
        /\ task'.manifest = m /\ m \in checkpoints'[task.profile]
    BY <1>1, <2>2, <2>3, CheckpointKeeps
  <2>5. task.enabled /\ state[v] = "complete"
    BY <1>1 DEF PublicationInv, TaskKnows, OnComplete
  <2>6. OnDraft(task)' /\ OnComplete(task)' /\ HasPredecessor(task)' /\ HasManifest(task)'
    BY <1>1, <2>2, <2>4, <2>5 DEF OnDraft, OnComplete, HasPredecessor, HasManifest
  <2> QED BY <2>4, <2>6 DEF PublicationInv, TaskKnows
<1>4. CASE ~(d # NoInfo /\ d.profile = task.profile /\ Readable(d))
  <2>1. Fail
    BY <1>4, Zenon DEF Compact
  <2> QED BY <1>1, <2>1, FailKeeps
<1> QED BY <1>3, <1>4

\* Retention or a delete.
LEMMA DeleteKeeps ==
  ASSUME PublicationInv, NEW v \in Version, DeleteVersion(v)
  PROVE  PublicationInv'
<1>1. /\ task = NoTask /\ task' = NoTask /\ v \in Complete /\ Complete # {v}
      /\ Drop({v}) /\ UNCHANGED bucket /\ UNCHANGED config
  BY DEF DeleteVersion
<1>2. TypeOK /\ RowsInv
  BY DEF PublicationInv
<1>3. {v} \in SUBSET Version /\ Complete \ {v} # {} /\ \A u \in {v} : state[u] # "unused"
  BY <1>1 DEF Complete
<1>4. /\ RowsInv'
      /\ state' \in [Version -> {"unused", "draft", "complete", "deleted"}]
      /\ content' \in [Version -> SUBSET Unit]
      /\ info' \in [Version -> Descriptor \cup {NoInfo}]
  BY <1>1, <1>2, <1>3, DropKeeps, Zenon
<1>5. TypeOK' /\ TaskKnows'
  BY <1>1, <1>2, <1>4 DEF TypeOK, TaskKnows, bucket, config
<1> QED BY <1>4, <1>5 DEF PublicationInv

\* Configuration changes concern no row, no object and no running task.
LEMMA ConfigKeeps ==
  ASSUME PublicationInv, SetLabel \/ SetProfile
  PROVE  PublicationInv'
<1>1. /\ task' = task /\ UNCHANGED rows /\ UNCHANGED bucket
      /\ label' \in BOOLEAN /\ profile' \in Profile /\ changes' \in 0 .. MaxChanges
  <2>1. TypeOK
    BY DEF PublicationInv
  <2>2. CASE SetLabel
    BY <2>1, <2>2, PublicationAssumption DEF SetLabel, TypeOK
  <2>3. CASE SetProfile
    BY <2>1, <2>3, PublicationAssumption DEF SetProfile, TypeOK
  <2> QED BY <2>2, <2>3
<1>2. /\ RowsInv' /\ state' = state /\ content' = content /\ info' = info
      /\ manifests' = manifests /\ checkpoints' = checkpoints
  BY <1>1, TaskOnly
<1>3. TypeOK'
  BY <1>1, <1>2 DEF PublicationInv, TypeOK
<1>4. TaskKnows'
  <2>1. task # NoTask => Previous(task.version)' = Previous(task.version)
    BY <1>1, <1>2 DEF Previous, Complete
  <2> SUFFICES ASSUME task # NoTask
               PROVE OnDraft(task)' /\ OnComplete(task)' /\ HasPredecessor(task)' /\ HasManifest(task)'
    BY <1>1 DEF TaskKnows
  <2>2. OnDraft(task) /\ OnComplete(task) /\ HasPredecessor(task) /\ HasManifest(task)
    BY DEF PublicationInv, TaskKnows
  <2>3. OnDraft(task)' /\ OnComplete(task)' /\ HasManifest(task)'
    BY <1>1, <1>2, <2>2 DEF OnDraft, OnComplete, HasManifest
  <2>4. HasPredecessor(task)'
    BY <1>1, <1>2, <2>1, <2>2 DEF HasPredecessor
  <2> QED BY <2>3, <2>4
<1> QED BY <1>2, <1>3, <1>4 DEF PublicationInv

\* A killed task.
LEMMA CrashKeeps ==
  ASSUME PublicationInv, Crash
  PROVE  PublicationInv'
<1>1. task' = NoTask /\ UNCHANGED rows /\ UNCHANGED bucket /\ UNCHANGED config
  BY DEF Crash
<1>2. /\ RowsInv' /\ state' = state /\ content' = content /\ info' = info
      /\ manifests' = manifests /\ checkpoints' = checkpoints
  BY <1>1, TaskOnly
<1>3. TypeOK' /\ TaskKnows'
  BY <1>1, <1>2 DEF PublicationInv, TypeOK, TaskKnows, config
<1> QED BY <1>2, <1>3 DEF PublicationInv

-----------------------------------------------------------------------------
(* The theorems.                                                            *)

\* A new repository: version 0, without content and without an index.
LEMMA InitHolds ==
  ASSUME Init
  PROVE  PublicationInv
<1>1. TypeOK
  <2>1. label \in BOOLEAN /\ profile \in Profile /\ changes \in 0 .. MaxChanges
    <3>1. MaxChanges \in Nat
      BY PublicationAssumption
    <3>2. 0 \in 0 .. MaxChanges
      BY <3>1
    <3>3. label = FALSE /\ profile \in Profile /\ changes = 0
      BY Zenon DEF Init
    <3> QED BY <3>2, <3>3, Zenon
  <2>2. /\ state \in [Version -> {"unused", "draft", "complete", "deleted"}]
        /\ content \in [Version -> SUBSET Unit]
        /\ info \in [Version -> Descriptor \cup {NoInfo}]
    BY DEF Init
  <2>3. /\ manifests \in [Profile -> [Version -> Manifest \cup {NoManifest}]]
        /\ checkpoints \in [Profile -> SUBSET Manifest]
        /\ task \in Task \cup {NoTask}
    BY DEF Init
  <2> QED BY <2>1, <2>2, <2>3 DEF TypeOK
<1>2. VersionsInOrder
  <2>1. Complete = {0}
    BY PublicationAssumption DEF Init, Complete
  <2>2. \A v \in Version : state[v] \in {"unused", "draft"} =>
            \A u \in Version : v < u => state[u] = "unused"
    BY PublicationAssumption DEF Init
  <2> QED BY <2>1, <2>2 DEF VersionsInOrder
<1>3. UnusedAreUnpublished /\ IndexesAreExact /\ TaskKnows
  BY DEF Init, UnusedAreUnpublished, IndexesAreExact, TaskKnows
<1> QED BY <1>1, <1>2, <1>3 DEF PublicationInv, RowsInv

\* Nothing changes, nothing is lost.
LEMMA StutterKeeps ==
  ASSUME PublicationInv, UNCHANGED vars
  PROVE  PublicationInv'
<1>1. /\ label' = label /\ profile' = profile /\ changes' = changes /\ task' = task
      /\ state' = state /\ content' = content /\ info' = info
      /\ manifests' = manifests /\ checkpoints' = checkpoints
  BY DEF vars
<1>2. RowsInv'
  BY <1>1, TaskOnly DEF rows, bucket
<1>3. TypeOK'
  BY <1>1 DEF PublicationInv, TypeOK
<1>4. TaskKnows'
  <2>1. task # NoTask => Previous(task.version)' = Previous(task.version)
    BY <1>1 DEF Previous, Complete
  <2> SUFFICES ASSUME task # NoTask
               PROVE OnDraft(task)' /\ OnComplete(task)' /\ HasPredecessor(task)' /\ HasManifest(task)'
    BY <1>1 DEF TaskKnows
  <2>2. OnDraft(task) /\ OnComplete(task) /\ HasPredecessor(task) /\ HasManifest(task)
    BY DEF PublicationInv, TaskKnows
  <2>3. OnDraft(task)' /\ OnComplete(task)' /\ HasManifest(task)'
    BY <1>1, <2>2 DEF OnDraft, OnComplete, HasManifest
  <2>4. HasPredecessor(task)'
    BY <1>1, <2>1, <2>2 DEF HasPredecessor
  <2> QED BY <2>3, <2>4
<1> QED BY <1>2, <1>3, <1>4 DEF PublicationInv

\* Every step of the system keeps the invariant.
LEMMA NextKeeps ==
  ASSUME PublicationInv, [Next]_vars
  PROVE  PublicationInv'
<1>1. CASE SetLabel \/ SetProfile
  BY <1>1, ConfigKeeps
<1>2. CASE \E v \in Version, units \in SUBSET Unit : StartModify(v, units)
  BY <1>2, StartModifyKeeps
<1>3. CASE \E v \in Version : StartBuild(v)
  <2>1. PICK v \in Version : StartBuild(v)
    BY <1>3
  <2>2. /\ v \in Complete /\ task = NoTask /\ label
        /\ task' = NewTask("build", "publish", v)
        /\ UNCHANGED rows /\ UNCHANGED bucket /\ UNCHANGED config
    BY <2>1 DEF StartBuild
  <2> QED BY <2>2, StartKeeps
<1>4. CASE \E v \in Version : DeleteVersion(v)
  BY <1>4, DeleteKeeps
<1>5. CASE StartCompact
  <2>1. Newest(Complete) \in Complete
    BY NewestIsNewest, Zenon DEF PublicationInv, RowsInv, VersionsInOrder
  <2>2. /\ task = NoTask /\ label
        /\ task' = NewTask("compact", "publish", Newest(Complete))
        /\ UNCHANGED rows /\ UNCHANGED bucket /\ UNCHANGED config
    BY <1>5 DEF StartCompact
  <2> QED BY <2>1, <2>2, StartKeeps
<1>6. CASE Finalize
  BY <1>6, FinalizeKeeps
<1>7. CASE Update
  BY <1>7, UpdateKeeps
<1>8. CASE Retry
  BY <1>8, RetryKeeps
<1>9. CASE CompleteModify
  BY <1>9, CompleteModifyKeeps
<1>10. CASE Build
  BY <1>10, BuildKeeps
<1>11. CASE Compact
  BY <1>11, CompactKeeps
<1>12. CASE SaveInfo
  BY <1>12, SaveInfoKeeps
<1>13. CASE TaskError
  BY <1>13, FailKeeps DEF TaskError
<1>14. CASE Crash
  BY <1>14, CrashKeeps
<1>15. CASE UNCHANGED vars
  BY <1>15, StutterKeeps
<1> QED BY <1>1, <1>2, <1>3, <1>4, <1>5, <1>6, <1>7, <1>8, <1>9, <1>10, <1>11, <1>12,
           <1>13, <1>14, <1>15, Zenon DEF Next, Work

\* The inductive invariant holds in every history of tasks, failures and kills.
THEOREM PublicationInvariant == Spec => []PublicationInv
<1>1. Init => PublicationInv
  BY InitHolds
<1>2. PublicationInv /\ [Next]_vars => PublicationInv'
  BY NextKeeps
<1> QED BY <1>1, <1>2, PTL DEF Spec

\* Rows, objects and tasks keep their types: in particular a task never saves a
\* descriptor without a manifest.
THEOREM PublicationTypes == Spec => []TypeOK
<1>1. PublicationInv => TypeOK
  BY DEF PublicationInv
<1> QED BY <1>1, PublicationInvariant, PTL

\* A complete version's index answers every path of the version as the database
\* would, misses included, whatever chain of deltas, merges and rewrites made it.
THEOREM IndexIsAlwaysExact == Spec => []AdvertisedIndexIsExact
<1>1. PublicationInv => AdvertisedIndexIsExact
  BY DEF PublicationInv, RowsInv, IndexesAreExact, Describes, AdvertisedIndexIsExact, Complete
<1> QED BY <1>1, PublicationInvariant, PTL

\* Although an update checks changed paths only, the whole version has one
\* downloaded artifact for a path and the pages above it.
THEOREM IndexedVersionsAreAlwaysCovered == Spec => []IndexedVersionsAreCovered
<1>1. ASSUME PublicationInv PROVE IndexedVersionsAreCovered
  <2> SUFFICES ASSUME NEW v \in Complete, info[v] # NoInfo, NEW u \in content[v]
               PROVE  /\ u.artifact \in Artifact
                      /\ \A other \in content[v] \ {u} : other.path # u.path
                      /\ u.page \/ Required[u.path] \subseteq AllPaths(content[v])
    BY DEF IndexedVersionsAreCovered
  <2>1. Covered(content[v]) /\ content[v] \in SUBSET Unit
    BY <1>1 DEF PublicationInv, TypeOK, RowsInv, IndexesAreExact, Describes, Complete
  <2>2. u.artifact \in Artifact
    BY <2>1, UnitType DEF Covered, CheckedRows
  <2>3. \A other \in content[v] \ {u} : other.path # u.path
    BY <2>1 DEF Covered, CheckedRows
  <2> QED BY <2>1, <2>2, <2>3 DEF Covered
<1>2. PublicationInv => IndexedVersionsAreCovered
  BY <1>1
<1> QED BY <1>2, PublicationInvariant, PTL

\* A lookup opens at most MaxSegments segments of a valid manifest, however many
\* versions followed each other.
THEOREM LookupsAreAlwaysBounded == Spec => []LookupsAreBounded
<1>1. PublicationInv => LookupsAreBounded
  BY DEF PublicationInv, RowsInv, IndexesAreExact, Describes, ValidChain, LookupsAreBounded,
         Complete
<1> QED BY <1>1, PublicationInvariant, PTL

\* A task that goes on is still there.
LEMMA TaskGoesOn ==
  ASSUME PublicationInv, task # NoTask,
         NEW m \in Manifest, NEW pc \in {"update", "retry", "save"}
  PROVE  [task EXCEPT !.pc = pc, !.manifest = m] # NoTask
<1>1. task \in Task
  BY DEF PublicationInv, TypeOK
<1>2. [task EXCEPT !.pc = pc, !.manifest = m] \in Task
  BY <1>1 DEF Task
<1> QED BY <1>2, PublicationAssumption

\* A modify is the first to publish under its version's name.
LEMMA DraftsArePublished ==
  ASSUME PublicationInv, task # NoTask, task.pc \in {"finalize", "update", "retry"},
         NEW m \in Manifest, m.version = task.version, PublishVersion(m)
  PROVE  task' # NoTask
<1>1. manifests[task.profile][m.version] = NoManifest
  BY ModifyFacts
<1>2. task' = [task EXCEPT !.pc = "save", !.manifest = m]
  BY <1>1 DEF PublishVersion
<1> QED BY <1>2, TaskGoesOn

\* A delta on the predecessor's chain is a valid manifest: an update fails only
\* for the content of the version.
LEMMA UpdateFromFailsForContent ==
  ASSUME PublicationInv, task # NoTask, task.pc \in {"update", "retry"},
         UpdateFrom(task.version), task' = NoTask
  PROVE  ~BaselineOK(content[task.version])
<1> DEFINE v == task.version
           old == content[Previous(v)]
           new == content[v]
           m == DeltaManifest(v, task.manifest, ChangedEntries(old, new), DeletedHashes(old, new))
<1> SUFFICES ASSUME BaselineOK(new) PROVE FALSE
  OBVIOUS
<1>1. /\ v \in Version /\ Previous(v) < v /\ new \in SUBSET Unit /\ old \in SUBSET Unit
  BY ModifyFacts
<1>2. task.manifest.version = Previous(v) /\ Describes(task.manifest, old)
  BY UpdateFacts
<1>3. ChangedOK(old, new)
  BY <1>1, BaselineAcceptsChanges
<1>4. ValidChain(m) /\ m.version = v
  <2>1. task.manifest.version < v
    BY <1>1, <1>2
  <2> HIDE DEF old, new, v
  <2>2. ChangedOK(old, new) /\ Describes(task.manifest, old)
    BY <1>2, <1>3
  <2>3. /\ task.manifest.version < v => ValidChain(m) /\ m.version = v
        /\ task.manifest.version < v /\ Len(task.manifest.segments) < MaxSegments
              => Describes(m, new)
    BY <1>1, <2>2, DeltaDescribes, Zenon
  <2> QED BY <2>1, <2>3, Zenon
<1>5. m \in Manifest /\ ManifestValid(m)
  BY <1>4, Zenon DEF ValidChain
<1>6. PublishVersion(m)
  BY <1>3, <1>5, Zenon DEF UpdateFrom
<1> HIDE DEF m
<1>7. task' # NoTask
  BY <1>4, <1>5, <1>6, DraftsArePublished
<1> QED BY <1>7

\* The causes a modify can fail for.
LEMMA ModifyCauses ==
  ASSUME PublicationInv, Finalize \/ Update \/ Retry, task' = NoTask
  PROVE  \/ ~BaselineOK(content[task.version])
         \/ info[Previous(task.version)].profile # task.profile
<1> DEFINE v == task.version
           prev == Previous(v)
           m == info[prev].manifest
<1>1. CASE Finalize
  <2> SUFFICES ASSUME BaselineOK(content[v]), info[prev].profile = task.profile PROVE FALSE
    OBVIOUS
  <2>1. task # NoTask /\ task.pc = "finalize"
    BY <1>1 DEF Finalize
  <2>2. /\ task \in Task /\ v \in Version /\ prev \in Version /\ content[v] \in SUBSET Unit
    BY <2>1, ModifyFacts
  <2>3. CASE ~task.enabled
    <3>1. task' = [task EXCEPT !.pc = "save"]
      BY <1>1, <2>3 DEF Finalize
    <3>2. task' \in Task
      BY <2>2, <3>1 DEF Task
    <3> QED BY <3>2, PublicationAssumption
  <2>4. CASE task.enabled /\ info[prev] = NoInfo
    <3> DEFINE b == BaseManifest(v, Entries(content[v]))
    <3>1. b \in Manifest /\ b.version = v
      BY <2>2, BaseDescribes, Zenon
    <3>2. PublishVersion(b)
      BY <1>1, <2>4 DEF Finalize
    <3> HIDE DEF b
    <3> QED BY <2>1, <3>1, <3>2, DraftsArePublished
  <2>5. CASE task.enabled /\ info[prev] # NoInfo
    <3>1. m \in Manifest /\ Describes(m, content[prev]) /\ Readable(info[prev])
      BY <2>2, <2>5, InfoFacts
    <3>2. CASE HasEqualRuns(m)
      <4>1. PublishCheckpoint(Compacted(m), "update")
        BY <1>1, <2>5, <3>1, <3>2, Zenon DEF Finalize
      <4>2. Compacted(m) \in Manifest
        BY <3>1, CompactedDescribes, Zenon
      <4>3. task' = [task EXCEPT !.pc = "update", !.manifest = Compacted(m)]
        BY <4>1, Zenon DEF PublishCheckpoint
      <4> QED BY <2>1, <4>2, <4>3, TaskGoesOn, Zenon
    <3>3. CASE ~HasEqualRuns(m)
      <4>1. task' = [task EXCEPT !.pc = "update", !.manifest = m]
        BY <1>1, <2>5, <3>1, <3>3, Zenon DEF Finalize
      <4> QED BY <2>1, <3>1, <4>1, TaskGoesOn, Zenon
    <3> QED BY <3>2, <3>3
  <2> QED BY <2>3, <2>4, <2>5
<1>2. CASE Update
  <2>1. task # NoTask /\ task.pc = "update"
    BY <1>2 DEF Update
  <2>2. CASE ~AtLimit
    <3>1. UpdateFrom(task.version)
      BY <1>2, <2>2 DEF Update
    <3> QED BY <2>1, <3>1, UpdateFromFailsForContent
  <2>3. CASE AtLimit
    <3>1. PublishCheckpoint(Rebased(task.manifest), "retry")
      BY <1>2, <2>3 DEF Update
    <3>2. Rebased(task.manifest) \in Manifest
      <4>1. Describes(task.manifest, content[prev])
        BY <2>1, UpdateFacts
      <4> QED BY <4>1, RebasedDescribes, Zenon
    <3>3. task' = [task EXCEPT !.pc = "retry", !.manifest = Rebased(task.manifest)]
      BY <3>1, Zenon DEF PublishCheckpoint
    <3> QED BY <2>1, <3>2, <3>3, TaskGoesOn, Zenon
  <2> QED BY <2>2, <2>3
<1>3. CASE Retry
  <2>1. task # NoTask /\ task.pc = "retry"
    BY <1>3 DEF Retry
  <2>2. ~AtLimit
    <3>1. Len(task.manifest.segments) < MaxSegments /\ task.manifest \in Manifest
      BY <2>1, UpdateFacts
    <3>2. \A x \in Manifest : Len(x.segments) \in Nat
      <4>1. \A s \in Seq(Reference) : Len(s) \in Nat
        OBVIOUS
      <4> QED BY <4>1 DEF Manifest
    <3>3. MaxSegments \in Nat
      BY PublicationAssumption
    <3>4. \A x, y \in Nat : x < y => ~(x >= y)
      OBVIOUS
    <3> QED BY <3>1, <3>2, <3>3, <3>4, Zenon DEF AtLimit
  <2>3. UpdateFrom(task.version)
    BY <1>3, <2>2 DEF Retry
  <2> QED BY <2>1, <2>3, UpdateFromFailsForContent
<1> QED BY <1>1, <1>2, <1>3

\* A modify that was not killed and met no storage error completes, unless its
\* content fails the checks of a full build or the predecessor was advertised
\* under other storage settings.
THEOREM ModifiesFailOnlyForCause == Spec => ModifyFailsOnlyForCause
<1>1. PublicationInv /\ [Next]_vars =>
        [(Finalize \/ Update \/ Retry) /\ task' = NoTask =>
            \/ ~BaselineOK(content[task.version])
            \/ info[Previous(task.version)].profile # task.profile]_vars
  BY ModifyCauses
<1> QED BY <1>1, PublicationInvariant, PTL DEF Spec, ModifyFailsOnlyForCause

=============================================================================
