------------------------------ MODULE Finalization ------------------------------
(***************************************************************************)
(* The generated content of one repository: packages, maven-metadata.xml,  *)
(* .meta/prefixes.txt and index pages.  Each task with the repository's    *)
(* reservation makes one version: ordinary modifies bring the generated    *)
(* content up to date from the difference between two versions,            *)
(* pull-through leaves it alone, and three repairs rebuild a part of it.   *)
(*                                                                         *)
(* Names stand for themselves.  maven-metadata.xml stands for itself and   *)
(* its three checksum files.  Dates and sizes on pages are left out.       *)
(*                                                                         *)
(* An environment says which artifacts there are, and what happens besides *)
(* modifies of artifacts and index page repairs:                           *)
(*   "pull"      pull-through adds artifacts                               *)
(*   "upload"    a client deploys its own maven-metadata.xml               *)
(*   "metadata"  repair_metadata                                           *)
(*   "packages"  repair_packages                                           *)
(*   "others"    other repositories of the domain make or drop packages    *)
(*   "damage"    index pages cannot be read from the storage               *)
(***************************************************************************)
EXTENDS Naturals, Sequences, FiniteSets, SequencesExt

CONSTANTS
    Name,          \* segments of paths
    Unit,          \* artifacts: <<group, artifact, version, filename>>, group a path
    Pom,           \* the filename of a version's own POM
    Snapshot,      \* the versions that end in -SNAPSHOT
    Environments,  \* the ways of use to check, see above
    NoFile,        \* there is no such metadata file
    Uploaded,      \* metadata written by a client
    MaxChange      \* bound of the model: artifacts added or removed at once

ASSUME FinalizationAssumption ==
    /\ IsFiniteSet(Unit) /\ Unit \subseteq Seq(Name) \X Name \X Name \X Name
    /\ {"maven-metadata.xml", ".meta", "prefixes.txt"} \subseteq Name
    /\ Environments \subseteq
          [units : SUBSET Unit,
           events : SUBSET {"pull", "upload", "metadata", "packages", "others", "damage"}]
    /\ MaxChange \in Nat

VARIABLES
    env,     \* the environment of this behaviour
    latest,  \* content of the latest version
    rows     \* coordinates that have a MavenPackage row in the domain

vars == <<env, latest, rows>>

Pair(u) == <<u[1], u[2]>>
Gav(u)  == <<u[1], u[2], u[3]>>

Gavs == {Gav(u) : u \in Unit}

\* What a maven-metadata.xml describes: a pair, or a snapshot version of one.
Subject == {Pair(u) : u \in Unit} \cup {g \in Gavs : g[3] \in Snapshot}

-----------------------------------------------------------------------------
(* Paths.                                                                   *)

Path(u) == u[1] \o <<u[2], u[3], u[4]>>

MetadataPath(s) ==
    s[1] \o (IF Len(s) = 2 THEN <<s[2]>> ELSE <<s[2], s[3]>>) \o <<"maven-metadata.xml">>

PrefixesPath == <<".meta", "prefixes.txt">>

\* The first two segments of the group.
ComputePrefix(group) == SubSeq(group, 1, IF Len(group) < 2 THEN Len(group) ELSE 2)

GroupPrefixes(units) == {ComputePrefix(u[1]) : u \in units}

ASSUME NoFileAssumption ==
    /\ \A names \in SUBSET Name : names \notin {NoFile, Uploaded}
    /\ \A units \in SUBSET Unit : GroupPrefixes(units) # NoFile
    /\ Uploaded # NoFile

Below(d, p) == IsStrictPrefix(d, p)

\* The next path from directory d on the way to p.
Child(d, p) == SubSeq(p, 1, Len(d) + 1)

\* And how the page of d lists it: as a file or as a directory.
Entry(d, p) == <<Child(d, p), Child(d, p) = p>>

DirectoryEntry(e) == <<e, FALSE>>

AllPaths ==
    {Path(u) : u \in Unit} \cup {MetadataPath(s) : s \in Subject} \cup {PrefixesPath}

Directory == UNION {Prefixes(p) \ {p} : p \in AllPaths}

PrefixesFile(v) == IF v.prefixes = NoFile THEN {} ELSE {PrefixesPath}

\* Content paths of a version, its index pages excepted.
Files(v) ==
    {Path(u) : u \in v.artifacts}
        \cup {MetadataPath(s) : s \in {t \in Subject : v.metadata[t] # NoFile}}
        \cup PrefixesFile(v)

-----------------------------------------------------------------------------
(* _ensure_packages and _ensure_packages_full_scan.                         *)

LiveGavs(v) == {Gav(u) : u \in v.artifacts}

PomGavs(v) == {Gav(u) : u \in {w \in v.artifacts : w[4] = Pom}}

Changed(old, new) ==
    (old.artifacts \ new.artifacts) \cup (new.artifacts \ old.artifacts)

AffectedGavs(old, new) == {Gav(u) : u \in Changed(old, new)}

\* Packages that get a row in the domain.
CreatedPackages(old, new) == AffectedGavs(old, new) \cap PomGavs(new)

\* Mutant: a version that loses its POM loses its package, as in the full scan.
EnsurePackages_NeedsPom(old, new) ==
    LET affected == AffectedGavs(old, new)
        poms     == affected \cap PomGavs(new)
    IN  [new EXCEPT !.packages = (@ \cup poms) \ (affected \ poms)]

\* A package that has a row is attached even when this version lacks the POM.
EnsurePackages(old, new) ==
    LET affected == AffectedGavs(old, new)
        live     == affected \cap LiveGavs(new)
    IN  [new EXCEPT !.packages =
            (@ \cup (live \cap (rows \cup PomGavs(new)))) \ (affected \ live)]

EnsurePackagesFullScan(v) == [v EXCEPT !.packages = PomGavs(v)]

-----------------------------------------------------------------------------
(* _generate_metadata and repair_metadata.                                  *)

Described(s, units) == {u \in units : s \in {Pair(u), Gav(u)}}

\* The file for s lists the versions of a pair, the files of a snapshot version.
Generated(v, s) ==
    LET listed == {u[Len(s) + 1] : u \in Described(s, v.artifacts)}
    IN  IF listed = {} THEN NoFile ELSE listed

AffectedPairs(old, new) == {Pair(u) : u \in Changed(old, new)}

AffectedSubjects(old, new) ==
    (AffectedPairs(old, new) \cup AffectedGavs(old, new)) \cap Subject

\* Mutant: the file is written again only when a prefix is gone.
PrefixSetChanged_RemovedOnly(old, new) ==
    GroupPrefixes(Changed(old, new)) \ GroupPrefixes(new.artifacts) # {}

\* Judged from the affected pairs: one of their prefixes is shared with no other
\* pair, or is gone.
PrefixSetChanged(old, new) ==
    LET affected == GroupPrefixes(Changed(old, new))
        others   == {u \in new.artifacts : Pair(u) \notin AffectedPairs(old, new)}
    IN  affected \ GroupPrefixes(others) # {} \/ affected \ GroupPrefixes(new.artifacts) # {}

CurrentPrefixes(v) == IF v.artifacts = {} THEN NoFile ELSE GroupPrefixes(v.artifacts)

\* Mutant: only what was added is looked at.
GenerateMetadata_AddedOnly(old, new) ==
    LET subjects == {s \in Subject :
                        Described(s, new.artifacts \ old.artifacts) # {}}
    IN  [new EXCEPT
            !.metadata = [s \in Subject |-> IF s \in subjects THEN Generated(new, s) ELSE @[s]],
            !.prefixes = IF PrefixSetChanged(old, new) \/ @ = NoFile
                         THEN CurrentPrefixes(new) ELSE @]

GenerateMetadata(old, new) ==
    IF Changed(old, new) = {} THEN new
    ELSE [new EXCEPT
            !.metadata = [s \in Subject |-> IF s \in AffectedSubjects(old, new)
                                            THEN Generated(new, s) ELSE @[s]],
            !.prefixes = IF PrefixSetChanged(old, new) \/ @ = NoFile
                         THEN CurrentPrefixes(new) ELSE @]

RegenerateMetadata(v) ==
    [v EXCEPT !.metadata = [s \in Subject |-> Generated(v, s)],
              !.prefixes = CurrentPrefixes(v)]

-----------------------------------------------------------------------------
(* _generate_index_pages.  A page is the set of the entries it lists; a     *)
(* directory whose set is empty has no page.                                *)

Listing(v, d) == {Entry(d, p) : p \in {q \in Files(v) : Below(d, q)}}

\* Bulk mode: the given directories are listed from the content.
BulkPages(v, directories) ==
    [d \in Directory |-> IF d \in directories THEN Listing(v, d) ELSE v.pages[d]]

\* Metadata that is replaced is both removed and added.
Replaced(old, new) ==
    {s \in Subject : old.metadata[s] # NoFile /\ new.metadata[s] # NoFile
                        /\ (s \in AffectedSubjects(old, new)
                               \/ old.metadata[s] # new.metadata[s])}

PrefixesReplaced(old, new) ==
    IF old.prefixes # new.prefixes THEN PrefixesFile(old) \cap PrefixesFile(new) ELSE {}

Rewritten(old, new) ==
    {MetadataPath(s) : s \in Replaced(old, new)} \cup PrefixesReplaced(old, new)

RemovedPaths(old, new) == (Files(old) \ Files(new)) \cup Rewritten(old, new)

AddedPaths(old, new) == (Files(new) \ Files(old)) \cup Rewritten(old, new)

\* Mutant: new files only count in their own directory.
ListingChanges_FilesOnly(pages, removed, added, d) ==
    \/ \E p \in removed : Below(d, p)
    \/ \E p \in added : Below(d, p) /\ Child(d, p) = p

\* _directory_listing_changes: something below d is removed, a file is added to d,
\* or a child directory that has no page yet.
ListingChanges(pages, removed, added, d) ==
    \/ \E p \in removed : Below(d, p)
    \/ \E p \in added : Below(d, p) /\ (Child(d, p) = p \/ pages[Child(d, p)] = {})

\* An unreadable page that should be changed, and the affected directories above it.
Skipped(pages, affected, unreadable) ==
    {d \in affected : \E e \in affected \cap unreadable : pages[e] # {} /\ IsPrefix(d, e)}

\* What was read of a page (nothing when there was none) without the files that were
\* removed from the directory, with what was added to it or below it.
EditedPage(page, removed, added, d) ==
    (page \ {Entry(d, p) : p \in {q \in removed : Below(d, q) /\ Child(d, q) = q}})
        \cup {Entry(d, p) : p \in {q \in added : Below(d, q)}}

Kids(d, directories) == {e \in directories : Len(e) = Len(d) + 1 /\ IsPrefix(d, e)}

\* Mutant: directories that became empty stay listed.
Settled_KeepsEmpty(edited) == edited

\* From the deepest up: a child page that is empty is taken from its parent, any
\* other is listed there.
Settled(edited) ==
    LET page[d \in DOMAIN edited] ==
            LET kids == Kids(d, DOMAIN edited)
            IN  (edited[d] \ {DirectoryEntry(e) : e \in kids})
                    \cup {DirectoryEntry(e) : e \in {k \in kids : page[k] # {}}}
    IN  page

GenerateIndexPages(old, new, unreadable) ==
    LET removed  == RemovedPaths(old, new)
        added    == AddedPaths(old, new)
        affected == {d \in Directory : ListingChanges(new.pages, removed, added, d)}
        skipped  == Skipped(new.pages, affected, unreadable)
        read(d)  == IF d \in unreadable THEN {} ELSE new.pages[d]
        settled  == Settled([d \in affected \ skipped |->
                                EditedPage(read(d), removed, added, d)])
        pages    == [d \in Directory |->
                        IF d \in affected \ skipped THEN settled[d] ELSE new.pages[d]]
    IN  [new EXCEPT !.pages = BulkPages([new EXCEPT !.pages = pages], skipped)]

-----------------------------------------------------------------------------
(* Tasks.                                                                   *)

\* A version without content.
Empty ==
    [artifacts |-> {}, packages |-> {}, prefixes |-> NoFile,
     metadata  |-> [s \in Subject |-> NoFile],
     pages     |-> [d \in Directory |-> {}]]

\* finalize_new_version of an ordinary version: the draft differs from the latest
\* version by what the task added and removed.
Finalized(draft, unreadable) ==
    LET packaged  == EnsurePackages(latest, draft)
        described == GenerateMetadata(latest, packaged)
    IN  GenerateIndexPages(latest, described, unreadable)

Pages == {d \in Directory : latest.pages[d] # {}}

\* Which pages cannot be read: none, one, or all of them.
Unreadable == IF "damage" \in env.events THEN {{d} : d \in Pages} \cup {{}, Pages} ELSE {{}}

\* Artifacts and single deployed metadata files are added and removed.
Modify(add, remove, unreadable) ==
    /\ latest' = Finalized([latest EXCEPT !.artifacts = (@ \ remove) \cup add], unreadable)
    /\ rows' = rows \cup CreatedPackages(latest, latest')
    /\ UNCHANGED env

UploadMetadata(s, unreadable) ==
    /\ "upload" \in env.events
    /\ latest' = Finalized([latest EXCEPT !.metadata[s] = Uploaded], unreadable)
    /\ UNCHANGED <<env, rows>>

\* remove_content_units = ["*"]: generated content goes with the rest.
RemoveAll ==
    /\ latest' = Finalized(Empty, {})
    /\ UNCHANGED <<env, rows>>

PullThrough(u) ==
    /\ "pull" \in env.events
    /\ u \notin latest.artifacts
    /\ latest' = [latest EXCEPT !.artifacts = @ \cup {u}]
    /\ UNCHANGED <<env, rows>>

RepairMetadata ==
    /\ "metadata" \in env.events
    /\ latest' = RegenerateMetadata(latest)
    /\ UNCHANGED <<env, rows>>

RepairIndexPages ==
    /\ Files(latest) # {}
    /\ latest' = [latest EXCEPT !.pages = BulkPages(latest, Directory)]
    /\ UNCHANGED <<env, rows>>

RepairPackages ==
    /\ "packages" \in env.events
    /\ latest' = EnsurePackagesFullScan(latest)
    /\ rows' = rows \cup PomGavs(latest)
    /\ UNCHANGED env

\* Another repository has the POM, a modify fails after it made a package row, or
\* the orphan cleanup deletes a row that no version uses.
OtherPackages(g) ==
    /\ "others" \in env.events
    /\ rows' = IF g \in rows \ latest.packages THEN rows \ {g} ELSE rows \cup {g}
    /\ UNCHANGED <<env, latest>>

-----------------------------------------------------------------------------

Init ==
    /\ env \in Environments
    /\ latest = Empty
    /\ rows = {}

\* The uses for which the pages follow the content.  repair_metadata removes what a
\* client uploaded for a pair without artifacts, and leaves the pages alone.
SoundUse(use) == ~({"upload", "metadata"} \subseteq use.events)

SmallSets(S) == {T \in SUBSET S : Cardinality(T) <= MaxChange}

Next ==
    \/ \E add \in SmallSets(env.units \ latest.artifacts), unreadable \in Unreadable :
          \E remove \in SmallSets(latest.artifacts) : Modify(add, remove, unreadable)
    \/ \E s \in Subject, unreadable \in Unreadable : UploadMetadata(s, unreadable)
    \/ RemoveAll
    \/ \E u \in env.units : PullThrough(u)
    \/ RepairMetadata
    \/ RepairIndexPages
    \/ RepairPackages
    \/ \E g \in Gavs : OtherPackages(g)

Spec == Init /\ [][Next]_vars

-----------------------------------------------------------------------------
(* Properties.                                                              *)

\* index-pages.md: a page lists each direct child.  Whatever modifies added,
\* removed, replaced or could not read, the pages that were edited step by step
\* are those that a rebuild would make.
PagesAreExact ==
    "pull" \notin env.events => \A d \in Directory : latest.pages[d] = Listing(latest, d)

\* With pull-through in between, pages may miss entries; they never list a file or
\* a directory that has gone.
PagesListOnlyContent ==
    \A d \in Directory : latest.pages[d] \subseteq Listing(latest, d)

\* metadata.md: metadata is up to date with the latest version.  Files from a
\* client stay until their pair changes; what pull-through added may be missing,
\* but no version or file that has gone is listed.
MetadataIsCurrent ==
    \A s \in Subject :
        \/ latest.metadata[s] \in {Uploaded, Generated(latest, s)}
        \/ /\ "pull" \in env.events
           /\ Generated(latest, s) # NoFile
           /\ latest.metadata[s] = NoFile \/ latest.metadata[s] \subseteq Generated(latest, s)

\* The prefixes file lists the prefixes of the content, although each modify looks
\* only at the pairs it changes.  With pull-through it may be missing, or lack
\* prefixes that were pulled in, and not only until the next modify: one that adds
\* another pair with such a prefix does not write the file.  It never lists a prefix
\* that has gone.
PrefixesAreCurrent ==
    \/ latest.prefixes = CurrentPrefixes(latest)
    \/ /\ "pull" \in env.events
       /\ latest.prefixes = NoFile \/ latest.prefixes \subseteq GroupPrefixes(latest.artifacts)

\* packages.md: a package is in a repository as long as files of the release are,
\* once there was a POM for it, and drops out with the last of them.  No modify, of
\* its POM either, takes it away before; only repair_packages does, from releases
\* without a POM.  Pull-through brings POMs without packages.
PackagesFollowFiles ==
    [][ /\ latest'.packages \subseteq LiveGavs(latest') \cap rows'
        /\ "pull" \notin env.events => PomGavs(latest') \subseteq latest'.packages
        /\ \A g \in latest.packages \cap LiveGavs(latest') :
              \/ g \in latest'.packages
              \/ /\ "packages" \in env.events /\ latest'.artifacts = latest.artifacts
                 /\ g \notin PomGavs(latest') ]_vars

=============================================================================
