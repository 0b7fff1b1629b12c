--------------------------------- MODULE Deploy ---------------------------------
(***************************************************************************)
(* PUT requests of the Maven deploy API.  Each one stores a file, its      *)
(* content unit and, for a POM, the package, in separate statements on the *)
(* tables of the domain; then an immediate task that needs the repository  *)
(* to itself makes the next version and its index pages.  Requests for one *)
(* path or one repository, and tasks of two repositories, meet in the same *)
(* rows.  Uploads through the content API store units in the same way.     *)
(*                                                                         *)
(* Finalization says what a version generates; here the index pages stand  *)
(* for all generated content, which is found or made by its digest.        *)
(***************************************************************************)
EXTENDS Naturals, FiniteSets

CONSTANTS
    Repository,
    Bytes,         \* contents of a file
    NoBytes,       \* a unit without a ContentArtifact, a package without details
    NoPackage,     \* a release without a MavenPackage row
    None,          \* what a request does not know yet
    File,          \* paths
    Pom,           \* of these, the POMs
    Snapshot,      \* of these, the ones of -SNAPSHOT versions
    PomOf,         \* for each file of a release, its POM; a release is known by it
    Metadata,      \* .xml files and their checksums
    Unversioned,   \* of these, the ones with version NULL
    Request,
    Environments,  \* sets of events: "crash", "remove", "cleanup"
    MaxDeploys     \* bound of the model

\* A unit is known by its row, made by deploy number by.  Metadata has the digest
\* of its bytes in its key, an artifact has not.
Unit == [path : File, digest : Bytes \cup {NoBytes}, by : 1 .. MaxDeploys]

\* A package is known by its row, made by deploy number by, or by a modify (0), and
\* has the details of the POM that was read for it.
Package == [by : 0 .. MaxDeploys, details : Bytes \cup {NoBytes}]

ASSUME DeployAssumption ==
    /\ Pom \subseteq File /\ Snapshot \subseteq Pom
    /\ Metadata \subseteq File \ Pom
    /\ Unversioned \subseteq Metadata
    /\ PomOf \in [File \ Metadata -> Pom] /\ \A p \in Pom : PomOf[p] = p
    /\ NoBytes \notin Bytes /\ NoPackage \notin Package
    /\ None \notin Repository \cup File \cup Bytes \cup Unit \cup Nat
    /\ MaxDeploys \in Nat

VARIABLES
    env,       \* events of this behaviour
    contents,  \* content units of the domain, with the bytes of their ContentArtifact
    packages,  \* MavenPackage row of each release, or NoPackage
    pages,     \* MavenIndexPage rows of the domain
    latest,    \* files of each repository's latest version
    described, \* its packages
    listed,    \* its index pages
    requests,
    deploys    \* requests begun

vars == <<env, contents, packages, pages, latest, described, listed, requests, deploys>>

Idle ==
    [pc |-> "idle", repository |-> None, path |-> None, bytes |-> None, number |-> 0,
     unit |-> None, package |-> None, saved |-> {}, remove |-> {}, units |-> {},
     found |-> {}, missing |-> {}]

Rows == DOMAIN contents

Stage(r, pc) == requests[r].pc = pc

Advance(r, request) == requests' = [requests EXCEPT ![r] = request]

\* The task has added its content to the new version.
Drafted(r) == requests[r].pc \in {"ensure", "describe", "lookup", "insert", "complete"}

InTask(r) == Stage(r, "add") \/ Drafted(r)

Busy(repo) == \E r \in Request : InTask(r) /\ requests[r].repository = repo

\* A page is known by its directory and what it lists: all paths, or a single one.
PagesOf(units) ==
    LET paths == {u.path : u \in units}
    IN  {<<"/", paths>>} \cup {<<p, {p}>> : p \in paths}

\* Mutant: the POM of a release is read again, too.
MustRead_Releases(p) == TRUE

\* A POM is read for a release without a package, and always for a snapshot.
MustRead(p) == packages[p] = NoPackage \/ p \in Snapshot

\* get_or_create, the row of request or modify number.
Ensured(p, number) ==
    IF packages[p] = NoPackage THEN [by |-> number, details |-> NoBytes] ELSE packages[p]

\* The row that a request got is still the release's.
Holds(q, p) == packages[p] # NoPackage /\ packages[p].by = q.package

Releases(units) == {PomOf[u.path] : u \in {u \in units : u.path \notin Metadata}}

\* What is in the file of the version's POM, if it is there.
PomBytes(p, units) == {contents[u] : u \in {u \in units \cap Rows : u.path = p}} \ {NoBytes}

-----------------------------------------------------------------------------
(* MavenApiViewSet.create.                                                  *)

Begin(r, repo, path, bytes) ==
    /\ Stage(r, "idle") /\ deploys < MaxDeploys
    /\ deploys' = deploys + 1
    /\ Advance(r, [Idle EXCEPT !.pc = "content", !.repository = repo, !.path = path,
                               !.bytes = bytes, !.number = deploys + 1])
    /\ UNCHANGED <<env, contents, packages, pages, latest, described, listed>>

\* unique_together; NULL versions never conflict.
Conflicts(path, bytes) ==
    {u \in Rows : u.path = path /\ path \notin Unversioned
                    /\ (path \in Metadata => u.digest = bytes)}

\* What the handler finds after a conflict: metadata by its digest alone.
Existing(path, bytes) ==
    IF path \in Metadata THEN {u \in Rows : u.digest = bytes} ELSE Conflicts(path, bytes)

\* content.save(), or the unit that is already there.  objects.get raises when
\* there are several.
SaveContent(r) ==
    LET q     == requests[r]
        found == Existing(q.path, q.bytes)
        new   == [path |-> q.path, by |-> q.number,
                  digest |-> IF q.path \in Metadata THEN q.bytes ELSE NoBytes]
    IN  /\ Stage(r, "content")
        /\ IF Conflicts(q.path, q.bytes) = {}
           THEN /\ contents' = [u \in Rows \cup {new} |->
                                IF u \in Rows THEN contents[u] ELSE NoBytes]
                /\ Advance(r, [q EXCEPT !.pc = "artifact", !.unit = new])
           ELSE /\ Advance(r, IF Cardinality(found) > 1 THEN Idle
                              ELSE [q EXCEPT !.pc = "artifact", !.unit = CHOOSE u \in found : TRUE])
                /\ UNCHANGED contents
        /\ UNCHANGED <<env, packages, pages, latest, described, listed, deploys>>

\* Mutant: only a new unit gets its ContentArtifact.
Stored_NewOnly(q) == IF q.unit.by = q.number THEN q.bytes ELSE contents[q.unit]

\* The ContentArtifact is made, or kept as it is.
Stored(q) == IF contents[q.unit] = NoBytes THEN q.bytes ELSE contents[q.unit]

\* Metadata with the coordinates of the new one, in what is now the latest version.
Replaced(q) ==
    IF q.path \in Metadata THEN {u \in latest[q.repository] : u.path = q.path} ELSE {}

\* The unit may have been deleted since.
SaveArtifact(r) ==
    LET q == requests[r] IN
    /\ Stage(r, "artifact")
    /\ IF q.unit \in Rows
       THEN /\ contents' = [contents EXCEPT ![q.unit] = Stored(q)]
            /\ Advance(r, [q EXCEPT !.pc = IF q.path \in Pom THEN "package" ELSE "dispatch",
                                    !.remove = Replaced(q)])
       ELSE Advance(r, Idle) /\ UNCHANGED contents
    /\ UNCHANGED <<env, packages, pages, latest, described, listed, deploys>>

\* get_or_create.
EnsurePackage(r) ==
    LET q   == requests[r]
        row == Ensured(q.path, q.number)
    IN  /\ Stage(r, "package")
        /\ packages' = [packages EXCEPT ![q.path] = row]
        /\ Advance(r, IF MustRead(q.path)
                      THEN [q EXCEPT !.pc = "details", !.package = row.by,
                                     !.saved = IF packages[q.path] = NoPackage
                                               THEN {q.path} ELSE {}]
                      ELSE [q EXCEPT !.pc = "dispatch"])
        /\ UNCHANGED <<env, contents, pages, latest, described, listed, deploys>>

\* update_from_pom reads the file of this request; save() makes the row again if it
\* has been deleted, and raises if the release has got another one.
SaveDetails(r) ==
    LET q == requests[r] IN
    /\ Stage(r, "details")
    /\ IF packages[q.path] = NoPackage \/ Holds(q, q.path)
       THEN /\ packages' = [packages EXCEPT ![q.path] = [by |-> q.package, details |-> q.bytes]]
            /\ Advance(r, [q EXCEPT !.pc = "dispatch", !.package = None, !.saved = {q.path}])
       ELSE Advance(r, Idle) /\ UNCHANGED packages
    /\ UNCHANGED <<env, contents, pages, latest, described, listed, deploys>>

\* An immediate task that is not deferred: cancelled when another one has the
\* repository, and the client gets 429.
Dispatch(r) ==
    LET q == requests[r] IN
    /\ Stage(r, "dispatch")
    /\ Advance(r, IF Busy(q.repository) THEN Idle ELSE [q EXCEPT !.pc = "add"])
    /\ UNCHANGED <<env, contents, packages, pages, latest, described, listed, deploys>>

-----------------------------------------------------------------------------
(* The task: aadd_and_remove and finalize_new_version.                      *)

\* Mutant: no remove_duplicates.
Merged_KeepsDuplicates(q) ==
    (latest[q.repository] \ q.remove) \cup ({q.unit} \cap Rows)

\* Units are added and removed if they still exist; of two with the same
\* repo_key_fields the added one stays.
Merged(q) ==
    LET added == {q.unit} \cap Rows
    IN  {u \in latest[q.repository] \ q.remove : \A a \in added : a.path # u.path} \cup added

AddContent(r) ==
    LET q == requests[r] IN
    /\ Stage(r, "add")
    /\ Advance(r, [q EXCEPT !.pc = "ensure", !.units = Merged(q)])
    /\ UNCHANGED <<env, contents, packages, pages, latest, described, listed, deploys>>

\* _ensure_packages looks at the release that the version gets a file of.
Affected(q) == q.unit.path \notin Metadata /\ q.unit \in q.units \ latest[q.repository]

\* Its package is there, or made when the version has the POM.
EnsureInVersion(r) ==
    LET q    == requests[r]
        p    == PomOf[q.unit.path]
        row  == Ensured(p, q.number)
        read == MustRead(p) /\ PomBytes(p, q.units) # {}
    IN  /\ Stage(r, "ensure")
        /\ \/ /\ ~Affected(q)
              /\ Advance(r, [q EXCEPT !.pc = "lookup"])
              /\ UNCHANGED packages
           \/ /\ Affected(q) /\ read
              /\ packages' = [packages EXCEPT ![p] = row]
              /\ Advance(r, [q EXCEPT !.pc = "describe", !.package = row.by,
                      !.saved = IF packages[p] = NoPackage THEN @ \cup {p} ELSE @])
           \/ /\ Affected(q) /\ ~read
              /\ Advance(r, [q EXCEPT !.pc = "lookup",
                      !.package = IF packages[p] = NoPackage THEN None ELSE packages[p].by])
              /\ UNCHANGED packages
        /\ UNCHANGED <<env, contents, pages, latest, described, listed, deploys>>

\* update_from_pom, here from the file in the version, and save().
DescribeInVersion(r) ==
    LET q == requests[r]
        p == PomOf[q.unit.path]
    IN  /\ Stage(r, "describe")
        /\ IF packages[p] = NoPackage \/ Holds(q, p)
           THEN /\ \E bytes \in PomBytes(p, q.units) :
                      packages' = [packages EXCEPT ![p] = [by |-> q.package, details |-> bytes]]
                /\ Advance(r, [q EXCEPT !.pc = "lookup", !.saved = @ \cup {p}])
           ELSE Advance(r, Idle) /\ UNCHANGED packages
        /\ UNCHANGED <<env, contents, pages, latest, described, listed, deploys>>

\* The package is added if its row is still there; then
\* _bulk_get_or_create_index_pages: which pages are there.
LookUpPages(r) ==
    LET q == requests[r]
        wanted == PagesOf(q.units)
        attached == q.package # None /\ Holds(q, PomOf[q.unit.path])
    IN  /\ Stage(r, "lookup")
        /\ Advance(r, [q EXCEPT !.pc = "insert", !.package = IF attached THEN @ ELSE None,
                                !.found = wanted \cap pages, !.missing = wanted \ pages])
        /\ UNCHANGED <<env, contents, packages, pages, latest, described, listed, deploys>>

\* Packages that the version of a request gets.
Attached(q) == IF q.package = None THEN {} ELSE {PomOf[q.unit.path]}

\* All in one transaction; if another task made one of them meanwhile, one at a
\* time, made or found.
InsertPages(r) ==
    LET q == requests[r] IN
    /\ Stage(r, "insert")
    /\ pages' = pages \cup q.missing
    /\ Advance(r, [q EXCEPT !.pc = "complete", !.found = q.found \cup q.missing])
    /\ UNCHANGED <<env, contents, packages, latest, described, listed, deploys>>

\* 201.  Without a change there is no new version.
Complete(r) ==
    LET q == requests[r] IN
    /\ Stage(r, "complete")
    /\ latest' = [latest EXCEPT ![q.repository] = q.units]
    /\ described' = [described EXCEPT ![q.repository] = @ \cup Attached(q)]
    /\ listed' = [listed EXCEPT ![q.repository] = q.found \cap pages]
    /\ Advance(r, Idle)
    /\ UNCHANGED <<env, contents, packages, pages, deploys>>

-----------------------------------------------------------------------------
(* What else happens.                                                       *)

\* The process is killed, or a statement fails: what was saved before stays.
Crash(r) ==
    /\ "crash" \in env
    /\ requests[r].pc # "idle"
    /\ Advance(r, Idle)
    /\ UNCHANGED <<env, contents, packages, pages, latest, described, listed, deploys>>

\* A modify takes a unit away.  A package goes with the last file of its release.
Remove(repo, unit) ==
    LET units == latest[repo] \ {unit} IN
    /\ "remove" \in env
    /\ unit \in latest[repo] /\ ~Busy(repo)
    /\ latest' = [latest EXCEPT ![repo] = units]
    /\ listed' = [listed EXCEPT ![repo] = PagesOf(units)]
    /\ pages' = pages \cup PagesOf(units)
    /\ \/ unit.path \in Metadata /\ UNCHANGED <<packages, described>>
       \/ /\ unit.path \notin Metadata
          /\ LET p    == PomOf[unit.path]
                 live == p \in Releases(units)
                 poms == IF live /\ MustRead(p) THEN PomBytes(p, units) ELSE {}
             IN  /\ IF poms = {} THEN UNCHANGED packages
                    ELSE \E bytes \in poms : packages' =
                            [packages EXCEPT ![p] = [by |-> Ensured(p, 0).by, details |-> bytes]]
                 /\ described' = [described EXCEPT ![repo] =
                        IF ~live THEN @ \ {p}
                        ELSE IF packages'[p] # NoPackage THEN @ \cup {p} ELSE @]
    /\ UNCHANGED <<env, contents, requests, deploys>>

Running == {requests[r] : r \in {r \in Request : requests[r].pc # "idle"}}

Drafts == {requests[r] : r \in {r \in Request : Drafted(r)}}

\* Packages that a version has, and those a running request has made, saved or added.
SparedPackages ==
    UNION ({described[repo] : repo \in Repository} \cup {q.saved : q \in Running}
            \cup {Attached(q) : q \in {q \in Drafts : q.pc \in {"insert", "complete"}}})

\* Orphan cleanup: nothing that a version uses or a running request made itself.
Cleanup ==
    LET used     == UNION ({latest[repo] : repo \in Repository} \cup {q.units : q \in Drafts})
        made     == {u \in Rows : \E q \in Running : q.number = u.by}
        shown    == UNION {listed[repo] : repo \in Repository}
        inserted == UNION {q.missing : q \in {q \in Drafts : q.pc = "complete"}}
    IN  /\ "cleanup" \in env
        /\ contents' = [u \in used \cup made |-> contents[u]]
        /\ packages' = [p \in Pom |-> IF p \in SparedPackages THEN packages[p] ELSE NoPackage]
        /\ pages' = shown \cup inserted
        /\ UNCHANGED <<env, latest, described, listed, requests, deploys>>

-----------------------------------------------------------------------------

Init ==
    /\ env \in Environments
    /\ contents = <<>>
    /\ packages = [p \in Pom |-> NoPackage]
    /\ pages = {}
    /\ latest = [repo \in Repository |-> {}]
    /\ described = [repo \in Repository |-> {}]
    /\ listed = [repo \in Repository |-> {}]
    /\ requests = [r \in Request |-> Idle]
    /\ deploys = 0

Create(r) ==
    \/ SaveContent(r) \/ SaveArtifact(r) \/ EnsurePackage(r) \/ SaveDetails(r)
    \/ Dispatch(r)

Task(r) ==
    \/ AddContent(r) \/ EnsureInVersion(r) \/ DescribeInVersion(r)
    \/ LookUpPages(r) \/ InsertPages(r) \/ Complete(r)

Next ==
    \/ \E r \in Request, repo \in Repository, path \in File, bytes \in Bytes :
            Begin(r, repo, path, bytes)
    \/ \E r \in Request : Create(r) \/ Task(r) \/ Crash(r)
    \/ \E repo \in Repository : \E unit \in latest[repo] : Remove(repo, unit)
    \/ Cleanup

Spec == Init /\ [][Next]_vars

-----------------------------------------------------------------------------
(* Properties.                                                              *)

\* What a version holds can be served: every unit has its file, even after a
\* request died between the two or two requests shared them, and every directory
\* its page, even when two tasks made it at once.  (Units and pages that were found,
\* not made, are not protected from the orphan cleanup.)
VersionsAreWhole ==
    "cleanup" \notin env =>
        \A repo \in Repository :
            /\ \A u \in latest[repo] : u \in Rows /\ contents[u] # NoBytes
            /\ latest[repo] # {} => listed[repo] = PagesOf(latest[repo])

\* A path has one unit in a version, although requests decide what to remove from
\* the version they saw, not from the one their task changes.
OneUnitPerPath ==
    \A repo \in Repository : \A u, w \in latest[repo] : u.path = w.path => u = w

\* packages.md: a release is fixed.  No deploy, retry or cleanup changes the bytes
\* of a unit in a version.  What was read of a release's POM does not change as long
\* as the package exists, and it exists as long as a version has it: the orphan
\* cleanup, after which a deploy reads another POM, leaves what versions and running
\* tasks use.
ReleasesAreFixed ==
    [][ /\ \A repo \in Repository :
            /\ \A u \in latest[repo] \cap Rows :
                  contents[u] # NoBytes => u \in DOMAIN contents' /\ contents'[u] = contents[u]
            /\ \A p \in described[repo] :
                  packages'[p] # NoPackage /\ packages'[p].by = packages[p].by
        /\ \A p \in Pom \ Snapshot : packages[p] # NoPackage /\ packages[p].details # NoBytes
                  => packages'[p] \in {packages[p], NoPackage} ]_vars

=============================================================================
