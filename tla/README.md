# pulp_maven: models, checks and proofs

TLA+ modules for the parts of pulp_maven that keep state or read state which others change: the
path-index engine with its S3 store, the publication of an index by repository tasks, the segment
cache that the content workers of a pod share, the views a content process leases to its
requests, the Redis Bloom filter of a repository, the content that the plugin generates for each
version, the deploy API, the package catalog and the answers of the content app. TLC checks small
instances, TLAPS proves the theorems listed below for every value of the constants. Line references
are to `src/`; `PROJECT.json` maps every definition to the lines it models. Below, `app/` is
`src/pulp_maven/app/`.

    tlc -config PathIndexStore_calls.cfg MCPathIndexStore     # and so on, see "Runs"
    tlapm PathIndexStoreProofs.tla

## The system

pulp_maven is a plugin of Pulp. A *repository* has numbered *versions*; a *task* that holds
the repository's reservation creates the next version, and the plugin's hook
`MavenRepository.finalize_new_version` runs before core marks it complete. The *content app*
serves the files of a version through a distribution.

| Component | State it keeps | Operations | Interacts with |
|---|---|---|---|
| path-index format (`app/path_index/format.py`, `build.py`) | none: immutable segment files of sorted operations on path hashes | write a base or a delta, merge operations of several segments, look a hash up | used by the store |
| path-index store (`store.py`, `s3.py`) | objects in one S3 namespace per domain and repository: `segments/`, `versions/`, `checkpoints/`; a scratch directory per call | `create`, `update`, `compact` (merge equal runs, or rebase), conditional publication, reads of manifests | S3, called by tasks and the content app |
| path-index publication (`publish.py`, `extract.py`, `state.py`, `config.py`, `tasks/path_index.py`) | the descriptor in `RepositoryVersion.info`, the label `path_index`, the storage profile of the domain | the finalizer of a modify, the build task, the compact task | store, database, retention in core |
| segment cache (`s3.py:45-85,320-400`) | the segments, lock files and temporary downloads in a pod's cache directory; the locks of open views | open a view (pin or download its segments), make room, close | processes of the pod through file locks, store |
| path-index serving (`cache.py`, `content.py`, `http.py`) | mapped views with leases, pins of cached segments, descriptors with a TTL | lease a view, load and evict, answer a request | store, content app |
| Redis Bloom filter (`bloom.py`, `tasks/__init__.py:659`, `models.py:503,640,647`) | two Redis keys per repository: the filter and the configuration it was built with | filter step of a modify, rebuild after a label change, delete, look a path up | Redis, modify tasks, the API process, the content app |
| repository finalization (`models.py:634-1461`, `tasks/__init__.py`) | generated content of a version: packages, `maven-metadata.xml`, prefixes, index pages; package rows of the domain | incremental and bulk generation, pull-through, three repairs | database, packages shared with other repositories |
| deploy API (`maven_deploy_api.py`, `serializers.py`, `models.py:140-380`) | content units, their files and packages, in rows of the domain | PUT of an artifact, a POM or metadata; its task | repositories, immediate tasks, index pages, orphan cleanup |
| content app handler (`models.py:469-561`, `path_index/http.py`) | none | serve a path: indexed response, Bloom check, index page, redirect; conditional requests | filter, path index, pulpcore |
| catalog (`catalog.py`, `viewsets.py`, `pagination.py`, `versions.py`) | none; reads the membership rows of a repository | packages, packages/flat and metrics of a version, by cursor or by offset | database, modifies in progress |
| POM and listing parsers (`pom.py`, `util.py`) | none | read one document | finalization, deploy API |
| migrations, settings, `.ci/` | one-off data changes, constants, tools | | |

What is hard here is not in one call but between calls. Index objects are published in S3 and
become visible through a database row saved later; S3 may hide, lose or delay an answer, and the
worker may die in between. The configuration that selects a namespace is edited while tasks
run. A chain of immutable deltas is merged and rewritten again and again, and each rewrite must
answer every lookup as before, misses included, because a miss is served as a 404 without a
look at the database. The processes of a pod share a cache directory and coordinate by file
locks only; they hold some of these locks for as long as a view is mapped, and any of them may be
killed. The Bloom filter is kept in two Redis keys that are written by tasks and
by the API process and read by requests with two commands. Generated content is not computed from a
version but edited from what the previous version had, so one wrong page stays wrong. A deploy is a
series of statements on rows that all repositories of a domain share, followed by a task that finds a
repository that has moved on. The catalog reads old versions from rows that later versions, finished or
not, have changed. `PROJECT.json` lists these hazards
at the lines where they bite, with the properties that would catch them going wrong.

What makes each component correct:

* format: a lookup in a chain equals the content that the calls built up; merges and rewrites
  change no answer.
* store: a readable manifest names only stored segments; objects are created once; an outcome
  reported to the caller is true; each version has the content of its own call for ever.
* publication: what a complete version advertises is in S3 and answers exactly as the database
  would; a modify fails only for its content or its predecessor's storage settings; lookups
  stay bounded.
* segment cache: a pinned segment stays, disk use stays in the budget, nothing is downloaded twice,
  and every attempt to open a view ends.
* serving: a leased view stays readable, a view belongs to the manifest its key names, caches keep their
  bounds, and the latest version gets its view in the end.
* Bloom filter: a request is never told that an existing path is missing; a filter has room
  for what is added to it; no version is completed without its paths in the filter.
* finalization: pages, metadata, prefixes and packages after a series of modifies are what the content
  calls for, whatever was added, removed, replaced or could not be read.
* deploy API: what a version holds can be served, a path has one unit, a release never changes, its
  package included.
* content handler: the answer is what the version holds that was read, whichever way it was found; a 304
  confirms the client's copy.
* catalog: what it says of a complete version is what that version holds; a client that follows the pages
  misses nothing that stayed as it was.

## Modules

**PathIndexFormat** has no state. A segment file is the function from keys to operations that its sorted
records are; a digest stands for the contents of the file it names, so two files have one digest exactly when
they are equal. `View(refs)` is `IndexView.lookup` for all keys at once. `BaseReference`, `DeltaReference` and
`MergedReference` are the three ways a segment is written, `ManifestValid` is `Manifest.__post_init__`.
`PlaceNext` is a step of the two loops of `compact`, `Placing` their run as a function of the number of steps,
and `Compacted` the manifest they end with. Record packing, external sorting and binary search are not
modelled: they change no answer unless they are broken.

**VersionedIndex** is what the engine promises: a version's content is decided by one call, at
one moment, from the previous content and the call's arguments, and never changes.

**PathIndexStore** is the S3 store with any number of writers. `segments`, `versions` and
`checkpoints` are the three kinds of object names; `job[w]` is the call a process has in
progress: its arguments, its manifest, the digests in its scratch directory, the stack and the
rest of `compact`'s loop, the number of the object it is publishing and the attempt. HEAD and PUT are
steps of their own. HEAD may answer 403 for an object that exists or not; PUT may create the
object, answer 412, answer 409 with a retry, or take effect and lose its response; a writer can
be stopped anywhere. `StartUpdate` and the compactions take any manifest that can be read.

**PathIndexPublication** is one repository. `state`, `content` and `info` are the columns of its
versions, `manifests` and `checkpoints` the objects in each profile's namespace, `task` the
process with the reservation and what it loaded when it began: the label and the profile. A
store call is one step here, which PathIndexStore justifies: its effect is the creation of the
manifest. Checks of the extracted content are translated from `extract.py`: one downloaded
artifact per path, and the generated page of every directory above a file. A page also
answers for its directory (`Alias`). The segments of a chain are references in the manifest itself;
that they exist in S3 is PathIndexStore's `ManifestsClosed`. A modify is `Finalize`, `Update`,
`Retry` after a rewrite at the limit, `CompleteModify`; core saves `info` together with
`complete`. `TaskError` is an exception at any point, and core then drops the draft; `Crash` leaves
the draft to the next modify. `DeleteVersion` is retention.

**SegmentCache** is the cache directory of one pod. An opener is one `CachedIndexView`: `pc` is
where its thread is in `_pin`, `_download` or `_make_room`, `refs` its segments in digest order,
`next` the segment it works on. `flock` locks belong to open files, so who holds which
lock follows from where the openers are (`Pins`, `Exclusive`, `HoldsFill`), and a killed process loses
its locks with its openers; its temporary file stays in `partial`. Taking the shared lock, the look at
the file and the touch of its mtime are one step (`Pin` or `Missing`), because nothing of
them can be disturbed while the lock is held; a wait is a disabled action, and `TimeOut` is enabled
exactly while the lock is taken. `todo` is what `_make_room` has listed and not yet looked at: an
eviction per step, so that views are opened between the listing and the eviction. The order of
mtimes is kept as the place of each segment (`recency`), and space is counted byte by byte (`Used`), so that
sums need no recursion. The eviction
of the segments of other repositories in the pod is the same, since the budget is the pod's.

**BloomFilter** is the filter of one repository. `filter` and `config` are the two Redis keys,
`writer` the task and the API process, `reader` one request with its two reads. A filter is the
set of paths it holds: a false positive only costs a database query. `BF.MADD` into a
non-scaling filter that is full refuses items inside its reply, which the code does not read
(`Inserted`). `Init` picks an *environment*: the capacities that labels have, and which events
besides plain modifies happen (removals, failed modifies, repair and pull-through versions that
skip the filter step, errors before the filter is withdrawn, labels set outside the reservation,
labels removed, and deletions of the latest version, for which `models.py:634-661` has no hook; `older`
keeps the versions before it). The behaviours in which the code keeps its promises and those in which it does not
are thus instances of one specification, and `SoundUse` tells the first from the second. It leaves out
removals together with failed modifies or deleted versions, because a filter may then have been built
from a version that is not, or no longer, the latest.

**Finalization** is one repository whose tasks make one version after another. An artifact is its
coordinates and filename, a path a sequence of names, and a page the set of the entries it lists (`Entry`), so that
`GenerateIndexPages` can be read as what it is: `ListingChanges` picks the directories to edit,
`EditedPage` edits one from its previous text, `Settled` goes from the deepest directory up and lists or
drops children, and `Skipped` directories, whose page cannot be read, are listed from the content (`BulkPages`).
`GenerateMetadata`, `PrefixSetChanged` and `EnsurePackages` are the other steps of
`finalize_new_version`, in its order. A metadata file is the set it lists, or `Uploaded` when a client
wrote it. `Init` picks an environment as in BloomFilter; its `SoundUse` excludes only that clients
deploy metadata which `repair_metadata` then removes (see the findings).

**IndexServing** is one content process: requests, the descriptor table, `ViewCache` and its two loader
threads. A request is `Hit` or `Query` and `Store`, which ends in `Lease`; a load is `Check`, `Prepare`, after
`CacheFull` `CloseIdle` and `Prepare` again, `Insert`, `Finally`. Each of these steps is one critical section
of `cache.py` or one call outside the lock. `views` is the ordered dictionary of `ViewCache`: of each cached
key the view, its readers and its place in the order of use. There is no clock: descriptors may run out, and
retry times may have come, at any time. The repository changes beside it. The disk is reduced to the number of
segments that all open views need (`Room`); SegmentCache has the rest.

**Deploy** is one domain with its repositories and the PUT requests of clients. Each statement of
`MavenApiViewSet.create` and of the task is a step, because the process may be killed, and other
requests run, between any two. Units are known by the deploy that made them, since a unit with version
NULL conflicts with none. `packages` are the package rows of the domain: which deploy or modify made each
and what was read of which POM. A deploy of a POM makes the row and saves its details from the
request (`EnsurePackage`, `SaveDetails`); the task does it from the POM in the version
(`EnsureInVersion`, `DescribeInVersion`) and attaches the package (`described`). The orphan cleanup
deletes units, pages and packages that no version has and no running task has made or added
(`Cleanup`, `SparedPackages`), so a release that comes back may get another package. Of what
Finalization computes only packages and the index pages are here, which two tasks may make
at once (`LookUpPages`, `InsertPages`).

**Catalog** has the membership rows of a repository as the database keeps them, `history`, which only
the properties read, and a client that reads a list page by page. The queries of `catalog.py` are
operators on the rows. A version string is the sequence of its parts, and `BaseVersion`,
`RebuildRelease` and `VersionSortKey` are translated from `versions.py`. A query with an ORDER BY returns any
of the `Orders` that the clause allows, another one for each page if it does not tell all rows apart, and
DISTINCT ON any of the rebuilds that were made last (`Newest`).

**ContentHandler** is one distribution and one client. A view's index says what its version holds, which is
`AdvertisedIndexIsExact` of PathIndexPublication; which version has a view is left open, because IndexServing
may serve an old one for a while. `filter` is the set of paths in the Bloom filter, and a request without a
view asks nothing else (`BloomFiltered`): a modify adds its paths or rebuilds the set before its version is
complete (`UpdateFilter`) and may then fail (`DropModify`), and the deletion of the latest version leaves it
as it is. That it may be withdrawn, or take a path for one it holds, is `might`. A filtered 404 is promised to
be right only for distributions that are `growing`, whose versions lose no path and are not deleted. The
handler of pulpcore is external, and the model relies only on this: a path with content is served, and one
with nothing at or below it is not found unless there is a remote.

The `MC...` modules hold the instances: definitions of constants, symmetry, and for chains a
next-state relation restricted to one order of calls. `MCPublicationTasks` runs PathIndexPublication in two
scenarios, and `MCReads` runs Catalog or ContentHandler, which share nothing.
The theorems are in `PathIndexFormatProofs`, `PathIndexStoreProofs`, `PathIndexPublicationProofs`,
`BloomFilterProofs`, `IndexServingProofs`, `FinalizationProofs`, `DeployProofs`, each about the module it is
named after, and `ReadsProofs`, about Catalog, ContentHandler and SegmentCache.

## Runs

| Run | Instance | What it shows |
|---|---|---|
| path_index_calls | either 2 writers at once on 2 versions, with 1 compaction, or 1 writer on 5 versions in order, with 2 compactions; 1 key, segment limit 4 (2 in the race) | no interleaving of two writers with crashes, hidden answers and retries, and no chain in which merged runs merge again, leaves a dangling manifest, replaces an object, changes an answer or reports an outcome that is not true; versions implement `VersionedIndex` |
| publication_tasks | versions 0-3, limit 2; either one profile, or two with on-demand content and 3 changes of label and profile | kills, errors and deleted versions around the commit in S3 and in the database, the rewrite at the limit, and tasks whose settings have changed meanwhile |
| publication_chain | versions 0-5, limit 3, pages that replace each other | the index stays exact through compaction of equal runs followed by deltas and by the rewrite at the limit |
| bloom_updates | 3 paths, 5 tasks or label changes, all twelve sound environments over labels 1 and 3, or 8 and 9 | requests are never told a lie, filters have room, and no version is completed without its paths, through updates, failures, deleted versions and label changes |
| cache_pod | 3 openers, 3 segments of sizes 2, 1, 1, budget 3, views 1-2, 1-3 and 3 | pins, budget, single downloads, and the end of every attempt to open a view, with time-outs, S3 errors and kills |
| finalization_modifies | 5 artifacts of 3 groups, up to 2 added and 2 removed at once, five environments | after any series of modifies, repairs and unreadable pages the edited pages, metadata and prefixes are those a full repair would make, and packages stay with the files of their releases; after pull-through they may lack entries and list nothing that has gone |
| index_serving | 2 versions with 2 manifests each, 2 requests, 2 loaders, 2 views, 3 segments on disk, 2 changes | leases against loads, eviction and the closing of idle views; the latest version is served again and again |
| deploy_requests | 2 repositories, 2 requests at a time, 3 deploys, 5 files of each kind the API tells apart, 2 contents; kills, removals, or (for 3 of the files) both with the orphan cleanup | deploys of one path or one repository at once, killed between any two statements, repeated with the same or other bytes, beside removals, or with rows that vanish from under them, leave what versions have whole, with one unit for a path, and a release with its bytes and its package |
| reads | 4 packages in 2 artifacts, 3 versions, pages of 1 row; 2 files, 2 directories, 5 URLs, 6 kinds of distribution | the catalog of every version and the crawls of clients while versions come, go and fail; what a client gets and may keep while indexes lag behind and the filter runs ahead |
| publication_rebuild, bloom_skipped, cache_waiters | violations, instances as above | see findings |

Between 13 thousand (finalization_modifies) and 4.5 million (deploy_requests) distinct states; none takes
more than five minutes with two workers.

Why the bounds are enough to make the cases happen. Two writers are all that a race on one object name needs;
each can create, update and compact, so a version is published twice with the same and with different content.
One key has every combination of upsert, deletion and silence in a segment; keys do not interact. A chain
merges twice from the fifth version on (levels 0,0 -> 1, then 1,1 -> 2 with the compactions), and with a limit
of 3 it is rewritten within the first five modifies. In SegmentCache the two versions share a base and cannot
both be cached, so every view that is opened while another is open competes for room; three openers make the
third party of a handoff. Nothing there is counted, so the instance is its only bound. In BloomFilter, labels
of 1 and 3 let three paths fill a filter and grow it, labels of 8 and 9 keep it from filling. In Finalization
the artifacts have a release with and without its POM, a snapshot, a group inside another one, and two pairs
that share a prefix, and the set of reachable contents is all subsets of them, so a series of modifies is as
long as it likes. In IndexServing compaction makes the view of version 1 fill the disk, so that the views of
both versions exclude each other, and two views are the limit while two loaders work; two changes are enough
for a view to be asked for, rebuilt and deleted during its load. In Deploy the third deploy repeats, replaces
or crosses the first two, which may be in one or in two repositories. In Catalog the three rebuilds of one
artifact are made in another order than that of their keys, and with one row to a page each page can come from
another version. `MaxCheckpoints`, `MaxChanges`, `MaxChange`, `MaxDeploys`, `MaxDrafts`, `MaxSeconds` and
`MaxSteps` bound the models and nothing in the code; `MaxAttempts` is the code's 3, and 2 in the run, so that
a PUT follows a 409 once; the theorems are about any number.

Deadlock is checked for cache_pod, finalization_modifies and index_serving. The other models stop when their
versions, changes or steps are used up, so their configurations say `CHECK_DEADLOCK FALSE`. Symmetry is used
for the writers of the store and the two versions they race for, which it compares for equality only, for
profiles, for paths of the filter, and for repositories, requests and contents of the deploy API; never with a
liveness property.

Liveness is checked where something waits: in the segment cache (`AttemptsEnd`) and for the views of a
content process (`LatestIsServed`). In SegmentCache `FairSpec` assumes that
the thread of each opener takes steps (`WF_vars(Step(o))`): threads are scheduled, `_lock` polls with a
deadline that passes, S3 answers or its client times out. A thread that keeps losing the
segment it has just downloaded to an eviction would start over for ever; in `_pin` the step from the
exclusive to the shared lock does not wait, while the evicting process sleeps 50 ms between its attempts
to get the fill lock, so `FairSpec` also takes `Pin(o)` to happen when it is possible again and again
(`SF_vars`). Without that assumption TLC finds the endless contest. Opening and closing
views, kills and repeated attempts are not fair: nobody is obliged to do them.

In IndexServing `Fairness` assumes that clients keep asking for the latest version, that descriptors run out
and retry times come, and that threads run (`WF_vars(LoaderStep(l))`, `WF_vars(Release(r))`). A request that
is about to refresh its descriptor may be used for something else meanwhile, and a `Store` may find both
loaders busy, so the first two are `SF_vars`. `LatestIsServed` is claimed for clients that follow the latest
version only: where others keep an old version leased, its view may hold the disk for as long as they like.
Changes to the repository and storage failures are not fair.

The loops of the
other modules are bounded by a counter (three PUT attempts, one rewrite) or consume their input
(`compact`), and fairness of a task would say no more than that.

## Findings

* `publication_rebuild`: after the storage identity changes from A to B and back to A, a rebuild in A
  meets the delta manifest that the version had there, and every attempt ends in
  `PublicationConflict`, although `config.py:50` promises a fresh namespace.
* `bloom_skipped`: pull-through and repair versions skip the filter step and leave the old filter
  in use, so their paths are answered with 404 by distributions without a remote.
* `cache_waiters`: a worker that has found a segment missing waits for the exclusive key lock even after
  the segment has arrived. The worker that downloaded it holds the shared lock while its view is mapped,
  so the others give up after the lock time-out with the file in place, although
  `path-index-s3.md:114` says that waiting workers reuse it. (They succeed when they try again later.)

Some disagreements are not kept as runs of their own. The first four are uses that `SoundUse` of BloomFilter leaves out;
with any of them, over label 8 (8 and 9 for the second), TLC refutes `FilterCoversContent`. The models of the others
follow the code, and their properties are stated for what it does.

* Event `fault`: when Redis refuses the GET or the DEL that withdraws the filter (`tasks/__init__.py:683,687`),
  the task goes on without its filter step, and the filter stays in use without the paths of the new version.
* Event `race`: `set_label` rebuilds the filter in the API process from the latest version (`models.py:649`), while a
  modify that is past its own filter step completes the next one, whose paths are then hidden.
* Events `remove` and `abort`: `path-index-integration.md:36-37` says the latest version stays available when a
  modify fails. The filter step comes before the publication (`models.py:641,645`); when a modify that removes
  paths rebuilds the filter and fails later, the filter has lost paths that the latest version serves.
* Events `remove` and `delete`: the deletion of the latest version makes a version the latest whose paths the
  filter may lack, because nothing rebuilds it then. ContentHandler promises filtered answers only where
  neither happens.
* `tasks/__init__.py:666` says a filter is rebuilt when its capacity is exhausted. Line 689 compares the
  capacity with the paths of the version, but removed paths keep their places in a filter that
  cannot scale, and `BF.MADD` refuses the new ones.
* After pull-through has brought in an artifact with a new prefix, an ordinary modify that adds another pair
  with that prefix does not put it into `prefixes.txt` (`models.py:1025`): the pair it did not touch has the
  prefix already.
* `packages.md:35-37` says a package stays until all files of the release are gone. `repair_packages` drops it
  when only its POM is gone (`models.py:878`), and the next modify of another of its files attaches it again.
* `packages.md:26-27` says that all details come from the release's POM. Two deploys of one POM with different
  bytes may leave the unit with the bytes of one and the package with the details of the other
  (`maven_deploy_api.py:231`).
* A modify attaches a package of which the repository never had the POM, if the domain has a row for it
  (`models.py:753-763`).
* `repair_metadata` removes metadata that a client uploaded for a pair without artifacts, and the pages keep
  listing it until they are repaired. This is what `SoundUse` of Finalization excludes.
* `packages.md:74` says a snapshot package always reflects the most recent POM. A POM deployed again keeps its
  first bytes and gets 201 (`SaveArtifact`); the package is updated from the new ones, and read from the
  old ones again by the next modify of the release.
* `MavenMetadata.objects.get(sha256=...)` (`maven_deploy_api.py:191`) raises when two paths have equal bytes;
  the request ends there. A unit that was found and not made is not protected from the orphan cleanup, and
  the client may get 201 for a file that the version does not have. The same holds for a package that the
  request found. A kill between `get_or_create` and `save`
  (`maven_deploy_api.py:225-233`) leaves the package of a release without details.
* `path-index-integration.md:65-66` says clients see a new version within the TTL of a descriptor. A slow
  query stores its old answer as a fresh one (`content.py:65`), so it takes as long as the query does.
  Line 183 says `max-age=0`, and `http.py:20` sends `max-age=86400`.
* Dates confirm an older copy when two versions are made within a second or the latest version is deleted
  (`http.py:40`).
* The cursor of the packages list is the smallest key of a row's packages, which changes with them, so a crawl
  without `repository_version` may miss such a row or see it twice. `versions.py:43` takes `isdigit()` for
  numbers, which includes characters that `int()` refuses.

## Proofs

TLC checks each property on an instance first; the theorems state it for arbitrary sets of writers, versions,
keys, paths, artifacts, requests and so on, with the following assumptions on constants.

| Assumption | What it asks for, and why the code grants it |
|---|---|
| `FormatAssumption` | the special values (`NoEntry`, `Deleted`, `Absent`, `NoVersion`) are not entries or versions |
| `StoreAssumption` | a limit between 2 and 32 segments, as `IndexStore` requires, at least one attempt; "no manifest" and "no call" are not manifests and calls |
| `PublicationAssumption` | a page answers for one directory, `p[: -len("index.html")]`, which is no path of a file (`format.py:50-54`); the pages above a page are among those required for any path below it (`extract.py:116-127`) |
| `CacheAssumption` | segments are finitely many and have sizes; a view has at least one segment (`store.py:89`) and they are pinned in order |
| `ServingAssumption` | finitely many requests and loaders, at least one view, and each view fits in the cache directory (`CachedIndexView` refuses others) |
| `BloomAssumption` | finitely many paths; labels are positive |
| `FinalizationAssumption`, `NoFileAssumption` | finitely many artifacts, whose coordinates are sequences of names; the marks of a missing or uploaded file are not contents of generated files |
| `DeployAssumption` | which files are POMs, snapshots and metadata, and the POM of each release; special values are not contents or rows |
| `CatalogAssumption` | primary keys, which the cursor compares, are positive, and uploads finite; version strings are sequences of parts, and their places in byte order tell them apart; coordinates identify a package (the uniqueness constraint of its table); an ordering parameter names the three fields that `normalize_package_index_ordering` accepts |
| `ContentHandlerAssumption` | paths of files and of directories differ; "no modify" is not the files of one |

Every invariant and action property that a passing run checks is a theorem. Next to them stand theorems about
the operators of the format. Each proof of an invariant has the shape: an inductive invariant, one lemma per
action, and a theorem that combines them.

**PathIndexFormatProofs.** The newest segment that mentions a key exists (`LastExists`, by well-foundedness of
a measure on positions); from it follow `BaseView`, `DeltaView`, `RebaseView`, and `MergeTopView`: merging the
two newest runs changes no answer, because the merged reference mentions what either mentioned and the
references below stay (`SameBelow`). `CompactedIsEquivalent` is the whole of `compact`: its run exists as a
function (`RunExists`), every step keeps the answers and the chain (`PlaceNextKeeps`), and twice the
references to come plus those placed falls with each step (`PlaceNextEnds`), so that after `2 * Len` steps
nothing is left to do.

**PathIndexStoreProofs.** `ManifestsClosed` is not inductive, because a manifest that is put is complete only
if its writer has seen or stored its segments. `PublicationInv` adds that the objects before `next` of a
writer that is publishing are in S3 (`JobOK`) and that chains are not empty (`ChainsHaveBases`). `ContentInv`
says of readable chains, and of the chain that each running call builds, merges or uploads, that every prefix
answers as the version at which it ends; this gives `PrefixesAreVersions`. `ObjectsImmutable` follows because
`Store` only adds (`StoreGrows`), and `OutcomesAreTrue` because a writer reports what its own step has found
or done. The refinement (`StoreImplementsIndex`) maps a version to the view of its manifest and a writer to
the call it has in progress: a step that puts a manifest is the atomic update (`CommitsCall`), one that begins
or ends a call does so above, and every other one stutters. That the update has the content the call asked for
is `ContentInv` again (`ContentIsPublished`).

**PathIndexPublicationProofs.** `PublicationInv` joins the types, what the rows say (`RowsInv`: versions are
finished in order, unused numbers have no manifest, what is advertised is readable and describes its version)
and what the task has in its hands (`TaskKnows`: a draft for which nothing is published before the last step,
a predecessor in the same profile that describes the previous version, a manifest in S3 that describes the
version to be saved). The delta that `update` writes gives exactly the entries of the new version
(`ChangesGiveEntries`), and checking only the changed paths keeps the whole covered (`ChangesKeepCover`, which
is what makes a missing key a true miss). `ModifiesFailOnlyForCause` needs in addition that a version whose
content passes a full check passes the check of any change that led to it (`BaselineAcceptsChanges`), and that
a retry after the rewrite is below the limit.

**BloomFilterProofs.** The types hold in every environment, the rest where `SoundUse(env)` holds, which is one
formula and not a list of instances. `UseInv` says where the filter may be usable (`WithdrawnInv`), what it
then holds (`FilterInv`: the latest version, or the draft once a modify has put its filter into use), that it
has room (in a repository that only grows it holds exactly those paths; where paths leave, the capacity
exceeds all paths) and what a request between its two reads may rely on (`ReaderInv`). Where versions are
deleted nothing is removed, and `OlderInv` says that each version holds what the one before did, so the filter
covers whichever is the latest. Removals together with aborted modifies or deletions are not sound: a filter
rebuilt without the removed paths stays, and the version that has them is the latest.

**IndexServingProofs.** `ServingInv` adds to the three properties which keys loaders hold: one thread at most
works on a key (`HandsInv`), and the key is not cached meanwhile (`ColdInv`). So an insertion replaces no view
that is leased, and pending keys and views are counted right. An insertion into a full cache drops the least
recently used view without readers, which exists (`OldestExists`).

**ReadsProofs.** Catalog: `RowsInv` says that each row is a whole stay of its unit (`StaysInv`) and that every
stay has a row (`CoverInv`), also while a draft has changed rows that a complete version uses; hence
`MembershipIsExact`, and so every query of a complete version is a function of its content and of the times at
which its packages came in (`QueriesOfList`).

* `CatalogIsExact`: the releases of a row can be sorted, because sort keys compare as a strict order does
  (`KeysAreOrdered`) and a finite set has a sequence for any such order (`OrderExists`); each base version has
  a newest rebuild, and no other one is in the row (`NewestOfBase`). The version count of the metrics is the sum
  over the packages (`SumOfVersions`): the function by which `MapThenSumSet` adds is the number of pairs of a
  package and a base version, since these split by package (`LogicalSplits`).
* `CrawlsMissNothing`: `CrawlInv` says what a client in the middle of a list has seen. By cursor
  (`CursorInv`), of the rows that no version changed since it began, each one up to its position once and none
  above: a page has the rows with the next keys (`CursorPage`), keys of such rows are the same in every version
  that it may read, and a version that completes meanwhile only leaves fewer such rows (`CrawlComplete`). By
  limit and offset (`OffsetInv`), of one version, the list up to the position: all pages are cut from the same
  sequence, because a complete ordering separates the rows (`CompleteTerms`, `OneComesFirst`), and such an order
  of a finite set is unique (`OrderIsUnique`). Rows stay finite (`RowsAreFinite`).

ContentHandler: `HandlerInv` says that a version has pages only above files, and that an
entry that is not newer in a later version has the same bytes, if the distribution is `steady` (no latest
version is deleted, no two versions fall in one second); without that, a date can only confirm the copy of a
newer version, and that is what `RevalidationIsSound` then claims. `FilterInv` says that the filter of a
`growing` distribution holds every path of the latest version, also after the filter step of a modify that
fails; so a filtered 404 is right there. SegmentCache: `CacheInv` adds the exclusion
of the key locks (`LocksExclude`) and that an opener past its second look has a segment that is still missing
(`FillsMissing`); an eviction then cannot meet a pin, and a pin cannot slip in below an eviction or a
download. `BudgetInv` adds that one opener at most holds the fill lock, that it has removed what a killed
downloader left before it makes room, and that what it downloads is not there, so that a size counts once.

**FinalizationProofs.** `ContentInv` is the state part of `PackagesFollowFiles`, `MetadataIsCurrent` and
`PrefixesAreCurrent` with what they leave out: a version without artifacts has no prefixes file, and where no
client deploys metadata there is none of theirs. A modify keeps them because a subject that it does not touch
is described by the same artifacts before and after. That a package stays while files of its release do is
shown of each step; only `repair_packages` is excepted. `PagesInv` adds the pages and `SoundUse`. What
`GenerateIndexPages` does is stated once for any two sets of files (`Editing`): a page that is not affected
lists the same before and after (`UntouchedPage`), and an affected one is right when those below it are
(`SettledListing`, by induction on depth, the deepest first). Depth is bounded because artifacts are finitely
many (`DepthIsBounded`), and so the recursive function `Settled` exists (`SettledIs`).

**DeployProofs.** A request carries what it found out from one statement to the next, so `DeployInv` says,
stage by stage, what still holds of it although others have used the same rows:

* `UsedExist`: what a version or a draft uses has its row, which the orphan cleanup spares (`CleanupKeeps`);
* `UniqueInv`: paths are unique in versions and in drafts;
* `PackagesExist`: so has a package that a version has, or that a draft will get (`SparedPackages`);
* `DetailsInv`: the package of a release that a request is about to describe has no details yet, is spared by
  the cleanup, and is in the hands of this request alone, so nobody else fills it;
* `WholeInv`: without the orphan cleanup, a request past its first statement has its unit, past its second one
  the file, and a draft has units with files and finds or makes exactly the pages of them.

Only the cleanup takes rows away (`RowsGrow`), so a step has to show no more than what it says of its own
request and of the version it makes (`UsedMoved`, `UniqueMoved`, `DetailsMoved`, `WholeMoved`).

**Model-checked only.** `AttemptsEnd` and `LatestIsServed` are liveness under fairness, beyond the prover.

## Not modelled

* Path index: record layout, checksums and fsync of segment files, external sorting and binary search; the
  validity of JSON read from S3 (a corrupt object is an error, which `Stop`, `TaskError` and `GetError` cover).
* Segment cache: `prune()`, which removes nothing while all processes of a pod use one budget; cached files of a
  wrong length.
* Serving: byte ranges and response headers, authentication, the bounds of the descriptor and retry tables
  (1024 entries), shutdown.
* Bloom filter: the removal of both keys when a repository is deleted; two requests at once (a request
  changes nothing).
* Finalization and deploy: XML, HTML, dates, sizes and checksums of generated files; how coordinates are
  parsed from a path; POM properties, parents and their cycles, and the parser of remote listings, which turn
  a document into a record and keep no state.
* Catalog: prefix filters, filter sets and access policies, which only narrow what a request sees; the
  serializers' columns.
* Everything of pulpcore that the plugin only calls: reservations, resource managers, the content handler.
* Migrations, which run once while the service is stopped, settings, and the scripts under `.ci/`.

## Plan

1. *Algorithms*: POM resolution with cycles and depth, the external merge sort and the binary search of a
   segment, against reference definitions.
