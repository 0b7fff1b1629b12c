------------------------------ MODULE IndexServing ------------------------------
(***************************************************************************)
(* One content process: requests resolve the distribution to a key (the    *)
(* selected version and the digest of its manifest) and lease the prepared *)
(* view of that key; two loader threads prepare views in the background.   *)
(* Without a view the request falls back to the database.                  *)
(*                                                                         *)
(* There is no clock: a request may find a stored descriptor fresh or run  *)
(* out, and the retry time of a key come or not.  The profile is part of   *)
(* the digest.  The cache directory, shared with other processes, is       *)
(* SegmentCache's subject; here it only has to hold the segments of all    *)
(* open views.                                                             *)
(***************************************************************************)
EXTENDS Naturals, FiniteSets

CONSTANTS
    Version,      \* 1 .. n
    Digest,
    Live,         \* the distribution of the latest version
    Unknown,      \* no descriptor stored yet
    None,         \* no version, no manifest, no key, no distribution
    Segments,     \* segments of the view of each key
    Budget,       \* segments that fit in the cache directory
    MaxViews,     \* MAVEN_PATH_INDEX_MAX_VIEWS
    Loader,       \* LOAD_WORKERS threads
    Request,
    Demands,      \* sets of distributions that may be asked for
    MaxChanges    \* bound of the model: changes to the repository, failed loads

Key == Version \X Digest

ASSUME ServingAssumption ==
    /\ Version = 1 .. Cardinality(Version)
    /\ None \notin Digest /\ None \notin Key
    /\ IsFiniteSet(Request) /\ IsFiniteSet(Loader)
    /\ \A k \in Key : IsFiniteSet(Segments[k]) /\ Cardinality(Segments[k]) <= Budget
    /\ MaxViews \in Nat \ {0} /\ MaxChanges \in Nat
    /\ Demands \subseteq SUBSET ({Live} \cup Version)

VARIABLES
    demand,       \* the distributions asked for in this behaviour
    repository,
    descriptors,  \* _descriptors
    requests,
    views,        \* ViewCache.views: of each cached key
    pending,      \* ViewCache.pending
    loaders,
    changes

cacheVars == <<views, pending>>
vars == <<demand, repository, descriptors, requests, cacheVars, loaders, changes>>

\* Live follows the latest version, a number is pinned to that version.
Distribution == {Live} \cup Version

Free == [pc |-> "idle", distribution |-> None, key |-> None]

\* What is open in a loader is the view of opened.
Waiting == [pc |-> "idle", key |-> None, opened |-> None]

Cached == DOMAIN views

\* The views of some cached keys, in their order, the least recently used first.
Kept(keys) ==
    [k \in keys |->
        [views[k] EXCEPT !.place = Cardinality({j \in keys : views[j].place < views[k].place})]]

\* The last of them is the view of k.
WithLast(keys, k, opened, leases) ==
    [j \in keys \cup {k} |->
        IF j = k THEN [opened |-> opened, leases |-> leases, place |-> Cardinality(keys \ {k})]
        ELSE Kept(keys \ {k})[j]]

OpenViews == ({views[k].opened : k \in Cached} \cup {loaders[l].opened : l \in Loader}) \ {None}

\* CachedIndexView: the segments of all open views are pinned.
Room(k) == Cardinality(UNION {Segments[o] : o \in OpenViews} \cup Segments[k]) <= Budget

-----------------------------------------------------------------------------
(* The repository.                                                          *)

Changed(new) ==
    /\ changes < MaxChanges
    /\ changes' = changes + 1
    /\ repository' = new
    /\ UNCHANGED <<demand, descriptors, requests, cacheVars, loaders>>

\* A version completes, with its index when the repository is enabled.
Modify(d) ==
    /\ repository.latest + 1 \in Version
    /\ Changed([repository EXCEPT
            !.latest = @ + 1,
            !.manifests[repository.latest + 1] = IF repository.enabled THEN d ELSE None])

\* Compaction, or a rebuild for a new storage profile.
Rebuild(v, d) ==
    /\ v \in 1 .. repository.latest \ repository.deleted
    /\ Changed([repository EXCEPT !.manifests[v] = d])

\* Retention.
DeleteVersion(v) ==
    /\ v \in 1 .. (repository.latest - 1) \ repository.deleted
    /\ Changed([repository EXCEPT !.deleted = @ \cup {v}, !.manifests[v] = None])

SetLabel == Changed([repository EXCEPT !.enabled = ~@])

-----------------------------------------------------------------------------
(* content.py: descriptor and indexed_response; ViewCache.lease.            *)

Selected(d) ==
    LET v == IF d = Live THEN repository.latest ELSE d
    IN  IF /\ repository.enabled
           /\ v \in 1 .. repository.latest \ repository.deleted
           /\ repository.manifests[v] # None
        THEN <<v, repository.manifests[v]>> ELSE None

\* Mutant: a key that is already being prepared is submitted again.
MayLoad_Twice(k) == Cardinality(pending) < Cardinality(Loader)

MayLoad(k) ==
    /\ k \notin pending
    /\ Cardinality(pending) < Cardinality(Loader)

\* ViewCache.lease.  due: the key's retry time has come.  Without a view the
\* request is over, as far as the index is concerned, and a free loader thread gets
\* the key.
Lease(r, k, due) ==
    /\ IF k \in Cached
       THEN /\ views' = WithLast(Cached, k, views[k].opened, views[k].leases + 1)
            /\ requests' = [requests EXCEPT ![r] = [Free EXCEPT !.pc = "lookup", !.key = k]]
       ELSE /\ requests' = [requests EXCEPT ![r] = Free]
            /\ UNCHANGED views
    /\ IF k # None /\ k \notin Cached /\ due /\ MayLoad(k)
       THEN \E l \in Loader :
                /\ loaders[l].pc = "idle"
                /\ loaders' = [loaders EXCEPT ![l] = [Waiting EXCEPT !.pc = "check", !.key = k]]
                /\ pending' = pending \cup {k}
       ELSE UNCHANGED <<loaders, pending>>

\* A descriptor whose deadline has not passed is used as it is.  It may change
\* before the lease, but then this is a lease from a slower request.
Hit(r, d, due) ==
    /\ requests[r].pc = "idle"
    /\ descriptors[d] # Unknown
    /\ Lease(r, descriptors[d], due)
    /\ UNCHANGED <<demand, repository, descriptors, changes>>

\* Otherwise the database is read, outside the lock.
Query(r, d) ==
    /\ requests[r].pc = "idle"
    /\ requests' = [requests EXCEPT ![r] =
                        [pc |-> "store", distribution |-> d, key |-> Selected(d)]]
    /\ UNCHANGED <<demand, repository, descriptors, cacheVars, loaders, changes>>

\* The answer is stored as a fresh one whatever happened since, then used.
Store(r, due) ==
    /\ requests[r].pc = "store"
    /\ descriptors' = [descriptors EXCEPT ![requests[r].distribution] = requests[r].key]
    /\ Lease(r, requests[r].key, due)
    /\ UNCHANGED <<demand, repository, changes>>

\* The lookup is over.
Release(r) ==
    /\ requests[r].pc = "lookup"
    /\ views' = [views EXCEPT ![requests[r].key].leases = @ - 1]
    /\ requests' = [requests EXCEPT ![r] = Free]
    /\ UNCHANGED <<demand, repository, descriptors, pending, loaders, changes>>

-----------------------------------------------------------------------------
(* ViewCache._load and prepare.                                             *)

Step(l, pc, opened) ==
    loaders' = [loaders EXCEPT ![l].pc = pc, ![l].opened = opened]

\* Enabled, and the selected version still exists.
Check(l) ==
    /\ loaders[l].pc = "check"
    /\ Step(l, IF repository.enabled /\ loaders[l].key[1] \notin repository.deleted
               THEN "prepare" ELSE "finally", None)
    /\ UNCHANGED <<demand, repository, descriptors, requests, cacheVars, changes>>

\* Mutant: the manifest of the version is opened whatever its digest.
Manifest_AnyDigest(k) ==
    IF repository.manifests[k[1]] # None THEN <<k[1], repository.manifests[k[1]]>> ELSE None

\* The manifest that prepare opens: the version's, if it still has the key's digest.
Manifest(k) == IF repository.manifests[k[1]] = k[2] THEN k ELSE None

\* A first CacheFull is followed by a second attempt.
Prepare(l) ==
    LET m == Manifest(loaders[l].key) IN
    /\ loaders[l].pc \in {"prepare", "again"}
    /\ IF m = None THEN Step(l, "finally", None)
       ELSE IF Room(m) THEN Step(l, "insert", m)
       ELSE Step(l, IF loaders[l].pc = "prepare" THEN "full" ELSE "finally", None)
    /\ UNCHANGED <<demand, repository, descriptors, requests, cacheVars, changes>>

\* The storage does not answer.
StorageFailure(l) ==
    /\ loaders[l].pc \in {"prepare", "again"}
    /\ changes < MaxChanges
    /\ changes' = changes + 1
    /\ Step(l, "finally", None)
    /\ UNCHANGED <<demand, repository, descriptors, requests, cacheVars>>

InUse == {k \in Cached : views[k].leases > 0}

\* After CacheFull: the idle views of the process are closed.
CloseIdle(l) ==
    /\ loaders[l].pc = "full"
    /\ views' = Kept(InUse)
    /\ Step(l, "again", None)
    /\ UNCHANGED <<demand, repository, descriptors, requests, pending, changes>>

\* Mutant: the least recently used view goes, leased or not.
Victims_AnyView == Cached

Victims == {k \in Cached : views[k].leases = 0}

Crowded == Cardinality(Cached) >= MaxViews

\* Room for the new view, by closing the first idle one.
Insert(l) ==
    LET oldest == CHOOSE k \in Victims : \A j \in Victims : views[k].place <= views[j].place
        left   == IF Crowded THEN Cached \ {oldest} ELSE Cached
    IN  /\ loaders[l].pc = "insert"
        /\ IF Crowded /\ Victims = {}
           THEN /\ loaders' = [loaders EXCEPT ![l].pc = "finally"]
                /\ UNCHANGED views
           ELSE /\ views' = WithLast(left, loaders[l].key, loaders[l].opened, 0)
                /\ Step(l, "finally", None)
        /\ UNCHANGED <<demand, repository, descriptors, requests, pending, changes>>

\* Mutant: a key whose load failed stays pending.
StillPending_Failed(k) == IF k \in Cached THEN pending \ {k} ELSE pending

StillPending(k) == pending \ {k}

\* A view that found no place is closed.
Finally(l) ==
    /\ loaders[l].pc = "finally"
    /\ pending' = StillPending(loaders[l].key)
    /\ loaders' = [loaders EXCEPT ![l] = Waiting]
    /\ UNCHANGED <<demand, repository, descriptors, requests, views, changes>>

-----------------------------------------------------------------------------

Init ==
    /\ demand \in Demands
    /\ \E d \in Digest : repository =
            [latest    |-> 1, deleted |-> {}, enabled |-> TRUE,
             manifests |-> [v \in Version |-> IF v = 1 THEN d ELSE None]]
    /\ descriptors = [d \in Distribution |-> Unknown]
    /\ requests = [r \in Request |-> Free]
    /\ views = [k \in {} |-> {}] /\ pending = {}
    /\ loaders = [l \in Loader |-> Waiting]
    /\ changes = 0

LoaderStep(l) == Check(l) \/ Prepare(l) \/ CloseIdle(l) \/ Insert(l) \/ Finally(l)

Next ==
    \/ \E d \in Digest : Modify(d)
    \/ \E v \in Version, d \in Digest : Rebuild(v, d)
    \/ \E v \in Version : DeleteVersion(v)
    \/ SetLabel
    \/ \E r \in Request, d \in demand : Query(r, d) \/ \E due \in BOOLEAN : Hit(r, d, due)
    \/ \E r \in Request : Release(r) \/ \E due \in BOOLEAN : Store(r, due)
    \/ \E l \in Loader : LoaderStep(l) \/ StorageFailure(l)

\* Clients keep asking; threads run, time passes, and both finish what they began.
Fairness ==
    /\ \A r \in Request : SF_vars(Query(r, Live)) /\ SF_vars(Store(r, TRUE)) /\ WF_vars(Release(r))
    /\ \A l \in Loader : WF_vars(LoaderStep(l))

Spec == Init /\ [][Next]_vars /\ Fairness

-----------------------------------------------------------------------------
(* Properties.                                                              *)

Readers(k) == {r \in Request : requests[r].pc = "lookup" /\ requests[r].key = k}

\* cache.py: "Leases prevent eviction during lookup".  The view that a request
\* looks into is still the cached one, and every view counts its readers, however
\* loads, evictions and the closing of idle views interleave with the leases.
LeasesAreCounted ==
    /\ \A r \in Request : requests[r].pc = "lookup" => requests[r].key \in Cached
    /\ \A k \in Cached : views[k].leases = Cardinality(Readers(k))

\* "An old version's index is never substituted for a new version's view": a
\* view was opened from the very manifest its key names, even if the version was
\* rebuilt or deleted between the request and the load.
ViewsMatchTheirKey ==
    \A k \in Cached : views[k].opened = k

\* MAX_VIEWS bounds the cached views, with two loaders adding views at once, and
\* every key marked as pending is in the hands of a loader, so none stays cold.
ViewsAreBounded ==
    /\ Cardinality(Cached) <= MaxViews
    /\ pending = {loaders[l].key : l \in Loader} \ {None}

Served(k) == \E r \in Request : requests[r].pc = "lookup" /\ requests[r].key = k

\* cache.py: "otherwise old versions could keep every future version cold".  With
\* clients following the latest version only, they get its index again and again,
\* after slow refreshes, failed loads and with the disk full of idle views.
LatestIsServed ==
    demand = {Live} =>
        []<>(Selected(Live) = None \/ Served(Selected(Live)))

=============================================================================
