----------------------------- MODULE ContentHandler -----------------------------
(***************************************************************************)
(* What the content app answers for a Maven distribution: from the path    *)
(* index when there is a view of one, else from the database, after the    *)
(* Bloom filter, else by pulpcore.  A client asks for one URL again and    *)
(* again, with the validators of the copy it holds, while versions come    *)
(* and go and the index in use lags behind them.                           *)
(*                                                                         *)
(* A URL is <<file, "file">>, or a directory with a slash, without one, or *)
(* with index.html.  Contents stand for their digests; the page of a       *)
(* directory is the contents of the files below it.                        *)
(***************************************************************************)
EXTENDS Naturals, Sequences, FiniteSets

CONSTANTS
    File, Directory,
    Below,         \* the files below each directory
    Dotted,        \* directories with a dot in the last segment
    Bytes,
    Contents,      \* of these, what each file may hold
    None,          \* no copy, no view, no header
    Url,           \* what clients ask for
    Distribution,  \* settings of distributions, and how many versions are made
    MaxSeconds     \* bound of the model

ASSUME ContentHandlerAssumption ==
    /\ File \cap Directory = {}
    /\ Below \in [Directory -> SUBSET File] /\ Dotted \subseteq Directory
    /\ Url \subseteq (File \X {"file"}) \cup (Directory \X {"slash", "bare", "page"})
    /\ None \notin UNION {[some -> Bytes] : some \in SUBSET File}
    /\ \A d \in Distribution :
          DOMAIN d = {"remote", "indexable", "supported", "bloom", "pinned", "steady",
                      "growing", "versions"}

VARIABLES
    distribution,  \* settings that hold throughout
    url,           \* what the client asks for
    versions,      \* files and pages of each complete version
    second,        \* of the clock
    modifying,     \* the files of a modify that is past the filter, or None
    filter,        \* the paths in the Bloom filter; it may take others for these
    view,          \* the version of the index in use, or None
    copy,          \* what the client holds, with its validators
    answer         \* the answer just given, or None

filterVars == <<modifying, filter>>
contentVars == <<distribution, url, versions, second, filterVars, view, copy, answer>>

Page(d) == <<d, "page">>

\* ContentArtifacts of a version by path: since when its content is a member.
Paths(v) == DOMAIN v

\* The rows of a version that follows old: membership starts when the bytes come in.
Members(contents, old) ==
    [p \in DOMAIN contents |->
        IF p \in Paths(old) /\ old[p].bytes = contents[p] THEN old[p]
        ELSE [bytes |-> contents[p], since |-> second']]

FilesOf(v) == {p \in Paths(v) : p[2] = "file"}

\* Every directory with files below it, and the root, has its page.
WithPages(files) ==
    LET below(d) == Below[d] \cap DOMAIN files
        pages    == {Page(d) : d \in {e \in Directory : below(e) # {}}}
    IN  [p \in {<<f, "file">> : f \in DOMAIN files} \cup pages |->
            IF p[2] = "file" THEN files[p[1]] ELSE [f \in below(p[1]) |-> files[f]]]

LatestFiles == versions[Len(versions)]

-----------------------------------------------------------------------------
(* The repository.  Two versions are made in different seconds, unless the  *)
(* distribution is not steady; one that grows loses no path and no version. *)

Tick ==
    /\ second' \in {second + 1} \cup (IF distribution.steady THEN {} ELSE {second})
    /\ second' <= MaxSeconds
    /\ Len(versions) < distribution.versions

AsksFilter == distribution.bloom /\ distribution.pinned = 0 /\ ~distribution.remote

\* _generate_bloom_filter: what a modify adds goes into the filter, or the filter is
\* built again from the new version, which is not complete.
UpdateFilter(files) ==
    LET new == WithPages(files)
    IN  /\ AsksFilter /\ modifying = None
        /\ Len(versions) < distribution.versions
        /\ distribution.growing => Paths(LatestFiles) \subseteq Paths(new)
        /\ modifying' = files
        /\ \/ filter' = filter \cup
                  {p \in Paths(new) : p \in Paths(LatestFiles) => LatestFiles[p].bytes # new[p]}
           \/ filter' = Paths(new)
        /\ answer' = None /\ UNCHANGED <<distribution, url, versions, second, view, copy>>

Modify(files) ==
    /\ modifying = (IF AsksFilter THEN files ELSE None) /\ modifying' = None
    /\ Tick
    /\ versions' = Append(versions, Members(WithPages(files), LatestFiles))
    /\ versions' # Append(versions, LatestFiles)
    /\ answer' = None /\ UNCHANGED <<distribution, url, filter, view, copy>>

\* The path index is not published, the save fails, or nothing has changed.
DropModify ==
    /\ modifying # None /\ modifying' = None
    /\ answer' = None
    /\ UNCHANGED <<distribution, url, versions, second, filter, view, copy>>

\* A file comes from the remote; the pages stay as they are.
PullThrough(f, bytes) ==
    /\ distribution.remote /\ modifying = None /\ <<f, "file">> \notin Paths(LatestFiles)
    /\ Tick
    /\ versions' = Append(versions,
                          [p \in Paths(LatestFiles) \cup {<<f, "file">>} |->
                              IF p \in Paths(LatestFiles) THEN LatestFiles[p]
                              ELSE [bytes |-> bytes, since |-> second']])
    /\ answer' = None /\ UNCHANGED <<distribution, url, filterVars, view, copy>>

\* The latest version is deleted, which the filter does not follow.
DeleteVersion ==
    /\ ~distribution.steady /\ ~distribution.growing /\ modifying = None /\ Len(versions) > 1
    /\ distribution.pinned < Len(versions)
    /\ versions' = SubSeq(versions, 1, Len(versions) - 1)
    /\ view' = IF view = Len(versions) THEN None ELSE view
    /\ answer' = None /\ UNCHANGED <<distribution, url, second, filterVars, copy>>

\* The view of a version, whose index says what the version holds, comes or goes.
SwitchView(v) ==
    /\ distribution.indexable
    /\ v \in {None} \cup (IF distribution.pinned = 0 THEN 1 .. Len(versions)
                          ELSE {distribution.pinned} \cap (1 .. Len(versions)))
    /\ view' = v /\ view' # view
    /\ answer' = None /\ UNCHANGED <<distribution, url, versions, second, filterVars, copy>>

-----------------------------------------------------------------------------
(* Conditional requests (http.py).                                          *)

Header(match, none, since, unmodified) ==
    [match |-> match, none |-> none, since |-> since, unmodified |-> unmodified]

Strong(bytes) == [bytes |-> bytes, weak |-> FALSE]
Weak(bytes) == [bytes |-> bytes, weak |-> TRUE]

\* What a client may send for its copy: nothing, entity tags, dates, or both.
Requests ==
    LET tags == IF copy.tagged THEN {{Strong(copy.bytes)}, {Weak(copy.bytes)}} ELSE {}
    IN  {Header({}, {}, None, None)} \cup
        IF copy = None THEN {}
        ELSE {Header({}, t, since, None) : t \in tags, since \in {None, copy.date}}
             \cup {Header(t, {}, None, date) : t \in tags, date \in {None, copy.date}}
             \cup {Header({}, {}, copy.date, None), Header({}, {}, None, copy.date)}

Failed(q, entry) ==
    \/ q.match # {} /\ Strong(entry.bytes) \notin q.match
    \/ q.match = {} /\ q.unmodified # None /\ entry.since > q.unmodified

\* Mutant: a date also counts beside an entity tag that does not match.
NotModified_DateToo(q, entry) ==
    \/ \E tag \in q.none : tag.bytes = entry.bytes
    \/ q.since # None /\ entry.since <= q.since

\* Entity tags, compared weakly, come before the date.
NotModified(q, entry) ==
    \/ \E tag \in q.none : tag.bytes = entry.bytes
    \/ q.none = {} /\ q.since # None /\ entry.since <= q.since

ConditionalStatus(q, entry) ==
    CASE Failed(q, entry) -> 412
      [] ~Failed(q, entry) /\ NotModified(q, entry) -> 304
      [] OTHER -> 200

-----------------------------------------------------------------------------
(* Requests.                                                                *)

\* The index gives a digest and a date, a page of the database its digest, and
\* what pulpcore gives is not modelled.
Received(q, status, version, entry, indexed, filtered) ==
    /\ answer' = [request |-> q, status |-> status, version |-> version, filtered |-> filtered,
                  bytes |-> IF status = 200 THEN entry.bytes ELSE None]
    /\ copy' = IF status = 200
               THEN [bytes |-> entry.bytes, version |-> version,
                     tagged |-> indexed \/ url[2] = "slash",
                     date |-> IF indexed THEN entry.since ELSE None]
               ELSE copy
    /\ UNCHANGED <<distribution, url, versions, second, filterVars, view>>

NoEntry == [bytes |-> None]

\* artifact_entries: index.html is also found at its directory.
IndexPath == IF url[2] = "slash" THEN Page(url[1]) ELSE url

\* indexed_response finds an answer.  A 200 may also be a redirect to the storage.
Indexed ==
    /\ view # None
    /\ IndexPath \in Paths(versions[view]) /\ url[2] = "file" => distribution.supported

IndexStatus(q) ==
    LET v == versions[view]
    IN  CASE IndexPath \in Paths(v) -> ConditionalStatus(q, v[IndexPath])
          [] url[2] = "bare" /\ Page(url[1]) \in Paths(v) -> 301
          [] OTHER -> 404

GetIndexed(q) ==
    /\ Indexed
    /\ LET v == versions[view]
       IN  Received(q, IndexStatus(q), view,
                    IF IndexPath \in Paths(v) THEN v[IndexPath] ELSE NoEntry, TRUE, FALSE)

Resolved == IF distribution.pinned # 0 THEN distribution.pinned ELSE Len(versions)

\* Mutant: the filter is not asked for index.html.
BloomFiltered_PathOnly(might) == AsksFilter /\ ~might /\ url \notin filter

\* The filter in Redis is complete for the label, and holds neither the path nor its
\* index.html, nor takes one of them for a path it holds.
BloomFiltered(might) ==
    /\ AsksFilter /\ ~might
    /\ url \notin filter /\ (url[2] # "file" => Page(url[1]) \notin filter)

Other == 0  \* an answer that is pulpcore's alone

\* pulpcore's handler, of which the model says only what a file gets, and that a
\* path with nothing at it or below it is not found unless the remote has it.
CoreStatus(v) ==
    LET below == url[2] \in {"slash", "bare"} /\ \E f \in FilesOf(v) : f[1] \in Below[url[1]]
    IN  CASE url \in Paths(v) -> 200
          [] url \notin Paths(v) /\ (distribution.remote \/ below) -> Other
          [] OTHER -> 404

\* content_handler after indexed_response and the filter.
DatabaseStatus(v) ==
    LET page == url[2] \in {"slash", "bare"} /\ Page(url[1]) \in Paths(v)
    IN  CASE page /\ url[2] = "slash" -> 200
          [] page /\ url[2] = "bare" /\ url[1] \notin Dotted -> 301
          [] OTHER -> CoreStatus(v)

\* Pages and files of the database are answered whatever the validators say, and a
\* filtered request without a look at the version.
GetFromDatabase(q, might) ==
    /\ ~Indexed /\ Resolved \in 1 .. Len(versions)
    /\ LET v == versions[Resolved]
           p == IF url[2] = "slash" THEN Page(url[1]) ELSE url
           filtered == BloomFiltered(might)
       IN  Received(q, IF filtered THEN 404 ELSE DatabaseStatus(v), Resolved,
                    IF p \in Paths(v) THEN v[p] ELSE NoEntry, FALSE, filtered)

-----------------------------------------------------------------------------

FileSets ==
    {files \in UNION {[some -> Bytes] : some \in SUBSET File} :
        \A f \in DOMAIN files : files[f] \in Contents[f]}

ContentInit ==
    /\ distribution \in Distribution /\ url \in Url
    /\ versions = << <<>> >> /\ second = 0
    /\ modifying = None /\ filter = {}
    /\ view = None /\ copy = None
    /\ answer = None

ContentNext ==
    \/ \E files \in FileSets : UpdateFilter(files)
    \/ DropModify
    \/ \E files \in FileSets : Modify(files)
    \/ \E f \in File, bytes \in Bytes : PullThrough(f, bytes)
    \/ DeleteVersion
    \/ \E v \in (1 .. Len(versions)) \cup {None} : SwitchView(v)
    \/ \E q \in Requests : GetIndexed(q)
    \/ \E q \in Requests, might \in BOOLEAN : GetFromDatabase(q, might)

ContentSpec == ContentInit /\ [][ContentNext]_contentVars

-----------------------------------------------------------------------------
(* Properties.                                                              *)

\* Whichever way a request takes, it is answered with what the version it read
\* holds: the bytes at the path; a redirect only to a page that is there; and no 404
\* for a path with something at it, in an old index or without a slash.  The filter
\* keeps this only where no version removes a path and none is deleted: elsewhere it
\* runs ahead of the latest complete version, or is left behind by its deletion.
AnswersMatchVersion ==
    answer # None =>
        LET v    == versions[answer.version]
            p    == IF url[2] = "slash" THEN Page(url[1]) ELSE url
            page == Page(url[1])
        IN  /\ answer.status = 200 => p \in Paths(v) /\ v[p].bytes = answer.bytes
            /\ answer.status = 301 => url[2] = "bare" /\ page \in Paths(v)
            /\ answer.status = 404 /\ (answer.filtered => distribution.growing)
               => p \notin Paths(v) /\ page \notin Paths(v)

\* RFC 9110: after a 304 the client may use its copy.  With an entity tag the copy is
\* what the version holds; with a date alone it is that or newer, as long as time
\* moves between versions and none is deleted, even when old bytes come back,
\* because the date is that of the membership.  And If-Match with the strong tag of
\* what the version holds never gets 412.
RevalidationIsSound ==
    answer # None /\ answer.status \in {304, 412} =>
        LET v       == versions[answer.version]
            current == v[IF url[2] = "slash" THEN Page(url[1]) ELSE url].bytes
            q       == answer.request
        IN  IF answer.status = 304
            THEN \/ copy.bytes = current
                 \/ q.none = {} /\ (distribution.steady => copy.version > answer.version)
            ELSE q.match = {} \/ Weak(copy.bytes) \in q.match \/ copy.bytes # current

=============================================================================
