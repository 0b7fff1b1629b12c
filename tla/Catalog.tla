-------------------------------- MODULE Catalog --------------------------------
(***************************************************************************)
(* The package catalog: the packages, packages/flat and metrics endpoints  *)
(* of a repository.  A version's content is what RepositoryContent rows    *)
(* say by the versions that added and removed a unit; a modify in progress *)
(* changes the same rows, and may fail.  A client reads a list page by     *)
(* page while versions come and go, by cursor or by limit and offset, of   *)
(* one version or of whatever is the latest.                               *)
(*                                                                         *)
(* A version string is a sequence of the segments between dots, a segment  *)
(* the sequence of the parts between dashes, a part <<0, number>> for      *)
(* digits and <<1, place in byte order>> for anything else.                *)
(***************************************************************************)
EXTENDS Integers, FiniteSets, FiniteSetsExt, SequencesExt

CONSTANTS
    Package,     \* MavenPackage units, here a range of numbers: their primary keys
    Uploads,     \* what versions may hold
    Created,     \* when each was made
    Group, Artifact,  \* of each, as places in byte order
    Version,     \* its version string
    Place,       \* of that string in byte order
    Dash, Dot, Nothing,  \* the parts "-", "." and ""
    Letters,     \* parts made of letters
    Searches,    \* search parameters, as the terms between colons
    Containing,  \* which names contain which term
    Orderings,   \* ordering parameters, as sequences of terms
    PageSize,
    MaxDrafts    \* bound of the model

Part == {0, 1} \X Nat

\* Other fields in an ordering parameter are refused.
Field == {"group_id", "artifact_id", "last_updated"}

ASSUME CatalogAssumption ==
    /\ Package \subseteq Nat \ {0} /\ PageSize \in Nat \ {0} /\ MaxDrafts \in Nat
    /\ \A units \in Uploads : units \subseteq Package /\ IsFiniteSet(units)
    /\ \A u \in Package : {Group[u], Artifact[u], Place[u], Created[u]} \subseteq Nat
    /\ \A u \in Package : Version[u] \in Seq(Seq(Part))
    /\ Dash \in Part /\ Dot \in Part
    /\ \A terms \in Orderings : terms \in Seq([name : Field, desc : BOOLEAN])
    /\ \A u, w \in Package :
          /\ Place[u] = Place[w] <=> Version[u] = Version[w]
          /\ <<Group[u], Artifact[u], Version[u]>> = <<Group[w], Artifact[w], Version[w]>> => u = w

VARIABLES
    rows,     \* RepositoryContent of the repository
    history,  \* content and time of each complete version, whose number is its place
    draft,    \* <<content>> of the version in progress, or <<>>
    clock,    \* versions begun
    crawl     \* the client

catalogVars == <<rows, history, draft, clock, crawl>>

Present == -1   \* version_removed of a row that is not removed
Latest == -1    \* no repository_version parameter

-----------------------------------------------------------------------------
(* Version strings (versions.py).                                           *)

\* \.[a-zA-Z]+-[^.]+$
HasBuildSuffix(v) ==
    /\ Len(v) > 1
    /\ Len(Last(v)) > 1
    /\ Last(v)[1] \in Letters
    /\ Last(v) # <<Last(v)[1], Nothing>>

BaseVersion(v) == IF HasBuildSuffix(v) THEN Front(v) ELSE v

RebuildRelease(v) == IF HasBuildSuffix(v) THEN Last(v) ELSE <<>>

Joined(seqs, separator) ==
    FlattenSeq([i \in DOMAIN seqs |-> IF i = 1 THEN seqs[i] ELSE <<separator>> \o seqs[i]])

VersionSortKey(v) ==
    Joined([i \in DOMAIN v |-> Joined([j \in DOMAIN v[i] |-> <<v[i][j]>>], Dash)], Dot)

\* Tuples of Python.
Smaller(a, b) ==
    \/ IsStrictPrefix(a, b)
    \/ \E i \in DOMAIN a \cap DOMAIN b :
          /\ \A j \in 1 .. i - 1 : a[j] = b[j]
          /\ \/ a[i][1] < b[i][1]
             \/ a[i][1] = b[i][1] /\ a[i][2] < b[i][2]

\* The orders in which a query or sorted() may return a set.
Orders(S, before(_, _)) ==
    {s \in SetToSeqs(S) : \A i, j \in DOMAIN s : i < j => ~before(s[j], s[i])}

-----------------------------------------------------------------------------
(* Queries (catalog.py).                                                    *)

\* Mutant: a removed unit stays in the versions after it.
InVersionBounds_Added(row, n) == row.added <= n

InVersionBounds(row, n) == row.added <= n /\ (row.removed = Present \/ row.removed > n)

MembershipsInVersion(n) == {row \in rows : InVersionBounds(row, n)}

PackagesInVersion(n) == {row.unit : row \in MembershipsInVersion(n)}

Ga(u) == [group |-> Group[u], artifact |-> Artifact[u]]

OfGa(units, ga) == {u \in units : Ga(u) = ga}

\* parse_package_search: no colon, or a side for each name; what follows a second
\* colon is ignored, empty terms do not filter.
Matches(ga, search) ==
    LET sides == SubSeq(search, 1, Min({2, Len(search)}))
        has(name, term) == <<name, term>> \in Containing
    IN  \/ \A i \in DOMAIN sides : sides[i] = Nothing
        \/ Len(search) = 1 /\ (has(ga.group, sides[1]) \/ has(ga.artifact, sides[1]))
        \/ /\ Len(search) > 1
           /\ sides[1] = Nothing \/ has(ga.group, sides[1])
           /\ sides[2] = Nothing \/ has(ga.artifact, sides[2])

Selected(n, search) == {u \in PackagesInVersion(n) : Matches(Ga(u), search)}

\* annotate_grouped_last_updated
LastUpdated(ga, n) == Max({row.at : row \in {r \in MembershipsInVersion(n) : Ga(r.unit) = ga}})

\* _membership_time, the earliest
CreatedAt(u, n) == Min({row.at : row \in {r \in MembershipsInVersion(n) : r.unit = u}})

Rebuilds(u, units) ==
    {w \in units : Ga(w) = Ga(u) /\ BaseVersion(Version[w]) = BaseVersion(Version[u])}

\* DISTINCT ON, also of collapse_builds: of each base version a rebuild than which none
\* is newer; any of them if they were made at one time.
Newest(units) ==
    {(CHOOSE w \in Rebuilds(u, units) : \A x \in Rebuilds(u, units) : Created[x] <= Created[w]) :
        u \in units}

\* The order of the releases of a row, newest first.
NewerBase(u, w) ==
    Smaller(VersionSortKey(BaseVersion(Version[w])), VersionSortKey(BaseVersion(Version[u])))

\* assemble_package_index
IndexRow(ga, n) ==
    LET releases == CHOOSE s \in Orders(Newest(OfGa(PackagesInVersion(n), ga)), NewerBase) : TRUE
    IN  [ga |-> ga, last_updated |-> LastUpdated(ga, n),
         versions |-> [i \in DOMAIN releases |-> BaseVersion(Version[releases[i]])],
         latest_releases |->
            [i \in DOMAIN releases |->
                [version |-> BaseVersion(Version[releases[i]]),
                 release |-> RebuildRelease(Version[releases[i]]),
                 created_at |-> CreatedAt(releases[i], n)]]]

\* repository_metrics
Metrics(n) ==
    LET units == PackagesInVersion(n)
    IN  [package_count |-> Cardinality({Ga(u) : u \in units}),
         version_count |-> Cardinality({<<Ga(u), BaseVersion(Version[u])>> : u \in units}),
         build_count |-> Cardinality({<<Ga(u), Version[u]>> : u \in units})]

-----------------------------------------------------------------------------
(* Order of the lists (versions.py).                                        *)

Term(name, desc) == [name |-> name, desc |-> desc]

Names(terms) == {terms[i].name : i \in DOMAIN terms}

FirstOfEach(terms) ==
    LET first  == {i \in DOMAIN terms : \A j \in 1 .. i - 1 : terms[j].name # terms[i].name}
        places == CHOOSE s \in Orders(first, <) : TRUE
    IN  [k \in DOMAIN places |-> terms[places[k]]]

\* group_id implies artifact_id, in its direction.
WithArtifact(terms) ==
    IF "group_id" \notin Names(terms) \/ "artifact_id" \in Names(terms) THEN terms
    ELSE LET i == CHOOSE i \in DOMAIN terms : terms[i].name = "group_id"
         IN  InsertAt(terms, i + 1, Term("artifact_id", terms[i].desc))

\* Mutant: no tiebreaker.
NormalizeOrdering_NoTiebreak(terms) ==
    IF terms = <<>> THEN <<Term("group_id", FALSE), Term("artifact_id", FALSE)>>
    ELSE WithArtifact(FirstOfEach(terms))

NormalizeOrdering(terms) ==
    LET normalized == WithArtifact(FirstOfEach(terms))
        missing(name) == IF name \in Names(normalized) THEN <<>> ELSE <<Term(name, FALSE)>>
    IN  normalized \o missing("group_id") \o missing("artifact_id")

-----------------------------------------------------------------------------
(* Versions (pulpcore).                                                     *)

Number == Len(history)

Content(n) == IF n = 0 THEN {} ELSE history[n].content

\* add_content and remove_content
Draft(units) ==
    LET new  == Number + 1
        kept == {row \in rows : row.removed # Present \/ row.unit \in units}
        gone == {[row EXCEPT !.removed = new] : row \in rows \ kept}
    IN  /\ draft = <<>> /\ clock < MaxDrafts
        /\ units # Content(Number)
        /\ draft' = <<units>>
        /\ clock' = clock + 1
        /\ rows' = kept \cup gone \cup {[unit |-> u, added |-> new, removed |-> Present,
                                         at |-> clock'] : u \in units \ Content(Number)}
        /\ UNCHANGED <<history, crawl>>

Complete ==
    /\ draft # <<>> /\ draft' = <<>>
    /\ history' = Append(history, [content |-> draft[1], at |-> clock])
    /\ UNCHANGED <<rows, clock, crawl>>

\* The modify task failed: its version is deleted.
Abort ==
    /\ draft # <<>> /\ draft' = <<>>
    /\ rows' = {[row EXCEPT !.removed = IF @ = Number + 1 THEN Present ELSE @] :
                    row \in {r \in rows : r.added # Number + 1}}
    /\ UNCHANGED <<history, clock, crawl>>

-----------------------------------------------------------------------------
(* Reading a list (viewsets.py, pagination.py).                             *)

Crawls ==
    [list : {"flat"}, cursor : BOOLEAN, ordering : {<<>>}, search : {<<Nothing>>}]
    \cup [list : {"packages"}, cursor : {FALSE}, ordering : Orderings, search : Searches]
    \cup [list : {"packages"}, cursor : {TRUE}, ordering : {<<>>}, search : Searches]

Begin(parameters, pinned) ==
    /\ crawl.pc = "idle"
    /\ pinned \in (1 .. Number) \cup {Latest}
    /\ crawl' = [pc |-> "paging", pinned |-> pinned, from |-> Number, position |-> 0,
                 seen |-> <<>>, list |-> parameters.list, cursor |-> parameters.cursor,
                 ordering |-> parameters.ordering, search |-> parameters.search]
    /\ UNCHANGED <<rows, history, draft, clock>>

Requested(c) == IF c.pinned = Latest THEN Number ELSE c.pinned

\* One row per unit or per distinct group and artifact.
Rows(c, n) ==
    IF c.list = "flat" THEN PackagesInVersion(n) ELSE {Ga(u) : u \in Selected(n, c.search)}

\* pk, or _cursor_pk
CursorKey(c, row, n) ==
    IF c.list = "flat" THEN row ELSE Min(OfGa(Selected(n, c.search), row))

Following(c, n) == {row \in Rows(c, n) : CursorKey(c, row, n) > c.position}

\* The flat list is in byte order (COLLATE "C"), without an ordering parameter.
RowTerms(c) ==
    IF c.list = "flat"
    THEN <<Term("group_id", FALSE), Term("artifact_id", FALSE), Term("version", FALSE)>>
    ELSE NormalizeOrdering(c.ordering)

Value(c, row, name, n) ==
    LET ga == IF c.list = "flat" THEN Ga(row) ELSE row
    IN  CASE name = "group_id"     -> ga.group
          [] name = "artifact_id"  -> ga.artifact
          [] name = "last_updated" -> LastUpdated(ga, n)
          [] name = "version"      -> Place[row]

Before(c, a, b, n) ==
    LET terms == RowTerms(c)
        at(row, i) == Value(c, row, terms[i].name, n)
    IN  \E i \in DOMAIN terms :
            /\ \A j \in 1 .. i - 1 : at(a, j) = at(b, j)
            /\ IF terms[i].desc THEN at(a, i) > at(b, i) ELSE at(a, i) < at(b, i)

Ordered(c, n) == Orders(Rows(c, n), LAMBDA a, b : Before(c, a, b, n))

Slice(seq, from) == SubSeq(seq, from + 1, Min({from + PageSize, Len(seq)}))

NextPage(page, position, last) ==
    /\ crawl' = [crawl EXCEPT !.seen = @ \o page, !.position = position,
                              !.pc = IF last THEN "done" ELSE "paging"]
    /\ UNCHANGED <<rows, history, draft, clock>>

ByCursor ==
    LET n      == Requested(crawl)
        key(r) == CursorKey(crawl, r, n)
    IN  /\ crawl.pc = "paging" /\ crawl.cursor
        /\ \E todo \in Orders(Following(crawl, n), LAMBDA a, b : key(a) < key(b)) :
              LET page == Slice(todo, 0)
              IN  NextPage(page, IF page = <<>> THEN 0 ELSE key(Last(page)),
                           Len(todo) <= PageSize)

ByOffset ==
    LET n == Requested(crawl) IN
    /\ crawl.pc = "paging" /\ ~crawl.cursor
    /\ \E all \in Ordered(crawl, n) :
          NextPage(Slice(all, crawl.position),
                   crawl.position + PageSize, Len(all) <= crawl.position + PageSize)

-----------------------------------------------------------------------------

CatalogInit ==
    /\ rows = {} /\ history = <<>>
    /\ draft = <<>> /\ clock = 0
    /\ crawl = [pc |-> "idle"]

CatalogNext ==
    \/ \E units \in Uploads : Draft(units)
    \/ Complete
    \/ Abort
    \/ \E c \in Crawls, pinned \in (1 .. MaxDrafts) \cup {Latest} : Begin(c, pinned)
    \/ ByCursor
    \/ ByOffset

CatalogSpec == CatalogInit /\ [][CatalogNext]_catalogVars

-----------------------------------------------------------------------------
(* Properties.                                                              *)

\* When a unit entered version n for the stay that includes it.
Entered(u, n) ==
    history[Max({k \in 1 .. n : u \in Content(k) /\ u \notin Content(k - 1)})].at

\* The rows tell of every complete version, whatever later versions, finished or not,
\* did to them, what it holds and when that came in.
MembershipIsExact ==
    \A n \in 1 .. Number :
        /\ PackagesInVersion(n) = Content(n)
        /\ \A u \in Content(n) :
              /\ CreatedAt(u, n) = Entered(u, n)
              /\ LastUpdated(Ga(u), n) = Max({Entered(w, n) : w \in OfGa(Content(n), Ga(u))})

\* catalog.md: what the catalog says of a complete version is what that version
\* holds: one row per package, one release per logical version, newest first, with
\* the times its units entered; the metrics count the same rows.
RowIsExact(ga, n) ==
    LET units == OfGa(Content(n), ga)
        bases == {BaseVersion(Version[u]) : u \in units}
        row   == IndexRow(ga, n)
    IN  /\ ToSet(row.versions) = bases /\ IsInjective(row.versions)
        /\ \A i \in DOMAIN row.versions :
              /\ \E u \in units :
                    /\ BaseVersion(Version[u]) = row.versions[i]
                    /\ row.latest_releases[i].created_at = Entered(u, n)
                    /\ \A w \in units :
                          BaseVersion(Version[w]) = row.versions[i] => Created[w] <= Created[u]
              /\ \A j \in DOMAIN row.versions :
                    i < j => ~Smaller(VersionSortKey(row.versions[i]),
                                      VersionSortKey(row.versions[j]))

MetricsAreExact(n) ==
    LET units  == Content(n)
        gas    == {Ga(u) : u \in units}
        bases(ga) == {BaseVersion(Version[u]) : u \in OfGa(units, ga)}
    IN  Metrics(n) = [package_count |-> Cardinality(gas),
                      version_count |-> MapThenSumSet(LAMBDA ga : Cardinality(bases(ga)), gas),
                      build_count   |-> Cardinality(units)]

CatalogIsExact ==
    /\ MembershipIsExact
    /\ \A n \in 1 .. Number :
          MetricsAreExact(n) /\ \A ga \in {Ga(u) : u \in Content(n)} : RowIsExact(ga, n)

\* The versions that a crawl reads from, and may still read.
ReadVersions(c) == IF c.pinned = Latest THEN c.from .. Number ELSE {c.pinned}

UnitsOf(c, row, n) == {u \in Content(n) : row = IF c.list = "flat" THEN u ELSE Ga(u)}

\* Nothing that a version did touches what the client sees of the row.
StaysAsItWas(c, row) ==
    \A n, m \in ReadVersions(c) :
        IF c.cursor THEN UnitsOf(c, row, n) = UnitsOf(c, row, m) ELSE n = m

\* A client that follows the pages to the end has seen each row once that stayed as
\* it was: every row of a pinned version in any order, and with a cursor every row
\* whose packages no version changed meanwhile, although pages came from different
\* versions.  Rows that changed may be missing or seen twice.
CrawlsMissNothing ==
    crawl.pc = "done" =>
        \A row \in Rows(crawl, Requested(crawl)) :
            StaysAsItWas(crawl, row) =>
                Cardinality({i \in DOMAIN crawl.seen : crawl.seen[i] = row}) = 1

=============================================================================
