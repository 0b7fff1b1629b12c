-------------------------------- MODULE MCReads ---------------------------------
(* Catalog and ContentHandler, one or the other, on small instances. *)
EXTENDS Catalog, ContentHandler

CONSTANTS jar, pom, directory, release, b1, b2

\* Packages 1, 2 and 4 are rebuilds of versions 1.9 and 1.10 of one artifact, not in
\* the order of their keys; 3 is of another artifact.
Packages == 1 .. 4
UploadSet == {{}, {1, 3}, {2, 3, 4}, {1, 2}, 1 .. 4}
CreationTimes == <<2, 1, 3, 4>>
Groups == <<1, 1, 1, 1>>
Artifacts == <<1, 1, 2, 1>>
Empty == <<1, 0>>
DashPart == <<1, 1>>
DotPart == <<1, 2>>
Rhlw == <<1, 9>>
One == << <<0, 1>> >>
OneNine == <<One, << <<0, 9>> >> >>
OneTen == <<One, << <<0, 10>> >> >>
Rebuild(n) == <<Rhlw, <<0, n>> >>
VersionStrings ==
    <<OneNine \o <<Rebuild(1)>>, OneNine \o <<Rebuild(2)>>, OneTen \o << <<Rhlw>> >>, OneTen>>
Places == <<3, 4, 2, 1>>
LetterParts == {Rhlw}
Term1 == <<2, 1>>
SearchSet == {<<Empty>>, <<Term1, Empty, Term1>>}
ContainingPairs == {<<1, Term1>>}
OrderingSet ==
    {<<>>, <<[name |-> "last_updated", desc |-> TRUE]>>,
     <<[name |-> "group_id", desc |-> TRUE], [name |-> "group_id", desc |-> FALSE]>>}

FilesBelow == directory :> {jar, pom} @@ release :> {pom}

FileContents == jar :> {b1, b2} @@ pom :> {b1}

Asked ==
    {<<jar, "file">>, <<directory, "slash">>, <<directory, "bare">>, <<release, "bare">>,
     <<directory, "page">>}

Settings == [remote |-> FALSE, indexable |-> TRUE, supported |-> TRUE, bloom |-> FALSE,
             pinned |-> 0, steady |-> TRUE, growing |-> FALSE, versions |-> 4]
Distributions ==
    {Settings,
     [Settings EXCEPT !.steady = FALSE, !.versions = 3],
     [Settings EXCEPT !.steady = FALSE, !.indexable = FALSE, !.bloom = TRUE, !.versions = 3],
     [Settings EXCEPT !.supported = FALSE, !.bloom = TRUE, !.growing = TRUE],
     [Settings EXCEPT !.pinned = 2, !.bloom = TRUE],
     [Settings EXCEPT !.remote = TRUE, !.indexable = FALSE, !.bloom = TRUE]}

VARIABLE scenario

Vars == <<scenario, catalogVars, contentVars>>

Init ==
    /\ CatalogInit /\ ContentInit
    /\ scenario \in {"catalog", "content"}
    /\ scenario = "catalog" => distribution = Settings /\ url = <<jar, "file">>

Browse == scenario = "catalog" /\ UNCHANGED <<scenario, contentVars>>

Fetch == scenario = "content" /\ UNCHANGED <<scenario, catalogVars>>

Next ==
    \/ Browse /\ \E units \in Uploads : Draft(units)
    \/ Browse /\ Complete
    \/ Browse /\ Abort
    \/ Browse /\ \E c \in Crawls, pinned \in (1 .. MaxDrafts) \cup {Latest} : Begin(c, pinned)
    \/ Browse /\ ByCursor
    \/ Browse /\ ByOffset
    \/ Fetch /\ \E files \in FileSets : UpdateFilter(files)
    \/ Fetch /\ DropModify
    \/ Fetch /\ \E files \in FileSets : Modify(files)
    \/ Fetch /\ \E f \in File, bytes \in Bytes : PullThrough(f, bytes)
    \/ Fetch /\ DeleteVersion
    \/ Fetch /\ \E v \in (1 .. Len(versions)) \cup {None} : SwitchView(v)
    \/ Fetch /\ \E q \in Requests : GetIndexed(q)
    \/ Fetch /\ \E q \in Requests, might \in BOOLEAN : GetFromDatabase(q, might)

Spec == Init /\ [][Next]_Vars

=============================================================================
