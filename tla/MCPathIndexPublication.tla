------------------------ MODULE MCPathIndexPublication ------------------------
(***************************************************************************)
(* One directory: a jar, and the generated page that also answers for the  *)
(* directory.  The jar and the page each have two contents, so a version   *)
(* can replace either; an on-demand jar and a second content unit at the   *)
(* jar's path make the checks fail.                                        *)
(***************************************************************************)
EXTENDS PathIndexPublication, TLC

CONSTANTS jar, page, directory, a1, a2

Paths == {jar, page}
Pages == {page}
Aliases == [p \in Pages |-> directory]
RequiredPages == [p \in Paths |-> Pages]
Hashes == {jar, page, directory}
Artifacts == {a1, a2}

Jar(a) == [path |-> jar, artifact |-> a, page |-> FALSE]
IndexPage(a) == [path |-> page, artifact |-> a, page |-> TRUE]

\* Replacements of the jar; directories with and without their page.
JarUnits == {Jar(a1), Jar(a2), IndexPage(a1)}

\* The jar may also be known but not downloaded.
RemoteUnits == {Jar(a1), Jar(Remote), IndexPage(a1)}

\* The same with a second page, for the chains.
AllUnits == {Jar(a1), IndexPage(a1), IndexPage(a2)}

\* Replacements of the page and of its directory alias.
PageUnits == {IndexPage(a1), IndexPage(a2)}

TaskUnits == JarUnits \cup RemoteUnits

\* Modifies and compactions only: long chains without kills and deletions.
ChainNext ==
    \/ SetLabel
    \/ \E v \in Version, units \in SUBSET Unit : StartModify(v, units)
    \/ StartCompact
    \/ Finalize \/ Update \/ Retry \/ CompleteModify \/ Compact \/ SaveInfo

ChainSpec == Init /\ [][ChainNext]_vars

Symmetry == Permutations(Profile)

=============================================================================
