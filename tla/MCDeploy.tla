-------------------------------- MODULE MCDeploy --------------------------------
(* Deploy on a small instance. *)
EXTENDS Deploy, TLC

CONSTANTS pom, snapshot, metadata, jar, xml

\* A release with its POM and a file, the POM of a snapshot, the metadata of an
\* artifact, and an .xml file.
Files == {pom, jar, snapshot, metadata, xml}
Poms == {pom, snapshot}
Snapshots == {snapshot}
ReleasePoms == [f \in {pom, jar, snapshot} |-> IF f = jar THEN pom ELSE f]
MetadataFiles == {metadata, xml}
UnversionedFiles == {metadata}

\* Without and with the orphan cleanup.
Events == {{"crash"}, {"remove"}, {"crash", "remove", "cleanup"}}

\* What is deployed while the cleanup runs.
CleanupFiles == {pom, jar, xml}

ScenarioNext ==
    \/ \E r \in Request, repo \in Repository, bytes \in Bytes,
           path \in IF "cleanup" \in env THEN CleanupFiles ELSE File :
              Begin(r, repo, path, bytes)
    \/ \E r \in Request : Create(r) \/ Task(r) \/ Crash(r)
    \/ \E repo \in Repository : \E unit \in latest[repo] : Remove(repo, unit)
    \/ Cleanup

ScenarioSpec == Init /\ [][ScenarioNext]_vars

Symmetry == Permutations(Repository) \cup Permutations(Request) \cup Permutations(Bytes)

=============================================================================
