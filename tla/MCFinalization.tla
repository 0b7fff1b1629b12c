----------------------------- MODULE MCFinalization -----------------------------
(* Finalization on small instances. *)
EXTENDS Finalization

\* A release with its POM, a snapshot, an artifact whose group has one segment, and
\* two pairs that share the prefix com/acme.
Units ==
    { <<<<"com", "acme">>, "lib", "1", "pom">>, <<<<"com", "acme">>, "lib", "1", "jar">>,
      <<<<"com", "acme">>, "lib", "2-SNAPSHOT", "pom">>,
      <<<<"com", "acme", "ext">>, "app", "1", "jar">>,
      <<<<"junit">>, "junit", "4", "pom">> }

Names ==
    {"com", "acme", "ext", "lib", "app", "junit", "1", "4", "2-SNAPSHOT", "pom", "jar",
     "maven-metadata.xml", ".meta", "prefixes.txt"}

Snapshots == {"2-SNAPSHOT"}

Env(units, events) == [units |-> units, events |-> events]

Sound ==
    { Env(Units, {"metadata", "packages", "others"}), Env(Units, {"damage"}),
      Env(Units, {"upload"}), Env(Units, {"others"}),
      Env({u \in Units : Gav(u)[3] # "1" \/ u[4] = "jar"}, {"pull", "metadata"}) }

=============================================================================
