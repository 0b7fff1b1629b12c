----------------------------- MODULE MCIndexServing -----------------------------
(* IndexServing on a small instance. *)
EXTENDS IndexServing

\* Version 2 adds a delta to version 1.  Compacted, version 1 fills the whole cache
\* directory, and version 2 is one segment.
SegmentSets ==
    [k \in Key |-> CASE k[2] = "d" -> {<<v, "d">> : v \in 1 .. k[1]}
                     [] k[2] = "c" -> {<<k[1], "c", i>> : i \in 1 .. IF k[1] = 1 THEN 3 ELSE 1}]

Asked == {{Live}, {Live, 1}}

=============================================================================
