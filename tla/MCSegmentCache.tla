----------------------------- MODULE MCSegmentCache -----------------------------
(* SegmentCache on small instances. *)
EXTENDS SegmentCache

\* A base and two deltas; the base takes two units.
Sizes == [s \in Segment |-> IF s = 1 THEN 2 ELSE 1]

\* Versions of one repository share the base; another repository has a delta.
Manifests == {<<1, 2>>, <<1, 3>>, <<3>>}

=============================================================================
