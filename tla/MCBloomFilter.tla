----------------------------- MODULE MCBloomFilter -----------------------------
(* BloomFilter on small instances. *)
EXTENDS BloomFilter, TLC

\* Paths are interchangeable.
Symmetry == Permutations(Path)

Env(labels, events) == [labels |-> labels, events |-> events]

\* Labels of 1 and 3 let three paths fill and grow a filter; 8 and 9 never fill.
Sound ==
    {use \in [labels : {{1, 3}, {8, 9}}, events : SUBSET {"remove", "abort", "unlabel", "delete"}] :
        SoundUse(use)}

Skipping == {Env({8}, {"skip"})}

=============================================================================
