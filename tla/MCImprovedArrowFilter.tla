----------------------- MODULE MCImprovedArrowFilter -----------------------
(***************************************************************************)
(* ImprovedArrowBloomFilter on words of 8 bits and bytes of 4, two lanes,  *)
(* four masks.  A hash is mask id + 4 * rotation + 32 * block (of four).   *)
(***************************************************************************)
EXTENDS ImprovedArrowFilter

\* Two of the tables the constructor can build.
MCMaskTables == {{0, 2, 5, 7}, {1, 3, 4, 6}}

\* No rotation; a rotation by five in the same block; the last block.
MCHashes == {0, 3 + 4 * 5, 1 + 4 * 7 + 32 * 3}

\* Batches that end on both sides of each loop's bound: none, a tail, a vector
\* and a tail, a vector pair, a vector pair and a tail.  The longer ones start
\* with different hashes, whose lanes share a block.
MCBatches ==
  {<<>>} \cup UNION {[1 .. n -> {0, 3 + 4 * 5}] : n \in {1, 3}}
    \cup UNION {{hashes \in [1 .. n -> {0, 3 + 4 * 5}] : hashes[1] < hashes[2]} :
                 n \in {4, 5}}
=============================================================================
