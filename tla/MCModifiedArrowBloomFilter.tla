--------------------- MODULE MCModifiedArrowBloomFilter ---------------------
(***************************************************************************)
(* ModifiedArrowBloomFilter on words of 4 bits and bytes of 4, two lanes,  *)
(* four masks of two bits.  A hash is mask id + 4 * (bits that no function *)
(* uses), with the block in its top one or two bits.                       *)
(***************************************************************************)
EXTENDS ModifiedArrowBloomFilter

\* Two of the tables the constructor can build.
MCMaskTables ==
  {[k \in 0 .. 3 |-> <<{0, 1}, {0, 2}, {1, 3}, {2, 3}>>[k + 1]],
   [k \in 0 .. 3 |-> <<{2, 3}, {0, 3}, {0, 1}, {1, 2}>>[k + 1]]}

\* Masks 0 and 1 in the first block, mask 2 in the last.
MCHashes == {0, 1 + 4, 2 + 4 * 7}

\* Batches that end on both sides of each loop's bound: none, a tail, a vector
\* and a tail, a vector pair, a vector pair and a tail.
MCBatches == {<<>>} \cup UNION {[1 .. n -> {0, 1 + 4}] : n \in {1, 3, 4, 5}}
=============================================================================
