------------------------ MODULE MCBlockedBloomFilter ------------------------
(***************************************************************************)
(* BlockedBloomFilter with hashes of 6 bits and blocks of 8; the block is  *)
(* in the top one or two bits of the hash.                                 *)
(***************************************************************************)
EXTENDS BlockedBloomFilter, TLC

\* The first three share a block, the last one has the last block; the masks
\* of 0 and 1 together cover that of 9.
MCMasks == 0 :> {0, 2} @@ 1 :> {1, 2} @@ 9 :> {0, 1} @@ 63 :> {3, 7}
MCHashes == DOMAIN MCMasks

\* The smallest filter, for which the number of rows may be negative, and one
\* of four blocks.
MCRowCounts == {-1, 3}

\* Both sides of a byte's boundary.
MCBatches == UNION {[1 .. n -> MCHashes] : n \in 0 .. 2}
               \cup UNION {[1 .. n -> {0, 63}] : n \in {3, 5}}
=============================================================================
