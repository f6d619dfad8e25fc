------------------------- MODULE BlockedBloomFilter -------------------------
(***************************************************************************)
(* BlockedBloomFilter: the top bits of a hash select a block, and          *)
(* rehashing it selects num_hashes bits of the block (module BlockedMask). *)
(* There is one, scalar, implementation.                                   *)
(***************************************************************************)
EXTENDS FilterCalls, FilterSizing

CONSTANTS BlockMask,  \* BlockMask[h] is what mask(h) returns
          num_hashes, \* bits in a mask: 4
          RowCounts   \* values of rows_to_insert, a signed integer

\* The constructor's size in bits; the product must be representable.
blocked_num_bits(rows) ==
  IF rows * bitsPerKey > min_num_bits THEN rows * bitsPerKey ELSE min_num_bits

LogBlocks(rows) == ceil_log2(blocked_num_bits(rows)) - log_bits_block

ASSUME BlockedAssumption ==
  /\ num_hashes \in Nat \ {0}
  /\ BlockMask \in [Hashes -> Word]
  /\ \A h \in Hashes : Cardinality(BlockMask[h]) = num_hashes
  /\ RowCounts \subseteq Int
  /\ \A rows \in RowCounts : blocked_num_bits(rows) < 2^(HashBits - 1)
  /\ BlockShiftDefined
  /\ Hashes \subseteq 0 .. 2^HashBits - 1

VARIABLES log_num_blocks,
          bitvector        \* the blocks

vars == <<callVars, log_num_blocks, bitvector>>
fixed == <<log_num_blocks>>

num_blocks == 2^log_num_blocks

\* BlockedBloomFilter(rows_to_insert)
Init ==
  /\ CallsInit
  /\ log_num_blocks \in {LogBlocks(rows) : rows \in RowCounts}
  /\ bitvector = [b \in 0 .. num_blocks - 1 |-> {}]

-----------------------------------------------------------------------------
block_id(h) == h \div 2^(HashBits - log_num_blocks)

containsImpl(h) == bitvector[block_id(h)] \cap BlockMask[h] = BlockMask[h]

insertImpl(h) ==
  bitvector' = [bitvector EXCEPT ![block_id(h)] = @ \cup BlockMask[h]]

-----------------------------------------------------------------------------
Insert(h) ==
  /\ ScalarInsert(h)
  /\ insertImpl(h)
  /\ UNCHANGED fixed

StartInsertBatch(hashes) ==
  /\ InsertBatchCall(hashes)
  /\ UNCHANGED <<fixed, bitvector>>

\* Mutant: the loop advances by two.
InsertNext_skips ==
  /\ i < count
  /\ Inserting(i + 2)
  /\ insertImpl(hash(i))
  /\ UNCHANGED fixed

\* An iteration of insertBatchImpl.
InsertNext ==
  /\ i < count
  /\ Inserting(i + 1)
  /\ insertImpl(hash(i))
  /\ UNCHANGED fixed

EndInsertBatch ==
  /\ InsertBatchReturn
  /\ UNCHANGED <<fixed, bitvector>>

\* Mutant: the result is not cleared.
StartContainsBatch_uncleared(hashes) ==
  /\ ContainsBatchCall(hashes, result)
  /\ UNCHANGED <<fixed, bitvector>>

StartContainsBatch(hashes) ==
  /\ ContainsBatchCall(hashes, Cleared(Len(hashes)))
  /\ UNCHANGED <<fixed, bitvector>>

\* An iteration of containsBatchImpl.
ProbeNext ==
  /\ i < count
  /\ Probing(i + 1, IF containsImpl(hash(i)) THEN setBit(result, i) ELSE result)
  /\ UNCHANGED <<fixed, bitvector>>

EndContainsBatch ==
  /\ ContainsBatchReturn
  /\ UNCHANGED <<fixed, bitvector>>

\* The steps of a call that has started.
Step ==
  \/ InsertNext
  \/ EndInsertBatch
  \/ ProbeNext
  \/ EndContainsBatch

Next ==
  \/ \E h \in Hashes : Insert(h)
  \/ \E hashes \in Batches : StartInsertBatch(hashes)
  \/ \E hashes \in Batches : StartContainsBatch(hashes)
  \/ Step

\* A call that has started runs on; nothing obliges the caller to make one.
Spec == Init /\ [][Next]_vars /\ WF_vars(Step)

-----------------------------------------------------------------------------
(* Properties *)

\* Every variable keeps its type: the shifted hash is always a block index.
TypeOK ==
  /\ CallsTypeOK
  /\ log_num_blocks \in 1 .. HashBits - 1
  /\ bitvector \in [0 .. num_blocks - 1 -> Word]

\* When containsBatch returns, bit k of the buffer is what contains would
\* answer for element k, and the bits past the last element are clear,
\* whatever the buffer held before.
AnswersExact ==
  call = "answered" =>
    \A b \in 0 .. result_bytes(count) - 1 :
      result[b] = {k \in 0 .. ByteBits - 1 :
                     /\ ByteBits * b + k < count
                     /\ containsImpl(hash(ByteBits * b + k))}

\* The filter implements the approximate set of BloomFilterSpec.
Abs == INSTANCE BloomFilterSpec WITH
         positives <- {h \in Hashes : containsImpl(h)},
         answers   <- Answers

RefinesSpec == Abs!Init /\ [][Abs!Next]_(Abs!vars)
=============================================================================
