-------------------------- MODULE ArrowBloomFilter --------------------------
(***************************************************************************)
(* ArrowBloomFilter: a filter of num_blocks words.  A hash selects, from   *)
(* its low bits up, a mask of the shared table, a rotation of that mask    *)
(* and a block; inserting it sets the rotated mask's bits in the block.    *)
(*                                                                         *)
(* In avx2 mode the batch calls handle Lanes hashes per vector and leave   *)
(* the rest of the array to a scalar loop; every other call is scalar in   *)
(* both modes.                                                             *)
(***************************************************************************)
EXTENDS FilterCalls, SlidingMasks, FilterSizing

CONSTANTS MaskTables,  \* tables the static constructor may have built
          RowCounts,   \* values of rows_to_insert
          Lanes        \* hashes per vector: 4

ASSUME ArrowAssumption ==
  /\ \A table \in MaskTables : WellFormedTable(table)
  /\ RowCounts \subseteq Nat
  /\ Lanes \in Nat \ {0}
  /\ ByteBits = 2 * Lanes

VARIABLES masks,       \* the static table, built before main starts
          num_blocks,
          impl_mode,   \* "scalar" or "avx2"
          bitvector    \* the blocks

vars == <<callVars, masks, num_blocks, impl_mode, bitvector>>
fixed == <<masks, num_blocks, impl_mode>>

\* ArrowBloomFilter(rows_to_insert, mode), compiled with AVX2.
Init ==
  /\ CallsInit
  /\ masks \in MaskTables
  /\ num_blocks \in {NumBlocks(rows) : rows \in RowCounts}
  /\ impl_mode \in {"scalar", "avx2"}
  /\ bitvector = [b \in 0 .. num_blocks - 1 |-> {}]

-----------------------------------------------------------------------------
(* From a hash to its block and its bits.  numberMasks, WordBits and       *)
(* num_blocks are powers of two: & (n - 1) is % n, >> log2(n) is \div n.   *)

num_rotation(h) == (h \div numberMasks) % WordBits

mask(h) == rotate_left(LookupMask(masks, h % numberMasks), num_rotation(h))

block_id(h) == (h \div (numberMasks * WordBits)) % num_blocks

\* Mutant: the lanes shift instead of rotating.
mask_avx2_shifted(h) == ShiftLeft(LookupMask(masks, h % numberMasks), num_rotation(h))

\* One lane of mask_avx2: the rotation is the or of two shifts.
mask_avx2(h) ==
  LET m == LookupMask(masks, h % numberMasks)
      r == num_rotation(h)
  IN  ShiftLeft(m, r) \cup ShiftRight(m, WordBits - r)

containsImpl(h) == bitvector[block_id(h)] \cap mask(h) = mask(h)

\* One lane of the vector comparison.
containsLane(h) == bitvector[block_id(h)] \cap mask_avx2(h) = mask_avx2(h)

insertImpl(h) ==
  bitvector' = [bitvector EXCEPT ![block_id(h)] = @ \cup mask(h)]

-----------------------------------------------------------------------------
Insert(h) ==
  /\ ScalarInsert(h)
  /\ insertImpl(h)
  /\ UNCHANGED fixed

StartInsertBatch(hashes) ==
  /\ InsertBatchCall(hashes)
  /\ UNCHANGED <<fixed, bitvector>>

\* Mutant: all blocks are read before any is written, so that of two lanes
\* with the same block the later overwrites the earlier.
InsertVector_lost_update ==
  /\ impl_mode = "avx2"
  /\ i < loop_count(Lanes)
  /\ Inserting(i + Lanes)
  /\ bitvector' = [b \in 0 .. num_blocks - 1 |->
       bitvector[b] \cup
         UNION {mask_avx2(hash(k)) :
                  k \in {l \in i .. i + Lanes - 1 :
                           /\ block_id(hash(l)) = b
                           /\ \A n \in l + 1 .. i + Lanes - 1 : block_id(hash(n)) # b}}]
  /\ UNCHANGED fixed

\* An iteration of insertBatchImpl_avx2.  The |= of the lanes execute one
\* after the other, so lanes that share a block accumulate.
InsertVector ==
  /\ impl_mode = "avx2"
  /\ i < loop_count(Lanes)
  /\ Inserting(i + Lanes)
  /\ bitvector' = [b \in 0 .. num_blocks - 1 |->
       bitvector[b] \cup
         UNION {mask_avx2(hash(k)) :
                  k \in {l \in i .. i + Lanes - 1 : block_id(hash(l)) = b}}]
  /\ UNCHANGED fixed

\* Mutant: the scalar loop does not advance.
InsertTail_does_not_advance ==
  /\ impl_mode = "avx2" => i >= loop_count(Lanes)
  /\ i < count
  /\ Inserting(i)
  /\ insertImpl(hash(i))
  /\ UNCHANGED fixed

\* An iteration of the scalar loop of insertBatchImpl.
InsertTail ==
  /\ impl_mode = "avx2" => i >= loop_count(Lanes)
  /\ i < count
  /\ Inserting(i + 1)
  /\ insertImpl(hash(i))
  /\ UNCHANGED fixed

EndInsertBatch ==
  /\ InsertBatchReturn
  /\ UNCHANGED <<fixed, bitvector>>

\* Mutant: the result is not cleared.
StartContainsBatch_uncleared(hashes) ==
  /\ ContainsBatchCall(hashes, result)
  /\ UNCHANGED <<fixed, bitvector>>

StartContainsBatch(hashes) ==
  /\ ContainsBatchCall(hashes, Cleared(Len(hashes)))
  /\ UNCHANGED <<fixed, bitvector>>

\* An iteration of containsBatchImpl_avx2: two vectors, one byte of answers.
ProbeVectors ==
  /\ impl_mode = "avx2"
  /\ i < loop_count(2 * Lanes)
  /\ LET packed == {l \in 0 .. 2 * Lanes - 1 : containsLane(hash(i + l))}
     IN  Probing(i + 2 * Lanes, [result EXCEPT ![i \div ByteBits] = packed])
  /\ UNCHANGED <<fixed, bitvector>>

\* An iteration of the scalar loop of containsBatchImpl.
ProbeTail ==
  /\ impl_mode = "avx2" => i >= loop_count(2 * Lanes)
  /\ i < count
  /\ Probing(i + 1, IF containsImpl(hash(i)) THEN setBit(result, i) ELSE result)
  /\ UNCHANGED <<fixed, bitvector>>

EndContainsBatch ==
  /\ ContainsBatchReturn
  /\ UNCHANGED <<fixed, bitvector>>

\* The steps of a call that has started.
Step ==
  \/ InsertVector
  \/ InsertTail
  \/ EndInsertBatch
  \/ ProbeVectors
  \/ ProbeTail
  \/ EndContainsBatch

Next ==
  \/ \E h \in Hashes : Insert(h)
  \/ \E hashes \in Batches : StartInsertBatch(hashes)
  \/ \E hashes \in Batches : StartContainsBatch(hashes)
  \/ Step

\* A call that has started runs on; nothing obliges the caller to make one.
Spec == Init /\ [][Next]_vars /\ WF_vars(Step)

-----------------------------------------------------------------------------
(* Properties *)

\* Every variable keeps its type: in particular no block index leaves the
\* bit table and no rotation leaves the 64-bit word.
TypeOK ==
  /\ CallsTypeOK
  /\ masks \subseteq TableBits
  /\ num_blocks \in Nat \ {0}
  /\ impl_mode \in {"scalar", "avx2"}
  /\ bitvector \in [0 .. num_blocks - 1 -> Word]

\* No false negatives (test.cpp, UT_scalarInsert and UT_batchInsert): a hash
\* whose insertion has returned is found, by the scalar test and by a vector
\* lane, in every later state.
NoFalseNegatives ==
  \A h \in members : containsImpl(h) /\ containsLane(h)

\* The bits set are those of the hashes inserted so far and no others: they
\* depend neither on the order nor on the number of insertions, nor on
\* whether these were scalar, batch or vectorised (README.md, "Scalar and
\* batch insertion produce equivalent results").
BitsOfInserted ==
  bitvector = [b \in 0 .. num_blocks - 1 |->
                 UNION {mask(h) : h \in {g \in Inserted : block_id(g) = b}}]

\* When containsBatch returns, bit k of the buffer is what contains would
\* answer for element k (test.cpp, UT_batchContains), whatever the buffer
\* held before, and the bits past the last element are clear, which the
\* benchmark's checksum over whole bytes needs.
AnswersExact ==
  call = "answered" =>
    \A b \in 0 .. result_bytes(count) - 1 :
      result[b] = {k \in 0 .. ByteBits - 1 :
                     /\ ByteBits * b + k < count
                     /\ containsImpl(hash(ByteBits * b + k))}

\* The filter implements the approximate set of BloomFilterSpec.
Abs == INSTANCE BloomFilterSpec WITH
         positives <- {h \in Hashes : containsImpl(h)},
         answers   <- Answers

RefinesSpec == Abs!Init /\ [][Abs!Next]_(Abs!vars)
=============================================================================
