---------------------- MODULE ModifiedArrowBloomFilter ----------------------
(***************************************************************************)
(* ModifiedArrowBloomFilter: the low bits of a hash select one of          *)
(* numberMasks independent masks, which is not rotated; the top bits       *)
(* select the block.  Insertion is scalar in both modes; containsBatch     *)
(* never clears the result but assembles every byte before writing it.     *)
(***************************************************************************)
EXTENDS FilterCalls, FilterSizing

CONSTANTS MaskTables,   \* tables the static constructor may have built
          numberMasks,  \* 2048 in the code
          RowCounts,    \* values of rows_to_insert
          Lanes         \* hashes per vector: 4

\* The constructor gives every mask bitsPerMask bits, so none is empty
\* (property EntriesDistinct of module ModifiedBloomFilterMasks).
ASSUME ModifiedAssumption ==
  /\ numberMasks \in Nat \ {0}
  /\ MaskTables \subseteq [0 .. numberMasks - 1 -> Word \ {{}}]
  /\ RowCounts \subseteq Nat
  /\ BlockShiftDefined
  /\ Hashes \subseteq 0 .. 2^HashBits - 1
  /\ Lanes \in Nat \ {0}
  /\ ByteBits = 2 * Lanes

VARIABLES masks,           \* the static table, built before main starts
          log_num_blocks,
          impl_mode,       \* "scalar" or "avx2"
          bitvector        \* the blocks

vars == <<callVars, masks, log_num_blocks, impl_mode, bitvector>>
fixed == <<masks, log_num_blocks, impl_mode>>

num_blocks  == 2^log_num_blocks
block_shift == HashBits - log_num_blocks

\* ModifiedArrowBloomFilter(rows_to_insert, mode), compiled with AVX2.
Init ==
  /\ CallsInit
  /\ masks \in MaskTables
  /\ log_num_blocks \in {LogNumBlocks(rows) : rows \in RowCounts}
  /\ impl_mode \in {"scalar", "avx2"}
  /\ bitvector = [b \in 0 .. num_blocks - 1 |-> {}]

-----------------------------------------------------------------------------
\* Scalar code and vector lanes load the same entry and shift alike.
mask(h)     == masks[h % numberMasks]
block_id(h) == h \div 2^block_shift

containsImpl(h) == mask(h) \ bitvector[block_id(h)] = {}

\* Mutant: the block is overwritten.
insertImpl_overwrites(h) ==
  bitvector' = [bitvector EXCEPT ![block_id(h)] = mask(h)]

insertImpl(h) ==
  bitvector' = [bitvector EXCEPT ![block_id(h)] = @ \cup mask(h)]

-----------------------------------------------------------------------------
Insert(h) ==
  /\ ScalarInsert(h)
  /\ insertImpl(h)
  /\ UNCHANGED fixed

StartInsertBatch(hashes) ==
  /\ InsertBatchCall(hashes)
  /\ UNCHANGED <<fixed, bitvector>>

InsertNext ==
  /\ i < count
  /\ Inserting(i + 1)
  /\ insertImpl(hash(i))
  /\ UNCHANGED fixed

EndInsertBatch ==
  /\ InsertBatchReturn
  /\ UNCHANGED <<fixed, bitvector>>

StartContainsBatch(hashes) ==
  /\ ContainsBatchCall(hashes, result)
  /\ UNCHANGED <<fixed, bitvector>>

\* Mutant: answers are shifted by their index in the array, not in the byte.
Packed_absolute(begin, end) == {k \in begin .. end - 1 : containsImpl(hash(k))}

\* The answers for elements begin .. end - 1, assembled from bit 0 up.
Packed(begin, end) == {k \in 0 .. end - begin - 1 : containsImpl(hash(begin + k))}

\* Mutant: the answers are or-ed to what the byte held.
ProbeUpTo_accumulates(next) ==
  /\ Probing(next, [result EXCEPT ![i \div ByteBits] = @ \cup Packed(i, next)])
  /\ UNCHANGED <<fixed, bitvector>>

\* Write the byte of answers for elements i .. next - 1.
ProbeUpTo(next) ==
  /\ Probing(next, [result EXCEPT ![i \div ByteBits] = Packed(i, next)])
  /\ UNCHANGED <<fixed, bitvector>>

\* An iteration of containsBatchImpl_avx2: two vectors.
ProbeVectors ==
  /\ impl_mode = "avx2"
  /\ i < loop_count(2 * Lanes)
  /\ ProbeUpTo(i + 2 * Lanes)

\* Mutant: the tail's byte is written even when there is no tail.
ProbeTail_always ==
  /\ impl_mode = "avx2"
  /\ i = loop_count(2 * Lanes)
  /\ ProbeUpTo(count)

\* The tail after the vectors, and the write of its only byte.
ProbeTail ==
  /\ impl_mode = "avx2"
  /\ i = loop_count(2 * Lanes)
  /\ i < count
  /\ ProbeUpTo(count)

\* An iteration over the output bytes of the scalar implementation.
ProbeByte ==
  /\ impl_mode = "scalar"
  /\ i < count
  /\ ProbeUpTo(IF i + ByteBits < count THEN i + ByteBits ELSE count)

EndContainsBatch ==
  /\ ContainsBatchReturn
  /\ UNCHANGED <<fixed, bitvector>>

\* The steps of a call that has started.
Step ==
  \/ InsertNext
  \/ EndInsertBatch
  \/ ProbeVectors
  \/ ProbeTail
  \/ ProbeByte
  \/ EndContainsBatch

Next ==
  \/ \E h \in Hashes : Insert(h)
  \/ \E hashes \in Batches : StartInsertBatch(hashes)
  \/ \E hashes \in Batches : StartContainsBatch(hashes)
  \/ Step

\* A call that has started runs on; nothing obliges the caller to make one.
Spec == Init /\ [][Next]_vars /\ WF_vars(Step)

-----------------------------------------------------------------------------
(* Properties *)

\* Every variable keeps its type: the shifted hash is always a block index,
\* and the byte the tail assembles never holds more than ByteBits bits.
TypeOK ==
  /\ CallsTypeOK
  /\ masks \in [0 .. numberMasks - 1 -> Word]
  /\ log_num_blocks \in 1 .. HashBits - 1
  /\ impl_mode \in {"scalar", "avx2"}
  /\ bitvector \in [0 .. num_blocks - 1 -> Word]

\* The bits set are those of the hashes inserted so far and no others, in
\* whatever way and order these were inserted.
BitsOfInserted ==
  bitvector = [b \in 0 .. num_blocks - 1 |->
                 UNION {mask(h) : h \in {g \in Inserted : block_id(g) = b}}]

\* When containsBatch returns, bit k of the buffer is what contains would
\* answer for element k, and the bits past the last element are clear,
\* although no byte of the buffer was ever cleared.
AnswersExact ==
  call = "answered" =>
    \A b \in 0 .. result_bytes(count) - 1 :
      result[b] = {k \in 0 .. ByteBits - 1 :
                     /\ ByteBits * b + k < count
                     /\ containsImpl(hash(ByteBits * b + k))}

\* The filter implements the approximate set of BloomFilterSpec.
Abs == INSTANCE BloomFilterSpec WITH
         positives <- {h \in Hashes : containsImpl(h)},
         answers   <- Answers

RefinesSpec == Abs!Init /\ [][Abs!Next]_(Abs!vars)
=============================================================================
