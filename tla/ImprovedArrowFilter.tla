------------------------ MODULE ImprovedArrowFilter ------------------------
(***************************************************************************)
(* ImprovedArrowBloomFilter: ArrowBloomFilter with three changes.  The     *)
(* block is chosen by the top bits of the hash with one shift, membership  *)
(* tests for missing bits, and a vectorised containsBatch clears only the  *)
(* byte that its scalar tail fills.                                        *)
(***************************************************************************)
EXTENDS FilterCalls, SlidingMasks, FilterSizing

CONSTANTS MaskTables,  \* tables the static constructor may have built
          RowCounts,   \* values of rows_to_insert
          Lanes        \* hashes per vector: 4

\* With no block bits, or with all bits of the hash block bits, the shift
\* that selects the block would not be by 1 to HashBits - 1 places.
ASSUME ImprovedAssumption ==
  /\ \A table \in MaskTables : WellFormedTable(table)
  /\ RowCounts \subseteq Nat
  /\ BlockShiftDefined
  /\ Hashes \subseteq 0 .. 2^HashBits - 1
  /\ Lanes \in Nat \ {0}
  /\ ByteBits = 2 * Lanes

VARIABLES masks,           \* the static table, built before main starts
          log_num_blocks,
          impl_mode,       \* "scalar" or "avx2"
          bitvector        \* the blocks

vars == <<callVars, masks, log_num_blocks, impl_mode, bitvector>>
fixed == <<masks, log_num_blocks, impl_mode>>

num_blocks  == 2^log_num_blocks
block_shift == HashBits - log_num_blocks

\* ImprovedArrowBloomFilter(rows_to_insert, mode), compiled with AVX2.
Init ==
  /\ CallsInit
  /\ masks \in MaskTables
  /\ log_num_blocks \in {LogNumBlocks(rows) : rows \in RowCounts}
  /\ impl_mode \in {"scalar", "avx2"}
  /\ bitvector = [b \in 0 .. num_blocks - 1 |-> {}]

-----------------------------------------------------------------------------
(* From a hash to its block and its bits.                                  *)

num_rotation(h) == (h \div numberMasks) % WordBits

mask(h) == rotate_left(LookupMask(masks, h % numberMasks), num_rotation(h))

\* Mutant: the lanes do not rotate.
mask_avx2_unrotated(h) == LookupMask(masks, h % numberMasks)

mask_avx2(h) ==
  LET m == LookupMask(masks, h % numberMasks)
      r == num_rotation(h)
  IN  ShiftLeft(m, r) \cup ShiftRight(m, WordBits - r)

block_id(h) == h \div 2^block_shift

containsImpl(h) == mask(h) \ bitvector[block_id(h)] = {}

\* One lane of the vector comparison with zero.
containsLane(h) == mask_avx2(h) \ bitvector[block_id(h)] = {}

\* Mutant: the block is overwritten.
insertImpl_overwrites(h) ==
  bitvector' = [bitvector EXCEPT ![block_id(h)] = mask(h)]

insertImpl(h) ==
  bitvector' = [bitvector EXCEPT ![block_id(h)] = @ \cup mask(h)]

-----------------------------------------------------------------------------
Insert(h) ==
  /\ ScalarInsert(h)
  /\ insertImpl(h)
  /\ UNCHANGED fixed

StartInsertBatch(hashes) ==
  /\ InsertBatchCall(hashes)
  /\ UNCHANGED <<fixed, bitvector>>

\* An iteration of insertBatchImpl_avx2.
InsertVector ==
  /\ impl_mode = "avx2"
  /\ i < loop_count(Lanes)
  /\ Inserting(i + Lanes)
  /\ bitvector' = [b \in 0 .. num_blocks - 1 |->
       bitvector[b] \cup
         UNION {mask_avx2(hash(k)) :
                  k \in {l \in i .. i + Lanes - 1 : block_id(hash(l)) = b}}]
  /\ UNCHANGED fixed

\* An iteration of the scalar loop of insertBatchImpl.
InsertTail ==
  /\ impl_mode = "avx2" => i >= loop_count(Lanes)
  /\ i < count
  /\ Inserting(i + 1)
  /\ insertImpl(hash(i))
  /\ UNCHANGED fixed

EndInsertBatch ==
  /\ InsertBatchReturn
  /\ UNCHANGED <<fixed, bitvector>>

\* Only the scalar implementation clears all bytes of the result up front.
StartContainsBatch(hashes) ==
  /\ ContainsBatchCall(hashes,
       IF impl_mode = "avx2" THEN result ELSE Cleared(Len(hashes)))
  /\ UNCHANGED <<fixed, bitvector>>

\* An iteration of containsBatchImpl_avx2 overwrites one byte of answers.
ProbeVectors ==
  /\ impl_mode = "avx2"
  /\ i < loop_count(2 * Lanes)
  /\ LET packed == {l \in 0 .. 2 * Lanes - 1 : containsLane(hash(i + l))}
     IN  Probing(i + 2 * Lanes, [result EXCEPT ![i \div ByteBits] = packed])
  /\ UNCHANGED <<fixed, bitvector>>

\* Mutant: the tail's byte is not cleared.
ClearedForTail_not == result

\* The bytes as the next iteration of the scalar loop finds them: after the
\* vectors, and only if elements are left, the tail's byte is cleared.
ClearedForTail ==
  IF impl_mode = "avx2" /\ i = loop_count(2 * Lanes)
  THEN [result EXCEPT ![i \div ByteBits] = {}]
  ELSE result

\* An iteration of the scalar loop of containsBatchImpl.
ProbeTail ==
  /\ impl_mode = "avx2" => i >= loop_count(2 * Lanes)
  /\ i < count
  /\ Probing(i + 1, IF containsImpl(hash(i))
                    THEN setBit(ClearedForTail, i)
                    ELSE ClearedForTail)
  /\ UNCHANGED <<fixed, bitvector>>

\* Mutant: the byte after the vectors is cleared even when there is no tail.
EndContainsBatch_clears ==
  /\ call = "probing"
  /\ i = count
  /\ call' = "answered"
  /\ result' = IF impl_mode = "avx2" /\ count = loop_count(2 * Lanes)
               THEN [result EXCEPT ![i \div ByteBits] = {}]
               ELSE result
  /\ UNCHANGED <<hash_array, i, members, fixed, bitvector>>

EndContainsBatch ==
  /\ ContainsBatchReturn
  /\ UNCHANGED <<fixed, bitvector>>

\* The steps of a call that has started.
Step ==
  \/ InsertVector
  \/ InsertTail
  \/ EndInsertBatch
  \/ ProbeVectors
  \/ ProbeTail
  \/ EndContainsBatch

Next ==
  \/ \E h \in Hashes : Insert(h)
  \/ \E hashes \in Batches : StartInsertBatch(hashes)
  \/ \E hashes \in Batches : StartContainsBatch(hashes)
  \/ Step

\* A call that has started runs on; nothing obliges the caller to make one.
Spec == Init /\ [][Next]_vars /\ WF_vars(Step)

-----------------------------------------------------------------------------
(* Properties *)

\* Every variable keeps its type: the shifted hash is always a block index,
\* so no write leaves the bit table.
TypeOK ==
  /\ CallsTypeOK
  /\ masks \subseteq TableBits
  /\ log_num_blocks \in 1 .. HashBits - 1
  /\ impl_mode \in {"scalar", "avx2"}
  /\ bitvector \in [0 .. num_blocks - 1 -> Word]

\* The bits set are those of the hashes inserted so far and no others, in
\* whatever way and order these were inserted.
BitsOfInserted ==
  bitvector = [b \in 0 .. num_blocks - 1 |->
                 UNION {mask(h) : h \in {g \in Inserted : block_id(g) = b}}]

\* When containsBatch returns, bit k of the buffer is what contains would
\* answer for element k, and the bits past the last element are clear: the
\* bytes that are not cleared first are all overwritten, so no answer of an
\* earlier call survives in them.
AnswersExact ==
  call = "answered" =>
    \A b \in 0 .. result_bytes(count) - 1 :
      result[b] = {k \in 0 .. ByteBits - 1 :
                     /\ ByteBits * b + k < count
                     /\ containsImpl(hash(ByteBits * b + k))}

\* The filter implements the approximate set of BloomFilterSpec.
Abs == INSTANCE BloomFilterSpec WITH
         positives <- {h \in Hashes : containsImpl(h)},
         answers   <- Answers

RefinesSpec == Abs!Init /\ [][Abs!Next]_(Abs!vars)
=============================================================================
