---------------------- MODULE ArrowBloomFilter_proofs ----------------------
(***************************************************************************)
(* Proofs about ArrowBloomFilter, for every set of hashes, every batch     *)
(* length, number of lanes and size of words, tables and filters.          *)
(***************************************************************************)
EXTENDS ArrowBloomFilter, FilterCalls_proofs

-----------------------------------------------------------------------------
(* The mask and the block of a hash *)

LEMMA Constants ==
  /\ bitsPerMask \in Nat /\ bitsPerMask >= 1 /\ bitsPerMask <= WordBits
  /\ numberMasks \in Nat /\ numberMasks >= 1
  /\ Lanes \in Nat /\ Lanes >= 1 /\ ByteBits = 2 * Lanes
  /\ WordBits >= 1
  BY WidthAssumption, MaskAssumption, ArrowAssumption DEF bitsPerMask

LEMMA LookupIsWord ==
  ASSUME NEW table, NEW k PROVE LookupMask(table, k) \in Word
<1>1. 0 .. bitsPerMask - 1 \subseteq 0 .. WordBits - 1
  BY Constants, CallConstants
<1> QED
  BY <1>1 DEF LookupMask, Word

LEMMA RotationInWord ==
  ASSUME NEW h \in Nat PROVE num_rotation(h) \in 0 .. WordBits - 1
<1>1. h \div numberMasks \in Nat
  BY Constants
<1> QED
  BY <1>1, Constants, CallConstants DEF num_rotation

\* The scalar code and the vector lanes compute the same mask, a word.
LEMMA LanesAgree ==
  ASSUME NEW h \in Nat
  PROVE  mask_avx2(h) = mask(h) /\ mask(h) \in Word
  BY RotationInWord, LookupIsWord, RotateByShifts DEF mask, mask_avx2

\* The block index is in range.
LEMMA BlockInRange ==
  ASSUME NEW h \in Nat, num_blocks \in Nat \ {0}
  PROVE  block_id(h) \in 0 .. num_blocks - 1
<1>1. numberMasks * WordBits \in Nat /\ numberMasks * WordBits >= 1
  BY Constants, CallConstants
<1>2. h \div (numberMasks * WordBits) \in Nat
  BY <1>1
<1> QED
  BY <1>2 DEF block_id

\* The filter as functions from hashes to bits and blocks, and the hashes that
\* it finds.
Masks     == [h \in Hashes |-> mask(h)]
Blocks    == [h \in Hashes |-> block_id(h)]
Positives == {h \in Hashes : containsImpl(h)}

LEMMA MaskTypes ==
  ASSUME num_blocks \in Nat \ {0}
  PROVE  /\ Masks \in [Hashes -> Word]
         /\ Blocks \in [Hashes -> 0 .. num_blocks - 1]
         /\ Positives = Found(bitvector, Masks, Blocks)
         /\ \A h \in Hashes : containsLane(h) = containsImpl(h)
<1>1. \A h \in Hashes : /\ mask_avx2(h) = mask(h) /\ mask(h) \in Word
                        /\ block_id(h) \in 0 .. num_blocks - 1
  BY CallConstants, LanesAgree, BlockInRange
<1> QED
  BY <1>1 DEF Masks, Blocks, Positives, Found, containsImpl, containsLane

\* Nothing but the static table and the filter's size decides the mask and
\* the block of a hash.
LEMMA SameMasks ==
  ASSUME UNCHANGED fixed PROVE Masks' = Masks /\ Blocks' = Blocks
  BY DEF fixed, Masks, Blocks, mask, block_id, num_rotation

-----------------------------------------------------------------------------
(* The inductive invariant: besides the types and the bits, that a         *)
(* vectorised loop is always at the start of a vector, and what the buffer *)
(* holds between the iterations of containsBatch.                          *)

Aligned ==
  impl_mode = "avx2" =>
    /\ call = "inserting" /\ i < loop_count(Lanes) =>
         \E q \in Nat : i = Lanes * q
    /\ call = "probing" /\ i < loop_count(2 * Lanes) =>
         \E q \in Nat : i = (2 * Lanes) * q

AnswersSoFar ==
  /\ call = "answered" => i = count
  /\ call \in {"probing", "answered"} =>
       Replied(hash_array, Positives, i, result_bytes(count), result)

IndInv == TypeOK /\ BitsOfInserted /\ Aligned /\ AnswersSoFar

\* The facts that every step's proof starts from.
LEMMA Basics ==
  ASSUME TypeOK
  PROVE  /\ CallsTypeOK
         /\ num_blocks \in Nat \ {0}
         /\ bitvector \in [0 .. num_blocks - 1 -> Word]
         /\ i \in 0 .. count /\ i \in Nat /\ count \in Nat
         /\ result \in Buffers
         /\ Inserted \subseteq Hashes
  BY CountType DEF TypeOK, CallsTypeOK, Buffers

\* BitsOfInserted, in terms of the functions.
LEMMA BitsAsTable ==
  ASSUME Inserted \subseteq Hashes
  PROVE  BitsOfInserted <=>
           bitvector = TableOf(Masks, Blocks, Inserted, num_blocks)
<1>1. ASSUME NEW b
      PROVE  UNION {mask(h) : h \in {g \in Inserted : block_id(g) = b}}
               = BlockBits(Masks, Blocks, Inserted, b)
  BY DEF BlockBits, Masks, Blocks
<1> QED
  BY <1>1 DEF BitsOfInserted, TableOf

\* A step that inserts S into the table keeps the types and the bits right,
\* loses no positive, and gains none on behalf of positives.
LEMMA AddedStep ==
  ASSUME IndInv, UNCHANGED fixed, CallsTypeOK', NEW S \in SUBSET Hashes,
         Inserted' = Inserted \cup S,
         bitvector' = Added(bitvector, Masks, Blocks, S, num_blocks)
  PROVE  /\ TypeOK' /\ BitsOfInserted'
         /\ Positives \subseteq Positives' /\ S \subseteq Positives'
         /\ S \subseteq Positives => Positives' = Positives
<1>1. TypeOK /\ num_blocks' = num_blocks
  BY DEF IndInv, fixed
<1>2. /\ Masks' = Masks /\ Blocks' = Blocks
      /\ Positives = Found(bitvector, Masks, Blocks)
      /\ Positives' = Found(bitvector', Masks, Blocks)
      /\ Masks \in [Hashes -> Word] /\ Blocks \in [Hashes -> 0 .. num_blocks - 1]
  <2>1. Positives' = Found(bitvector', Masks', Blocks')
    BY DEF Positives, Found, Masks, Blocks, containsImpl
  <2> QED
    BY <1>1, <2>1, Basics, MaskTypes, SameMasks
<1>3. TypeOK'
  <2>1. bitvector' \in [0 .. num_blocks - 1 -> Word]
    BY <1>1, <1>2, Basics, AddedType
  <2> QED
    BY <1>1, <2>1 DEF TypeOK, fixed
<1>4. BitsOfInserted'
  <2>1. bitvector = TableOf(Masks, Blocks, Inserted, num_blocks)
    BY <1>1, Basics, BitsAsTable DEF IndInv
  <2>2. bitvector' = TableOf(Masks, Blocks, Inserted', num_blocks)
    BY <2>1, AddedToTable
  <2>3. \A h \in Inserted' : h \in Hashes
    BY <1>1, Basics
  <2>4. \A h : mask(h)' = mask(h) /\ block_id(h)' = block_id(h)
    BY DEF fixed, mask, block_id, num_rotation
  <2>5. \A b : UNION {mask(h)' : h \in {g \in Inserted' : block_id(g)' = b}}
                = BlockBits(Masks, Blocks, Inserted', b)
    BY <2>3, <2>4 DEF BlockBits, Masks, Blocks
  <2> QED
    BY <1>1, <2>2, <2>5 DEF BitsOfInserted, TableOf
<1>5. /\ Found(bitvector, Masks, Blocks) \subseteq Found(bitvector', Masks, Blocks)
      /\ S \subseteq Found(bitvector', Masks, Blocks)
      /\ S \subseteq Found(bitvector, Masks, Blocks) => bitvector' = bitvector
  BY <1>1, <1>2, Basics, FoundGrows
<1> QED
  BY <1>2, <1>3, <1>4, <1>5

\* A step that inserts nothing changes no answer.
LEMMA QuietStep ==
  ASSUME IndInv, UNCHANGED fixed, CallsTypeOK', Inserted' = Inserted,
         bitvector' = bitvector
  PROVE  TypeOK' /\ BitsOfInserted' /\ Positives' = Positives
<1>1. TypeOK'
  BY DEF IndInv, TypeOK, fixed
<1>2. \A h : containsImpl(h)' = containsImpl(h)
  BY DEF fixed, containsImpl, mask, block_id, num_rotation
<1>3. BitsOfInserted'
  BY DEF IndInv, BitsOfInserted, fixed, mask, block_id, num_rotation
<1> QED
  BY <1>1, <1>2, <1>3 DEF Positives

\* insertImpl inserts a single hash.
LEMMA InsertImplAdds ==
  ASSUME TypeOK, NEW h \in Hashes, insertImpl(h)
  PROVE  bitvector' = Added(bitvector, Masks, Blocks, {h}, num_blocks)
<1>1. Masks[h] = mask(h) /\ Blocks[h] = block_id(h)
  BY DEF Masks, Blocks
<1>2. /\ Blocks[h] \in 0 .. num_blocks - 1
      /\ bitvector \in [0 .. num_blocks - 1 -> Word]
      /\ num_blocks \in Int
  BY Basics, MaskTypes
<1>3. Put(bitvector, Blocks[h], Masks[h])
        = Added(bitvector, Masks, Blocks, {h}, num_blocks)
  BY <1>2, AddedOne
<1> QED
  BY <1>1, <1>3 DEF insertImpl, Put

-----------------------------------------------------------------------------
(* Every step preserves the invariant.  Grows says, of the same steps, what *)
(* they do to the answers of contains.                                      *)

Grows(S) ==
  /\ Positives \subseteq Positives'
  /\ S \subseteq Positives'
  /\ S \subseteq Positives => Positives' = Positives

LEMMA InitInv == Init => IndInv
<1> SUFFICES ASSUME Init PROVE IndInv
  OBVIOUS
<1>1. PICK rows \in RowCounts : num_blocks = NumBlocks(rows)
  BY DEF Init
<1>2. num_blocks \in Nat \ {0}
  BY <1>1, ArrowAssumption, BlocksOfRows
<1>3. CallsTypeOK /\ Inserted = {} /\ call = "idle"
  BY CallsInitially DEF Init, CallsInit
<1>4. masks \subseteq TableBits
  BY ArrowAssumption DEF Init, WellFormedTable
<1>5. TypeOK
  BY <1>2, <1>3, <1>4 DEF TypeOK, Init, Word
<1>6. BitsOfInserted
  BY <1>3 DEF BitsOfInserted, Init
<1> QED
  BY <1>3, <1>5, <1>6 DEF IndInv, Aligned, AnswersSoFar

LEMMA InsertStep ==
  ASSUME IndInv, NEW h \in Hashes, Insert(h)
  PROVE  IndInv' /\ Grows({h})
<1>1. ScalarInsert(h) /\ insertImpl(h) /\ UNCHANGED fixed /\ call' = "idle"
  BY DEF Insert, ScalarInsert
<1>2. TypeOK
  BY DEF IndInv
<1>3. CallsTypeOK' /\ Inserted' = Inserted \cup {h}
  BY <1>1, <1>2, Basics, ScalarInsertCalls
<1>4. bitvector' = Added(bitvector, Masks, Blocks, {h}, num_blocks)
  BY <1>1, <1>2, InsertImplAdds
<1>5. TypeOK' /\ BitsOfInserted' /\ Grows({h})
  BY <1>1, <1>3, <1>4, AddedStep DEF Grows
<1> QED
  BY <1>1, <1>5 DEF IndInv, Aligned, AnswersSoFar

LEMMA StartBatchStep ==
  ASSUME IndInv, NEW hashes \in Batches,
         StartInsertBatch(hashes) \/ StartContainsBatch(hashes)
  PROVE  IndInv' /\ Positives' = Positives
<1>1. /\ \/ InsertBatchCall(hashes)
         \/ ContainsBatchCall(hashes, Cleared(Len(hashes)))
      /\ UNCHANGED <<fixed, bitvector>>
      /\ hash_array' = hashes /\ i' = 0
      /\ \/ call' = "inserting"
         \/ call' = "probing" /\ result' = Cleared(Len(hashes))
  BY DEF StartInsertBatch, StartContainsBatch, InsertBatchCall, ContainsBatchCall
<1>2. CallsTypeOK' /\ Inserted' = Inserted
  BY <1>1, Basics, BatchCalls DEF IndInv
<1>3. TypeOK' /\ BitsOfInserted' /\ Positives' = Positives
  BY <1>1, <1>2, QuietStep
<1>4. Aligned'
  BY <1>1, Constants DEF Aligned
<1>5. AnswersSoFar'
  <2>1. Len(hashes) \in Nat /\ Len(hashes) <= MaxBatch
    BY CallsAssumption
  <2>2. Replied(hashes, Positives', 0, result_bytes(Len(hashes)), Cleared(Len(hashes)))
    BY <2>1, ClearedReply
  <2> QED
    BY <1>1, <2>2 DEF AnswersSoFar, count, Replied, ReplyByte, result_bytes
<1> QED
  BY <1>3, <1>4, <1>5 DEF IndInv

\* An iteration of the vectorised insertion adds the hashes of its lanes.
LEMMA InsertVectorStep ==
  ASSUME IndInv, InsertVector
  PROVE  IndInv' /\ \E S \in SUBSET Range(hash_array) : Grows(S)
<1> DEFINE lanes == i .. i + Lanes - 1
           S     == Elements(i, i + Lanes)
<1>1. /\ call = "inserting" /\ call' = "inserting" /\ impl_mode = "avx2"
      /\ i < loop_count(Lanes) /\ i' = i + Lanes /\ UNCHANGED fixed
      /\ Inserting(i + Lanes) /\ TypeOK /\ UNCHANGED hash_array
  BY DEF InsertVector, Inserting, IndInv
<1>2. PICK q \in Nat : i = Lanes * q
  BY <1>1 DEF IndInv, Aligned
<1>3. i + Lanes <= count /\ i + Lanes = Lanes * (q + 1)
  BY <1>1, <1>2, WholeVector, Basics, Constants DEF loop_count
<1>4. i + Lanes \in i .. count /\ CallsTypeOK
  BY <1>1, <1>3, Basics, Constants
<1>5. /\ CallsTypeOK' /\ Inserted' = Inserted \cup S
      /\ S \subseteq Hashes /\ S \subseteq Range(hash_array)
  BY <1>1, <1>4, InsertingCalls
<1>6. S = {hash(l) : l \in lanes}
  <2>1. lanes = i .. (i + Lanes) - 1
    BY <1>1, Basics, Constants
  <2> QED
    BY <2>1 DEF Elements
<1>7. bitvector' = Added(bitvector, Masks, Blocks, S, num_blocks)
  <2>1. \A k \in lanes : hash(k) \in Hashes /\ hash(k) \in Nat
    BY <1>5, <1>6, CallConstants
  <2>2. \A k \in lanes : mask_avx2(hash(k)) = Masks[hash(k)]
                         /\ block_id(hash(k)) = Blocks[hash(k)]
    BY <2>1, LanesAgree DEF Masks, Blocks
  <2>3. bitvector' = [b \in 0 .. num_blocks - 1 |->
          bitvector[b] \cup
            UNION {mask_avx2(hash(k)) : k \in {l \in lanes : block_id(hash(l)) = b}}]
    BY DEF InsertVector
  <2> HIDE DEF lanes
  <2>4. ASSUME NEW b
        PROVE  UNION {mask_avx2(hash(k)) : k \in {l \in lanes : block_id(hash(l)) = b}}
                 = BlockBits(Masks, Blocks, S, b)
    BY <1>6, <2>2 DEF BlockBits
  <2> QED
    BY <2>3, <2>4 DEF Added
<1> HIDE DEF S
<1>8. TypeOK' /\ BitsOfInserted' /\ Grows(S)
  BY <1>1, <1>5, <1>7, AddedStep DEF Grows
<1>9. Aligned' /\ AnswersSoFar'
  BY <1>1, <1>3 DEF Aligned, AnswersSoFar
<1> QED
  BY <1>5, <1>8, <1>9 DEF IndInv

LEMMA InsertTailStep ==
  ASSUME IndInv, InsertTail
  PROVE  IndInv' /\ \E S \in SUBSET Range(hash_array) : Grows(S)
<1>1. /\ call = "inserting" /\ call' = "inserting" /\ i' = i + 1
      /\ impl_mode = "avx2" => i >= loop_count(Lanes)
      /\ i < count /\ UNCHANGED fixed /\ insertImpl(hash(i)) /\ Inserting(i + 1)
      /\ UNCHANGED hash_array /\ TypeOK
  BY DEF InsertTail, Inserting, IndInv
<1>2. hash(i) \in Hashes /\ hash(i) \in Range(hash_array)
  BY <1>1, Basics, CountType
<1>3. Elements(i, i + 1) = {hash(i)} /\ i + 1 \in i .. count
  BY <1>1, Basics, OneElement
<1>4. CallsTypeOK' /\ Inserted' = Inserted \cup {hash(i)}
  BY <1>1, <1>3, Basics, InsertingCalls
<1>5. bitvector' = Added(bitvector, Masks, Blocks, {hash(i)}, num_blocks)
  BY <1>1, <1>2, InsertImplAdds
<1>6. TypeOK' /\ BitsOfInserted' /\ Grows({hash(i)})
  BY <1>1, <1>2, <1>4, <1>5, AddedStep DEF Grows
<1>7. Aligned' /\ AnswersSoFar'
  <2>1. impl_mode = "avx2" => ~(i + 1 < loop_count(Lanes))
    BY <1>1, Basics, Constants DEF loop_count
  <2> QED
    BY <1>1, <2>1 DEF Aligned, AnswersSoFar, fixed, loop_count, count
<1> QED
  BY <1>2, <1>6, <1>7 DEF IndInv

\* When the call returns, the filter finds all elements.
LEMMA EndInsertBatchStep ==
  ASSUME IndInv, EndInsertBatch
  PROVE  /\ IndInv' /\ Positives' = Positives
         /\ Range(hash_array) \subseteq Positives
<1>1. /\ InsertBatchReturn /\ UNCHANGED <<fixed, bitvector>> /\ TypeOK
      /\ call = "inserting" /\ i = count /\ call' = "idle"
  BY DEF EndInsertBatch, InsertBatchReturn, IndInv
<1>2. CallsTypeOK' /\ Inserted' = Inserted
  BY <1>1, Basics, InsertReturnCalls
<1>3. TypeOK' /\ BitsOfInserted' /\ Positives' = Positives
  BY <1>1, <1>2, QuietStep
<1>4. Range(hash_array) \subseteq Inserted
  BY <1>1, Basics, CountType DEF Inserted
<1>5. Inserted \subseteq Positives
  BY <1>1, Basics, BitsAsTable, MaskTypes, InsertedFound DEF IndInv
<1> QED
  BY <1>1, <1>3, <1>4, <1>5 DEF IndInv, Aligned, AnswersSoFar

\* While probing, the bytes of the reply are in the buffer.
LEMMA ReplyBytesInBuffer ==
  ASSUME TypeOK
  PROVE  /\ result_bytes(count) \in Nat
         /\ \A b \in 0 .. result_bytes(count) - 1 : b \in BufferBytes
<1>1. count \in Nat /\ count <= MaxBatch
  BY Basics, CountType
<1> QED
  BY <1>1, ReplyBytes, ReplyInBuffer

LEMMA ProbeVectorsStep ==
  ASSUME IndInv, ProbeVectors
  PROVE  IndInv' /\ Positives' = Positives
<1> DEFINE packed == {l \in 0 .. 2 * Lanes - 1 : containsLane(hash(i + l))}
           after  == Write(result, i \div ByteBits, packed)
           next   == i + 2 * Lanes
<1>1. /\ call = "probing" /\ call' = "probing" /\ impl_mode = "avx2"
      /\ i < loop_count(2 * Lanes) /\ i' = next /\ result' = after
      /\ Probing(next, after)
      /\ UNCHANGED <<fixed, bitvector, hash_array>> /\ TypeOK
  BY DEF ProbeVectors, Probing, Write, IndInv
<1>2. ByteBits \in Nat /\ ByteBits >= 1 /\ ByteBits = 2 * Lanes
  BY Constants, CallConstants
<1>3. PICK q \in Nat : i = ByteBits * q
  BY <1>1, <1>2 DEF IndInv, Aligned
<1>4. /\ next <= count /\ next = ByteBits * (q + 1) /\ next = ByteBits * q + ByteBits
      /\ i \in Nat /\ count \in Nat /\ next \in Nat /\ next \in i .. count
      /\ ByteBits * q <= next
  <2>1. i \in Nat /\ count \in Nat /\ ByteBits * q < count - (count % ByteBits)
    BY <1>1, <1>2, <1>3, Basics DEF loop_count
  <2>2. ByteBits * q + ByteBits <= count /\ ByteBits * q + ByteBits = ByteBits * (q + 1)
    BY <1>2, <2>1, WholeVector
  <2> QED
    BY <1>2, <1>3, <2>1, <2>2
<1>5. i \div ByteBits = q
  BY <1>2, <1>3
<1>6. after \in Buffers
  BY <1>1, <1>2, Basics, ReplyTypes
<1>7. CallsTypeOK' /\ Inserted' = Inserted
  BY <1>1, <1>4, <1>6, Basics, ProbingCalls DEF Buffers
<1>8. TypeOK' /\ BitsOfInserted' /\ Positives' = Positives
  BY <1>1, <1>7, QuietStep
<1>9. packed = Pack(hash_array, Positives, ByteBits * q, next)
  <2>1. \A k \in 0 .. ByteBits - 1 : i + k \in 0 .. count - 1
    BY <1>2, <1>3, <1>4
  <2>2. \A k \in 0 .. ByteBits - 1 :
          /\ hash(i + k) = hash_array[ByteBits * q + k + 1]
          /\ hash(i + k) \in Hashes
    BY <1>1, <1>3, <2>1, Basics, CountType DEF hash
  <2>3. \A k \in 0 .. ByteBits - 1 :
          containsLane(hash(i + k)) <=> hash_array[ByteBits * q + k + 1] \in Positives
    BY <1>1, <2>2, Basics, MaskTypes DEF Positives
  <2>4. next - ByteBits * q - 1 = ByteBits - 1
    BY <1>2, <1>4
  <2> QED
    BY <1>2, <2>3, <2>4 DEF Pack
<1> HIDE DEF next, packed
<1>10. Replied(hash_array, Positives, next, result_bytes(count), after)
  <2>1. /\ Replied(hash_array, Positives, ByteBits * q, result_bytes(count), result)
        /\ result \in Buffers
    BY <1>1, <1>3, Basics DEF IndInv, AnswersSoFar
  <2>2. /\ result_bytes(count) \in Nat
        /\ \A b \in 0 .. result_bytes(count) - 1 : b \in BufferBytes
    BY <1>1, ReplyBytesInBuffer
  <2>3. \A b \in 0 .. result_bytes(count) - 1 :
          b # q => result[b] = ReplyByte(hash_array, Positives, b, ByteBits * q)
    BY <2>1 DEF Replied
  <2>4. next <= ByteBits * q + ByteBits
    BY <1>2, <1>4
  <2> QED
    BY <1>4, <1>5, <1>9, <2>1, <2>2, <2>3, <2>4, WholeByteReply
<1>11. Aligned'
  BY <1>1, <1>2, <1>4 DEF Aligned
<1>12. AnswersSoFar'
  BY <1>1, <1>8, <1>10 DEF AnswersSoFar, count, result_bytes
<1> QED
  BY <1>8, <1>11, <1>12 DEF IndInv

LEMMA ProbeTailStep ==
  ASSUME IndInv, ProbeTail
  PROVE  IndInv' /\ Positives' = Positives
<1> DEFINE after == IF hash_array[i + 1] \in Positives
                    THEN setBit(result, i) ELSE result
<1>1. /\ call = "probing" /\ call' = "probing" /\ i' = i + 1 /\ i < count
      /\ impl_mode = "avx2" => i >= loop_count(2 * Lanes)
      /\ UNCHANGED <<fixed, bitvector, hash_array>> /\ TypeOK
  BY DEF ProbeTail, Probing, IndInv
<1>2. i \in Nat /\ count \in Nat /\ i + 1 \in i .. count /\ result \in Buffers
  BY <1>1, Basics
<1>3. result' = after /\ Probing(i + 1, after)
  <2>1. hash_array[i + 1] \in Hashes /\ hash(i) = hash_array[i + 1]
    BY <1>1, <1>2, Basics, CountType DEF hash
  <2> QED
    BY <2>1 DEF ProbeTail, Probing, Positives
<1>4. after \in Buffers
  BY <1>2, ReplyTypes
<1>5. CallsTypeOK' /\ Inserted' = Inserted
  BY <1>1, <1>2, <1>3, <1>4, Basics, ProbingCalls DEF Buffers
<1>6. TypeOK' /\ BitsOfInserted' /\ Positives' = Positives
  BY <1>1, <1>5, QuietStep
<1>7. Aligned'
  <2>1. impl_mode = "avx2" => ~(i + 1 < loop_count(2 * Lanes))
    BY <1>1, <1>2, Constants DEF loop_count
  <2> QED
    BY <1>1, <2>1 DEF Aligned, fixed, loop_count, count
<1>8. Replied(hash_array, Positives, i + 1, result_bytes(count), after)
  BY <1>1, <1>2, ReplyBytesInBuffer, BitReply DEF IndInv, AnswersSoFar
<1> HIDE DEF after
<1>9. AnswersSoFar'
  BY <1>1, <1>3, <1>6, <1>8 DEF AnswersSoFar, count, result_bytes
<1> QED
  BY <1>6, <1>7, <1>9 DEF IndInv

LEMMA QuietNextStep ==
  ASSUME IndInv, EndContainsBatch \/ UNCHANGED vars
  PROVE  IndInv' /\ Positives' = Positives
<1>1. /\ ContainsBatchReturn \/ UNCHANGED callVars
      /\ UNCHANGED <<fixed, bitvector, hash_array, i, result>>
      /\ call' = call \/ (call = "probing" /\ i = count /\ call' = "answered")
      /\ TypeOK
  BY DEF EndContainsBatch, ContainsBatchReturn, vars, callVars, fixed, IndInv
<1>2. CallsTypeOK' /\ Inserted' = Inserted
  BY <1>1, Basics, QuietCalls
<1>3. TypeOK' /\ BitsOfInserted' /\ Positives' = Positives
  BY <1>1, <1>2, QuietStep
<1>4. Aligned'
  BY <1>1 DEF IndInv, Aligned, fixed, loop_count, count
<1>5. AnswersSoFar'
  BY <1>1, <1>3 DEF IndInv, AnswersSoFar, count, result_bytes
<1> QED
  BY <1>3, <1>4, <1>5 DEF IndInv

LEMMA NextInv == IndInv /\ [Next]_vars => IndInv'
<1> SUFFICES ASSUME IndInv, [Next]_vars PROVE IndInv'
  OBVIOUS
<1> QED
  BY InsertStep, StartBatchStep, InsertVectorStep, InsertTailStep,
     EndInsertBatchStep, ProbeVectorsStep, ProbeTailStep, QuietNextStep
     DEF Next, Step

LEMMA Invariance == Spec => []IndInv
  BY InitInv, NextInv, PTL DEF Spec

-----------------------------------------------------------------------------
(* The theorems *)

\* Every variable keeps its type; in particular every block index is inside
\* the table and every vector inside the batch.
THEOREM TypeCorrect == Spec => []TypeOK
<1>1. IndInv => TypeOK
  BY DEF IndInv
<1> QED
  BY <1>1, Invariance, PTL

\* The filter's bits are a function of the set of hashes inserted, for scalar,
\* batch and vectorised insertion alike.
THEOREM BitsCorrect == Spec => []BitsOfInserted
<1>1. IndInv => BitsOfInserted
  BY DEF IndInv
<1> QED
  BY <1>1, Invariance, PTL

\* A hash whose insertion has returned is found by scalar and vector tests.
THEOREM NeverFalseNegative == Spec => []NoFalseNegatives
<1>1. IndInv => NoFalseNegatives
  <2> SUFFICES ASSUME IndInv, NEW h \in members
               PROVE  containsImpl(h) /\ containsLane(h)
    BY DEF NoFalseNegatives
  <2>1. TypeOK /\ h \in Inserted /\ Inserted \subseteq Hashes
    BY Basics DEF IndInv, Inserted
  <2>2. Inserted \subseteq Positives
    BY <2>1, Basics, BitsAsTable, MaskTypes, InsertedFound DEF IndInv
  <2> QED
    BY <2>1, <2>2, Basics, MaskTypes DEF Positives
<1> QED
  BY <1>1, Invariance, PTL

\* What containsBatch leaves in the buffer is what contains would answer, bit
\* by bit and with clear padding, whatever the buffer held before.
THEOREM AnswersAreExact == Spec => []AnswersExact
<1>1. IndInv => AnswersExact
  <2> SUFFICES ASSUME IndInv, call = "answered",
                      NEW b \in 0 .. result_bytes(count) - 1
               PROVE  result[b] = {k \in 0 .. ByteBits - 1 :
                                     /\ ByteBits * b + k < count
                                     /\ containsImpl(hash(ByteBits * b + k))}
    BY DEF AnswersExact
  <2>1. result[b] = ReplyByte(hash_array, Positives, b, count)
    BY DEF IndInv, AnswersSoFar, Replied
  <2>2. \A k \in 0 .. ByteBits - 1 :
          ByteBits * b + k < count =>
            (hash_array[ByteBits * b + k + 1] \in Positives
               <=> containsImpl(hash(ByteBits * b + k)))
    <3>1. TypeOK /\ b \in Nat /\ ByteBits * b \in Nat
      BY CallConstants, Basics, ReplyBytesInBuffer, BytesAreOrdered DEF IndInv
    <3>2. \A k \in 0 .. ByteBits - 1 :
            ByteBits * b + k < count => ByteBits * b + k \in 0 .. count - 1
      BY <3>1, CallConstants, Basics
    <3> QED
      BY <3>1, <3>2, Basics, CountType DEF Positives, hash
  <2> QED
    BY <2>1, <2>2 DEF ReplyByte
<1> QED
  BY <1>1, Invariance, PTL

\* No call writes a byte of the caller's buffer that is not part of a reply.
THEOREM WritesOnlyReply == Spec => OnlyReplyBytesWritten
<1>1. ASSUME IndInv, [Next]_vars
      PROVE  \A b \in BufferBytes :
               result'[b] # result[b] =>
                 call' = "probing" /\ b < result_bytes(Len(hash_array'))
  <2>1. i \in Nat /\ count \in Nat /\ result \in Buffers
    BY <1>1, Basics DEF IndInv
  <2>2. CASE ProbeVectors
    <3> DEFINE packed == {l \in 0 .. 2 * Lanes - 1 : containsLane(hash(i + l))}
    <3>1. Probing(i + 2 * Lanes, Write(result, i \div ByteBits, packed))
      BY <2>2 DEF ProbeVectors, Write
    <3>2. i < count
      BY <2>1, <2>2, Constants DEF ProbeVectors, loop_count
    <3> QED
      BY <2>1, <3>1, <3>2, WritesWithin, OnlyReplyWritten
  <2>3. CASE ProbeTail
    BY <2>1, <2>3, WritesWithin, OnlyReplyWritten DEF ProbeTail
  <2>4. ASSUME NEW hashes \in Batches, StartContainsBatch(hashes)
        PROVE  ContainsBatchCall(hashes, Cleared(Len(hashes)))
               /\ Within(result, Cleared(Len(hashes)), Len(hashes))
    BY <2>1, <2>4, CallsAssumption, WritesWithin DEF StartContainsBatch
  <2> QED
    BY <1>1, <2>2, <2>3, <2>4, OnlyReplyWritten
       DEF Next, Step, Insert, StartInsertBatch, InsertVector, InsertTail,
           EndInsertBatch, EndContainsBatch, vars
<1> QED
  BY <1>1, Invariance, PTL DEF Spec, OnlyReplyBytesWritten

-----------------------------------------------------------------------------
(* The filter implements BloomFilterSpec: a scalar insertion and the start *)
(* and return of a batch are the same steps of the abstract filter, an     *)
(* iteration of an insertion loop is InsertSome, and an iteration of a     *)
(* probing loop is invisible.                                              *)

\* No mask is empty, so that a new filter finds nothing.
LEMMA MaskNotEmpty ==
  ASSUME NEW h \in Nat, WellFormedTable(masks)
  PROVE  mask(h) # {}
<1> DEFINE k == h % numberMasks
           w == ByteBits
<1>1. /\ k \in 0 .. numberMasks - 1 /\ k \in Nat
      /\ w \in Nat /\ w >= 1 /\ bitsPerMask \in Nat
      /\ bitsPerMask - 1 = WordBits - w /\ WordBits \in Nat
  BY Constants, CallConstants DEF bitsPerMask
<1>2. WindowBefore(masks, k + bitsPerMask) # {}
  <2>1. Cardinality(WindowBefore(masks, k + bitsPerMask)) # 0
    BY <1>1, MaskAssumption DEF WellFormedTable
  <2> QED
    BY <2>1, FS_EmptySet
<1> HIDE DEF k, w
<1>3. PICK p \in masks : p \in k .. k + bitsPerMask - 1
  BY <1>1, <1>2 DEF WindowBefore
<1> DEFINE b == p - k
<1>4. /\ k \div w \in Nat /\ k % w \in 0 .. w - 1 /\ k = w * (k \div w) + (k % w)
      /\ w * (k \div w) \in Nat
  BY <1>1, Division, BytesAreOrdered
<1>5. /\ b \in 0 .. bitsPerMask - 1 /\ b + (k % w) < WordBits
      /\ w * (k \div w) + b + (k % w) = p
  BY <1>1, <1>3, <1>4
<1>6. b \in LookupMask(masks, k)
  BY <1>3, <1>5 DEF LookupMask, w
<1>7. num_rotation(h) \in 0 .. WordBits - 1
  BY RotationInWord
<1> QED
  BY <1>6, <1>7, LookupIsWord, RotateByShifts DEF mask, k

LEMMA AbsInit == Init => Abs!Init
<1> SUFFICES ASSUME Init PROVE Abs!Init
  OBVIOUS
<1>1. IndInv /\ Inserted = {} /\ call = "idle" /\ hash_array = <<>> /\ members = {}
  BY InitInv, CallsInitially DEF Init, CallsInit
<1>2. Positives = {}
  <2> SUFFICES ASSUME NEW h \in Hashes PROVE ~containsImpl(h)
    BY DEF Positives
  <2>1. /\ h \in Nat /\ block_id(h) \in 0 .. num_blocks - 1
        /\ bitvector[block_id(h)] = {}
    BY <1>1, CallConstants, Basics, BlockInRange DEF IndInv, Init
  <2>2. mask(h) # {}
    BY <2>1, MaskNotEmpty, ArrowAssumption DEF Init
  <2> QED
    BY <2>1, <2>2 DEF containsImpl
<1> QED
  BY <1>1, <1>2 DEF Abs!Init, Positives, Answers

\* Every step of the filter is one of BloomFilterSpec or a stutter.
LEMMA AbsInsert ==
  ASSUME IndInv, NEW h \in Hashes, Insert(h)
  PROVE  Abs!Insert(h)
<1>1. ScalarInsert(h) /\ Grows({h}) /\ Answers' = <<>>
  BY InsertStep, NoAnswers DEF Insert
<1> QED
  BY <1>1 DEF Abs!Insert, Abs!Ready, Abs!Grow, Grows, Positives,
     ScalarInsert, Ready

LEMMA AbsStartBatch ==
  ASSUME IndInv, NEW hashes \in Batches
  PROVE  /\ StartInsertBatch(hashes) => Abs!InsertBatchCall
         /\ StartContainsBatch(hashes) => Abs!ContainsBatchCall
<1>1. hashes \in Seq(Hashes)
  BY CallsAssumption
<1>2. ASSUME StartInsertBatch(hashes) PROVE Abs!InsertBatchCall
  <2>1. InsertBatchCall(hashes) /\ Positives' = Positives /\ Answers' = <<>>
    BY <1>2, StartBatchStep, NoAnswers DEF StartInsertBatch
  <2> QED
    BY <1>1, <2>1 DEF Abs!InsertBatchCall, Abs!Ready, Positives,
       InsertBatchCall, Ready
<1>3. ASSUME StartContainsBatch(hashes) PROVE Abs!ContainsBatchCall
  <2>1. /\ ContainsBatchCall(hashes, Cleared(Len(hashes)))
        /\ Positives' = Positives /\ Answers' = <<>>
    BY <1>3, StartBatchStep, NoAnswers DEF StartContainsBatch
  <2> QED
    BY <1>1, <2>1 DEF Abs!ContainsBatchCall, Abs!Ready, Positives,
       ContainsBatchCall, Ready
<1> QED
  BY <1>2, <1>3

LEMMA AbsInsertSome ==
  ASSUME IndInv, InsertVector \/ InsertTail
  PROVE  Abs!InsertSome
<1>1. \E next : Inserting(next)
  BY DEF InsertVector, InsertTail
<1>2. /\ call = "inserting" /\ UNCHANGED <<call, hash_array, members>>
      /\ Answers' = Answers
  BY <1>1, NoAnswers DEF Inserting
<1>3. PICK S \in SUBSET Range(hash_array) : Grows(S)
  BY InsertVectorStep, InsertTailStep
<1> QED
  BY <1>2, <1>3 DEF Abs!InsertSome, Abs!Grow, Grows, Positives,
     Abs!Range, Range

LEMMA AbsReturn ==
  ASSUME IndInv
  PROVE  /\ EndInsertBatch => Abs!InsertBatchReturn
         /\ EndContainsBatch => Abs!ContainsBatchReturn
<1>1. ASSUME EndInsertBatch PROVE Abs!InsertBatchReturn
  <2>1. /\ InsertBatchReturn /\ Positives' = Positives
        /\ Range(hash_array) \subseteq Positives /\ Answers' = Answers
    BY <1>1, EndInsertBatchStep, NoAnswers DEF EndInsertBatch, InsertBatchReturn
  <2> QED
    BY <2>1 DEF Abs!InsertBatchReturn, Positives, InsertBatchReturn,
       Abs!Range, Range
<1>2. ASSUME EndContainsBatch PROVE Abs!ContainsBatchReturn
  <2>1. /\ ContainsBatchReturn /\ Positives' = Positives
        /\ CallsTypeOK /\ call = "probing" /\ i = count
    BY <1>2, QuietNextStep, Basics
       DEF EndContainsBatch, ContainsBatchReturn, IndInv
  <2>2. Answers' = [k \in 1 .. Len(hash_array) |-> hash_array[k] \in Positives]
    BY <2>1, AnswersOfReply DEF IndInv, AnswersSoFar
  <2> QED
    BY <2>1, <2>2 DEF Abs!ContainsBatchReturn, Positives, ContainsBatchReturn
<1> QED
  BY <1>1, <1>2

LEMMA AbsStutter ==
  ASSUME IndInv, ProbeVectors \/ ProbeTail \/ UNCHANGED vars
  PROVE  UNCHANGED Abs!vars
<1>1. Positives' = Positives
  BY ProbeVectorsStep, ProbeTailStep, QuietNextStep
<1>2. CASE ProbeVectors \/ ProbeTail
  <2>1. \E next, buffer : Probing(next, buffer)
    BY <1>2 DEF ProbeVectors, ProbeTail
  <2>2. UNCHANGED <<call, hash_array, members>> /\ Answers' = Answers
    BY <2>1, NoAnswers DEF Probing
  <2> QED
    BY <1>1, <2>2 DEF Abs!vars, Positives
<1>3. CASE UNCHANGED vars
  BY <1>1, <1>3 DEF vars, callVars, Abs!vars, Positives, Answers, count,
     packed_result_bit
<1> QED
  BY <1>2, <1>3

\* The filter implements the approximate set of BloomFilterSpec, so that
\* whatever follows from the interface's promise holds of this filter.
THEOREM ImplementsInterface == Spec => RefinesSpec
<1>1. IndInv /\ [Next]_vars => [Abs!Next]_(Abs!vars)
  <2> SUFFICES ASSUME IndInv, [Next]_vars
               PROVE  Abs!Next \/ UNCHANGED Abs!vars
    OBVIOUS
  <2> QED
    BY AbsInsert, AbsStartBatch, AbsInsertSome, AbsReturn, AbsStutter
       DEF Next, Step, Abs!Next
<1> QED
  BY <1>1, AbsInit, Invariance, PTL DEF Spec, RefinesSpec
=============================================================================
