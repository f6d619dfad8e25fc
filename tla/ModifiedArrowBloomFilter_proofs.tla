------------------ MODULE ModifiedArrowBloomFilter_proofs ------------------
(***************************************************************************)
(* Proofs about ModifiedArrowBloomFilter, for every set of hashes, every   *)
(* batch length, number of lanes and size of words, tables and filters.    *)
(***************************************************************************)
EXTENDS ModifiedArrowBloomFilter, FilterCalls_proofs

-----------------------------------------------------------------------------
(* The mask and the block of a hash *)

LEMMA Constants ==
  /\ numberMasks \in Nat /\ numberMasks >= 1
  /\ Lanes \in Nat /\ Lanes >= 1 /\ ByteBits = 2 * Lanes
  /\ HashBits \in Nat
  BY SizingAssumption, ModifiedAssumption

\* Every hash selects an entry of the table.
LEMMA IndexInTable ==
  ASSUME NEW h \in Hashes PROVE h % numberMasks \in 0 .. numberMasks - 1
  BY Constants, CallConstants

\* The block index is in range.
LEMMA BlockInRange ==
  ASSUME NEW h \in Hashes, log_num_blocks \in 1 .. HashBits - 1
  PROVE  block_id(h) \in 0 .. num_blocks - 1
<1>1. log_num_blocks \in 0 .. HashBits
      /\ h \in 0 .. 2^HashBits - 1
  BY Constants, ModifiedAssumption
<1>2. h \div 2^(HashBits - log_num_blocks) \in 0 .. 2^log_num_blocks - 1
  BY <1>1, Constants, TopBits
<1> QED
  BY <1>2 DEF block_id, block_shift, num_blocks

\* The filter as functions from hashes to bits and blocks, and the hashes that
\* it finds.
Masks     == [h \in Hashes |-> mask(h)]
Blocks    == [h \in Hashes |-> block_id(h)]
Positives == {h \in Hashes : containsImpl(h)}

LEMMA MaskTypes ==
  ASSUME log_num_blocks \in 1 .. HashBits - 1,
         masks \in [0 .. numberMasks - 1 -> Word]
  PROVE  /\ Masks \in [Hashes -> Word]
         /\ Blocks \in [Hashes -> 0 .. num_blocks - 1]
         /\ Positives = Found(bitvector, Masks, Blocks)
<1>1. \A h \in Hashes : mask(h) \in Word /\ block_id(h) \in 0 .. num_blocks - 1
  BY IndexInTable, BlockInRange DEF mask
<1> QED
  BY <1>1 DEF Masks, Blocks, Positives, Found, containsImpl

\* Nothing but the static table and the filter's size decides the mask and
\* the block of a hash.
LEMMA SameMasks ==
  ASSUME UNCHANGED fixed PROVE Masks' = Masks /\ Blocks' = Blocks
  BY DEF fixed, Masks, Blocks, mask, block_id, block_shift

-----------------------------------------------------------------------------
(* The inductive invariant: besides the types and the bits, that a loop of *)
(* containsBatch that has elements left is at the start of a byte, and     *)
(* that the bytes before it are those of the reply.                        *)

Aligned ==
  call = "probing" /\ i < count => \E q \in Nat : i = ByteBits * q

AnswersSoFar ==
  /\ call = "answered" => i = count
  /\ call \in {"probing", "answered"} =>
       Replied(hash_array, Positives, i, result_bytes(i), result)

IndInv == TypeOK /\ BitsOfInserted /\ Aligned /\ AnswersSoFar

\* The facts that every step's proof starts from.
LEMMA Basics ==
  ASSUME TypeOK
  PROVE  /\ CallsTypeOK
         /\ log_num_blocks \in 1 .. HashBits - 1
         /\ masks \in [0 .. numberMasks - 1 -> Word]
         /\ num_blocks \in Nat \ {0}
         /\ bitvector \in [0 .. num_blocks - 1 -> Word]
         /\ i \in 0 .. count /\ i \in Nat /\ count \in Nat
         /\ result \in Buffers
         /\ Inserted \subseteq Hashes
<1>1. log_num_blocks \in 1 .. HashBits - 1 /\ log_num_blocks \in Nat
  BY Constants DEF TypeOK
<1>2. num_blocks \in Nat \ {0}
  <2>1. 2^log_num_blocks \in Nat /\ 2^log_num_blocks >= 1
    BY <1>1, PowerOfTwo
  <2> QED
    BY <2>1 DEF num_blocks
<1> QED
  BY <1>1, <1>2, CountType DEF TypeOK, CallsTypeOK, Buffers

\* BitsOfInserted, in terms of the functions.
LEMMA BitsAsTable ==
  ASSUME Inserted \subseteq Hashes
  PROVE  BitsOfInserted <=>
           bitvector = TableOf(Masks, Blocks, Inserted, num_blocks)
<1>1. ASSUME NEW b
      PROVE  UNION {mask(h) : h \in {g \in Inserted : block_id(g) = b}}
               = BlockBits(Masks, Blocks, Inserted, b)
  BY DEF BlockBits, Masks, Blocks
<1> QED
  BY <1>1 DEF BitsOfInserted, TableOf

\* A step that inserts S into the table keeps the types and the bits right,
\* loses no positive, and gains none on behalf of positives.
LEMMA AddedStep ==
  ASSUME IndInv, UNCHANGED fixed, CallsTypeOK', NEW S \in SUBSET Hashes,
         Inserted' = Inserted \cup S,
         bitvector' = Added(bitvector, Masks, Blocks, S, num_blocks)
  PROVE  /\ TypeOK' /\ BitsOfInserted'
         /\ Positives \subseteq Positives' /\ S \subseteq Positives'
         /\ S \subseteq Positives => Positives' = Positives
<1>1. TypeOK /\ num_blocks' = num_blocks
  BY DEF IndInv, fixed, num_blocks
<1>2. /\ Masks' = Masks /\ Blocks' = Blocks
      /\ Positives = Found(bitvector, Masks, Blocks)
      /\ Positives' = Found(bitvector', Masks, Blocks)
      /\ Masks \in [Hashes -> Word] /\ Blocks \in [Hashes -> 0 .. num_blocks - 1]
  <2>1. Positives' = Found(bitvector', Masks', Blocks')
    BY DEF Positives, Found, Masks, Blocks, containsImpl
  <2> QED
    BY <1>1, <2>1, Basics, MaskTypes, SameMasks
<1>3. TypeOK'
  <2>1. bitvector' \in [0 .. num_blocks - 1 -> Word]
    BY <1>1, <1>2, Basics, AddedType
  <2> QED
    BY <1>1, <2>1 DEF TypeOK, fixed
<1>4. BitsOfInserted'
  <2>1. bitvector = TableOf(Masks, Blocks, Inserted, num_blocks)
    BY <1>1, Basics, BitsAsTable DEF IndInv
  <2>2. bitvector' = TableOf(Masks, Blocks, Inserted', num_blocks)
    BY <2>1, AddedToTable
  <2>3. \A h \in Inserted' : h \in Hashes
    BY <1>1, Basics
  <2>4. \A h : mask(h)' = mask(h) /\ block_id(h)' = block_id(h)
    BY DEF fixed, mask, block_id, block_shift
  <2>5. \A b : UNION {mask(h)' : h \in {g \in Inserted' : block_id(g)' = b}}
                = BlockBits(Masks, Blocks, Inserted', b)
    BY <2>3, <2>4 DEF BlockBits, Masks, Blocks
  <2> QED
    BY <1>1, <2>2, <2>5 DEF BitsOfInserted, TableOf
<1>5. /\ Found(bitvector, Masks, Blocks) \subseteq Found(bitvector', Masks, Blocks)
      /\ S \subseteq Found(bitvector', Masks, Blocks)
      /\ S \subseteq Found(bitvector, Masks, Blocks) => bitvector' = bitvector
  BY <1>1, <1>2, Basics, FoundGrows
<1> QED
  BY <1>2, <1>3, <1>4, <1>5

\* A step that inserts nothing changes no answer.
LEMMA QuietStep ==
  ASSUME IndInv, UNCHANGED fixed, CallsTypeOK', Inserted' = Inserted,
         bitvector' = bitvector
  PROVE  TypeOK' /\ BitsOfInserted' /\ Positives' = Positives
<1>1. TypeOK'
  BY DEF IndInv, TypeOK, fixed, num_blocks
<1>2. \A h : containsImpl(h)' = containsImpl(h)
  BY DEF fixed, containsImpl, mask, block_id,
         block_shift
<1>3. BitsOfInserted'
  BY DEF IndInv, BitsOfInserted, fixed, mask, block_id,
         block_shift, num_blocks
<1> QED
  BY <1>1, <1>2, <1>3 DEF Positives

\* insertImpl inserts a single hash.
LEMMA InsertImplAdds ==
  ASSUME TypeOK, NEW h \in Hashes, insertImpl(h)
  PROVE  bitvector' = Added(bitvector, Masks, Blocks, {h}, num_blocks)
<1>1. Masks[h] = mask(h) /\ Blocks[h] = block_id(h)
  BY DEF Masks, Blocks
<1>2. /\ Blocks[h] \in 0 .. num_blocks - 1
      /\ bitvector \in [0 .. num_blocks - 1 -> Word]
      /\ num_blocks \in Int
  BY Basics, MaskTypes
<1>3. Put(bitvector, Blocks[h], Masks[h])
        = Added(bitvector, Masks, Blocks, {h}, num_blocks)
  BY <1>2, AddedOne
<1> QED
  BY <1>1, <1>3 DEF insertImpl, Put

-----------------------------------------------------------------------------
(* Every step preserves the invariant.  Grows says, of the same steps, what *)
(* they do to the answers of contains.                                      *)

Grows(S) ==
  /\ Positives \subseteq Positives'
  /\ S \subseteq Positives'
  /\ S \subseteq Positives => Positives' = Positives

LEMMA InitInv == Init => IndInv
<1> SUFFICES ASSUME Init PROVE IndInv
  OBVIOUS
<1>1. PICK rows \in RowCounts : log_num_blocks = LogNumBlocks(rows)
  BY DEF Init
<1>2. log_num_blocks \in 1 .. HashBits - 1
  BY <1>1, ModifiedAssumption, BlocksOfRows
<1>3. CallsTypeOK /\ Inserted = {} /\ call = "idle"
  BY CallsInitially DEF Init, CallsInit
<1>4. masks \in [0 .. numberMasks - 1 -> Word]
  BY ModifiedAssumption DEF Init
<1>5. TypeOK
  BY <1>2, <1>3, <1>4 DEF TypeOK, Init, Word
<1>6. BitsOfInserted
  BY <1>3 DEF BitsOfInserted, Init
<1> QED
  BY <1>3, <1>5, <1>6 DEF IndInv, Aligned, AnswersSoFar

LEMMA InsertStep ==
  ASSUME IndInv, NEW h \in Hashes, Insert(h)
  PROVE  IndInv' /\ Grows({h})
<1>1. ScalarInsert(h) /\ insertImpl(h) /\ UNCHANGED fixed /\ call' = "idle"
  BY DEF Insert, ScalarInsert
<1>2. TypeOK
  BY DEF IndInv
<1>3. CallsTypeOK' /\ Inserted' = Inserted \cup {h}
  BY <1>1, <1>2, Basics, ScalarInsertCalls
<1>4. bitvector' = Added(bitvector, Masks, Blocks, {h}, num_blocks)
  BY <1>1, <1>2, InsertImplAdds
<1>5. TypeOK' /\ BitsOfInserted' /\ Grows({h})
  BY <1>1, <1>3, <1>4, AddedStep DEF Grows
<1> QED
  BY <1>1, <1>5 DEF IndInv, Aligned, AnswersSoFar

LEMMA StartBatchStep ==
  ASSUME IndInv, NEW hashes \in Batches,
         StartInsertBatch(hashes) \/ StartContainsBatch(hashes)
  PROVE  IndInv' /\ Positives' = Positives
<1>1. /\ \/ InsertBatchCall(hashes)
         \/ \E buffer \in {result, Cleared(Len(hashes))} :
              ContainsBatchCall(hashes, buffer)
      /\ UNCHANGED <<fixed, bitvector>>
      /\ hash_array' = hashes /\ i' = 0 /\ call' \in {"inserting", "probing"}
  BY DEF StartInsertBatch, StartContainsBatch, InsertBatchCall, ContainsBatchCall
<1>2. CallsTypeOK' /\ Inserted' = Inserted
  BY <1>1, Basics, BatchCalls DEF IndInv
<1>3. TypeOK' /\ BitsOfInserted' /\ Positives' = Positives
  BY <1>1, <1>2, QuietStep
<1>4. ByteBits * 0 = 0 /\ result_bytes(ByteBits * 0) = 0
  BY CallConstants, ReplyOfWholeBytes
<1>5. Aligned'
  BY <1>1, <1>4 DEF Aligned
<1>6. Replied(hashes, Positives', 0, result_bytes(0), result')
  BY <1>4 DEF Replied
<1>7. AnswersSoFar'
  BY <1>1, <1>6 DEF AnswersSoFar, result_bytes
<1> QED
  BY <1>3, <1>5, <1>7 DEF IndInv

LEMMA InsertNextStep ==
  ASSUME IndInv, InsertNext
  PROVE  IndInv' /\ \E S \in SUBSET Range(hash_array) : Grows(S)
<1>1. /\ call = "inserting" /\ call' = "inserting" /\ i' = i + 1
      /\ i < count /\ UNCHANGED fixed /\ insertImpl(hash(i)) /\ Inserting(i + 1)
      /\ UNCHANGED hash_array /\ TypeOK
  BY DEF InsertNext, Inserting, IndInv
<1>2. hash(i) \in Hashes /\ hash(i) \in Range(hash_array)
  BY <1>1, Basics, CountType
<1>3. Elements(i, i + 1) = {hash(i)} /\ i + 1 \in i .. count
  BY <1>1, Basics, OneElement
<1>4. CallsTypeOK' /\ Inserted' = Inserted \cup {hash(i)}
  BY <1>1, <1>3, Basics, InsertingCalls
<1>5. bitvector' = Added(bitvector, Masks, Blocks, {hash(i)}, num_blocks)
  BY <1>1, <1>2, InsertImplAdds
<1>6. TypeOK' /\ BitsOfInserted' /\ Grows({hash(i)})
  BY <1>1, <1>2, <1>4, <1>5, AddedStep DEF Grows
<1>7. Aligned' /\ AnswersSoFar'
  BY <1>1 DEF Aligned, AnswersSoFar
<1> QED
  BY <1>2, <1>6, <1>7 DEF IndInv

\* When the call returns, the filter finds all elements.
LEMMA EndInsertBatchStep ==
  ASSUME IndInv, EndInsertBatch
  PROVE  /\ IndInv' /\ Positives' = Positives
         /\ Range(hash_array) \subseteq Positives
<1>1. /\ InsertBatchReturn /\ UNCHANGED <<fixed, bitvector>> /\ TypeOK
      /\ call = "inserting" /\ i = count /\ call' = "idle"
  BY DEF EndInsertBatch, InsertBatchReturn, IndInv
<1>2. CallsTypeOK' /\ Inserted' = Inserted
  BY <1>1, Basics, InsertReturnCalls
<1>3. TypeOK' /\ BitsOfInserted' /\ Positives' = Positives
  BY <1>1, <1>2, QuietStep
<1>4. Range(hash_array) \subseteq Inserted
  BY <1>1, Basics, CountType DEF Inserted
<1>5. Inserted \subseteq Positives
  BY <1>1, Basics, BitsAsTable, MaskTypes, InsertedFound DEF IndInv
<1> QED
  BY <1>1, <1>3, <1>4, <1>5 DEF IndInv, Aligned, AnswersSoFar

\* While probing, the bytes of the reply are in the buffer.
LEMMA ReplyBytesInBuffer ==
  ASSUME TypeOK, NEW n \in 0 .. count
  PROVE  /\ result_bytes(n) \in Nat
         /\ \A b \in 0 .. result_bytes(n) - 1 : b \in BufferBytes
<1>1. n \in Nat /\ n <= MaxBatch
  BY Basics, CountType, CallConstants
<1> QED
  BY <1>1, ReplyBytes, ReplyInBuffer

\* Every iteration of a probing loop writes one byte, with the answers of
\* the elements up to the byte's or the batch's end.
LEMMA ProbeUpToStep ==
  ASSUME IndInv, i < count, NEW next \in Nat, ProbeUpTo(next),
         next = i + ByteBits \/ next = count,
         i < next, next <= count, next <= i + ByteBits
  PROVE  IndInv' /\ Positives' = Positives
<1> DEFINE after == Write(result, i \div ByteBits, Packed(i, next))
<1>1. /\ call = "probing" /\ call' = "probing" /\ i' = next /\ result' = after
      /\ Probing(next, after)
      /\ UNCHANGED <<fixed, bitvector, hash_array>> /\ TypeOK
  BY DEF ProbeUpTo, Probing, Write, IndInv
<1>2. ByteBits \in Nat /\ ByteBits >= 1
  BY CallConstants
<1>3. PICK q \in Nat : i = ByteBits * q
  BY <1>1 DEF IndInv, Aligned
<1>4. /\ i \in Nat /\ count \in Nat /\ next \in i .. count /\ next \in 0 .. count
      /\ i \div ByteBits = q /\ result \in Buffers
  BY <1>1, <1>2, <1>3, Basics
<1>5. result_bytes(i) = q /\ result_bytes(next) = q + 1
  <2>1. next - i \in 1 .. ByteBits /\ next = ByteBits * q + (next - i)
    BY <1>2, <1>3, <1>4
  <2> QED
    BY <1>3, <2>1, ReplyOfWholeBytes
<1>6. /\ Packed(i, next) = Pack(hash_array, Positives, ByteBits * q, next)
      /\ Packed(i, next) \in SUBSET (0 .. ByteBits - 1)
  <2>1. \A k \in 0 .. next - i - 1 : i + k \in 0 .. count - 1 /\ k \in 0 .. ByteBits - 1
    BY <1>2, <1>4
  <2>2. \A k \in 0 .. next - i - 1 :
          hash(i + k) = hash_array[i + k + 1] /\ hash(i + k) \in Hashes
    BY <1>1, <2>1, Basics, CountType DEF hash
  <2>3. \A k \in 0 .. next - i - 1 :
          containsImpl(hash(i + k)) <=> hash_array[i + k + 1] \in Positives
    BY <2>2 DEF Positives
  <2> QED
    BY <1>3, <2>1, <2>3 DEF Packed, Pack
<1>7. after \in Buffers
  BY <1>4, <1>6, ReplyTypes
<1>8. CallsTypeOK' /\ Inserted' = Inserted
  BY <1>1, <1>4, <1>7, Basics, ProbingCalls DEF Buffers
<1>9. TypeOK' /\ BitsOfInserted' /\ Positives' = Positives
  BY <1>1, <1>8, QuietStep
<1>10. Replied(hash_array, Positives, next, q + 1, after)
  <2>1. Replied(hash_array, Positives, ByteBits * q, q, result)
    BY <1>1, <1>3, <1>5 DEF IndInv, AnswersSoFar
  <2>2. \A b \in 0 .. (q + 1) - 1 : b \in BufferBytes
    BY <1>1, <1>4, <1>5, ReplyBytesInBuffer
  <2>3. \A b \in 0 .. (q + 1) - 1 :
          b # q => result[b] = ReplyByte(hash_array, Positives, b, ByteBits * q)
    BY <2>1 DEF Replied
  <2>4. ByteBits * q <= next /\ next <= ByteBits * q + ByteBits
    BY <1>3
  <2>5. after = Write(result, q, Pack(hash_array, Positives, ByteBits * q, next))
    BY <1>4, <1>6
  <2> QED
    BY <1>4, <2>2, <2>3, <2>4, <2>5, WholeByteReply
<1> HIDE DEF after
<1>11. Aligned'
  <2>1. next < count => next = ByteBits * (q + 1)
    BY <1>2, <1>3, <1>4
  <2> QED
    BY <1>1, <2>1 DEF Aligned, count
<1>12. AnswersSoFar'
  BY <1>1, <1>5, <1>9, <1>10 DEF AnswersSoFar, result_bytes
<1> QED
  BY <1>9, <1>11, <1>12 DEF IndInv

\* The three loops differ only in how far an iteration goes.
LEMMA ProbeBounds ==
  ASSUME IndInv, ProbeVectors \/ ProbeTail \/ ProbeByte
  PROVE  \E next \in Nat :
           /\ ProbeUpTo(next) /\ i < count
           /\ next = i + ByteBits \/ next = count
           /\ i < next /\ next <= count /\ next <= i + ByteBits
<1>1. /\ i \in 0 .. count /\ i \in Nat /\ count \in Nat
      /\ ByteBits \in Nat /\ ByteBits >= 1 /\ ByteBits = 2 * Lanes
  BY Basics, Constants, CallConstants DEF IndInv
<1>2. count % ByteBits \in 0 .. ByteBits - 1
  BY <1>1
<1>3. CASE ProbeVectors
  <2>1. i < count - (count % ByteBits) /\ ProbeUpTo(i + ByteBits) /\ call = "probing"
    BY <1>1, <1>3 DEF ProbeVectors, loop_count, ProbeUpTo, Probing
  <2>2. PICK q \in Nat : i = ByteBits * q
    BY <1>1, <1>2, <2>1 DEF IndInv, Aligned
  <2>3. ByteBits * q + ByteBits <= count
    BY <1>1, <2>1, <2>2, WholeVector
  <2> QED
    BY <1>1, <1>2, <2>1, <2>2, <2>3
<1>4. CASE ProbeTail
  <2>1. i = count - (count % ByteBits) /\ ProbeUpTo(count) /\ i < count
    BY <1>1, <1>4 DEF ProbeTail, loop_count
  <2> QED
    BY <1>1, <1>2, <2>1
<1>5. CASE ProbeByte
  <2> DEFINE next == IF i + ByteBits < count THEN i + ByteBits ELSE count
  <2>1. ProbeUpTo(next) /\ i < count
    BY <1>5 DEF ProbeByte
  <2>2. next \in Nat
    BY <1>1
  <2> QED
    BY <1>1, <2>1, <2>2
<1> QED
  BY <1>3, <1>4, <1>5

LEMMA ProbeSteps ==
  ASSUME IndInv, ProbeVectors \/ ProbeTail \/ ProbeByte
  PROVE  IndInv' /\ Positives' = Positives
  BY ProbeBounds, ProbeUpToStep

LEMMA QuietNextStep ==
  ASSUME IndInv, EndContainsBatch \/ UNCHANGED vars
  PROVE  IndInv' /\ Positives' = Positives
<1>1. /\ ContainsBatchReturn \/ UNCHANGED callVars
      /\ UNCHANGED <<fixed, bitvector, hash_array, i, result>>
      /\ call' = call \/ (call = "probing" /\ i = count /\ call' = "answered")
      /\ TypeOK
  BY DEF EndContainsBatch, ContainsBatchReturn, vars, callVars, fixed, IndInv
<1>2. CallsTypeOK' /\ Inserted' = Inserted
  BY <1>1, Basics, QuietCalls
<1>3. TypeOK' /\ BitsOfInserted' /\ Positives' = Positives
  BY <1>1, <1>2, QuietStep
<1>4. Aligned'
  BY <1>1 DEF IndInv, Aligned, count
<1>5. AnswersSoFar'
  BY <1>1, <1>3 DEF IndInv, AnswersSoFar, count, result_bytes
<1> QED
  BY <1>3, <1>4, <1>5 DEF IndInv

LEMMA NextInv == IndInv /\ [Next]_vars => IndInv'
<1> SUFFICES ASSUME IndInv, [Next]_vars PROVE IndInv'
  OBVIOUS
<1> QED
  BY InsertStep, StartBatchStep, InsertNextStep, EndInsertBatchStep, ProbeSteps,
     QuietNextStep
     DEF Next, Step

LEMMA Invariance == Spec => []IndInv
  BY InitInv, NextInv, PTL DEF Spec

-----------------------------------------------------------------------------
(* The theorems *)

\* Every variable keeps its type; in particular every block index is inside
\* the table and every vector inside the batch.
THEOREM TypeCorrect == Spec => []TypeOK
<1>1. IndInv => TypeOK
  BY DEF IndInv
<1> QED
  BY <1>1, Invariance, PTL

\* The filter's bits are a function of the set of hashes inserted, for scalar
\* and batch insertion alike.
THEOREM BitsCorrect == Spec => []BitsOfInserted
<1>1. IndInv => BitsOfInserted
  BY DEF IndInv
<1> QED
  BY <1>1, Invariance, PTL

\* What the filter is for: a hash whose insertion has returned is found,
\* for ever, however it was inserted and whatever has been inserted since.
THEOREM NeverFalseNegative == Spec => [](\A h \in members : containsImpl(h))
<1>1. IndInv => \A h \in members : containsImpl(h)
  <2> SUFFICES ASSUME IndInv, NEW h \in members PROVE containsImpl(h)
    OBVIOUS
  <2>1. TypeOK /\ h \in Inserted /\ Inserted \subseteq Hashes
    BY Basics DEF IndInv, Inserted
  <2>2. Inserted \subseteq Positives
    BY <2>1, Basics, BitsAsTable, MaskTypes, InsertedFound DEF IndInv
  <2> QED
    BY <2>1, <2>2, Basics, MaskTypes DEF Positives
<1> QED
  BY <1>1, Invariance, PTL

\* What containsBatch leaves in the buffer is what contains would answer, bit
\* by bit and with clear padding, whatever the buffer held before.
THEOREM AnswersAreExact == Spec => []AnswersExact
<1>1. IndInv => AnswersExact
  <2> SUFFICES ASSUME IndInv, call = "answered",
                      NEW b \in 0 .. result_bytes(count) - 1
               PROVE  result[b] = {k \in 0 .. ByteBits - 1 :
                                     /\ ByteBits * b + k < count
                                     /\ containsImpl(hash(ByteBits * b + k))}
    BY DEF AnswersExact
  <2>1. result[b] = ReplyByte(hash_array, Positives, b, count)
    BY DEF IndInv, AnswersSoFar, Replied
  <2>2. \A k \in 0 .. ByteBits - 1 :
          ByteBits * b + k < count =>
            (hash_array[ByteBits * b + k + 1] \in Positives
               <=> containsImpl(hash(ByteBits * b + k)))
    <3>1. TypeOK /\ b \in Nat /\ ByteBits * b \in Nat
      BY CallConstants, Basics, ReplyBytesInBuffer, BytesAreOrdered DEF IndInv
    <3>2. \A k \in 0 .. ByteBits - 1 :
            ByteBits * b + k < count => ByteBits * b + k \in 0 .. count - 1
      BY <3>1, CallConstants, Basics
    <3> QED
      BY <3>1, <3>2, Basics, CountType DEF Positives, hash
  <2> QED
    BY <2>1, <2>2 DEF ReplyByte
<1> QED
  BY <1>1, Invariance, PTL

\* No call writes a byte of the caller's buffer that is not part of a reply.
THEOREM WritesOnlyReply == Spec => OnlyReplyBytesWritten
<1>1. ASSUME IndInv, [Next]_vars
      PROVE  \A b \in BufferBytes :
               result'[b] # result[b] =>
                 call' = "probing" /\ b < result_bytes(Len(hash_array'))
  <2>1. i \in Nat /\ count \in Nat /\ result \in Buffers
    BY <1>1, Basics DEF IndInv
  <2>2. CASE ProbeVectors \/ ProbeTail \/ ProbeByte
    <3>1. PICK next \in Nat : ProbeUpTo(next) /\ i < count
      BY <1>1, <2>2, ProbeBounds
    <3>2. Probing(next, Write(result, i \div ByteBits, Packed(i, next)))
      BY <3>1 DEF ProbeUpTo, Write
    <3> QED
      BY <2>1, <3>1, <3>2, WritesWithin, OnlyReplyWritten
  <2>3. ASSUME NEW hashes \in Batches, StartContainsBatch(hashes)
        PROVE  \E buffer : /\ ContainsBatchCall(hashes, buffer)
                           /\ Within(result, buffer, Len(hashes))
    BY <2>1, <2>3, CallsAssumption, WritesWithin DEF StartContainsBatch
  <2> QED
    BY <1>1, <2>2, <2>3, OnlyReplyWritten
       DEF Next, Step, Insert, StartInsertBatch, InsertNext, EndInsertBatch,
           EndContainsBatch, vars
<1> QED
  BY <1>1, Invariance, PTL DEF Spec, OnlyReplyBytesWritten

-----------------------------------------------------------------------------
(* The filter implements BloomFilterSpec: a scalar insertion and the start *)
(* and return of a batch are the same steps of the abstract filter, an     *)
(* iteration of an insertion loop is InsertSome, and an iteration of a     *)
(* probing loop is invisible.                                              *)

\* No mask is empty, so that a new filter finds nothing.
LEMMA MaskNotEmpty ==
  ASSUME NEW h \in Hashes, masks \in MaskTables
  PROVE  mask(h) # {}
  BY IndexInTable, ModifiedAssumption DEF mask

LEMMA AbsInit == Init => Abs!Init
<1> SUFFICES ASSUME Init PROVE Abs!Init
  OBVIOUS
<1>1. IndInv /\ Inserted = {} /\ call = "idle" /\ hash_array = <<>> /\ members = {}
  BY InitInv, CallsInitially DEF Init, CallsInit
<1>2. Positives = {}
  <2> SUFFICES ASSUME NEW h \in Hashes PROVE ~containsImpl(h)
    BY DEF Positives
  <2>1. /\ h \in Nat /\ block_id(h) \in 0 .. num_blocks - 1
        /\ bitvector[block_id(h)] = {}
    BY <1>1, CallConstants, Basics, BlockInRange DEF IndInv, Init
  <2>2. mask(h) # {}
    BY MaskNotEmpty DEF Init
  <2> QED
    BY <2>1, <2>2 DEF containsImpl
<1> QED
  BY <1>1, <1>2 DEF Abs!Init, Positives, Answers

\* Every step of the filter is one of BloomFilterSpec or a stutter.
LEMMA AbsInsert ==
  ASSUME IndInv, NEW h \in Hashes, Insert(h)
  PROVE  Abs!Insert(h)
<1>1. ScalarInsert(h) /\ Grows({h}) /\ Answers' = <<>>
  BY InsertStep, NoAnswers DEF Insert
<1> QED
  BY <1>1 DEF Abs!Insert, Abs!Ready, Abs!Grow, Grows, Positives,
     ScalarInsert, Ready

LEMMA AbsStartBatch ==
  ASSUME IndInv, NEW hashes \in Batches
  PROVE  /\ StartInsertBatch(hashes) => Abs!InsertBatchCall
         /\ StartContainsBatch(hashes) => Abs!ContainsBatchCall
<1>1. hashes \in Seq(Hashes)
  BY CallsAssumption
<1>2. ASSUME StartInsertBatch(hashes) PROVE Abs!InsertBatchCall
  <2>1. InsertBatchCall(hashes) /\ Positives' = Positives /\ Answers' = <<>>
    BY <1>2, StartBatchStep, NoAnswers DEF StartInsertBatch
  <2> QED
    BY <1>1, <2>1 DEF Abs!InsertBatchCall, Abs!Ready, Positives,
       InsertBatchCall, Ready
<1>3. ASSUME StartContainsBatch(hashes) PROVE Abs!ContainsBatchCall
  <2>1. /\ \E buffer : ContainsBatchCall(hashes, buffer)
        /\ Positives' = Positives /\ Answers' = <<>>
    BY <1>3, StartBatchStep, NoAnswers DEF StartContainsBatch
  <2> QED
    BY <1>1, <2>1 DEF Abs!ContainsBatchCall, Abs!Ready, Positives,
       ContainsBatchCall, Ready
<1> QED
  BY <1>2, <1>3

LEMMA AbsInsertSome ==
  ASSUME IndInv, InsertNext
  PROVE  Abs!InsertSome
<1>1. \E next : Inserting(next)
  BY DEF InsertNext
<1>2. /\ call = "inserting" /\ UNCHANGED <<call, hash_array, members>>
      /\ Answers' = Answers
  BY <1>1, NoAnswers DEF Inserting
<1>3. PICK S \in SUBSET Range(hash_array) : Grows(S)
  BY InsertNextStep
<1> QED
  BY <1>2, <1>3 DEF Abs!InsertSome, Abs!Grow, Grows, Positives,
     Abs!Range, Range

LEMMA AbsReturn ==
  ASSUME IndInv
  PROVE  /\ EndInsertBatch => Abs!InsertBatchReturn
         /\ EndContainsBatch => Abs!ContainsBatchReturn
<1>1. ASSUME EndInsertBatch PROVE Abs!InsertBatchReturn
  <2>1. /\ InsertBatchReturn /\ Positives' = Positives
        /\ Range(hash_array) \subseteq Positives /\ Answers' = Answers
    BY <1>1, EndInsertBatchStep, NoAnswers DEF EndInsertBatch, InsertBatchReturn
  <2> QED
    BY <2>1 DEF Abs!InsertBatchReturn, Positives, InsertBatchReturn,
       Abs!Range, Range
<1>2. ASSUME EndContainsBatch PROVE Abs!ContainsBatchReturn
  <2>1. /\ ContainsBatchReturn /\ Positives' = Positives
        /\ CallsTypeOK /\ call = "probing" /\ i = count
    BY <1>2, QuietNextStep, Basics
       DEF EndContainsBatch, ContainsBatchReturn, IndInv
  <2>2. Answers' = [k \in 1 .. Len(hash_array) |-> hash_array[k] \in Positives]
    BY <2>1, AnswersOfReply DEF IndInv, AnswersSoFar
  <2> QED
    BY <2>1, <2>2 DEF Abs!ContainsBatchReturn, Positives, ContainsBatchReturn
<1> QED
  BY <1>1, <1>2

LEMMA AbsStutter ==
  ASSUME IndInv, ProbeVectors \/ ProbeTail \/ ProbeByte \/ UNCHANGED vars
  PROVE  UNCHANGED Abs!vars
<1>1. Positives' = Positives
  BY ProbeSteps, QuietNextStep
<1>2. CASE ProbeVectors \/ ProbeTail \/ ProbeByte
  <2>1. \E next, buffer : Probing(next, buffer)
    BY <1>2 DEF ProbeVectors, ProbeTail, ProbeByte, ProbeUpTo
  <2>2. UNCHANGED <<call, hash_array, members>> /\ Answers' = Answers
    BY <2>1, NoAnswers DEF Probing
  <2> QED
    BY <1>1, <2>2 DEF Abs!vars, Positives
<1>3. CASE UNCHANGED vars
  BY <1>1, <1>3 DEF vars, callVars, Abs!vars, Positives, Answers, count,
     packed_result_bit
<1> QED
  BY <1>2, <1>3

\* The filter implements the approximate set of BloomFilterSpec, so that
\* whatever follows from the interface's promise holds of this filter.
THEOREM ImplementsInterface == Spec => RefinesSpec
<1>1. IndInv /\ [Next]_vars => [Abs!Next]_(Abs!vars)
  <2> SUFFICES ASSUME IndInv, [Next]_vars
               PROVE  Abs!Next \/ UNCHANGED Abs!vars
    OBVIOUS
  <2> QED
    BY AbsInsert, AbsStartBatch, AbsInsertSome, AbsReturn, AbsStutter
       DEF Next, Step, Abs!Next
<1> QED
  BY <1>1, AbsInit, Invariance, PTL DEF Spec, RefinesSpec

-----------------------------------------------------------------------------
(* The constructor of the mask table.  MaskTables stands for the tables it *)
(* can build; here is why these are as the filter assumes, whatever the    *)
(* generator draws.  That the constructor ends is left to the model        *)
(* checker.                                                                *)

CONSTANT bitsPerMask

VARIABLES table, drawn, value

Built == INSTANCE ModifiedBloomFilterMasks WITH masks <- table, used <- drawn

\* Only a table that is not full has a mask in the making.
BuiltInv ==
  /\ Built!TypeOK
  /\ Built!EntriesDistinct
  /\ value # {} => Len(table) < numberMasks

LEMMA BuiltCardinality ==
  ASSUME NEW S PROVE Built!Cardinality(S) = Cardinality(S)
  BY DEF Built!Cardinality, Cardinality

LEMMA BuiltInit == Built!Init => BuiltInv
<1> SUFFICES ASSUME Built!Init PROVE BuiltInv
  OBVIOUS
<1>1. table = <<>> /\ drawn = {} /\ value = {} /\ numberMasks \in Nat
  BY Constants DEF Built!Init
<1>2. Built!TypeOK
  BY <1>1 DEF Built!TypeOK, Built!table_index, Built!Word
<1>3. Built!EntriesDistinct
  BY <1>1 DEF Built!EntriesDistinct, Built!table_index, Built!ToSet
<1> QED
  BY <1>1, <1>2, <1>3 DEF BuiltInv

\* A finished mask is new, and then it becomes the last entry, or it is an
\* entry already, and then nothing changes but that it is drawn anew.
LEMMA EndMaskStep ==
  ASSUME bitsPerMask \in 1 .. WordBits, BuiltInv, Built!EndMask
  PROVE  BuiltInv'
<1>1. /\ Cardinality(value) = bitsPerMask /\ value' = {}
      /\ drawn' = drawn \cup {value}
      /\ table' = IF value \in drawn THEN table ELSE Append(table, value)
  BY BuiltCardinality DEF Built!EndMask, Built!bits_set
<1>2. /\ table \in Seq(Word) /\ Len(table) \in Nat /\ Len(table) <= numberMasks
      /\ drawn \subseteq Word /\ value \in Word /\ numberMasks \in Nat
      /\ \A j, k \in 1 .. Len(table) : table[j] = table[k] => j = k
      /\ \A k \in 1 .. Len(table) : Cardinality(table[k]) = bitsPerMask
      /\ drawn = {table[k] : k \in 1 .. Len(table)}
  BY Constants, BuiltCardinality
     DEF BuiltInv, Built!TypeOK, Built!EntriesDistinct, Built!table_index,
         Built!Word, Word, Built!ToSet
<1>3. Len(table) < numberMasks
  <2>1. Cardinality(value) # 0
    <3>1. Cardinality(value) = bitsPerMask
      BY <1>1
    <3> QED
      BY <3>1, CallConstants
  <2>2. value # {}
    BY <2>1, FS_EmptySet
  <2> QED
    BY <2>2 DEF BuiltInv
<1>4. /\ table' \in Seq(Word) /\ Len(table') <= numberMasks
      /\ \A j, k \in 1 .. Len(table') : table'[j] = table'[k] => j = k
      /\ \A k \in 1 .. Len(table') : Cardinality(table'[k]) = bitsPerMask
      /\ drawn' = {table'[k] : k \in 1 .. Len(table')}
  <2>1. CASE value \in drawn
    BY <1>1, <1>2, <2>1
  <2>2. CASE value \notin drawn
    <3>1. /\ table' = Append(table, value) /\ Len(table') = Len(table) + 1
          /\ table'[Len(table) + 1] = value
          /\ \A k \in 1 .. Len(table) : table'[k] = table[k] /\ table'[k] # value
          /\ table' \in Seq(Word)
      BY <1>1, <1>2, <2>2
    <3>2. 1 .. Len(table') = (1 .. Len(table)) \cup {Len(table) + 1}
      BY <1>2, <3>1
    <3> QED
      BY <1>1, <1>2, <1>3, <3>1, <3>2
  <2> QED
    BY <2>1, <2>2
<1>5. Built!TypeOK'
  BY <1>1, <1>2, <1>4 DEF Built!TypeOK, Built!table_index, Built!Word, Word
<1>6. Built!EntriesDistinct'
  <2>1. DOMAIN table' = 1 .. Len(table')
    BY <1>4
  <2> QED
    BY <1>4, <2>1, BuiltCardinality
       DEF Built!EntriesDistinct, Built!table_index, Built!ToSet
<1> QED
  BY <1>1, <1>5, <1>6 DEF BuiltInv

LEMMA BuiltNext ==
  ASSUME bitsPerMask \in 1 .. WordBits, BuiltInv, [Built!Next]_(Built!vars)
  PROVE  BuiltInv'
<1>1. ASSUME NEW bit \in 0 .. WordBits - 1, Built!DrawBit(bit) PROVE BuiltInv'
  <2>1. /\ Len(table) < numberMasks /\ value' = value \cup {bit}
        /\ table' = table /\ drawn' = drawn
    BY <1>1 DEF Built!DrawBit, Built!table_index
  <2> QED
    BY <2>1 DEF BuiltInv, Built!TypeOK, Built!EntriesDistinct, Built!table_index,
       Built!Word
<1>2. CASE UNCHANGED Built!vars
  BY <1>2 DEF BuiltInv, Built!vars, Built!TypeOK, Built!EntriesDistinct,
     Built!table_index
<1> QED
  BY <1>1, <1>2, EndMaskStep DEF Built!Next

LEMMA BuiltInvariance ==
  ASSUME bitsPerMask \in 1 .. WordBits
  PROVE  Built!Spec => []BuiltInv
  BY BuiltInit, BuiltNext, PTL DEF Built!Spec

\* The table never has more than numberMasks entries, and these are words.
THEOREM TableTypeCorrect ==
  ASSUME bitsPerMask \in 1 .. WordBits
  PROVE  Built!Spec => []Built!TypeOK
<1>1. BuiltInv => Built!TypeOK
  BY DEF BuiltInv
<1> QED
  BY <1>1, BuiltInvariance, PTL

\* No mask is in the table twice and every mask in it has bitsPerMask bits,
\* after every draw; what is rejected is in the table.
THEOREM TableEntriesDistinct ==
  ASSUME bitsPerMask \in 1 .. WordBits
  PROVE  Built!Spec => []Built!EntriesDistinct
<1>1. BuiltInv => Built!EntriesDistinct
  BY DEF BuiltInv
<1> QED
  BY <1>1, BuiltInvariance, PTL

\* A finished table is one that ModifiedAssumption admits.
THEOREM TableIsAssumed ==
  ASSUME bitsPerMask \in 1 .. WordBits
  PROVE  Built!Spec =>
           [](Len(table) = numberMasks =>
                [k \in 0 .. numberMasks - 1 |-> table[k + 1]]
                  \in [0 .. numberMasks - 1 -> Word \ {{}}])
<1>1. ASSUME BuiltInv, Len(table) = numberMasks, NEW k \in 0 .. numberMasks - 1
      PROVE  table[k + 1] \in Word \ {{}}
  <2>1. k + 1 \in 1 .. Len(table) /\ table \in Seq(Word)
    BY <1>1, Constants DEF BuiltInv, Built!TypeOK, Built!Word, Word
  <2>2. Cardinality(table[k + 1]) = bitsPerMask
    BY <1>1, <2>1, BuiltCardinality
       DEF BuiltInv, Built!EntriesDistinct, Built!table_index
  <2>3. table[k + 1] # {}
    BY <2>2, FS_EmptySet, CallConstants
  <2> QED
    BY <2>1, <2>3
<1>2. BuiltInv =>
        (Len(table) = numberMasks =>
           [k \in 0 .. numberMasks - 1 |-> table[k + 1]]
             \in [0 .. numberMasks - 1 -> Word \ {{}}])
  BY <1>1
<1> QED
  BY <1>2, BuiltInvariance, PTL
=============================================================================
