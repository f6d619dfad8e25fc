--------------------- MODULE BlockedBloomFilter_proofs ---------------------
(***************************************************************************)
(* Proofs about BlockedBloomFilter, for every set of hashes and every      *)
(* batch length, mask, width and size of filter.                           *)
(***************************************************************************)
EXTENDS BlockedBloomFilter, FilterCalls_proofs

-----------------------------------------------------------------------------
(* The mask and the block of a hash *)

LEMMA Constants ==
  /\ HashBits \in Nat
  /\ BlockMask \in [Hashes -> Word]
  /\ \A h \in Hashes : BlockMask[h] # {}
<1>1. ASSUME NEW h \in Hashes PROVE BlockMask[h] # {}
  <2>1. Cardinality(BlockMask[h]) # 0
    BY BlockedAssumption
  <2> QED
    BY <2>1, FS_EmptySet
<1> QED
  BY <1>1, SizingAssumption, BlockedAssumption

\* The block index is in range.
LEMMA BlockInRange ==
  ASSUME NEW h \in Hashes, log_num_blocks \in 1 .. HashBits - 1
  PROVE  block_id(h) \in 0 .. num_blocks - 1
<1>1. log_num_blocks \in 0 .. HashBits
      /\ h \in 0 .. 2^HashBits - 1
  BY Constants, BlockedAssumption
<1>2. h \div 2^(HashBits - log_num_blocks) \in 0 .. 2^log_num_blocks - 1
  BY <1>1, Constants, TopBits
<1> QED
  BY <1>2 DEF block_id, num_blocks

\* The filter as functions from hashes to bits and blocks, and the hashes that
\* it finds.
Masks     == BlockMask
Blocks    == [h \in Hashes |-> block_id(h)]
Positives == {h \in Hashes : containsImpl(h)}

LEMMA MaskTypes ==
  ASSUME log_num_blocks \in 1 .. HashBits - 1
  PROVE  /\ Masks \in [Hashes -> Word]
         /\ Blocks \in [Hashes -> 0 .. num_blocks - 1]
         /\ Positives = Found(bitvector, Masks, Blocks)
<1>1. \A h \in Hashes : block_id(h) \in 0 .. num_blocks - 1
  BY BlockInRange
<1> QED
  BY <1>1, Constants DEF Masks, Blocks, Positives, Found, containsImpl

\* Nothing but the hash and the filter's size decides the block.
LEMMA SameMasks ==
  ASSUME UNCHANGED fixed PROVE Masks' = Masks /\ Blocks' = Blocks
  BY DEF fixed, Masks, Blocks, block_id

-----------------------------------------------------------------------------
(* The inductive invariant: besides the types, that the bits are those of  *)
(* the hashes inserted and the buffer holds the reply to the elements that *)
(* a containsBatch has processed.                                          *)

\* Every block holds the masks of the hashes inserted that fall into it, and
\* no other bit.
BitsOfInserted ==
  bitvector = [b \in 0 .. num_blocks - 1 |->
                 UNION {BlockMask[h] : h \in {g \in Inserted : block_id(g) = b}}]

AnswersSoFar ==
  /\ call = "answered" => i = count
  /\ call \in {"probing", "answered"} =>
       Replied(hash_array, Positives, i, result_bytes(count), result)

IndInv == TypeOK /\ BitsOfInserted /\ AnswersSoFar

\* The facts that every step's proof starts from.
LEMMA Basics ==
  ASSUME TypeOK
  PROVE  /\ CallsTypeOK
         /\ log_num_blocks \in 1 .. HashBits - 1
         /\ num_blocks \in Nat \ {0}
         /\ bitvector \in [0 .. num_blocks - 1 -> Word]
         /\ i \in 0 .. count /\ i \in Nat /\ count \in Nat
         /\ result \in Buffers
         /\ Inserted \subseteq Hashes
<1>1. log_num_blocks \in 1 .. HashBits - 1 /\ log_num_blocks \in Nat
  BY Constants DEF TypeOK
<1>2. num_blocks \in Nat \ {0}
  <2>1. 2^log_num_blocks \in Nat /\ 2^log_num_blocks >= 1
    BY <1>1, PowerOfTwo
  <2> QED
    BY <2>1 DEF num_blocks
<1> QED
  BY <1>1, <1>2, CountType DEF TypeOK, CallsTypeOK, Buffers

\* BitsOfInserted, in terms of the functions.
LEMMA BitsAsTable ==
  ASSUME Inserted \subseteq Hashes
  PROVE  BitsOfInserted <=>
           bitvector = TableOf(Masks, Blocks, Inserted, num_blocks)
<1>1. ASSUME NEW b
      PROVE  UNION {BlockMask[h] : h \in {g \in Inserted : block_id(g) = b}}
               = BlockBits(Masks, Blocks, Inserted, b)
  BY DEF BlockBits, Masks, Blocks
<1> QED
  BY <1>1 DEF BitsOfInserted, TableOf

\* A step that inserts S into the table keeps the types and the bits right,
\* loses no positive, and gains none on behalf of positives.
LEMMA AddedStep ==
  ASSUME IndInv, UNCHANGED fixed, CallsTypeOK', NEW S \in SUBSET Hashes,
         Inserted' = Inserted \cup S,
         bitvector' = Added(bitvector, Masks, Blocks, S, num_blocks)
  PROVE  /\ TypeOK' /\ BitsOfInserted'
         /\ Positives \subseteq Positives' /\ S \subseteq Positives'
         /\ S \subseteq Positives => Positives' = Positives
<1>1. TypeOK /\ num_blocks' = num_blocks
  BY DEF IndInv, fixed, num_blocks
<1>2. /\ Masks' = Masks /\ Blocks' = Blocks
      /\ Positives = Found(bitvector, Masks, Blocks)
      /\ Positives' = Found(bitvector', Masks, Blocks)
      /\ Masks \in [Hashes -> Word] /\ Blocks \in [Hashes -> 0 .. num_blocks - 1]
  <2>1. Positives' = Found(bitvector', Masks', Blocks')
    BY DEF Positives, Found, Masks, Blocks, containsImpl
  <2> QED
    BY <1>1, <2>1, Basics, MaskTypes, SameMasks
<1>3. TypeOK'
  <2>1. bitvector' \in [0 .. num_blocks - 1 -> Word]
    BY <1>1, <1>2, Basics, AddedType
  <2> QED
    BY <1>1, <2>1 DEF TypeOK, fixed
<1>4. BitsOfInserted'
  <2>1. bitvector = TableOf(Masks, Blocks, Inserted, num_blocks)
    BY <1>1, Basics, BitsAsTable DEF IndInv
  <2>2. bitvector' = TableOf(Masks, Blocks, Inserted', num_blocks)
    BY <2>1, AddedToTable
  <2>3. \A h \in Inserted' : h \in Hashes
    BY <1>1, Basics
  <2>4. \A h : block_id(h)' = block_id(h)
    BY DEF fixed, block_id
  <2>5. \A b : UNION {BlockMask[h] : h \in {g \in Inserted' : block_id(g)' = b}}
                = BlockBits(Masks, Blocks, Inserted', b)
    BY <2>3, <2>4 DEF BlockBits, Masks, Blocks
  <2> QED
    BY <1>1, <2>2, <2>5 DEF BitsOfInserted, TableOf
<1>5. /\ Found(bitvector, Masks, Blocks) \subseteq Found(bitvector', Masks, Blocks)
      /\ S \subseteq Found(bitvector', Masks, Blocks)
      /\ S \subseteq Found(bitvector, Masks, Blocks) => bitvector' = bitvector
  BY <1>1, <1>2, Basics, FoundGrows
<1> QED
  BY <1>2, <1>3, <1>4, <1>5

\* A step that inserts nothing changes no answer.
LEMMA QuietStep ==
  ASSUME IndInv, UNCHANGED fixed, CallsTypeOK', Inserted' = Inserted,
         bitvector' = bitvector
  PROVE  TypeOK' /\ BitsOfInserted' /\ Positives' = Positives
<1>1. TypeOK'
  BY DEF IndInv, TypeOK, fixed, num_blocks
<1>2. \A h : containsImpl(h)' = containsImpl(h)
  BY DEF fixed, containsImpl, block_id
<1>3. BitsOfInserted'
  BY DEF IndInv, BitsOfInserted, fixed, block_id, num_blocks
<1> QED
  BY <1>1, <1>2, <1>3 DEF Positives

\* insertImpl inserts a single hash.
LEMMA InsertImplAdds ==
  ASSUME TypeOK, NEW h \in Hashes, insertImpl(h)
  PROVE  bitvector' = Added(bitvector, Masks, Blocks, {h}, num_blocks)
<1>1. Masks[h] = BlockMask[h] /\ Blocks[h] = block_id(h)
  BY DEF Masks, Blocks
<1>2. /\ Blocks[h] \in 0 .. num_blocks - 1
      /\ bitvector \in [0 .. num_blocks - 1 -> Word]
      /\ num_blocks \in Int
  BY Basics, MaskTypes
<1>3. Put(bitvector, Blocks[h], Masks[h])
        = Added(bitvector, Masks, Blocks, {h}, num_blocks)
  BY <1>2, AddedOne
<1> QED
  BY <1>1, <1>3 DEF insertImpl, Put

-----------------------------------------------------------------------------
(* Every step preserves the invariant.  Grows says, of the same steps, what *)
(* they do to the answers of contains.                                      *)

Grows(S) ==
  /\ Positives \subseteq Positives'
  /\ S \subseteq Positives'
  /\ S \subseteq Positives => Positives' = Positives

\* The constructor's number of blocks fits the shift that selects one.
LEMMA BlocksOfSignedRows ==
  ASSUME NEW rows \in RowCounts
  PROVE  LogBlocks(rows) \in 1 .. HashBits - 1
<1>1. /\ rows * bitsPerKey \in Int /\ BlockShiftDefined
      /\ blocked_num_bits(rows) < 2^(HashBits - 1)
  BY BlockedAssumption, SizingConstants
<1>2. /\ blocked_num_bits(rows) \in Nat
      /\ blocked_num_bits(rows) >= min_num_bits
  BY <1>1, SizingConstants DEF blocked_num_bits
<1>3. blocked_num_bits(rows) <= 2^HashBits
  <2>1. HashBits - 1 \in Nat /\ (HashBits - 1) + 1 = HashBits
    BY SizingConstants
  <2>2. 2^(HashBits - 1) \in Nat /\ 2^HashBits = 2^(HashBits - 1) + 2^(HashBits - 1)
    BY <2>1, PowerDoubles
  <2> QED
    BY <1>1, <1>2, <2>2
<1> QED
  BY <1>1, <1>2, <1>3, SizingConstants, BlocksOfSize DEF LogBlocks

LEMMA InitInv == Init => IndInv
<1> SUFFICES ASSUME Init PROVE IndInv
  OBVIOUS
<1>1. PICK rows \in RowCounts : log_num_blocks = LogBlocks(rows)
  BY DEF Init
<1>2. log_num_blocks \in 1 .. HashBits - 1
  BY <1>1, BlocksOfSignedRows
<1>3. CallsTypeOK /\ Inserted = {} /\ call = "idle"
  BY CallsInitially DEF Init, CallsInit
<1>5. TypeOK
  BY <1>2, <1>3 DEF TypeOK, Init, Word
<1>6. BitsOfInserted
  BY <1>3 DEF BitsOfInserted, Init
<1> QED
  BY <1>3, <1>5, <1>6 DEF IndInv, AnswersSoFar

LEMMA InsertStep ==
  ASSUME IndInv, NEW h \in Hashes, Insert(h)
  PROVE  IndInv' /\ Grows({h})
<1>1. ScalarInsert(h) /\ insertImpl(h) /\ UNCHANGED fixed /\ call' = "idle"
  BY DEF Insert, ScalarInsert
<1>2. TypeOK
  BY DEF IndInv
<1>3. CallsTypeOK' /\ Inserted' = Inserted \cup {h}
  BY <1>1, <1>2, Basics, ScalarInsertCalls
<1>4. bitvector' = Added(bitvector, Masks, Blocks, {h}, num_blocks)
  BY <1>1, <1>2, InsertImplAdds
<1>5. TypeOK' /\ BitsOfInserted' /\ Grows({h})
  BY <1>1, <1>3, <1>4, AddedStep DEF Grows
<1> QED
  BY <1>1, <1>5 DEF IndInv, AnswersSoFar

LEMMA StartBatchStep ==
  ASSUME IndInv, NEW hashes \in Batches,
         StartInsertBatch(hashes) \/ StartContainsBatch(hashes)
  PROVE  IndInv' /\ Positives' = Positives
<1>1. /\ \/ InsertBatchCall(hashes)
         \/ ContainsBatchCall(hashes, Cleared(Len(hashes)))
      /\ UNCHANGED <<fixed, bitvector>>
      /\ hash_array' = hashes /\ i' = 0
      /\ \/ call' = "inserting"
         \/ call' = "probing" /\ result' = Cleared(Len(hashes))
  BY DEF StartInsertBatch, StartContainsBatch, InsertBatchCall, ContainsBatchCall
<1>2. CallsTypeOK' /\ Inserted' = Inserted
  BY <1>1, Basics, BatchCalls DEF IndInv
<1>3. TypeOK' /\ BitsOfInserted' /\ Positives' = Positives
  BY <1>1, <1>2, QuietStep
<1>4. AnswersSoFar'
  <2>1. Len(hashes) \in Nat /\ Len(hashes) <= MaxBatch
    BY CallsAssumption
  <2>2. Replied(hashes, Positives', 0, result_bytes(Len(hashes)), Cleared(Len(hashes)))
    BY <2>1, ClearedReply
  <2> QED
    BY <1>1, <2>2 DEF AnswersSoFar, count, Replied, ReplyByte, result_bytes
<1> QED
  BY <1>3, <1>4 DEF IndInv

LEMMA InsertNextStep ==
  ASSUME IndInv, InsertNext
  PROVE  IndInv' /\ \E S \in SUBSET Range(hash_array) : Grows(S)
<1>1. /\ call = "inserting" /\ call' = "inserting" /\ i' = i + 1
      /\ i < count /\ UNCHANGED fixed /\ insertImpl(hash(i)) /\ Inserting(i + 1)
      /\ UNCHANGED hash_array /\ TypeOK
  BY DEF InsertNext, Inserting, IndInv
<1>2. hash(i) \in Hashes /\ hash(i) \in Range(hash_array)
  BY <1>1, Basics, CountType
<1>3. Elements(i, i + 1) = {hash(i)} /\ i + 1 \in i .. count
  BY <1>1, Basics, OneElement
<1>4. CallsTypeOK' /\ Inserted' = Inserted \cup {hash(i)}
  BY <1>1, <1>3, Basics, InsertingCalls
<1>5. bitvector' = Added(bitvector, Masks, Blocks, {hash(i)}, num_blocks)
  BY <1>1, <1>2, InsertImplAdds
<1>6. TypeOK' /\ BitsOfInserted' /\ Grows({hash(i)})
  BY <1>1, <1>2, <1>4, <1>5, AddedStep DEF Grows
<1>7. AnswersSoFar'
  BY <1>1 DEF AnswersSoFar
<1> QED
  BY <1>2, <1>6, <1>7 DEF IndInv

\* When the call returns, the filter finds all elements.
LEMMA EndInsertBatchStep ==
  ASSUME IndInv, EndInsertBatch
  PROVE  /\ IndInv' /\ Positives' = Positives
         /\ Range(hash_array) \subseteq Positives
<1>1. /\ InsertBatchReturn /\ UNCHANGED <<fixed, bitvector>> /\ TypeOK
      /\ call = "inserting" /\ i = count /\ call' = "idle"
  BY DEF EndInsertBatch, InsertBatchReturn, IndInv
<1>2. CallsTypeOK' /\ Inserted' = Inserted
  BY <1>1, Basics, InsertReturnCalls
<1>3. TypeOK' /\ BitsOfInserted' /\ Positives' = Positives
  BY <1>1, <1>2, QuietStep
<1>4. Range(hash_array) \subseteq Inserted
  BY <1>1, Basics, CountType DEF Inserted
<1>5. Inserted \subseteq Positives
  BY <1>1, Basics, BitsAsTable, MaskTypes, InsertedFound DEF IndInv
<1> QED
  BY <1>1, <1>3, <1>4, <1>5 DEF IndInv, AnswersSoFar

\* While probing, the bytes of the reply are in the buffer.
LEMMA ReplyBytesInBuffer ==
  ASSUME TypeOK
  PROVE  /\ result_bytes(count) \in Nat
         /\ \A b \in 0 .. result_bytes(count) - 1 : b \in BufferBytes
<1>1. count \in Nat /\ count <= MaxBatch
  BY Basics, CountType
<1> QED
  BY <1>1, ReplyBytes, ReplyInBuffer

LEMMA ProbeNextStep ==
  ASSUME IndInv, ProbeNext
  PROVE  IndInv' /\ Positives' = Positives
<1> DEFINE after == IF hash_array[i + 1] \in Positives
                    THEN setBit(result, i) ELSE result
<1>1. /\ call = "probing" /\ call' = "probing" /\ i' = i + 1 /\ i < count
      /\ UNCHANGED <<fixed, bitvector, hash_array>> /\ TypeOK
  BY DEF ProbeNext, Probing, IndInv
<1>2. i \in Nat /\ count \in Nat /\ i + 1 \in i .. count /\ result \in Buffers
  BY <1>1, Basics
<1>3. result' = after /\ Probing(i + 1, after)
  <2>1. hash_array[i + 1] \in Hashes /\ hash(i) = hash_array[i + 1]
    BY <1>1, <1>2, Basics, CountType DEF hash
  <2> QED
    BY <2>1 DEF ProbeNext, Probing, Positives
<1>4. after \in Buffers
  BY <1>2, ReplyTypes
<1>5. CallsTypeOK' /\ Inserted' = Inserted
  BY <1>1, <1>2, <1>3, <1>4, Basics, ProbingCalls DEF Buffers
<1>6. TypeOK' /\ BitsOfInserted' /\ Positives' = Positives
  BY <1>1, <1>5, QuietStep
<1>7. Replied(hash_array, Positives, i + 1, result_bytes(count), after)
  BY <1>1, <1>2, ReplyBytesInBuffer, BitReply DEF IndInv, AnswersSoFar
<1> HIDE DEF after
<1>8. AnswersSoFar'
  BY <1>1, <1>3, <1>6, <1>7 DEF AnswersSoFar, count, result_bytes
<1> QED
  BY <1>6, <1>8 DEF IndInv

LEMMA QuietNextStep ==
  ASSUME IndInv, EndContainsBatch \/ UNCHANGED vars
  PROVE  IndInv' /\ Positives' = Positives
<1>1. /\ ContainsBatchReturn \/ UNCHANGED callVars
      /\ UNCHANGED <<fixed, bitvector, hash_array, i, result>>
      /\ call' = call \/ (call = "probing" /\ i = count /\ call' = "answered")
      /\ TypeOK
  BY DEF EndContainsBatch, ContainsBatchReturn, vars, callVars, fixed, IndInv
<1>2. CallsTypeOK' /\ Inserted' = Inserted
  BY <1>1, Basics, QuietCalls
<1>3. TypeOK' /\ BitsOfInserted' /\ Positives' = Positives
  BY <1>1, <1>2, QuietStep
<1>4. AnswersSoFar'
  BY <1>1, <1>3 DEF IndInv, AnswersSoFar, count, result_bytes
<1> QED
  BY <1>3, <1>4 DEF IndInv

LEMMA NextInv == IndInv /\ [Next]_vars => IndInv'
<1> SUFFICES ASSUME IndInv, [Next]_vars PROVE IndInv'
  OBVIOUS
<1> QED
  BY InsertStep, StartBatchStep, InsertNextStep, EndInsertBatchStep, ProbeNextStep,
     QuietNextStep
     DEF Next, Step

LEMMA Invariance == Spec => []IndInv
  BY InitInv, NextInv, PTL DEF Spec

-----------------------------------------------------------------------------
(* The theorems *)

\* Every variable keeps its type; in particular every mask and shift is that
\* of a hash, and no loop passes the end of its batch.
THEOREM TypeCorrect == Spec => []TypeOK
<1>1. IndInv => TypeOK
  BY DEF IndInv
<1> QED
  BY <1>1, Invariance, PTL

\* The filter's bits are a function of the set of hashes inserted, for scalar
\* and batch insertion alike.
THEOREM BitsCorrect == Spec => []BitsOfInserted
<1>1. IndInv => BitsOfInserted
  BY DEF IndInv
<1> QED
  BY <1>1, Invariance, PTL

\* What the filter is for: a hash whose insertion has returned is found,
\* for ever, however it was inserted and whatever has been inserted since.
THEOREM NeverFalseNegative == Spec => [](\A h \in members : containsImpl(h))
<1>1. IndInv => \A h \in members : containsImpl(h)
  <2> SUFFICES ASSUME IndInv, NEW h \in members PROVE containsImpl(h)
    OBVIOUS
  <2>1. TypeOK /\ h \in Inserted /\ Inserted \subseteq Hashes
    BY Basics DEF IndInv, Inserted
  <2>2. Inserted \subseteq Positives
    BY <2>1, Basics, BitsAsTable, MaskTypes, InsertedFound DEF IndInv
  <2> QED
    BY <2>1, <2>2, Basics, MaskTypes DEF Positives
<1> QED
  BY <1>1, Invariance, PTL

\* What containsBatch leaves in the buffer is what contains would answer, bit
\* by bit and with clear padding, whatever the buffer held before.
THEOREM AnswersAreExact == Spec => []AnswersExact
<1>1. IndInv => AnswersExact
  <2> SUFFICES ASSUME IndInv, call = "answered",
                      NEW b \in 0 .. result_bytes(count) - 1
               PROVE  result[b] = {k \in 0 .. ByteBits - 1 :
                                     /\ ByteBits * b + k < count
                                     /\ containsImpl(hash(ByteBits * b + k))}
    BY DEF AnswersExact
  <2>1. result[b] = ReplyByte(hash_array, Positives, b, count)
    BY DEF IndInv, AnswersSoFar, Replied
  <2>2. \A k \in 0 .. ByteBits - 1 :
          ByteBits * b + k < count =>
            (hash_array[ByteBits * b + k + 1] \in Positives
               <=> containsImpl(hash(ByteBits * b + k)))
    <3>1. TypeOK /\ b \in Nat /\ ByteBits * b \in Nat
      BY CallConstants, Basics, ReplyBytesInBuffer, BytesAreOrdered DEF IndInv
    <3>2. \A k \in 0 .. ByteBits - 1 :
            ByteBits * b + k < count => ByteBits * b + k \in 0 .. count - 1
      BY <3>1, CallConstants, Basics
    <3> QED
      BY <3>1, <3>2, Basics, CountType DEF Positives, hash
  <2> QED
    BY <2>1, <2>2 DEF ReplyByte
<1> QED
  BY <1>1, Invariance, PTL

\* No call writes a byte of the caller's buffer that is not part of a reply.
THEOREM WritesOnlyReply == Spec => OnlyReplyBytesWritten
<1>1. ASSUME IndInv, [Next]_vars
      PROVE  \A b \in BufferBytes :
               result'[b] # result[b] =>
                 call' = "probing" /\ b < result_bytes(Len(hash_array'))
  <2>1. i \in Nat /\ count \in Nat /\ result \in Buffers
    BY <1>1, Basics DEF IndInv
  <2>2. CASE ProbeNext
    BY <2>1, <2>2, WritesWithin, OnlyReplyWritten DEF ProbeNext
  <2>3. ASSUME NEW hashes \in Batches, StartContainsBatch(hashes)
        PROVE  \E buffer : /\ ContainsBatchCall(hashes, buffer)
                           /\ Within(result, buffer, Len(hashes))
    BY <2>1, <2>3, CallsAssumption, WritesWithin DEF StartContainsBatch
  <2> QED
    BY <1>1, <2>2, <2>3, OnlyReplyWritten
       DEF Next, Step, Insert, StartInsertBatch, InsertNext, EndInsertBatch,
           EndContainsBatch, vars
<1> QED
  BY <1>1, Invariance, PTL DEF Spec, OnlyReplyBytesWritten

-----------------------------------------------------------------------------
(* The filter implements BloomFilterSpec: a scalar insertion and the start *)
(* and return of a batch are the same steps of the abstract filter, an     *)
(* iteration of an insertion loop is InsertSome, and an iteration of a     *)
(* probing loop is invisible.                                              *)

LEMMA AbsInit == Init => Abs!Init
<1> SUFFICES ASSUME Init PROVE Abs!Init
  OBVIOUS
<1>1. IndInv /\ Inserted = {} /\ call = "idle" /\ hash_array = <<>> /\ members = {}
  BY InitInv, CallsInitially DEF Init, CallsInit
<1>2. Positives = {}
  <2> SUFFICES ASSUME NEW h \in Hashes PROVE ~containsImpl(h)
    BY DEF Positives
  <2>1. /\ h \in Nat /\ block_id(h) \in 0 .. num_blocks - 1
        /\ bitvector[block_id(h)] = {}
    BY <1>1, CallConstants, Basics, BlockInRange DEF IndInv, Init
  <2> QED
    BY <2>1, Constants DEF containsImpl
<1> QED
  BY <1>1, <1>2 DEF Abs!Init, Positives, Answers

\* Every step of the filter is one of BloomFilterSpec or a stutter.
LEMMA AbsInsert ==
  ASSUME IndInv, NEW h \in Hashes, Insert(h)
  PROVE  Abs!Insert(h)
<1>1. ScalarInsert(h) /\ Grows({h}) /\ Answers' = <<>>
  BY InsertStep, NoAnswers DEF Insert
<1> QED
  BY <1>1 DEF Abs!Insert, Abs!Ready, Abs!Grow, Grows, Positives,
     ScalarInsert, Ready

LEMMA AbsStartBatch ==
  ASSUME IndInv, NEW hashes \in Batches
  PROVE  /\ StartInsertBatch(hashes) => Abs!InsertBatchCall
         /\ StartContainsBatch(hashes) => Abs!ContainsBatchCall
<1>1. hashes \in Seq(Hashes)
  BY CallsAssumption
<1>2. ASSUME StartInsertBatch(hashes) PROVE Abs!InsertBatchCall
  <2>1. InsertBatchCall(hashes) /\ Positives' = Positives /\ Answers' = <<>>
    BY <1>2, StartBatchStep, NoAnswers DEF StartInsertBatch
  <2> QED
    BY <1>1, <2>1 DEF Abs!InsertBatchCall, Abs!Ready, Positives,
       InsertBatchCall, Ready
<1>3. ASSUME StartContainsBatch(hashes) PROVE Abs!ContainsBatchCall
  <2>1. /\ \E buffer : ContainsBatchCall(hashes, buffer)
        /\ Positives' = Positives /\ Answers' = <<>>
    BY <1>3, StartBatchStep, NoAnswers DEF StartContainsBatch
  <2> QED
    BY <1>1, <2>1 DEF Abs!ContainsBatchCall, Abs!Ready, Positives,
       ContainsBatchCall, Ready
<1> QED
  BY <1>2, <1>3

LEMMA AbsInsertSome ==
  ASSUME IndInv, InsertNext
  PROVE  Abs!InsertSome
<1>1. \E next : Inserting(next)
  BY DEF InsertNext
<1>2. /\ call = "inserting" /\ UNCHANGED <<call, hash_array, members>>
      /\ Answers' = Answers
  BY <1>1, NoAnswers DEF Inserting
<1>3. PICK S \in SUBSET Range(hash_array) : Grows(S)
  BY InsertNextStep
<1> QED
  BY <1>2, <1>3 DEF Abs!InsertSome, Abs!Grow, Grows, Positives,
     Abs!Range, Range

LEMMA AbsReturn ==
  ASSUME IndInv
  PROVE  /\ EndInsertBatch => Abs!InsertBatchReturn
         /\ EndContainsBatch => Abs!ContainsBatchReturn
<1>1. ASSUME EndInsertBatch PROVE Abs!InsertBatchReturn
  <2>1. /\ InsertBatchReturn /\ Positives' = Positives
        /\ Range(hash_array) \subseteq Positives /\ Answers' = Answers
    BY <1>1, EndInsertBatchStep, NoAnswers DEF EndInsertBatch, InsertBatchReturn
  <2> QED
    BY <2>1 DEF Abs!InsertBatchReturn, Positives, InsertBatchReturn,
       Abs!Range, Range
<1>2. ASSUME EndContainsBatch PROVE Abs!ContainsBatchReturn
  <2>1. /\ ContainsBatchReturn /\ Positives' = Positives
        /\ CallsTypeOK /\ call = "probing" /\ i = count
    BY <1>2, QuietNextStep, Basics
       DEF EndContainsBatch, ContainsBatchReturn, IndInv
  <2>2. Answers' = [k \in 1 .. Len(hash_array) |-> hash_array[k] \in Positives]
    BY <2>1, AnswersOfReply DEF IndInv, AnswersSoFar
  <2> QED
    BY <2>1, <2>2 DEF Abs!ContainsBatchReturn, Positives, ContainsBatchReturn
<1> QED
  BY <1>1, <1>2

LEMMA AbsStutter ==
  ASSUME IndInv, ProbeNext \/ UNCHANGED vars
  PROVE  UNCHANGED Abs!vars
<1>1. Positives' = Positives
  BY ProbeNextStep, QuietNextStep
<1>2. CASE ProbeNext
  <2>1. \E next, buffer : Probing(next, buffer)
    BY <1>2 DEF ProbeNext
  <2>2. UNCHANGED <<call, hash_array, members>> /\ Answers' = Answers
    BY <2>1, NoAnswers DEF Probing
  <2> QED
    BY <1>1, <2>2 DEF Abs!vars, Positives
<1>3. CASE UNCHANGED vars
  BY <1>1, <1>3 DEF vars, callVars, Abs!vars, Positives, Answers, count,
     packed_result_bit
<1> QED
  BY <1>2, <1>3

\* The filter implements the approximate set of BloomFilterSpec, so that
\* whatever follows from the interface's promise holds of this filter.
THEOREM ImplementsInterface == Spec => RefinesSpec
<1>1. IndInv /\ [Next]_vars => [Abs!Next]_(Abs!vars)
  <2> SUFFICES ASSUME IndInv, [Next]_vars
               PROVE  Abs!Next \/ UNCHANGED Abs!vars
    OBVIOUS
  <2> QED
    BY AbsInsert, AbsStartBatch, AbsInsertSome, AbsReturn, AbsStutter
       DEF Next, Step, Abs!Next
<1> QED
  BY <1>1, AbsInit, Invariance, PTL DEF Spec, RefinesSpec

-----------------------------------------------------------------------------
(* The loop that makes a mask.  BlockMask tabulates what mask returns;     *)
(* here is why it returns words of num_hashes bits, as the filter assumes, *)
(* whatever the mixing function.  That it returns at all depends on that   *)
(* function: run blocked_mask_returns finds a hash for which it does not.  *)

CONSTANT murmur

VARIABLES argument, drawn, taken, bits

Loop == INSTANCE BlockedMask WITH
          x      <- drawn,
          i      <- taken,
          result <- bits

LoopInv == Loop!TypeOK /\ Loop!PositionsDistinct

LEMMA LoopCardinality ==
  ASSUME NEW S PROVE Loop!Cardinality(S) = Cardinality(S)
  BY DEF Loop!Cardinality, Cardinality

\* A position is a bit of the block, and mixing yields a hash.
LEMMA NextDraw ==
  ASSUME murmur \in [Loop!HashSpace -> Loop!HashSpace], Loop!TypeOK
  PROVE  Loop!next_x \in Loop!HashSpace /\ Loop!bit_pos \in 0 .. WordBits - 1
<1>1. 2^HashBits \in Nat /\ 2^HashBits >= 1
  BY Constants, PowerOfTwo
<1>2. drawn \in Nat /\ taken \in Nat
  BY <1>1 DEF Loop!TypeOK, Loop!HashSpace
<1>3. (drawn + taken) % 2^HashBits \in Loop!HashSpace
  BY <1>1, <1>2 DEF Loop!HashSpace
<1>4. Loop!next_x \in Loop!HashSpace
  BY <1>3 DEF Loop!next_x
<1>5. Loop!next_x \in Nat
  BY <1>1, <1>4 DEF Loop!HashSpace
<1> QED
  BY <1>4, <1>5, CallConstants DEF Loop!bit_pos

LEMMA LoopInit ==
  ASSUME num_hashes <= WordBits PROVE Loop!Init => LoopInv
<1> SUFFICES ASSUME Loop!Init PROVE LoopInv
  OBVIOUS
<1>1. Loop!TypeOK
  BY BlockedAssumption DEF Loop!Init, Loop!TypeOK, Loop!HashSpace, Loop!Word
<1>2. Loop!PositionsDistinct
  BY FS_EmptySet, LoopCardinality DEF Loop!Init, Loop!PositionsDistinct
<1> QED
  BY <1>1, <1>2 DEF LoopInv

LEMMA LoopNext ==
  ASSUME murmur \in [Loop!HashSpace -> Loop!HashSpace],
         LoopInv, [Loop!Next]_(Loop!vars)
  PROVE  LoopInv'
<1>1. /\ Loop!TypeOK /\ Loop!PositionsDistinct
      /\ Loop!next_x \in Loop!HashSpace /\ Loop!bit_pos \in 0 .. WordBits - 1
      /\ taken \in Int /\ num_hashes \in Nat
  BY NextDraw, BlockedAssumption DEF LoopInv, Loop!TypeOK
<1>2. CASE Loop!Take
  <2>1. /\ taken < num_hashes /\ Loop!bit_pos \notin bits
        /\ bits' = bits \cup {Loop!bit_pos} /\ taken' = taken + 1
        /\ drawn' = Loop!next_x /\ argument' = argument
    BY <1>2 DEF Loop!Take
  <2>2. Loop!TypeOK'
    BY <1>1, <2>1 DEF Loop!TypeOK, Loop!Word
  <2>3. IsFiniteSet(bits)
    <3>1. IsFiniteSet(0 .. WordBits - 1) /\ bits \in SUBSET (0 .. WordBits - 1)
      BY <1>1, CallConstants, FS_Interval DEF Loop!TypeOK, Loop!Word
    <3> QED
      BY <3>1, FS_Subset
  <2>4. Cardinality(bits \cup {Loop!bit_pos}) = Cardinality(bits) + 1
    BY <2>1, <2>3, FS_AddElement
  <2> QED
    BY <1>1, <2>1, <2>2, <2>4, LoopCardinality DEF LoopInv, Loop!PositionsDistinct
<1>3. CASE Loop!Redraw
  BY <1>1, <1>3 DEF LoopInv, Loop!Redraw, Loop!TypeOK, Loop!PositionsDistinct
<1>4. CASE UNCHANGED Loop!vars
  BY <1>1, <1>4 DEF LoopInv, Loop!vars, Loop!TypeOK, Loop!PositionsDistinct
<1> QED
  BY <1>2, <1>3, <1>4 DEF Loop!Next

\* Every value drawn is a hash and every position taken is inside the block.
THEOREM MaskTypeCorrect ==
  ASSUME num_hashes <= WordBits, murmur \in [Loop!HashSpace -> Loop!HashSpace]
  PROVE  Loop!Spec => []Loop!TypeOK
<1>1. LoopInv => Loop!TypeOK
  BY DEF LoopInv
<1> QED
  BY <1>1, LoopInit, LoopNext, PTL DEF Loop!Spec

\* No position is counted twice, so that a mask has num_hashes bits when the
\* loop ends, whatever the mixing function yields.
THEOREM MaskPositionsDistinct ==
  ASSUME num_hashes <= WordBits, murmur \in [Loop!HashSpace -> Loop!HashSpace]
  PROVE  Loop!Spec => []Loop!PositionsDistinct
<1>1. LoopInv => Loop!PositionsDistinct
  BY DEF LoopInv
<1> QED
  BY <1>1, LoopInit, LoopNext, PTL DEF Loop!Spec
=============================================================================
