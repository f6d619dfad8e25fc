---------------------- MODULE BasicBloomFilter_proofs ----------------------
(***************************************************************************)
(* Proofs about BasicBloomFilter, for every set of hashes and every batch  *)
(* length, number of bits per hash and size of filter, whole bytes or not; *)
(* and about the computation of its size (module ArrowEquivalentBits).     *)
(***************************************************************************)
EXTENDS BasicBloomFilter, FilterCalls_proofs

-----------------------------------------------------------------------------
(* The bits of the filter, as one array                                    *)

\* The bits set, padding included, and the hashes that the filter finds.
SetBits   == {idx \in 0 .. ByteBits * Cardinality(FilterBytes) - 1 : getBit(idx)}
Positives == {h \in Hashes : containsImpl(h)}

\* The bits of a hash that byte b holds, as positions in the byte.
BitsInByte(h, b) ==
  {idx % ByteBits : idx \in {n \in BitsFor(h) : n \div ByteBits = b}}

LEMMA Size ==
  ASSUME num_bits \in Sizes
  PROVE  /\ num_bits \in Nat
         /\ FilterBytes = 0 .. result_bytes(num_bits) - 1
         /\ Cardinality(FilterBytes) = result_bytes(num_bits)
         /\ result_bytes(num_bits) \in Nat
<1>1. num_bits \in Nat
  BY BasicAssumption
<1>2. result_bytes(num_bits) \in Nat
  BY <1>1, ReplyBytes
<1>3. FilterBytes = 0 .. result_bytes(num_bits) - 1
  BY DEF FilterBytes, result_bytes
<1>4. Cardinality(0 .. result_bytes(num_bits) - 1) = result_bytes(num_bits)
  BY <1>2, FS_Interval
<1> QED
  BY <1>1, <1>2, <1>3, <1>4

\* Every bit is in a byte of the array.
LEMMA ByteOfBit ==
  ASSUME num_bits \in Sizes,
         NEW idx \in 0 .. ByteBits * Cardinality(FilterBytes) - 1
  PROVE  /\ idx \in Nat /\ idx \div ByteBits \in FilterBytes
         /\ idx % ByteBits \in 0 .. ByteBits - 1
<1> DEFINE n == result_bytes(num_bits)
           q == idx \div ByteBits
<1>1. n \in Nat /\ ByteBits \in Nat /\ ByteBits >= 1 /\ ByteBits * n \in Nat
      /\ idx \in 0 .. ByteBits * n - 1
  BY Size, CallConstants, BytesAreOrdered
<1> HIDE DEF n
<1>2. idx \in Nat /\ idx < ByteBits * n
  BY <1>1
<1>3. q \in Nat /\ idx % ByteBits \in 0 .. ByteBits - 1
      /\ idx = ByteBits * q + (idx % ByteBits)
  BY <1>1, <1>2, Division
<1> HIDE DEF q
<1>4. ByteBits * q \in Nat /\ n < q => ByteBits * n + ByteBits <= ByteBits * q
  BY <1>1, <1>3, BytesAreOrdered
<1>5. ByteBits * q \in Nat
  BY <1>1, <1>3, BytesAreOrdered
<1>6. q < n
  BY <1>1, <1>2, <1>3, <1>4, <1>5
<1> QED
  BY <1>2, <1>3, <1>6, Size DEF n, q

\* The bits of a hash are bits of the array.
LEMMA BitsForInArray ==
  ASSUME num_bits \in Sizes, NEW h \in Hashes
  PROVE  BitsFor(h) \subseteq 0 .. ByteBits * Cardinality(FilterBytes) - 1
<1> SUFFICES ASSUME NEW k \in 0 .. num_hashes - 1
             PROVE  bit_of[num_bits][<<h, k>>]
                      \in 0 .. ByteBits * Cardinality(FilterBytes) - 1
  BY DEF BitsFor
<1> DEFINE idx == bit_of[num_bits][<<h, k>>]
           n   == result_bytes(num_bits)
           q   == idx \div ByteBits
<1>1. idx \in Nat /\ idx < num_bits
  BY BasicAssumption
<1>2. num_bits \in Nat /\ n \in Nat /\ Cardinality(FilterBytes) = n
      /\ ByteBits \in Nat /\ ByteBits >= 1
  BY Size, CallConstants
<1> HIDE DEF idx, n
<1>3. q \in Nat /\ q < n /\ idx % ByteBits \in 0 .. ByteBits - 1
      /\ idx = ByteBits * q + (idx % ByteBits)
  BY <1>1, <1>2, ByteOfElement, Division DEF n
<1> HIDE DEF q
<1>4. ByteBits * q + ByteBits <= ByteBits * n /\ ByteBits * q \in Nat
      /\ ByteBits * n \in Nat
  BY <1>2, <1>3, BytesAreOrdered
<1>5. idx \in 0 .. ByteBits * n - 1
  BY <1>1, <1>2, <1>3, <1>4
<1> QED
  BY <1>2, <1>5 DEF idx

\* A hash is found when its bits are among those set.
LEMMA FoundByBits ==
  ASSUME num_bits \in Sizes, NEW h \in Hashes
  PROVE  containsImpl(h) <=> BitsFor(h) \subseteq SetBits
  BY BitsForInArray DEF containsImpl, SetBits

\* An insertion sets the bits of the hash and no other.
LEMMA InsertImplAdds ==
  ASSUME TypeOK, UNCHANGED fixed, NEW h \in Hashes, insertImpl(h)
  PROVE  /\ bitvector' \in [FilterBytes -> Byte]
         /\ SetBits' = SetBits \cup BitsFor(h)
<1>1. num_bits \in Sizes /\ num_bits' = num_bits /\ FilterBytes' = FilterBytes
      /\ bitvector \in [FilterBytes -> Byte]
  BY DEF TypeOK, fixed, FilterBytes
<1>2. bitvector' = [b \in FilterBytes |-> bitvector[b] \cup BitsInByte(h, b)]
  BY DEF insertImpl, BitsInByte
<1>3. \A b : BitsInByte(h, b) \subseteq 0 .. ByteBits - 1
  BY <1>1, BitsForInArray, ByteOfBit DEF BitsInByte
<1>4. bitvector' \in [FilterBytes -> Byte]
  BY <1>1, <1>2, <1>3 DEF Byte
<1> DEFINE A == 0 .. ByteBits * Cardinality(FilterBytes) - 1
<1>5. ASSUME NEW idx \in A
      PROVE  getBit(idx)' <=> getBit(idx) \/ idx \in BitsFor(h)
  <2>1. idx \div ByteBits \in FilterBytes /\ idx \in Nat
    BY <1>1, ByteOfBit
  <2>2. idx % ByteBits \in BitsInByte(h, idx \div ByteBits) <=> idx \in BitsFor(h)
    <3>1. ASSUME NEW n \in BitsFor(h), n \div ByteBits = idx \div ByteBits,
                 n % ByteBits = idx % ByteBits
          PROVE  n = idx
      <4>1. n \in Nat
        BY <1>1, BitsForInArray, ByteOfBit
      <4>2. /\ n = ByteBits * (n \div ByteBits) + (n % ByteBits)
            /\ idx = ByteBits * (idx \div ByteBits) + (idx % ByteBits)
        BY <2>1, <4>1, CallConstants, Division
      <4> QED
        BY <3>1, <4>2
    <3> QED
      BY <3>1 DEF BitsInByte
  <2>3. bitvector'[idx \div ByteBits]
          = bitvector[idx \div ByteBits] \cup BitsInByte(h, idx \div ByteBits)
    BY <1>2, <2>1
  <2> QED
    BY <2>2, <2>3 DEF getBit
<1>6. BitsFor(h) \subseteq A
  BY <1>1, BitsForInArray
<1>7. SetBits' = {idx \in A : getBit(idx)'}
  BY <1>1 DEF SetBits
<1> HIDE DEF A
<1> QED
  BY <1>4, <1>5, <1>6, <1>7 DEF SetBits, A

-----------------------------------------------------------------------------
(* The inductive invariant: besides the types and the bits, that the       *)
(* buffer holds the reply to the elements that a containsBatch has         *)
(* processed.                                                              *)

AnswersSoFar ==
  /\ call = "answered" => i = count
  /\ call \in {"probing", "answered"} =>
       Replied(hash_array, Positives, i, result_bytes(count), result)

IndInv == TypeOK /\ BitsOfInserted /\ AnswersSoFar

\* The facts that every step's proof starts from.
LEMMA Basics ==
  ASSUME TypeOK
  PROVE  /\ CallsTypeOK
         /\ num_bits \in Sizes
         /\ i \in 0 .. count /\ i \in Nat /\ count \in Nat
         /\ result \in Buffers
         /\ Inserted \subseteq Hashes
  BY CountType DEF TypeOK, CallsTypeOK, Buffers

\* A step that inserts a hash keeps the types and the bits right, loses no
\* positive, and gains none on behalf of a positive.
LEMMA AddedStep ==
  ASSUME IndInv, UNCHANGED fixed, CallsTypeOK', NEW h \in Hashes,
         Inserted' = Inserted \cup {h}, insertImpl(h)
  PROVE  /\ TypeOK' /\ BitsOfInserted'
         /\ Positives \subseteq Positives' /\ {h} \subseteq Positives'
         /\ {h} \subseteq Positives => Positives' = Positives
<1>1. /\ TypeOK /\ num_bits \in Sizes /\ num_bits' = num_bits
      /\ \A g : BitsFor(g)' = BitsFor(g)
  BY Basics DEF IndInv, fixed, BitsFor
<1>2. /\ bitvector' \in [FilterBytes -> Byte]
      /\ SetBits' = SetBits \cup BitsFor(h)
  BY <1>1, InsertImplAdds
<1>3. TypeOK'
  BY <1>1, <1>2 DEF TypeOK, FilterBytes
<1>4. BitsOfInserted'
  <2>1. SetBits = UNION {BitsFor(g) : g \in Inserted}
    BY DEF IndInv, BitsOfInserted, SetBits
  <2>2. ASSUME NEW x
        PROVE  x \in UNION {BitsFor(g) : g \in Inserted \cup {h}}
                 <=> x \in UNION {BitsFor(g) : g \in Inserted} \/ x \in BitsFor(h)
    OBVIOUS
  <2>3. SetBits' = UNION {BitsFor(g) : g \in Inserted'}
    BY <1>2, <2>1, <2>2
  <2> QED
    BY <1>1, <2>3 DEF BitsOfInserted, SetBits
<1>5. \A g \in Hashes : g \in Positives <=> BitsFor(g) \subseteq SetBits
  BY <1>1, FoundByBits DEF Positives
<1>6. \A g \in Hashes : containsImpl(g)' <=> BitsFor(g) \subseteq SetBits'
  <2> SUFFICES ASSUME NEW g \in Hashes
               PROVE  containsImpl(g)' <=> BitsFor(g) \subseteq SetBits'
    OBVIOUS
  <2>1. BitsFor(g) \subseteq 0 .. ByteBits * Cardinality(FilterBytes) - 1
    BY <1>1, BitsForInArray
  <2>2. FilterBytes' = FilterBytes /\ BitsFor(g)' = BitsFor(g)
    BY <1>1 DEF FilterBytes
  <2> QED
    BY <2>1, <2>2 DEF containsImpl, SetBits
<1>7. Positives' = {g \in Hashes : BitsFor(g) \subseteq SetBits'}
      /\ Positives = {g \in Hashes : BitsFor(g) \subseteq SetBits}
  BY <1>5, <1>6 DEF Positives
<1> QED
  BY <1>2, <1>3, <1>4, <1>7

\* A step that inserts nothing changes no answer.
LEMMA QuietStep ==
  ASSUME IndInv, UNCHANGED fixed, CallsTypeOK', Inserted' = Inserted,
         bitvector' = bitvector
  PROVE  TypeOK' /\ BitsOfInserted' /\ Positives' = Positives
<1>1. TypeOK'
  BY DEF IndInv, TypeOK, fixed, FilterBytes
<1>2. \A h : containsImpl(h)' = containsImpl(h)
  BY DEF fixed, containsImpl, BitsFor, getBit
<1>3. BitsOfInserted'
  BY DEF IndInv, BitsOfInserted, fixed, BitsFor, FilterBytes, getBit
<1> QED
  BY <1>1, <1>2, <1>3 DEF Positives

-----------------------------------------------------------------------------
(* Every step preserves the invariant.  Grows says, of the same steps, what *)
(* they do to the answers of contains.                                      *)

Grows(S) ==
  /\ Positives \subseteq Positives'
  /\ S \subseteq Positives'
  /\ S \subseteq Positives => Positives' = Positives

LEMMA InitInv == Init => IndInv
<1> SUFFICES ASSUME Init PROVE IndInv
  OBVIOUS
<1>1. CallsTypeOK /\ Inserted = {} /\ call = "idle"
  BY CallsInitially DEF Init, CallsInit
<1>2. num_bits \in Sizes /\ bitvector = [b \in FilterBytes |-> {}]
  BY DEF Init
<1>3. TypeOK
  BY <1>1, <1>2 DEF TypeOK, Byte
<1>4. \A idx \in 0 .. ByteBits * Cardinality(FilterBytes) - 1 : ~getBit(idx)
  BY <1>2, ByteOfBit DEF getBit
<1>5. BitsOfInserted
  BY <1>1, <1>4 DEF BitsOfInserted
<1> QED
  BY <1>1, <1>3, <1>5 DEF IndInv, AnswersSoFar

LEMMA InsertStep ==
  ASSUME IndInv, NEW h \in Hashes, Insert(h)
  PROVE  IndInv' /\ Grows({h})
<1>1. ScalarInsert(h) /\ insertImpl(h) /\ UNCHANGED fixed /\ call' = "idle"
  BY DEF Insert, ScalarInsert
<1>2. TypeOK
  BY DEF IndInv
<1>3. CallsTypeOK' /\ Inserted' = Inserted \cup {h}
  BY <1>1, <1>2, Basics, ScalarInsertCalls
<1>4. TypeOK' /\ BitsOfInserted' /\ Grows({h})
  BY <1>1, <1>3, AddedStep DEF Grows
<1> QED
  BY <1>1, <1>4 DEF IndInv, AnswersSoFar

LEMMA StartBatchStep ==
  ASSUME IndInv, NEW hashes \in Batches,
         StartInsertBatch(hashes) \/ StartContainsBatch(hashes)
  PROVE  IndInv' /\ Positives' = Positives
<1>1. /\ \/ InsertBatchCall(hashes)
         \/ ContainsBatchCall(hashes, Cleared(Len(hashes)))
      /\ UNCHANGED <<fixed, bitvector>>
      /\ hash_array' = hashes /\ i' = 0
      /\ \/ call' = "inserting"
         \/ call' = "probing" /\ result' = Cleared(Len(hashes))
  BY DEF StartInsertBatch, StartContainsBatch, InsertBatchCall, ContainsBatchCall
<1>2. CallsTypeOK' /\ Inserted' = Inserted
  BY <1>1, Basics, BatchCalls DEF IndInv
<1>3. TypeOK' /\ BitsOfInserted' /\ Positives' = Positives
  BY <1>1, <1>2, QuietStep
<1>4. AnswersSoFar'
  <2>1. Len(hashes) \in Nat /\ Len(hashes) <= MaxBatch
    BY CallsAssumption
  <2>2. Replied(hashes, Positives', 0, result_bytes(Len(hashes)), Cleared(Len(hashes)))
    BY <2>1, ClearedReply
  <2> QED
    BY <1>1, <2>2 DEF AnswersSoFar, count, Replied, ReplyByte, result_bytes
<1> QED
  BY <1>3, <1>4 DEF IndInv

LEMMA InsertNextStep ==
  ASSUME IndInv, InsertNext
  PROVE  IndInv' /\ \E S \in SUBSET Range(hash_array) : Grows(S)
<1>1. /\ call = "inserting" /\ call' = "inserting" /\ i' = i + 1
      /\ i < count /\ UNCHANGED fixed /\ insertImpl(hash(i)) /\ Inserting(i + 1)
      /\ UNCHANGED hash_array /\ TypeOK
  BY DEF InsertNext, Inserting, IndInv
<1>2. hash(i) \in Hashes /\ hash(i) \in Range(hash_array)
  BY <1>1, Basics, CountType
<1>3. Elements(i, i + 1) = {hash(i)} /\ i + 1 \in i .. count
  BY <1>1, Basics, OneElement
<1>4. CallsTypeOK' /\ Inserted' = Inserted \cup {hash(i)}
  BY <1>1, <1>3, Basics, InsertingCalls
<1>5. TypeOK' /\ BitsOfInserted' /\ Grows({hash(i)})
  BY <1>1, <1>2, <1>4, AddedStep DEF Grows
<1>6. AnswersSoFar'
  BY <1>1 DEF AnswersSoFar
<1> QED
  BY <1>2, <1>5, <1>6 DEF IndInv

\* When the call returns, the filter finds all elements.
LEMMA EndInsertBatchStep ==
  ASSUME IndInv, EndInsertBatch
  PROVE  /\ IndInv' /\ Positives' = Positives
         /\ Range(hash_array) \subseteq Positives
<1>1. /\ InsertBatchReturn /\ UNCHANGED <<fixed, bitvector>> /\ TypeOK
      /\ call = "inserting" /\ i = count /\ call' = "idle"
  BY DEF EndInsertBatch, InsertBatchReturn, IndInv
<1>2. CallsTypeOK' /\ Inserted' = Inserted
  BY <1>1, Basics, InsertReturnCalls
<1>3. TypeOK' /\ BitsOfInserted' /\ Positives' = Positives
  BY <1>1, <1>2, QuietStep
<1>4. Range(hash_array) \subseteq Inserted
  BY <1>1, Basics, CountType DEF Inserted
<1>5. Inserted \subseteq Positives
  BY <1>1, Basics, FoundByBits DEF IndInv, BitsOfInserted, SetBits, Positives
<1> QED
  BY <1>1, <1>3, <1>4, <1>5 DEF IndInv, AnswersSoFar

\* While probing, the bytes of the reply are in the buffer.
LEMMA ReplyBytesInBuffer ==
  ASSUME TypeOK
  PROVE  /\ result_bytes(count) \in Nat
         /\ \A b \in 0 .. result_bytes(count) - 1 : b \in BufferBytes
<1>1. count \in Nat /\ count <= MaxBatch
  BY Basics, CountType
<1> QED
  BY <1>1, ReplyBytes, ReplyInBuffer

LEMMA ProbeNextStep ==
  ASSUME IndInv, ProbeNext
  PROVE  IndInv' /\ Positives' = Positives
<1> DEFINE after == IF hash_array[i + 1] \in Positives
                    THEN setBit(result, i) ELSE result
<1>1. /\ call = "probing" /\ call' = "probing" /\ i' = i + 1 /\ i < count
      /\ UNCHANGED <<fixed, bitvector, hash_array>> /\ TypeOK
  BY DEF ProbeNext, Probing, IndInv
<1>2. i \in Nat /\ count \in Nat /\ i + 1 \in i .. count /\ result \in Buffers
  BY <1>1, Basics
<1>3. result' = after /\ Probing(i + 1, after)
  <2>1. hash_array[i + 1] \in Hashes /\ hash(i) = hash_array[i + 1]
    BY <1>1, <1>2, Basics, CountType DEF hash
  <2> QED
    BY <2>1 DEF ProbeNext, Probing, Positives
<1>4. after \in Buffers
  BY <1>2, ReplyTypes
<1>5. CallsTypeOK' /\ Inserted' = Inserted
  BY <1>1, <1>2, <1>3, <1>4, Basics, ProbingCalls DEF Buffers
<1>6. TypeOK' /\ BitsOfInserted' /\ Positives' = Positives
  BY <1>1, <1>5, QuietStep
<1>7. Replied(hash_array, Positives, i + 1, result_bytes(count), after)
  BY <1>1, <1>2, ReplyBytesInBuffer, BitReply DEF IndInv, AnswersSoFar
<1> HIDE DEF after
<1>8. AnswersSoFar'
  BY <1>1, <1>3, <1>6, <1>7 DEF AnswersSoFar, count, result_bytes
<1> QED
  BY <1>6, <1>8 DEF IndInv

LEMMA QuietNextStep ==
  ASSUME IndInv, EndContainsBatch \/ UNCHANGED vars
  PROVE  IndInv' /\ Positives' = Positives
<1>1. /\ ContainsBatchReturn \/ UNCHANGED callVars
      /\ UNCHANGED <<fixed, bitvector, hash_array, i, result>>
      /\ call' = call \/ (call = "probing" /\ i = count /\ call' = "answered")
      /\ TypeOK
  BY DEF EndContainsBatch, ContainsBatchReturn, vars, callVars, fixed, IndInv
<1>2. CallsTypeOK' /\ Inserted' = Inserted
  BY <1>1, Basics, QuietCalls
<1>3. TypeOK' /\ BitsOfInserted' /\ Positives' = Positives
  BY <1>1, <1>2, QuietStep
<1>4. AnswersSoFar'
  BY <1>1, <1>3 DEF IndInv, AnswersSoFar, count, result_bytes
<1> QED
  BY <1>3, <1>4 DEF IndInv

LEMMA NextInv == IndInv /\ [Next]_vars => IndInv'
<1> SUFFICES ASSUME IndInv, [Next]_vars PROVE IndInv'
  OBVIOUS
<1> QED
  BY InsertStep, StartBatchStep, InsertNextStep, EndInsertBatchStep, ProbeNextStep,
     QuietNextStep
     DEF Next, Step

LEMMA Invariance == Spec => []IndInv
  BY InitInv, NextInv, PTL DEF Spec

-----------------------------------------------------------------------------
(* The theorems *)

\* Every variable keeps its type; in particular no bit is set past the last
\* byte, and no loop passes the end of its batch.
THEOREM TypeCorrect == Spec => []TypeOK
<1>1. IndInv => TypeOK
  BY DEF IndInv
<1> QED
  BY <1>1, Invariance, PTL

\* The filter's bits are a function of the set of hashes inserted, for scalar
\* and batch insertion alike.
THEOREM BitsCorrect == Spec => []BitsOfInserted
<1>1. IndInv => BitsOfInserted
  BY DEF IndInv
<1> QED
  BY <1>1, Invariance, PTL

\* What the filter is for: a hash whose insertion has returned is found, for
\* ever, whatever has been inserted since, with any number of bits per hash.
THEOREM NeverFalseNegative == Spec => [](\A h \in members : containsImpl(h))
<1>1. IndInv => \A h \in members : containsImpl(h)
  <2> SUFFICES ASSUME IndInv, NEW h \in members PROVE containsImpl(h)
    OBVIOUS
  <2>1. TypeOK /\ h \in Inserted /\ Inserted \subseteq Hashes
    BY Basics DEF IndInv, Inserted
  <2>2. Inserted \subseteq Positives
    BY <2>1, Basics, FoundByBits DEF IndInv, BitsOfInserted, SetBits, Positives
  <2> QED
    BY <2>1, <2>2 DEF Positives
<1> QED
  BY <1>1, Invariance, PTL

\* A batch that has been answered holds what contains would answer for each of
\* its elements, and 0 in the bits past the last one.
AnswersExact ==
  call = "answered" =>
    \A b \in 0 .. result_bytes(count) - 1 :
      result[b] = {k \in 0 .. ByteBits - 1 :
                     /\ ByteBits * b + k < count
                     /\ containsImpl(hash(ByteBits * b + k))}

\* containsBatchImpl, for every batch length and whatever the buffer held.
THEOREM AnswersAreExact == Spec => []AnswersExact
<1>1. IndInv => AnswersExact
  <2> SUFFICES ASSUME IndInv, call = "answered",
                      NEW b \in 0 .. result_bytes(count) - 1
               PROVE  result[b] = {k \in 0 .. ByteBits - 1 :
                                     /\ ByteBits * b + k < count
                                     /\ containsImpl(hash(ByteBits * b + k))}
    BY DEF AnswersExact
  <2>1. result[b] = ReplyByte(hash_array, Positives, b, count)
    BY DEF IndInv, AnswersSoFar, Replied
  <2>2. \A k \in 0 .. ByteBits - 1 :
          ByteBits * b + k < count =>
            (hash_array[ByteBits * b + k + 1] \in Positives
               <=> containsImpl(hash(ByteBits * b + k)))
    <3>1. TypeOK /\ b \in Nat /\ ByteBits * b \in Nat
      BY CallConstants, Basics, ReplyBytesInBuffer, BytesAreOrdered DEF IndInv
    <3>2. \A k \in 0 .. ByteBits - 1 :
            ByteBits * b + k < count => ByteBits * b + k \in 0 .. count - 1
      BY <3>1, CallConstants, Basics
    <3> QED
      BY <3>1, <3>2, Basics, CountType DEF Positives, hash
  <2> QED
    BY <2>1, <2>2 DEF ReplyByte
<1> QED
  BY <1>1, Invariance, PTL

\* No call writes a byte of the caller's buffer that is not part of a reply.
THEOREM WritesOnlyReply == Spec => OnlyReplyBytesWritten
<1>1. ASSUME IndInv, [Next]_vars
      PROVE  \A b \in BufferBytes :
               result'[b] # result[b] =>
                 call' = "probing" /\ b < result_bytes(Len(hash_array'))
  <2>1. i \in Nat /\ count \in Nat /\ result \in Buffers
    BY <1>1, Basics DEF IndInv
  <2>2. CASE ProbeNext
    BY <2>1, <2>2, WritesWithin, OnlyReplyWritten DEF ProbeNext
  <2>3. ASSUME NEW hashes \in Batches, StartContainsBatch(hashes)
        PROVE  \E buffer : /\ ContainsBatchCall(hashes, buffer)
                           /\ Within(result, buffer, Len(hashes))
    BY <2>1, <2>3, CallsAssumption, WritesWithin DEF StartContainsBatch
  <2> QED
    BY <1>1, <2>2, <2>3, OnlyReplyWritten
       DEF Next, Step, Insert, StartInsertBatch, InsertNext, EndInsertBatch,
           EndContainsBatch, vars
<1> QED
  BY <1>1, Invariance, PTL DEF Spec, OnlyReplyBytesWritten

-----------------------------------------------------------------------------
(* The filter implements BloomFilterSpec: a scalar insertion and the start *)
(* and return of a batch are the same steps of the abstract filter, an     *)
(* iteration of an insertion loop is InsertSome, and an iteration of a     *)
(* probing loop is invisible.                                              *)

\* A hash that has bits is not found when none is set.
LEMMA AbsInit ==
  ASSUME num_hashes >= 1
  PROVE  Init => Abs!Init
<1> SUFFICES ASSUME Init PROVE Abs!Init
  OBVIOUS
<1>1. IndInv /\ Inserted = {} /\ call = "idle" /\ hash_array = <<>> /\ members = {}
  BY InitInv, CallsInitially DEF Init, CallsInit
<1>2. Positives = {}
  <2> SUFFICES ASSUME NEW h \in Hashes PROVE ~containsImpl(h)
    BY DEF Positives
  <2>1. num_bits \in Sizes /\ SetBits = {}
    BY <1>1, Basics DEF IndInv, BitsOfInserted, SetBits
  <2>2. BitsFor(h) # {}
    <3>1. 0 \in 0 .. num_hashes - 1
      BY BasicAssumption
    <3> QED
      BY <3>1 DEF BitsFor
  <2> QED
    BY <2>1, <2>2, FoundByBits
<1> QED
  BY <1>1, <1>2 DEF Abs!Init, Positives, Answers

\* Every step of the filter is one of BloomFilterSpec or a stutter.
LEMMA AbsInsert ==
  ASSUME IndInv, NEW h \in Hashes, Insert(h)
  PROVE  Abs!Insert(h)
<1>1. ScalarInsert(h) /\ Grows({h}) /\ Answers' = <<>>
  BY InsertStep, NoAnswers DEF Insert
<1> QED
  BY <1>1 DEF Abs!Insert, Abs!Ready, Abs!Grow, Grows, Positives,
     ScalarInsert, Ready

LEMMA AbsStartBatch ==
  ASSUME IndInv, NEW hashes \in Batches
  PROVE  /\ StartInsertBatch(hashes) => Abs!InsertBatchCall
         /\ StartContainsBatch(hashes) => Abs!ContainsBatchCall
<1>1. hashes \in Seq(Hashes)
  BY CallsAssumption
<1>2. ASSUME StartInsertBatch(hashes) PROVE Abs!InsertBatchCall
  <2>1. InsertBatchCall(hashes) /\ Positives' = Positives /\ Answers' = <<>>
    BY <1>2, StartBatchStep, NoAnswers DEF StartInsertBatch
  <2> QED
    BY <1>1, <2>1 DEF Abs!InsertBatchCall, Abs!Ready, Positives,
       InsertBatchCall, Ready
<1>3. ASSUME StartContainsBatch(hashes) PROVE Abs!ContainsBatchCall
  <2>1. /\ \E buffer : ContainsBatchCall(hashes, buffer)
        /\ Positives' = Positives /\ Answers' = <<>>
    BY <1>3, StartBatchStep, NoAnswers DEF StartContainsBatch
  <2> QED
    BY <1>1, <2>1 DEF Abs!ContainsBatchCall, Abs!Ready, Positives,
       ContainsBatchCall, Ready
<1> QED
  BY <1>2, <1>3

LEMMA AbsInsertSome ==
  ASSUME IndInv, InsertNext
  PROVE  Abs!InsertSome
<1>1. \E next : Inserting(next)
  BY DEF InsertNext
<1>2. /\ call = "inserting" /\ UNCHANGED <<call, hash_array, members>>
      /\ Answers' = Answers
  BY <1>1, NoAnswers DEF Inserting
<1>3. PICK S \in SUBSET Range(hash_array) : Grows(S)
  BY InsertNextStep
<1> QED
  BY <1>2, <1>3 DEF Abs!InsertSome, Abs!Grow, Grows, Positives,
     Abs!Range, Range

LEMMA AbsReturn ==
  ASSUME IndInv
  PROVE  /\ EndInsertBatch => Abs!InsertBatchReturn
         /\ EndContainsBatch => Abs!ContainsBatchReturn
<1>1. ASSUME EndInsertBatch PROVE Abs!InsertBatchReturn
  <2>1. /\ InsertBatchReturn /\ Positives' = Positives
        /\ Range(hash_array) \subseteq Positives /\ Answers' = Answers
    BY <1>1, EndInsertBatchStep, NoAnswers DEF EndInsertBatch, InsertBatchReturn
  <2> QED
    BY <2>1 DEF Abs!InsertBatchReturn, Positives, InsertBatchReturn,
       Abs!Range, Range
<1>2. ASSUME EndContainsBatch PROVE Abs!ContainsBatchReturn
  <2>1. /\ ContainsBatchReturn /\ Positives' = Positives
        /\ CallsTypeOK /\ call = "probing" /\ i = count
    BY <1>2, QuietNextStep, Basics
       DEF EndContainsBatch, ContainsBatchReturn, IndInv
  <2>2. Answers' = [k \in 1 .. Len(hash_array) |-> hash_array[k] \in Positives]
    BY <2>1, AnswersOfReply DEF IndInv, AnswersSoFar
  <2> QED
    BY <2>1, <2>2 DEF Abs!ContainsBatchReturn, Positives, ContainsBatchReturn
<1> QED
  BY <1>1, <1>2

LEMMA AbsStutter ==
  ASSUME IndInv, ProbeNext \/ UNCHANGED vars
  PROVE  UNCHANGED Abs!vars
<1>1. Positives' = Positives
  BY ProbeNextStep, QuietNextStep
<1>2. CASE ProbeNext
  <2>1. \E next, buffer : Probing(next, buffer)
    BY <1>2 DEF ProbeNext
  <2>2. UNCHANGED <<call, hash_array, members>> /\ Answers' = Answers
    BY <2>1, NoAnswers DEF Probing
  <2> QED
    BY <1>1, <2>2 DEF Abs!vars, Positives
<1>3. CASE UNCHANGED vars
  BY <1>1, <1>3 DEF vars, callVars, Abs!vars, Positives, Answers, count,
     packed_result_bit
<1> QED
  BY <1>2, <1>3

\* The filter implements the approximate set of BloomFilterSpec, so that
\* whatever follows from the interface's promise holds of this filter.  With
\* no bit per hash, which the constructor accepts and no program asks for, a
\* new filter would find everything.
THEOREM ImplementsInterface ==
  ASSUME num_hashes >= 1
  PROVE  Spec => RefinesSpec
<1>1. IndInv /\ [Next]_vars => [Abs!Next]_(Abs!vars)
  <2> SUFFICES ASSUME IndInv, [Next]_vars
               PROVE  Abs!Next \/ UNCHANGED Abs!vars
    OBVIOUS
  <2> QED
    BY AbsInsert, AbsStartBatch, AbsInsertSome, AbsReturn, AbsStutter
       DEF Next, Step, Abs!Next
<1> QED
  BY <1>1, AbsInit, Invariance, PTL DEF Spec, RefinesSpec

-----------------------------------------------------------------------------
(* calculate_arrow_equivalent_bits, the size of a basic filter             *)

VARIABLES rows_to_insert, x, distance

Equiv == INSTANCE ArrowEquivalentBits WITH i <- distance

\* The bits of x from the highest one down are set, distance of them or all.
SmearInv ==
  LET n == desired_num_bits(rows_to_insert) - 1
  IN  /\ Equiv!TypeOK
      /\ n = 0 => x = {}
      /\ \A h \in 0 .. HashBits - 1 :
           2^h <= n /\ n < 2^(h + 1) =>
             /\ x \subseteq 0 .. h
             /\ \A b \in 0 .. h : b > h - distance => b \in x

\* The definitions of FilterSizing in the instance are those of this module.
LEMMA SameSizing ==
  ASSUME NEW rows
  PROVE  /\ Equiv!desired_num_bits(rows) = desired_num_bits(rows)
         /\ Equiv!NumBlocks(rows) = NumBlocks(rows)
<1>1. Equiv!shifts_to_zero = shifts_to_zero
  BY DEF Equiv!shifts_to_zero, shifts_to_zero
<1>2. Equiv!desired_num_bits(rows) = desired_num_bits(rows)
  BY DEF Equiv!desired_num_bits, desired_num_bits
<1>3. \A m : Equiv!ceil_log2(m) = ceil_log2(m)
  BY <1>1, Zenon DEF Equiv!ceil_log2, ceil_log2
<1>4. Equiv!log_bits_block = log_bits_block
  BY <1>3 DEF Equiv!log_bits_block, log_bits_block
<1>5. Equiv!LogNumBlocks(rows) = LogNumBlocks(rows)
  BY <1>2, <1>3, <1>4, Zenon DEF Equiv!LogNumBlocks, LogNumBlocks
<1> QED
  BY <1>2, <1>5 DEF Equiv!NumBlocks, NumBlocks

\* A recursion over a finite set and one over its elements in any order agree
\* when they do on the empty set and in every step.
LEMMA FoldsAgree ==
  ASSUME NEW S, IsFiniteSet(S), NEW f, NEW g,
         f[{}] = g[{}],
         \A T \in SUBSET S : T # {} =>
           \E e \in T : f[T \ {e}] = g[T \ {e}] => f[T] = g[T]
  PROVE  f[S] = g[S]
<1> DEFINE Wrong == {T \in SUBSET S : f[T] # g[T]}
           Lengths == {Cardinality(T) : T \in Wrong}
<1> SUFFICES ASSUME f[S] # g[S] PROVE FALSE
  OBVIOUS
<1>1. ASSUME NEW T \in SUBSET S PROVE IsFiniteSet(T) /\ Cardinality(T) \in Nat
  BY FS_Subset, FS_CardinalityType
<1>2. Lengths \in SUBSET Nat /\ Lengths # {}
  BY <1>1
<1>3. PICK m \in Lengths : \A k \in Lengths : m <= k
  BY <1>2, LeastNumber
<1>4. PICK T \in Wrong : Cardinality(T) = m
  OBVIOUS
<1>5. T # {}
  OBVIOUS
<1>6. PICK e \in T : f[T \ {e}] = g[T \ {e}] => f[T] = g[T]
  BY <1>5
<1>7. T \ {e} \in Wrong
  BY <1>6
<1>8. Cardinality(T \ {e}) = Cardinality(T) - 1
  BY <1>1, FS_RemoveElement
<1>9. Cardinality(T \ {e}) \in Lengths /\ m \in Nat
  BY <1>2, <1>7
<1>10. m <= m - 1
  BY <1>3, <1>4, <1>8, <1>9, Zenon
<1> QED
  BY <1>9, <1>10

\* The numbers whose highest one bit is one of the powers of two in T.
Headed(T, N) == {n \in 1 .. N : \E p \in T : p <= n /\ n < p + p}

\* A sum of different powers of two counts them.
LEMMA PowersSum ==
  ASSUME NEW h \in Nat
  PROVE  Equiv!ValueOf(0 .. h) = 2^(h + 1) - 1
<1> DEFINE S == {2^b : b \in 0 .. h}
           N == 2^(h + 1) - 1
           E == [T \in SUBSET S |-> Cardinality(Headed(T, N))]
           F == CHOOSE F : F = [T \in SUBSET S |->
                  IF T = {} THEN 0
                  ELSE (CHOOSE p \in T : TRUE) + F[T \ {CHOOSE p \in T : TRUE}]]
<1>1. Equiv!ValueOf(0 .. h) = F[S]
  BY DEF Equiv!ValueOf, Equiv!SumSet, Equiv!FoldSet, Equiv!MapThenFoldSet
<1>2. N \in Nat /\ IsFiniteSet(1 .. N) /\ Cardinality(1 .. N) = N
  <2>1. N \in Nat
    BY PowerDoubles
  <2> HIDE DEF N
  <2>2. 1 \in Int /\ N \in Int
    BY <2>1
  <2>3. Cardinality(1 .. N) = IF 1 > N THEN 0 ELSE N - 1 + 1
    BY <2>2, FS_Interval
  <2> QED
    BY <2>1, <2>2, <2>3, FS_Interval
<1>3. ASSUME NEW p \in S
      PROVE  /\ p \in Nat /\ p >= 1 /\ p + p - 1 <= N
             /\ \E b \in Nat : p = 2^b /\ p + p = 2^(b + 1)
  <2>1. PICK b \in 0 .. h : p = 2^b
    OBVIOUS
  <2>2. b \in Nat /\ p \in Nat /\ p >= 1 /\ p + p = 2^(b + 1)
    BY <2>1, PowerDoubles
  <2>3. 2^(b + 1) <= 2^(h + 1) /\ 2^(h + 1) \in Nat
    BY <2>2, PowerDoubles, PowerIsMonotone
  <2> QED
    BY <2>1, <2>2, <2>3
<1>4. ASSUME NEW T \in SUBSET S, NEW p \in T
      PROVE  E[T] = p + E[T \ {p}]
  <2>1. p \in Nat /\ p >= 1 /\ p + p - 1 <= N
    BY <1>3
  <2>2. Headed(T, N) = (p .. p + p - 1) \cup Headed(T \ {p}, N)
    BY <1>2, <2>1 DEF Headed
  <2>3. (p .. p + p - 1) \cap Headed(T \ {p}, N) = {}
    <3> SUFFICES ASSUME NEW n \in p .. p + p - 1, NEW q \in T \ {p}, q <= n, n < q + q
                 PROVE  FALSE
      BY DEF Headed
    <3>1. PICK b \in Nat : p = 2^b /\ p + p = 2^(b + 1)
      BY <1>3
    <3>2. PICK c \in Nat : q = 2^c /\ q + q = 2^(c + 1)
      BY <1>3
    <3>3. /\ n \in Nat /\ n >= 1
          /\ 2^b <= n /\ n < 2^(b + 1)
          /\ 2^c <= n /\ n < 2^(c + 1)
      BY <2>1, <3>1, <3>2
    <3>4. b = c
      BY <3>3, HighestBit
    <3> QED
      BY <3>1, <3>2, <3>4
  <2>4. IsFiniteSet(p .. p + p - 1) /\ Cardinality(p .. p + p - 1) = p
    <3>1. p \in Int /\ p + p - 1 \in Int /\ ~(p > p + p - 1)
      BY <2>1
    <3>2. Cardinality(p .. p + p - 1) = p + p - 1 - p + 1
      BY <3>1, FS_Interval
    <3> QED
      BY <2>1, <3>1, <3>2, FS_Interval
  <2>5. IsFiniteSet(Headed(T \ {p}, N))
    <3>1. Headed(T \ {p}, N) \subseteq 1 .. N
      BY DEF Headed
    <3> QED
      BY <1>2, <3>1, FS_Subset
  <2>6. Cardinality(Headed(T, N)) = p + Cardinality(Headed(T \ {p}, N))
    <3> DEFINE A == p .. p + p - 1
               B == Headed(T \ {p}, N)
    <3>1. IsFiniteSet(A) /\ Cardinality(A) = p /\ A \cap B = {} /\ IsFiniteSet(B)
      BY <2>3, <2>4, <2>5
    <3>2. Headed(T, N) = A \cup B
      BY <2>2
    <3> HIDE DEF A, B
    <3>3. Cardinality(A \cup B) = Cardinality(A) + Cardinality(B) - Cardinality({})
      BY <3>1, FS_Union
    <3>4. Cardinality({}) = 0 /\ Cardinality(B) \in Nat
      BY <3>1, FS_EmptySet, FS_CardinalityType
    <3>5. Cardinality(A \cup B) = p + Cardinality(B)
      BY <2>1, <3>1, <3>3, <3>4
    <3> QED
      BY <3>2, <3>5, Zenon DEF B
  <2>7. T \ {p} \in SUBSET S
    OBVIOUS
  <2> QED
    BY <2>6, <2>7
<1>5. E[{}] = 0
  <2>1. Headed({}, N) = {}
    BY DEF Headed
  <2> QED
    BY <2>1, FS_EmptySet
<1>6. E[S] = N
  <2>1. \A n \in 1 .. N : \E p \in S : p <= n /\ n < p + p
    <3> SUFFICES ASSUME NEW n \in 1 .. N PROVE \E p \in S : p <= n /\ n < p + p
      OBVIOUS
    <3>1. n \in Nat /\ n >= 1 /\ n < 2^(h + 1) /\ 2^(h + 1) \in Nat
      BY <1>2, PowerDoubles
    <3>2. PICK b \in Nat : 2^b <= n /\ n < 2^(b + 1)
      BY <3>1, HighestBit
    <3>3. 2^b < 2^(h + 1) /\ 2^b \in Nat /\ 2^(b + 1) = 2^b + 2^b
      BY <3>1, <3>2, PowerDoubles
    <3>4. ~(h + 1 < b) /\ b # h + 1
      BY <3>1, <3>3, PowerIsMonotone
    <3>5. b \in 0 .. h
      BY <3>4
    <3> QED
      BY <3>2, <3>3, <3>5
  <2>2. Headed(S, N) = 1 .. N
    BY <2>1 DEF Headed
  <2> QED
    BY <1>2, <2>2
<1> HIDE DEF E, S, N
<1>7. E = [T \in SUBSET S |->
             IF T = {} THEN 0
             ELSE (CHOOSE p \in T : TRUE) + E[T \ {CHOOSE p \in T : TRUE}]]
  <2>1. E = [T \in SUBSET S |-> E[T]]
    BY DEF E
  <2>2. ASSUME NEW T \in SUBSET S, T # {}
        PROVE  E[T] = (CHOOSE p \in T : TRUE) + E[T \ {CHOOSE p \in T : TRUE}]
    <3>1. (CHOOSE p \in T : TRUE) \in T
      BY <2>2
    <3> QED
      BY <1>4, <3>1
  <2> QED
    BY <1>5, <2>1, <2>2
<1>8. F = [T \in SUBSET S |->
             IF T = {} THEN 0
             ELSE (CHOOSE p \in T : TRUE) + F[T \ {CHOOSE p \in T : TRUE}]]
  BY <1>7
<1> HIDE DEF F
<1>9. IsFiniteSet(S)
  <2>1. S \subseteq 1 .. N
    BY <1>2, <1>3
  <2> QED
    BY <1>2, <2>1, FS_Subset
<1>10. F[S] = E[S]
  <2>1. F[{}] = E[{}]
    BY <1>5, <1>8
  <2>2. ASSUME NEW T \in SUBSET S, T # {}
        PROVE  \E p \in T : F[T \ {p}] = E[T \ {p}] => F[T] = E[T]
    <3> DEFINE p == CHOOSE p \in T : TRUE
    <3>1. p \in T
      BY <2>2
    <3>2. F[T] = p + F[T \ {p}]
      BY <1>8, <2>2
    <3>3. E[T] = p + E[T \ {p}]
      BY <1>7, <2>2
    <3> QED
      BY <3>1, <3>2, <3>3
  <2> QED
    BY <1>9, <2>1, <2>2, FoldsAgree
<1> QED
  BY <1>1, <1>6, <1>10 DEF N

\* Nothing is set.
LEMMA NoPowersSum == Equiv!ValueOf({}) = 0
<1> DEFINE F == CHOOSE F : F = [T \in SUBSET {} |->
                  IF T = {} THEN 0
                  ELSE (CHOOSE p \in T : TRUE) + F[T \ {CHOOSE p \in T : TRUE}]]
           G == [T \in SUBSET {} |-> 0]
<1>1. Equiv!ValueOf({}) = F[{}]
  <2>1. {2^b : b \in {}} = {}
    OBVIOUS
  <2> QED
    BY <2>1 DEF Equiv!ValueOf, Equiv!SumSet, Equiv!FoldSet, Equiv!MapThenFoldSet
<1>2. G = [T \in SUBSET {} |->
             IF T = {} THEN 0
             ELSE (CHOOSE p \in T : TRUE) + G[T \ {CHOOSE p \in T : TRUE}]]
  OBVIOUS
<1>3. F = [T \in SUBSET {} |->
             IF T = {} THEN 0
             ELSE (CHOOSE p \in T : TRUE) + F[T \ {CHOOSE p \in T : TRUE}]]
  BY <1>2
<1> QED
  BY <1>1, <1>3

\* The bits of a number, from the highest one down.
LEMMA BitsOfNumber ==
  ASSUME NEW n \in Nat, NEW h \in 0 .. HashBits - 1, 2^h <= n, n < 2^(h + 1)
  PROVE  h \in Equiv!BitsOf(n) /\ Equiv!BitsOf(n) \subseteq 0 .. h
<1>1. h \in Nat /\ 2^h \in Nat /\ 2^h >= 1 /\ 2^(h + 1) = 2^h + 2^h
  BY SizingConstants, PowerDoubles
<1>2. n \div 2^h = 1
  <2> DEFINE d == 2^h
             r == n - d
  <2>1. d \in Nat /\ d >= 1 /\ r \in 0 .. d - 1 /\ n = d * 1 + r
    BY <1>1
  <2> HIDE DEF d, r
  <2>2. (d * 1 + r) \div d = 1
    BY <2>1, OneByte
  <2> QED
    BY <2>1, <2>2 DEF d
<1>3. ASSUME NEW b \in 0 .. HashBits - 1, b > h
      PROVE  n \div 2^b = 0
  <2>1. 2^(h + 1) <= 2^b /\ 2^b \in Nat /\ 2^b >= 1
    BY <1>1, <1>3, SizingConstants, PowerDoubles, PowerIsMonotone
  <2> DEFINE d == 2^b
  <2>2. d \in Nat /\ d >= 1 /\ n \in 0 .. d - 1 /\ n = d * 0 + n
    BY <1>1, <2>1
  <2> HIDE DEF d
  <2>3. (d * 0 + n) \div d = 0
    BY <2>2, OneByte
  <2> QED
    BY <2>2, <2>3 DEF d
<1>4. h \in Equiv!BitsOf(n)
  <2>1. 1 % 2 = 1
    OBVIOUS
  <2>2. (n \div 2^h) % 2 = 1
    BY <1>2, <2>1, Zenon
  <2> QED
    BY <2>2 DEF Equiv!BitsOf
<1>5. ASSUME NEW b \in Equiv!BitsOf(n) PROVE b \in 0 .. h
  <2>1. b \in 0 .. HashBits - 1 /\ (n \div 2^b) % 2 = 1
    BY DEF Equiv!BitsOf
  <2>2. ~(b > h)
    <3>1. b > h => n \div 2^b = 0
      BY <1>3, <2>1
    <3>2. 0 % 2 = 0
      OBVIOUS
    <3>3. b > h => (n \div 2^b) % 2 = 0
      BY <3>1, <3>2, Zenon
    <3> QED
      BY <2>1, <3>3
  <2> QED
    BY <1>1, <2>1, <2>2, SizingConstants
<1> QED
  BY <1>4, <1>5

LEMMA NoBitsOfZero == Equiv!BitsOf(0) = {}
<1>1. ASSUME NEW b \in 0 .. HashBits - 1 PROVE 0 \div 2^b = 0
  <2>1. b \in Nat
    BY SizingConstants
  <2> DEFINE d == 2^b
  <2>2. d \in Nat /\ d >= 1 /\ 0 \in 0 .. d - 1 /\ d * 0 + 0 = 0
    BY <2>1, PowerDoubles
  <2> HIDE DEF d
  <2>3. (d * 0 + 0) \div d = 0
    BY <2>2, OneByte
  <2> QED
    BY <2>2, <2>3 DEF d
<1> QED
  BY <1>1 DEF Equiv!BitsOf

LEMMA SmearInitially == Equiv!Init => SmearInv
<1> SUFFICES ASSUME Equiv!Init PROVE SmearInv
  OBVIOUS
<1> DEFINE n == desired_num_bits(rows_to_insert) - 1
<1>1. /\ rows_to_insert \in Equiv!Sizes /\ x = Equiv!BitsOf(n) /\ distance = 1
  BY SameSizing DEF Equiv!Init
<1>2. rows_to_insert \in Nat
  BY <1>1, SizingConstants, PowerDoubles DEF Equiv!Sizes
<1>3. n \in Nat
  BY <1>2, BlocksOfRows
<1> HIDE DEF n
<1>4. Equiv!TypeOK
  <2>1. distance = 2^0 /\ 0 \in 0 .. HashBits
    BY <1>1, SizingConstants, PowerDoubles
  <2>2. x \subseteq 0 .. HashBits - 1
    BY <1>1 DEF Equiv!BitsOf
  <2> QED
    BY <1>1, <2>1, <2>2 DEF Equiv!TypeOK
<1>5. n = 0 => x = {}
  BY <1>1, NoBitsOfZero
<1>6. ASSUME NEW h \in 0 .. HashBits - 1, 2^h <= n, n < 2^(h + 1)
      PROVE  /\ x \subseteq 0 .. h
             /\ \A b \in 0 .. h : b > h - distance => b \in x
  <2>1. h \in x /\ x \subseteq 0 .. h
    BY <1>1, <1>3, <1>6, BitsOfNumber
  <2>2. \A b \in 0 .. h : b > h - 1 => b = h
    BY SizingConstants
  <2> QED
    BY <1>1, <2>1, <2>2
<1> QED
  BY <1>4, <1>5, <1>6 DEF SmearInv, n

\* The window of bits that are set doubles.
LEMMA SmearStep == SmearInv /\ [Equiv!Next]_(Equiv!vars) => SmearInv'
<1> SUFFICES ASSUME SmearInv, [Equiv!Next]_(Equiv!vars) PROVE SmearInv'
  OBVIOUS
<1> DEFINE n == desired_num_bits(rows_to_insert) - 1
<1>1. CASE UNCHANGED Equiv!vars
  <2>1. UNCHANGED <<rows_to_insert, x, distance>>
    BY <1>1 DEF Equiv!vars
  <2> QED
    BY <2>1 DEF SmearInv, Equiv!TypeOK
<1>2. CASE Equiv!Smear
  <2>1. /\ distance < HashBits /\ distance' = 2 * distance
        /\ x' = x \cup {b - distance : b \in {c \in x : c >= distance}}
        /\ rows_to_insert' = rows_to_insert
    BY <1>2 DEF Equiv!Smear
  <2>2. /\ rows_to_insert \in Equiv!Sizes /\ x \subseteq 0 .. HashBits - 1
        /\ distance \in {2^k : k \in 0 .. HashBits}
    BY DEF SmearInv, Equiv!TypeOK
  <2>3. PICK k \in 0 .. HashBits : distance = 2^k
    BY <2>2
  <2>4. /\ k \in Nat /\ k < 2^k /\ distance \in Nat /\ distance >= 1
        /\ 2 * distance = 2^(k + 1) /\ k + 1 \in 0 .. HashBits
    <3>1. /\ k \in Nat /\ 2^k \in Nat /\ 2^k >= 1 /\ 2^(k + 1) = 2^k + 2^k
          /\ k < 2^k
      BY SizingConstants, PowerDoubles, PowerAbove
    <3> QED
      BY <2>1, <2>3, <3>1, SizingConstants
  <2>5. ASSUME NEW h \in 0 .. HashBits - 1, x \subseteq 0 .. h
        PROVE  x' \subseteq 0 .. h
    <3>1. h \in Nat
      BY SizingConstants
    <3>2. ASSUME NEW c \in x, c >= distance PROVE c - distance \in 0 .. h
      BY <2>4, <2>5, <3>1, <3>2
    <3> QED
      BY <2>1, <2>5, <3>2
  <2>6. Equiv!TypeOK'
    <3>1. HashBits - 1 \in 0 .. HashBits - 1
      BY SizingConstants
    <3>2. x' \subseteq 0 .. HashBits - 1
      BY <2>2, <2>5, <3>1
    <3>3. distance' \in {2^j : j \in 0 .. HashBits}
      BY <2>1, <2>4
    <3> QED
      BY <2>1, <2>2, <3>2, <3>3 DEF Equiv!TypeOK, Equiv!Sizes
  <2>7. n = 0 => x' = {}
    <3>1. n = 0 => x = {}
      BY DEF SmearInv
    <3> QED
      BY <2>1, <3>1
  <2>8. ASSUME NEW h \in 0 .. HashBits - 1, 2^h <= n, n < 2^(h + 1)
        PROVE  /\ x' \subseteq 0 .. h
               /\ \A b \in 0 .. h : b > h - distance' => b \in x'
    <3>1. /\ x \subseteq 0 .. h
          /\ \A b \in 0 .. h : b > h - distance => b \in x
      BY <2>8 DEF SmearInv
    <3>2. ASSUME NEW b \in 0 .. h, b > h - 2 * distance, ~(b > h - distance)
          PROVE  b \in x'
      <4>1. h \in Nat
        BY SizingConstants
      <4> DEFINE c == b + distance
      <4>2. /\ c \in 0 .. h /\ c > h - distance /\ c >= distance
            /\ c - distance = b
        BY <2>4, <3>2, <4>1
      <4> HIDE DEF c
      <4> QED
        BY <2>1, <3>1, <4>2
    <3> QED
      BY <2>1, <2>5, <3>1, <3>2
  <2> QED
    BY <2>1, <2>6, <2>7, <2>8 DEF SmearInv
<1> QED
  BY <1>1, <1>2 DEF Equiv!Next

\* When the loop has ended all bits up to the highest one are set, and one more
\* is a power of two.
LEMMA Smeared ==
  ASSUME SmearInv, distance >= HashBits
  PROVE  /\ rows_to_insert \in Nat
         /\ Equiv!return_value =
              2^ceil_log2(desired_num_bits(rows_to_insert)) % 2^HashBits
<1> DEFINE d == desired_num_bits(rows_to_insert)
           n == d - 1
           c == ceil_log2(d)
<1>1. /\ rows_to_insert \in Nat /\ distance \in Nat
  <2>1. /\ rows_to_insert \in Equiv!Sizes
        /\ distance \in {2^k : k \in 0 .. HashBits}
    BY DEF SmearInv, Equiv!TypeOK
  <2>2. \A k \in 0 .. HashBits : 2^k \in Nat
    BY SizingConstants, PowerDoubles
  <2> QED
    BY <2>1, <2>2, SizingConstants, PowerDoubles DEF Equiv!Sizes
<1>2. n \in Nat /\ d \in Nat /\ d >= 1 /\ d < 2^HashBits
  BY <1>1, BlocksOfRows
<1>3. c \in Nat
  BY <1>2, CeilLog2
<1>4. Equiv!ValueOf(x) = 2^c - 1
  <2>1. CASE n = 0
    <3>1. x = {} /\ d = 1
      BY <1>2, <2>1 DEF SmearInv
    <3>2. c = 0
      BY <3>1 DEF ceil_log2
    <3>3. Equiv!ValueOf(x) = 0
      BY <3>1, NoPowersSum, Zenon
    <3> QED
      BY <3>2, <3>3, PowerDoubles
  <2>2. CASE n # 0
    <3>1. PICK h \in Nat : 2^h <= n /\ n < 2^(h + 1)
      BY <1>2, <2>2, HighestBit
    <3>2. h \in 0 .. HashBits - 1
      <4>1. 2^h < 2^HashBits
        BY <1>2, <3>1, SizingConstants, PowerDoubles
      <4>2. ~(HashBits < h) /\ h # HashBits
        BY <4>1, SizingConstants, PowerDoubles, PowerIsMonotone
      <4> QED
        BY <4>2, SizingConstants
    <3>3. x \subseteq 0 .. h /\ \A b \in 0 .. h : b > h - distance => b \in x
      BY <3>1, <3>2 DEF SmearInv
    <3>4. x = 0 .. h
      <4>1. \A b \in 0 .. h : b > h - distance
        BY <1>1, <3>1, <3>2, SizingConstants
      <4> QED
        BY <3>3, <4>1
    <3>5. c = h + 1
      <4>1. d <= 2^(h + 1) /\ ~(d <= 2^h)
        BY <1>2, <3>1, PowerDoubles
      <4>2. c <= h + 1 /\ ~(c <= h)
        BY <1>2, <4>1, CeilLog2
      <4> QED
        BY <1>3, <4>2
    <3> QED
      BY <3>4, <3>5, PowersSum
  <2> QED
    BY <2>1, <2>2
<1>5. Equiv!return_value = 2^c % 2^HashBits
  <2>1. 2^c - 1 + 1 = 2^c
    BY <1>3, PowerDoubles
  <2> QED
    BY <1>4, <2>1 DEF Equiv!return_value
<1> QED
  BY <1>1, <1>5

\* The size of the basic filter wraps where that of the others does.
LEMMA SizeReturned == SmearInv => Equiv!SameSize
<1> SUFFICES ASSUME SmearInv, distance >= HashBits
             PROVE  Equiv!return_value =
                      (NumBlocks(rows_to_insert) * WordBits) % 2^HashBits
  BY SameSizing DEF Equiv!SameSize, Equiv!Returned
<1> DEFINE d == desired_num_bits(rows_to_insert)
           c == ceil_log2(d)
<1>1. rows_to_insert \in Nat /\ Equiv!return_value = 2^c % 2^HashBits
  BY Smeared
<1>2. d \in Nat /\ d >= 1
  BY <1>1, BlocksOfRows
<1>3. /\ c \in Nat /\ c - log_bits_block \in Nat
      /\ NumBlocks(rows_to_insert) = 2^(c - log_bits_block)
  BY <1>1, <1>2, BlocksOfRows, CeilLog2, SizingConstants DEF LogNumBlocks, NumBlocks
<1>4. NumBlocks(rows_to_insert) * WordBits = 2^c
  <2>1. (c - log_bits_block) + log_bits_block = c
    BY <1>3, SizingConstants
  <2>2. 2^c = 2^(c - log_bits_block) * 2^log_bits_block
    BY <1>3, <2>1, PowersMultiply, SizingConstants
  <2> QED
    BY <1>3, <2>2, SizingConstants
<1> QED
  BY <1>1, <1>4

\* The least of the powers of two up to 2^HashBits that are at least n.
IsNextPower(p, n) ==
  LET powers == {q \in {2^k : k \in 0 .. HashBits} : q >= n}
  IN  p \in powers /\ \A q \in powers : p <= q

LEMMA SizeRoundedUp ==
  ASSUME SmearInv, Equiv!Returned
  PROVE  \E p : /\ IsNextPower(p, desired_num_bits(rows_to_insert))
                /\ Equiv!return_value = p % 2^HashBits
<1> DEFINE d == desired_num_bits(rows_to_insert)
           c == ceil_log2(d)
<1>1. rows_to_insert \in Nat /\ Equiv!return_value = 2^c % 2^HashBits
  BY Smeared DEF Equiv!Returned
<1>2. d \in Nat /\ d >= 1 /\ d < 2^HashBits
  BY <1>1, BlocksOfRows
<1>3. c \in Nat /\ d <= 2^c /\ \A k \in Nat : d <= 2^k <=> c <= k
  BY <1>2, CeilLog2
<1> HIDE DEF d, c
<1>4. c \in 0 .. HashBits /\ 2^c \in Nat
  <2>1. HashBits \in Nat /\ 2^HashBits \in Nat /\ 2^c \in Nat
    BY <1>3, SizingConstants, PowerDoubles
  <2>2. d <= 2^HashBits
    BY <1>2, <2>1
  <2>3. c <= HashBits
    BY <1>3, <2>1, <2>2
  <2> QED
    BY <1>3, <2>1, <2>3
<1>5. ASSUME NEW k \in 0 .. HashBits, 2^k >= d PROVE 2^c <= 2^k
  <2>1. k \in Nat /\ 2^k \in Nat
    BY SizingConstants, PowerDoubles
  <2>2. d <= 2^k
    BY <1>2, <1>5, <2>1
  <2>3. c <= k
    BY <1>3, <2>1, <2>2
  <2>4. c < k => 2^c < 2^k
    BY <1>3, <2>1, PowerIsMonotone
  <2> QED
    BY <1>3, <1>4, <2>1, <2>3, <2>4
<1>6. 2^c >= d
  BY <1>2, <1>3, <1>4
<1>7. IsNextPower(2^c, d)
  BY <1>4, <1>5, <1>6 DEF IsNextPower
<1> QED
  BY <1>1, <1>7 DEF d, c

LEMMA SmearInvariant == Equiv!Spec => []SmearInv
<1>1. Equiv!Init => SmearInv
  BY SmearInitially
<1>2. SmearInv /\ [Equiv!Next]_(Equiv!vars) => SmearInv'
  BY SmearStep
<1> QED
  BY <1>1, <1>2, PTL DEF Equiv!Spec

\* calculate_arrow_equivalent_bits stays within its types: no distance that is
\* shifted by reaches the width of the size.
THEOREM SizeTypeCorrect == Equiv!Spec => []Equiv!TypeOK
<1>1. SmearInv => Equiv!TypeOK
  BY DEF SmearInv
<1> QED
  BY <1>1, SmearInvariant, PTL

\* It gives the basic filter the size that the other constructors give theirs,
\* for every number of rows.
THEOREM SizesAgree == Equiv!Spec => []Equiv!SameSize
  BY SmearInvariant, SizeReturned, PTL

\* What it returns is the least power of two that is at least the size asked for,
\* wrapped: the closed form in which Bench has the size (basic_num_bits).
THEOREM SizeIsNextPower ==
  Equiv!Spec => [](Equiv!Returned =>
                     \E p : /\ IsNextPower(p, desired_num_bits(rows_to_insert))
                            /\ Equiv!return_value = p % 2^HashBits)
<1>1. SmearInv => (Equiv!Returned =>
                     \E p : /\ IsNextPower(p, desired_num_bits(rows_to_insert))
                            /\ Equiv!return_value = p % 2^HashBits)
  BY SizeRoundedUp
<1> QED
  BY <1>1, SmearInvariant, PTL
=============================================================================
