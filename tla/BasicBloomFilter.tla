-------------------------- MODULE BasicBloomFilter --------------------------
(***************************************************************************)
(* BasicBloomFilter: one array of num_bits bits, packed into bytes;        *)
(* generate_bit selects num_hashes bits of it for every hash.  There is    *)
(* one, scalar, implementation.                                            *)
(***************************************************************************)
EXTENDS FilterCalls

CONSTANTS Sizes,        \* values of num_bits, need not be whole bytes
          num_hashes,   \* bits set per hash: 5 in the programs
          bit_of        \* bit_of[n][<<h, k>>] is generate_bit(h, k, n)

ASSUME BasicAssumption ==
  /\ Sizes \subseteq Nat \ {0}
  /\ num_hashes \in Nat
  /\ bit_of \in
       [Sizes -> [Hashes \X (0 .. num_hashes - 1) -> Nat]]
  /\ \A n \in Sizes : \A h \in Hashes : \A k \in 0 .. num_hashes - 1 :
       bit_of[n][<<h, k>>] < n

VARIABLES num_bits,
          bitvector  \* the bytes

vars == <<callVars, num_bits, bitvector>>
fixed == <<num_bits>>

FilterBytes == 0 .. (num_bits + ByteBits - 1) \div ByteBits - 1

\* BasicBloomFilter(num_bits, num_hashes)
Init ==
  /\ CallsInit
  /\ num_bits \in Sizes
  /\ bitvector = [b \in FilterBytes |-> {}]

-----------------------------------------------------------------------------
BitsFor(h) == {bit_of[num_bits][<<h, k>>] : k \in 0 .. num_hashes - 1}

getBit(idx) == idx % ByteBits \in bitvector[idx \div ByteBits]

\* Mutant: the bytes that receive a bit are overwritten.
insertImpl_overwrites(h) ==
  bitvector' = [b \in FilterBytes |->
    LET new == {idx % ByteBits : idx \in {n \in BitsFor(h) : n \div ByteBits = b}}
    IN  IF new = {} THEN bitvector[b] ELSE new]

\* All the setBit calls of one insertion.
insertImpl(h) ==
  bitvector' = [b \in FilterBytes |->
    bitvector[b] \cup
      {idx % ByteBits : idx \in {n \in BitsFor(h) : n \div ByteBits = b}}]

\* Mutant: one bit is enough.
containsImpl_any(h) == \E idx \in BitsFor(h) : getBit(idx)

containsImpl(h) == \A idx \in BitsFor(h) : getBit(idx)

-----------------------------------------------------------------------------
Insert(h) ==
  /\ ScalarInsert(h)
  /\ insertImpl(h)
  /\ UNCHANGED fixed

StartInsertBatch(hashes) ==
  /\ InsertBatchCall(hashes)
  /\ UNCHANGED <<fixed, bitvector>>

\* Mutant: the loop advances by two.
InsertNext_skips ==
  /\ i < count
  /\ Inserting(i + 2)
  /\ insertImpl(hash(i))
  /\ UNCHANGED fixed

\* An iteration of insertBatchImpl.
InsertNext ==
  /\ i < count
  /\ Inserting(i + 1)
  /\ insertImpl(hash(i))
  /\ UNCHANGED fixed

EndInsertBatch ==
  /\ InsertBatchReturn
  /\ UNCHANGED <<fixed, bitvector>>

StartContainsBatch(hashes) ==
  /\ ContainsBatchCall(hashes, Cleared(Len(hashes)))
  /\ UNCHANGED <<fixed, bitvector>>

\* An iteration of containsBatchImpl.
ProbeNext ==
  /\ i < count
  /\ Probing(i + 1, IF containsImpl(hash(i)) THEN setBit(result, i) ELSE result)
  /\ UNCHANGED <<fixed, bitvector>>

EndContainsBatch ==
  /\ ContainsBatchReturn
  /\ UNCHANGED <<fixed, bitvector>>

\* The steps of a call that has started.
Step ==
  \/ InsertNext
  \/ EndInsertBatch
  \/ ProbeNext
  \/ EndContainsBatch

Next ==
  \/ \E h \in Hashes : Insert(h)
  \/ \E hashes \in Batches : StartInsertBatch(hashes)
  \/ \E hashes \in Batches : StartContainsBatch(hashes)
  \/ Step

\* A call that has started runs on; nothing obliges the caller to make one.
Spec == Init /\ [][Next]_vars /\ WF_vars(Step)

-----------------------------------------------------------------------------
(* Properties *)

\* Every variable keeps its type: every bit is in a byte of the array.
TypeOK ==
  /\ CallsTypeOK
  /\ num_bits \in Sizes
  /\ bitvector \in [FilterBytes -> Byte]

\* The bits set are those of the hashes inserted so far and no others, in
\* whatever way and order these were inserted; the padding after the last of
\* the num_bits bits stays clear.
BitsOfInserted ==
  {idx \in 0 .. ByteBits * Cardinality(FilterBytes) - 1 : getBit(idx)}
    = UNION {BitsFor(h) : h \in Inserted}

\* The filter implements the approximate set of BloomFilterSpec.
Abs == INSTANCE BloomFilterSpec WITH
         positives <- {h \in Hashes : containsImpl(h)},
         answers   <- Answers

RefinesSpec == Abs!Init /\ [][Abs!Next]_(Abs!vars)
=============================================================================
