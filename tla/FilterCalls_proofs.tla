------------------------- MODULE FilterCalls_proofs -------------------------
(***************************************************************************)
(* The facts that the proofs about every filter need: what the steps of a  *)
(* call do to the caller's variables, what the buffer of a containsBatch   *)
(* holds between the iterations of its loops, how a table of blocks grows, *)
(* and of how many blocks it is.  A filter is represented by the set of    *)
(* the hashes it finds, or by the functions that give a hash its block and *)
(* its bits.                                                               *)
(***************************************************************************)
EXTENDS FilterCalls, FilterSizing, FiniteSetTheorems, FunctionTheorems,
        WellFoundedInduction, TLAPS

-----------------------------------------------------------------------------
(* The constants and the arithmetic of unrolled loops and packed bytes     *)

LEMMA CallConstants ==
  /\ ByteBits \in Nat /\ ByteBits >= 1
  /\ WordBits \in Nat /\ WordBits >= ByteBits
  /\ Hashes \subseteq Nat
  /\ MaxBatch \in Nat
  BY WidthAssumption, CallsAssumption

\* An unrolled loop that is at a vector's start has a whole vector before it.
LEMMA WholeVector ==
  ASSUME NEW n \in Nat, n >= 1, NEW c \in Nat, NEW q \in Nat,
         n * q < c - (c % n)
  PROVE  /\ n * q + n <= c
         /\ n * q + n = n * (q + 1)
<1> DEFINE p == c \div n
<1>1. p \in Nat /\ c - (c % n) = n * p /\ n * p <= c
  OBVIOUS
<1> HIDE DEF p
<1>2. n * q < n * p
  BY <1>1
<1>3. q < p
  BY <1>1, <1>2
<1>4. n * (q + 1) = n * q + n
  OBVIOUS
<1>5. n * (q + 1) <= n * p
  BY <1>1, <1>3
<1>6. n * q \in Int /\ n * (q + 1) \in Int /\ n * p \in Int
  BY <1>1
<1> QED
  BY <1>1, <1>4, <1>5, <1>6

LEMMA Division ==
  ASSUME NEW n \in Nat, n >= 1, NEW a \in Nat
  PROVE  /\ a \div n \in Nat /\ a % n \in 0 .. n - 1
         /\ a = n * (a \div n) + (a % n)
  OBVIOUS

\* The bits of byte b come before, or after, those of byte q.
LEMMA BytesAreOrdered ==
  ASSUME NEW n \in Nat, NEW b \in Nat, NEW q \in Nat
  PROVE  /\ b < q => n * b + n <= n * q
         /\ n * b \in Nat
<1>1. CASE b < q
  <2>1. n * (b + 1) = n * b + n
    OBVIOUS
  <2>2. n * (b + 1) <= n * q
    BY <1>1
  <2> QED
    BY <2>1, <2>2
<1> QED
  BY <1>1

\* A number lies in one byte only.
LEMMA OneByte ==
  ASSUME NEW n \in Nat, n >= 1, NEW q \in Nat, NEW r \in 0 .. n - 1
  PROVE  (n * q + r) \div n = q /\ (n * q + r) % n = r
<1> DEFINE a == n * q + r
<1>1. a \in Nat /\ n * q \in Nat
  BY BytesAreOrdered
<1>2. a \div n \in Nat /\ a % n \in 0 .. n - 1 /\ a = n * (a \div n) + (a % n)
  BY <1>1, Division
<1>3. a = n * q + r
  OBVIOUS
<1> HIDE DEF a
<1>4. /\ a \div n < q => n * (a \div n) + n <= n * q
      /\ q < a \div n => n * q + n <= n * (a \div n)
      /\ n * (a \div n) \in Nat
  BY <1>2, BytesAreOrdered
<1>5. a \div n = q
  BY <1>1, <1>2, <1>3, <1>4
<1>6. a % n = r
  BY <1>1, <1>2, <1>3, <1>5
<1> QED
  BY <1>5, <1>6 DEF a

\* c answers that fill q bytes need q bytes, with 1 to ByteBits more one more.
LEMMA ReplyOfWholeBytes ==
  ASSUME NEW q \in Nat
  PROVE  /\ result_bytes(ByteBits * q) = q
         /\ \A r \in 1 .. ByteBits : result_bytes(ByteBits * q + r) = q + 1
<1> DEFINE n == ByteBits
<1>1. n \in Nat /\ n >= 1 /\ n * q \in Nat /\ n * (q + 1) = n * q + n
  BY CallConstants, BytesAreOrdered
<1>2. (n * q + (n - 1)) \div n = q
  BY <1>1, OneByte
<1>3. n * q + n - 1 = n * q + (n - 1)
  BY <1>1
<1>4. ASSUME NEW r \in 1 .. n PROVE (n * q + r + n - 1) \div n = q + 1
  <2>1. r - 1 \in 0 .. n - 1 /\ n * q + r + n - 1 = n * (q + 1) + (r - 1)
    BY <1>1
  <2>2. (n * (q + 1) + (r - 1)) \div n = q + 1
    BY <1>1, <2>1, OneByte
  <2> QED
    BY <2>1, <2>2
<1> QED
  BY <1>2, <1>3, <1>4 DEF result_bytes

\* The bytes of c answers are those that hold one of the first c bits.
LEMMA ReplyBytes ==
  ASSUME NEW c \in Nat
  PROVE  /\ result_bytes(c) \in Nat
         /\ \A b \in Nat : b < result_bytes(c) <=> ByteBits * b < c
<1> DEFINE n == ByteBits
           p == result_bytes(c)
<1>1. n \in Nat /\ n >= 1 /\ c + n - 1 \in Nat
  BY CallConstants
<1>2. p = (c + n - 1) \div n
  BY DEF result_bytes
<1>3. p \in Nat /\ n * p <= c + n - 1 /\ c + n - 1 < n * p + n
  BY <1>1, <1>2, Division
<1> HIDE DEF n, p
<1>4. ASSUME NEW b \in Nat PROVE b < p <=> n * b < c
  <2>1. /\ n * b \in Nat /\ n * p \in Nat
        /\ b < p => n * b + n <= n * p
        /\ p < b => n * p + n <= n * b
    BY <1>1, <1>3, BytesAreOrdered
  <2> QED
    BY <1>1, <1>3, <2>1
<1> QED
  BY <1>3, <1>4 DEF n, p

LEMMA ReplyBytesGrow ==
  ASSUME NEW c \in Nat, NEW m \in Nat, c <= m
  PROVE  result_bytes(c) <= result_bytes(m)
<1>1. /\ result_bytes(c) \in Nat /\ result_bytes(m) \in Nat
      /\ result_bytes(m) < result_bytes(c) <=> ByteBits * result_bytes(m) < c
      /\ ~(ByteBits * result_bytes(m) < m)
      /\ ByteBits * result_bytes(m) \in Nat
  BY ReplyBytes, CallConstants
<1> QED
  BY <1>1

\* The buffer holds the reply to every batch.
LEMMA ReplyInBuffer ==
  ASSUME NEW c \in Nat, c <= MaxBatch
  PROVE  \A b \in Nat : b < result_bytes(c) => b \in BufferBytes
<1>1. /\ result_bytes(c) \in Nat /\ result_bytes(MaxBatch) \in Nat
      /\ result_bytes(c) <= result_bytes(MaxBatch)
  BY CallConstants, ReplyBytes, ReplyBytesGrow
<1> QED
  BY <1>1 DEF BufferBytes

-----------------------------------------------------------------------------
(* What the steps of a call do to the caller's variables.  Inserted is the *)
(* set of hashes that the filter must hold.                                *)

LEMMA CountType ==
  ASSUME CallsTypeOK
  PROVE  /\ count \in Nat /\ count <= MaxBatch /\ i \in 0 .. count /\ i \in Nat
         /\ \A k \in 0 .. count - 1 : hash(k) \in Hashes /\ hash(k) \in Nat
         /\ Range(hash_array) = {hash(k) : k \in 0 .. count - 1}
         /\ Range(hash_array) \subseteq Hashes
         /\ Inserted \subseteq Hashes
<1>1. hash_array \in Seq(Hashes) /\ count \in Nat /\ i \in 0 .. count
      /\ count <= MaxBatch
  BY DEF CallsTypeOK, count
<1>2. \A k \in 0 .. count - 1 : k + 1 \in 1 .. Len(hash_array)
  BY <1>1 DEF count
<1>3. \A k \in 0 .. count - 1 : hash(k) \in Hashes
  BY <1>1, <1>2 DEF hash
<1>4. DOMAIN hash_array = 1 .. count
  BY <1>1 DEF count
<1>5. ASSUME NEW x \in 1 .. count PROVE x - 1 \in 0 .. count - 1 /\ (x - 1) + 1 = x
  BY <1>1
<1>6. Range(hash_array) = {hash(k) : k \in 0 .. count - 1}
  BY <1>2, <1>4, <1>5 DEF Range, hash, count
<1>7. Inserted \subseteq Hashes
  BY <1>1, <1>3 DEF CallsTypeOK, Inserted
<1>8. i \in Nat
  BY <1>1
<1>9. \A k \in 0 .. count - 1 : hash(k) \in Nat
  BY <1>3, CallConstants
<1>10. Range(hash_array) \subseteq Hashes
  BY <1>3, <1>6
<1> QED
  BY <1>1, <1>3, <1>6, <1>7, <1>8, <1>9, <1>10

LEMMA CallsInitially ==
  ASSUME CallsInit PROVE CallsTypeOK /\ Inserted = {} /\ members = {}
  BY CallConstants DEF CallsInit, CallsTypeOK, count, Byte, Inserted

LEMMA ScalarInsertCalls ==
  ASSUME CallsTypeOK, NEW h \in Hashes, ScalarInsert(h)
  PROVE  CallsTypeOK' /\ Inserted' = Inserted \cup {h}
<1>1. /\ call \in {"idle", "answered"} /\ call' = "idle" /\ hash_array' = <<>>
      /\ i' = 0 /\ result' = result /\ members' = members \cup {h}
  BY DEF ScalarInsert, Ready
<1>2. CallsTypeOK'
  BY <1>1, CallConstants DEF CallsTypeOK, count
<1> QED
  BY <1>1, <1>2 DEF Inserted

\* The call of a batch, whatever containsBatch does first with the buffer.
LEMMA BatchCalls ==
  ASSUME CallsTypeOK, NEW hashes \in Batches,
         \/ InsertBatchCall(hashes)
         \/ \E buffer \in {result, Cleared(Len(hashes))} :
              ContainsBatchCall(hashes, buffer)
  PROVE  CallsTypeOK' /\ Inserted' = Inserted
<1>1. /\ call \in {"idle", "answered"} /\ call' \in {"inserting", "probing"}
      /\ hash_array' = hashes /\ i' = 0 /\ members' = members
      /\ result' \in {result, Cleared(Len(hashes))}
  BY DEF InsertBatchCall, ContainsBatchCall, Ready
<1>2. hashes \in Seq(Hashes) /\ Len(hashes) \in Nat /\ Len(hashes) <= MaxBatch
  BY CallsAssumption
<1>3. result' \in [BufferBytes -> Byte]
  BY <1>1 DEF CallsTypeOK, Cleared, Byte
<1>4. CallsTypeOK'
  BY <1>1, <1>2, <1>3 DEF CallsTypeOK, count
<1>5. 0 .. i' - 1 = {}
  BY <1>1
<1> QED
  BY <1>1, <1>4, <1>5 DEF Inserted

\* Elements a .. b - 1 of the batch.
Elements(a, b) == {hash(k) : k \in a .. b - 1}

LEMMA OneElement ==
  ASSUME NEW k \in Int PROVE Elements(k, k + 1) = {hash(k)}
<1>1. k .. k + 1 - 1 = {k}
  OBVIOUS
<1> QED
  BY <1>1 DEF Elements

\* An iteration of an insertion loop over elements i .. next - 1.
LEMMA InsertingCalls ==
  ASSUME CallsTypeOK, NEW next \in i .. count, Inserting(next)
  PROVE  /\ CallsTypeOK'
         /\ Inserted' = Inserted \cup Elements(i, next)
         /\ Elements(i, next) \subseteq Hashes
         /\ Elements(i, next) \subseteq Range(hash_array)
<1>1. /\ call = "inserting" /\ i' = next
      /\ UNCHANGED <<call, hash_array, result, members>>
  BY DEF Inserting
<1>2. next \in 0 .. count /\ i \in Nat /\ count \in Nat
  BY CountType
<1>3. CallsTypeOK'
  BY <1>1, <1>2 DEF CallsTypeOK, count
<1>4. 0 .. i' - 1 = (0 .. i - 1) \cup (i .. next - 1)
  BY <1>1, <1>2
<1>5. Inserted' = Inserted \cup Elements(i, next)
  BY <1>1, <1>4 DEF Inserted, Elements, hash
<1>6. i .. next - 1 \subseteq 0 .. count - 1
  BY <1>2
<1> QED
  BY <1>3, <1>5, <1>6, CountType DEF Elements

LEMMA InsertReturnCalls ==
  ASSUME CallsTypeOK, InsertBatchReturn
  PROVE  CallsTypeOK' /\ Inserted' = Inserted
<1>1. /\ call = "inserting" /\ i = count /\ call' = "idle" /\ hash_array' = <<>>
      /\ i' = 0 /\ members' = members \cup Range(hash_array) /\ result' = result
  BY DEF InsertBatchReturn
<1>2. Range(hash_array) = {hash(k) : k \in 0 .. i - 1}
      /\ Range(hash_array) \subseteq Hashes
  BY <1>1, CountType
<1>3. members' \subseteq Hashes
  BY <1>1, <1>2 DEF CallsTypeOK
<1>4. CallsTypeOK'
  BY <1>1, <1>3, CallConstants DEF CallsTypeOK, count
<1> QED
  BY <1>1, <1>2, <1>4 DEF Inserted

LEMMA ProbingCalls ==
  ASSUME CallsTypeOK, NEW next \in i .. count,
         NEW buffer \in [BufferBytes -> Byte], Probing(next, buffer)
  PROVE  CallsTypeOK' /\ Inserted' = Inserted
<1>1. /\ call = "probing" /\ i' = next /\ result' = buffer
      /\ UNCHANGED <<call, hash_array, members>>
  BY DEF Probing
<1>2. next \in 0 .. count
  BY CountType
<1> QED
  BY <1>1, <1>2 DEF CallsTypeOK, count, Inserted

LEMMA QuietCalls ==
  ASSUME CallsTypeOK, ContainsBatchReturn \/ UNCHANGED callVars
  PROVE  CallsTypeOK' /\ Inserted' = Inserted
<1>1. /\ UNCHANGED <<hash_array, i, result, members>>
      /\ call' = call \/ (call = "probing" /\ call' = "answered")
  BY DEF ContainsBatchReturn, callVars
<1>2. CallsTypeOK'
  BY <1>1 DEF CallsTypeOK, count
<1> QED
  BY <1>1, <1>2 DEF Inserted, hash

-----------------------------------------------------------------------------
(* The reply to a batch, for a filter that finds the hashes in P           *)

\* Byte b of the reply when the first n elements have been answered.
ReplyByte(batch, P, b, n) ==
  {k \in 0 .. ByteBits - 1 :
     ByteBits * b + k < n /\ batch[ByteBits * b + k + 1] \in P}

\* The first m bytes of the buffer are those of the reply to the first n
\* elements.
Replied(batch, P, n, m, buffer) ==
  \A b \in 0 .. m - 1 : buffer[b] = ReplyByte(batch, P, b, n)

Buffers == [BufferBytes -> Byte]

\* The answers to elements first .. next - 1, from bit 0 up, and a write of
\* them to byte q.
Pack(batch, P, first, next) ==
  {k \in 0 .. next - first - 1 : batch[first + k + 1] \in P}

Write(buffer, q, byte) == [buffer EXCEPT ![q] = byte]

LEMMA ClearedReply ==
  ASSUME NEW batch, NEW P, NEW c \in Nat, c <= MaxBatch
  PROVE  Replied(batch, P, 0, result_bytes(c), Cleared(c))
<1> SUFFICES ASSUME NEW b \in 0 .. result_bytes(c) - 1
             PROVE  Cleared(c)[b] = ReplyByte(batch, P, b, 0)
  BY DEF Replied
<1>1. b \in Nat /\ b < result_bytes(c)
  BY ReplyBytes
<1>2. Cleared(c)[b] = {}
  BY <1>1, ReplyInBuffer DEF Cleared
<1>3. \A k \in 0 .. ByteBits - 1 : ~(ByteBits * b + k < 0)
  BY <1>1, CallConstants, BytesAreOrdered
<1> QED
  BY <1>2, <1>3 DEF ReplyByte

\* Answering one element sets or leaves its bit.
LEMMA BitReply ==
  ASSUME NEW batch, NEW P, NEW n \in Nat, NEW m \in Nat,
         \A b \in 0 .. m - 1 : b \in BufferBytes,
         NEW buffer \in Buffers,
         Replied(batch, P, n, m, buffer)
  PROVE  Replied(batch, P, n + 1, m,
                 IF batch[n + 1] \in P THEN setBit(buffer, n) ELSE buffer)
<1> DEFINE w == ByteBits
           q == n \div w
           r == n % w
           after == IF batch[n + 1] \in P THEN setBit(buffer, n) ELSE buffer
<1>1. w \in Nat /\ w >= 1
  BY CallConstants
<1>2. q \in Nat /\ r \in 0 .. w - 1 /\ n = w * q + r
  BY <1>1, Division
<1> SUFFICES ASSUME NEW b \in 0 .. m - 1
             PROVE  after[b] = ReplyByte(batch, P, b, n + 1)
  BY DEF Replied
<1>3. after[b] = IF b = q /\ batch[n + 1] \in P
                 THEN buffer[b] \cup {r} ELSE buffer[b]
  BY DEF setBit, Buffers
<1>4. buffer[b] = ReplyByte(batch, P, b, n)
  BY DEF Replied
<1> HIDE DEF w, q, r, after
<1>5. \A k \in 0 .. w - 1 :
        /\ w * b + k < n + 1 <=> (w * b + k < n \/ (b = q /\ k = r))
        /\ b = q /\ k = r => w * b + k = n
  <2>1. b \in Nat /\ w * b \in Nat /\ w * q \in Nat
        /\ (b < q => w * b + w <= w * q) /\ (q < b => w * q + w <= w * b)
    BY <1>1, <1>2, BytesAreOrdered
  <2> QED
    BY <1>1, <1>2, <2>1
<1>6. ReplyByte(batch, P, b, n + 1) =
        {k \in 0 .. w - 1 : (w * b + k < n \/ (b = q /\ k = r))
                            /\ batch[w * b + k + 1] \in P}
  BY <1>5 DEF ReplyByte, w
<1>7. ReplyByte(batch, P, b, n) =
        {k \in 0 .. w - 1 : w * b + k < n /\ batch[w * b + k + 1] \in P}
  BY DEF ReplyByte, w
<1>8. b = q => w * b + r = n
  BY <1>2, <1>5
<1> QED
  BY <1>2, <1>3, <1>4, <1>6, <1>7, <1>8

\* Answering the elements of byte q up to element next - 1 replaces the byte.
LEMMA WholeByteReply ==
  ASSUME NEW batch, NEW P, NEW q \in Nat, NEW next \in Nat, NEW m \in Nat,
         ByteBits * q <= next, next <= ByteBits * q + ByteBits,
         \A b \in 0 .. m - 1 : b \in BufferBytes,
         NEW buffer \in Buffers,
         \A b \in 0 .. m - 1 :
           b # q => buffer[b] = ReplyByte(batch, P, b, ByteBits * q)
  PROVE  Replied(batch, P, next, m,
                 Write(buffer, q, Pack(batch, P, ByteBits * q, next)))
<1> DEFINE w == ByteBits
           packed == Pack(batch, P, w * q, next)
           after  == Write(buffer, q, packed)
<1>1. w \in Nat /\ w >= 1 /\ w * q \in Nat
  BY CallConstants, BytesAreOrdered
<1> SUFFICES ASSUME NEW b \in 0 .. m - 1
             PROVE  after[b] = ReplyByte(batch, P, b, next)
  BY DEF Replied
<1>2. after[b] = IF b = q THEN packed ELSE buffer[b]
  BY DEF Buffers, Write
<1>3. packed = ReplyByte(batch, P, q, next)
  <2>1. \A k : k \in 0 .. next - w * q - 1
                 <=> k \in 0 .. w - 1 /\ w * q + k < next
    BY <1>1
  <2> QED
    BY <2>1 DEF ReplyByte, Pack
<1>4. b # q => ReplyByte(batch, P, b, next) = ReplyByte(batch, P, b, w * q)
  <2> SUFFICES ASSUME b # q, NEW k \in 0 .. w - 1
               PROVE  w * b + k < next <=> w * b + k < w * q
    BY DEF ReplyByte
  <2>1. b \in Nat /\ w * b \in Nat
        /\ (b < q => w * b + w <= w * q) /\ (q < b => w * q + w <= w * b)
    BY <1>1, BytesAreOrdered
  <2> HIDE DEF w
  <2> QED
    BY <1>1, <2>1 DEF w
<1> HIDE DEF packed, after
<1> QED
  BY <1>2, <1>3, <1>4 DEF w

\* What the loops write are bytes.
LEMMA ReplyTypes ==
  ASSUME NEW buffer \in Buffers, NEW n \in Nat
  PROVE  /\ setBit(buffer, n) \in Buffers
         /\ \A q : \A packed \in SUBSET (0 .. ByteBits - 1) :
              Write(buffer, q, packed) \in Buffers
<1>1. n % ByteBits \in 0 .. ByteBits - 1
  BY CallConstants
<1> QED
  BY <1>1 DEF setBit, Write, Buffers, Byte

\* A whole reply is unpacked to the answer for every element.
LEMMA UnpackedReply ==
  ASSUME NEW batch \in Seq(Hashes), NEW P, NEW buffer,
         Replied(batch, P, Len(batch), result_bytes(Len(batch)), buffer)
  PROVE  [k \in 1 .. Len(batch) |-> packed_result_bit(buffer, k - 1)]
           = [k \in 1 .. Len(batch) |-> batch[k] \in P]
<1> DEFINE w == ByteBits
           c == Len(batch)
<1>1. w \in Nat /\ w >= 1 /\ c \in Nat
  BY CallConstants
<1> SUFFICES ASSUME NEW k \in 1 .. c
             PROVE  packed_result_bit(buffer, k - 1) = (batch[k] \in P)
  OBVIOUS
<1> DEFINE b == (k - 1) \div w
           r == (k - 1) % w
<1>2. k - 1 \in Nat /\ k - 1 < c /\ (k - 1) + 1 = k
  BY <1>1
<1>3. b \in Nat /\ r \in 0 .. w - 1 /\ k - 1 = w * b + r
  BY <1>1, <1>2, Division
<1>4. packed_result_bit(buffer, k - 1) = (r \in buffer[b])
  BY DEF packed_result_bit
<1> HIDE DEF b, r
<1>5. b < result_bytes(c)
  <2>1. w * b \in Nat /\ w * b < c
    BY <1>1, <1>2, <1>3, BytesAreOrdered
  <2> QED
    BY <1>1, <1>3, <2>1, ReplyBytes
<1>6. buffer[b] = ReplyByte(batch, P, b, c)
  <2>1. b \in 0 .. result_bytes(c) - 1
    BY <1>1, <1>3, <1>5, ReplyBytes
  <2> QED
    BY <2>1 DEF Replied
<1>7. w * b + r < c /\ w * b + r + 1 = k
  BY <1>1, <1>2, <1>3
<1> QED
  BY <1>3, <1>4, <1>6, <1>7 DEF ReplyByte

\* The answers that the caller sees: none until a containsBatch returns, then
\* one for every element of the batch.
LEMMA NoAnswers ==
  ASSUME \/ \E h \in Hashes : ScalarInsert(h)
         \/ \E hashes \in Batches : InsertBatchCall(hashes)
         \/ \E hashes \in Batches : \E buffer : ContainsBatchCall(hashes, buffer)
         \/ \E next : Inserting(next)
         \/ \E next, buffer : Probing(next, buffer)
         \/ InsertBatchReturn
  PROVE  /\ Answers' = <<>>
         /\ call \in {"inserting", "probing"} => Answers = <<>>
<1>1. call' \in {"idle", "inserting", "probing"}
  BY DEF ScalarInsert, InsertBatchCall, ContainsBatchCall, Inserting, Probing,
         InsertBatchReturn
<1> QED
  BY <1>1 DEF Answers

LEMMA AnswersOfReply ==
  ASSUME CallsTypeOK, ContainsBatchReturn, NEW P,
         Replied(hash_array, P, count, result_bytes(count), result)
  PROVE  Answers' = [k \in 1 .. Len(hash_array) |-> hash_array[k] \in P]
<1>1. call' = "answered" /\ UNCHANGED <<hash_array, i, result, members>>
  BY DEF ContainsBatchReturn
<1>2. Answers' = [k \in 1 .. Len(hash_array) |-> packed_result_bit(result, k - 1)]
  BY <1>1 DEF Answers, count, packed_result_bit
<1>3. hash_array \in Seq(Hashes)
  BY DEF CallsTypeOK
<1> QED
  BY <1>2, <1>3, UnpackedReply DEF count

-----------------------------------------------------------------------------
(* Which bytes of the buffer are written                                   *)

\* Only bytes of a reply to c elements differ.
Within(buffer, after, c) ==
  \A b \in BufferBytes : after[b] # buffer[b] => b < result_bytes(c)

LEMMA ByteOfElement ==
  ASSUME NEW n \in Nat, NEW c \in Nat, n < c
  PROVE  n \div ByteBits \in Nat /\ n \div ByteBits < result_bytes(c)
<1>1. /\ ByteBits \in Nat /\ ByteBits >= 1 /\ n \div ByteBits \in Nat
      /\ n % ByteBits \in 0 .. ByteBits - 1
      /\ n = ByteBits * (n \div ByteBits) + (n % ByteBits)
      /\ ByteBits * (n \div ByteBits) \in Nat
  BY CallConstants, Division, BytesAreOrdered
<1>2. ByteBits * (n \div ByteBits) < c
  BY <1>1
<1> QED
  BY <1>1, <1>2, ReplyBytes

\* The writes of the loops stay within the reply, and so does clearing it.
LEMMA WritesWithin ==
  ASSUME NEW c \in Nat, NEW buffer \in Buffers
  PROVE  /\ Within(buffer, buffer, c)
         /\ Within(result, Cleared(c), c)
         /\ \A n \in Nat : n < c =>
              /\ Within(buffer, setBit(buffer, n), c)
              /\ \A byte : Within(buffer, Write(buffer, n \div ByteBits, byte), c)
<1>1. ASSUME NEW n \in Nat, n < c
      PROVE  /\ Within(buffer, setBit(buffer, n), c)
             /\ \A byte : Within(buffer, Write(buffer, n \div ByteBits, byte), c)
  BY <1>1, ByteOfElement DEF Within, Write, setBit, Buffers
<1> QED
  BY <1>1 DEF Within, Cleared

LEMMA WithinTwice ==
  ASSUME NEW a, NEW b, NEW d, NEW c, Within(a, b, c), Within(b, d, c)
  PROVE  Within(a, d, c)
  BY DEF Within

\* The steps of the calls, of which only two have to be looked at.
LEMMA OnlyReplyWritten ==
  ASSUME \/ \E h \in Hashes : ScalarInsert(h)
         \/ \E hashes \in Batches : InsertBatchCall(hashes)
         \/ \E next : Inserting(next)
         \/ InsertBatchReturn
         \/ ContainsBatchReturn
         \/ UNCHANGED callVars
         \/ \E hashes \in Batches : \E buffer :
              ContainsBatchCall(hashes, buffer) /\ Within(result, buffer, Len(hashes))
         \/ \E next, buffer :
              Probing(next, buffer) /\ Within(result, buffer, count)
  PROVE  \A b \in BufferBytes :
           result'[b] # result[b] =>
             call' = "probing" /\ b < result_bytes(Len(hash_array'))
  BY DEF ScalarInsert, InsertBatchCall, Inserting, InsertBatchReturn,
         ContainsBatchReturn, callVars, ContainsBatchCall, Probing, Within, count

-----------------------------------------------------------------------------
(* Tables of blocks: M[h] are the bits that hash h sets, B[h] is the block *)
(* it sets them in.                                                        *)

\* The bits that the hashes in S set in block b.
BlockBits(M, B, S, b) == UNION {M[h] : h \in {g \in S : B[g] = b}}

\* The table of n blocks that holds just the hashes in S.
TableOf(M, B, S, n) == [b \in 0 .. n - 1 |-> BlockBits(M, B, S, b)]

\* The table of n blocks with these bits set in addition.
Added(table, M, B, S, n) ==
  [b \in 0 .. n - 1 |-> table[b] \cup BlockBits(M, B, S, b)]

\* The hashes that are found in a table.
Found(table, M, B) == {h \in Hashes : M[h] \subseteq table[B[h]]}

LEMMA AddedToTable ==
  ASSUME NEW M, NEW B, NEW n, NEW S, NEW T
  PROVE  Added(TableOf(M, B, S, n), M, B, T, n) = TableOf(M, B, S \cup T, n)
<1>1. \A b : BlockBits(M, B, S \cup T, b)
               = BlockBits(M, B, S, b) \cup BlockBits(M, B, T, b)
  BY DEF BlockBits
<1> QED
  BY <1>1 DEF Added, TableOf

\* Setting more bits of one block, as a scalar insertion does.
Put(table, b, bits) == [table EXCEPT ![b] = @ \cup bits]

LEMMA AddedOne ==
  ASSUME NEW M, NEW B, NEW n \in Int, NEW table \in [0 .. n - 1 -> Word],
         NEW h, B[h] \in 0 .. n - 1
  PROVE  Put(table, B[h], M[h]) = Added(table, M, B, {h}, n)
<1>1. \A b : BlockBits(M, B, {h}, b) = IF B[h] = b THEN M[h] ELSE {}
  BY DEF BlockBits
<1> QED
  BY <1>1 DEF Added, Put

LEMMA AddedType ==
  ASSUME NEW H, NEW M \in [H -> Word], NEW B, NEW n, NEW S \in SUBSET H,
         NEW table \in [0 .. n - 1 -> Word]
  PROVE  Added(table, M, B, S, n) \in [0 .. n - 1 -> Word]
<1>1. ASSUME NEW b \in 0 .. n - 1 PROVE table[b] \cup BlockBits(M, B, S, b) \in Word
  BY DEF BlockBits, Word
<1> QED
  BY <1>1 DEF Added

\* Inserting loses no hash, finds those inserted, and sets no bit when it
\* finds them already.
LEMMA FoundGrows ==
  ASSUME NEW M, NEW n, NEW B \in [Hashes -> 0 .. n - 1], NEW S \in SUBSET Hashes,
         NEW table \in [0 .. n - 1 -> Word]
  PROVE  /\ Found(table, M, B) \subseteq Found(Added(table, M, B, S, n), M, B)
         /\ S \subseteq Found(Added(table, M, B, S, n), M, B)
         /\ S \subseteq Found(table, M, B) => Added(table, M, B, S, n) = table
<1> DEFINE after == Added(table, M, B, S, n)
<1>1. \A b \in 0 .. n - 1 : after[b] = table[b] \cup BlockBits(M, B, S, b)
  BY DEF Added
<1>2. \A h \in Hashes : B[h] \in 0 .. n - 1
  OBVIOUS
<1>3. \A h \in S : M[h] \subseteq BlockBits(M, B, S, B[h])
  BY DEF BlockBits
<1>4. Found(table, M, B) \subseteq Found(after, M, B) /\ S \subseteq Found(after, M, B)
  BY <1>1, <1>2, <1>3 DEF Found
<1>5. ASSUME S \subseteq Found(table, M, B) PROVE after = table
  <2>1. \A b : BlockBits(M, B, S, b) \subseteq table[b]
    BY <1>5 DEF BlockBits, Found
  <2>2. \A b \in 0 .. n - 1 : table[b] \cup BlockBits(M, B, S, b) = table[b]
    BY <2>1
  <2> QED
    BY <2>2 DEF Added
<1> QED
  BY <1>4, <1>5

\* What was inserted is found.
LEMMA InsertedFound ==
  ASSUME NEW M, NEW n, NEW B \in [Hashes -> 0 .. n - 1], NEW S \in SUBSET Hashes
  PROVE  S \subseteq Found(TableOf(M, B, S, n), M, B)
<1>1. \A h \in S : M[h] \subseteq BlockBits(M, B, S, B[h])
  BY DEF BlockBits
<1> QED
  BY <1>1 DEF Found, TableOf

-----------------------------------------------------------------------------
(* The block that the top bits of a hash select                            *)

LEMMA PowerOfTwo ==
  ASSUME NEW n \in Nat
  PROVE  /\ 2^n \in Nat /\ 2^n >= 1
         /\ IsFiniteSet(SUBSET (1 .. n)) /\ Cardinality(SUBSET (1 .. n)) = 2^n
<1>1. IsFiniteSet(1 .. n) /\ Cardinality(1 .. n) = n
  BY FS_Interval
<1>2. IsFiniteSet(SUBSET (1 .. n)) /\ Cardinality(SUBSET (1 .. n)) = 2^n
  BY <1>1, FS_SUBSET
<1>3. 2^n \in Nat
  BY <1>2, FS_CardinalityType
<1>4. 2^n # 0
  BY <1>2, FS_EmptySet
<1> QED
  BY <1>2, <1>3, <1>4

\* The subsets of 1 .. a + b are pairs of a subset of each part.
LEMMA PowersMultiply ==
  ASSUME NEW a \in Nat, NEW b \in Nat
  PROVE  2^(a + b) = 2^a * 2^b
<1> DEFINE low  == 1 .. a
           high == a + 1 .. a + b
           both == 1 .. a + b
           F    == [s \in SUBSET both |-> <<s \cap low, s \cap high>>]
           pairs == (SUBSET low) \X (SUBSET high)
<1>1. both = low \cup high /\ low \cap high = {}
  OBVIOUS
<1>2. IsFiniteSet(high) /\ Cardinality(high) = b
  BY FS_Interval
<1>3. a + b \in Nat
  OBVIOUS
<1>4. /\ IsFiniteSet(SUBSET low) /\ Cardinality(SUBSET low) = 2^a
      /\ IsFiniteSet(SUBSET both) /\ Cardinality(SUBSET both) = 2^(a + b)
      /\ IsFiniteSet(SUBSET high) /\ Cardinality(SUBSET high) = 2^b
  BY <1>2, <1>3, PowerOfTwo, FS_SUBSET
<1>5. Cardinality(pairs) = 2^a * 2^b
  <2>1. Cardinality(pairs) = Cardinality(SUBSET low) * Cardinality(SUBSET high)
    BY <1>4, FS_Product, Zenon
  <2> QED
    BY <1>4, <2>1
<1> HIDE DEF low, high, both
<1>6. F \in [SUBSET both -> pairs]
  OBVIOUS
<1>7. \A s, t \in SUBSET both : F[s] = F[t] => s = t
  <2> SUFFICES ASSUME NEW s \in SUBSET both, NEW t \in SUBSET both, F[s] = F[t]
               PROVE  s = t
    OBVIOUS
  <2>1. /\ F[s] = <<s \cap low, s \cap high>>
        /\ F[t] = <<t \cap low, t \cap high>>
    OBVIOUS
  <2>2. s \cap low = t \cap low /\ s \cap high = t \cap high
    BY <2>1, Zenon
  <2> QED
    BY <1>1, <2>2
<1>8. ASSUME NEW p \in pairs PROVE \E s \in SUBSET both : F[s] = p
  <2> PICK l \in SUBSET low, h \in SUBSET high : p = <<l, h>>
    OBVIOUS
  <2>1. l \cup h \in SUBSET both
    BY <1>1
  <2>2. (l \cup h) \cap low = l /\ (l \cup h) \cap high = h
    BY <1>1
  <2>3. F[l \cup h] = <<l, h>>
    BY <2>1, <2>2
  <2> QED
    BY <2>1, <2>3
<1> HIDE DEF F, pairs
<1>9. F \in Bijection(SUBSET both, pairs)
  BY <1>6, <1>7, <1>8, Fun_IsBij
<1>10. Cardinality(pairs) = Cardinality(SUBSET both)
  BY <1>4, <1>9, FS_Bijection, Fun_ExistsBij
<1> QED
  BY <1>4, <1>5, <1>10

\* The shift that keeps the top l bits of a word of w bits yields a block of a
\* table of 2^l.
LEMMA TopBits ==
  ASSUME NEW w \in Nat, NEW l \in 0 .. w, NEW h \in 0 .. 2^w - 1
  PROVE  h \div 2^(w - l) \in 0 .. 2^l - 1
<1> DEFINE d == 2^(w - l)
           n == 2^l
           q == h \div d
<1>1. w - l \in Nat /\ l \in Nat /\ (w - l) + l = w
  OBVIOUS
<1>2. d \in Nat /\ d >= 1 /\ n \in Nat /\ n >= 1 /\ 2^w \in Nat
  BY <1>1, PowerOfTwo
<1>3. 2^w = d * n
  BY <1>1, PowersMultiply
<1>4. h \in Nat /\ h < d * n
  BY <1>2, <1>3
<1> HIDE DEF d, n
<1>5. q \in Nat /\ d * q <= h
  BY <1>2, <1>4, Division
<1> HIDE DEF q
<1>6. n <= q => d * n <= d * q
  <2>1. n = q \/ (n < q => d * n + d <= d * q)
    BY <1>2, <1>5, BytesAreOrdered
  <2> QED
    BY <1>2, <1>5, <2>1
<1>7. q < n
  BY <1>2, <1>4, <1>5, <1>6
<1> QED
  BY <1>2, <1>5, <1>7 DEF q, d, n

-----------------------------------------------------------------------------
(* The size of a filter                                                    *)

\* A set of numbers that is not empty has a least one.
LEMMA LeastNumber ==
  ASSUME NEW S \in SUBSET Nat, S # {}
  PROVE  \E m \in S : \A n \in S : m <= n
<1>1. PICK m \in S : \A n \in S : ~ (<<n, m>> \in OpToRel(<, Nat))
  BY NatLessThanWellFounded, WFMin
<1>2. ASSUME NEW n \in S PROVE m <= n
  <2>1. n \in Nat /\ m \in Nat
    OBVIOUS
  <2>2. <<n, m>> \in Nat \X Nat /\ n < m => <<n, m>> \in OpToRel(<, Nat)
    BY DEF OpToRel
  <2>3. ~(n < m)
    BY <1>1, <2>2
  <2> QED
    BY <2>1, <2>3
<1> QED
  BY <1>2

\* The next power is the double.
LEMMA PowerDoubles ==
  /\ 2^0 = 1 /\ 2^1 = 2
  /\ \A n \in Nat : 2^n \in Nat /\ 2^n >= 1 /\ 2^(n + 1) = 2^n + 2^n
<1>1. 2^0 = 1 /\ 2^1 = 2
  OBVIOUS
<1>2. ASSUME NEW n \in Nat
      PROVE  2^n \in Nat /\ 2^n >= 1 /\ 2^(n + 1) = 2^n + 2^n
  <2>1. 2^(n + 1) = 2^n * 2^1
    BY PowersMultiply
  <2>2. 2^n \in Nat /\ 2^n >= 1
    BY PowerOfTwo
  <2>3. \A m \in Nat : m * 2 = m + m
    OBVIOUS
  <2> QED
    BY <1>1, <2>1, <2>2, <2>3
<1> QED
  BY <1>1, <1>2

LEMMA PowerIsMonotone ==
  ASSUME NEW a \in Nat, NEW b \in Nat, a < b
  PROVE  2^(a + 1) <= 2^b /\ 2^a < 2^b
<1> DEFINE d == b - (a + 1)
<1>1. d \in Nat /\ (a + 1) + d = b /\ a + 1 \in Nat
  OBVIOUS
<1> HIDE DEF d
<1>2. 2^b = 2^(a + 1) * 2^d
  BY <1>1, PowersMultiply
<1>3. /\ 2^a \in Nat /\ 2^a >= 1 /\ 2^(a + 1) = 2^a + 2^a
      /\ 2^d \in Nat /\ 2^d >= 1
  BY <1>1, PowerDoubles
<1>4. \A m, n \in Nat : n >= 1 => m <= m * n
  <2> SUFFICES ASSUME NEW m \in Nat, NEW n \in Nat, n >= 1 PROVE m <= m * n
    OBVIOUS
  <2>1. n - 1 \in Nat /\ m * n = m + m * (n - 1) /\ m * (n - 1) >= 0
    OBVIOUS
  <2> QED
    BY <2>1
<1> QED
  BY <1>2, <1>3, <1>4

LEMMA PowerAbove ==
  ASSUME NEW n \in Nat
  PROVE  n < 2^n
<1> SUFFICES ASSUME n >= 2^n PROVE FALSE
  BY PowerDoubles
<1> DEFINE S == {m \in Nat : m >= 2^m}
<1>1. S \in SUBSET Nat /\ S # {}
  OBVIOUS
<1>2. PICK m \in S : \A k \in S : m <= k
  BY <1>1, LeastNumber
<1>3. m \in Nat /\ m >= 2^m /\ m # 0
  BY PowerDoubles
<1>4. m - 1 \in Nat /\ (m - 1) + 1 = m /\ m - 1 \notin S
  BY <1>2, <1>3
<1>5. m - 1 < 2^(m - 1)
  BY <1>4, PowerDoubles
<1>6. 2^m = 2^(m - 1) + 2^(m - 1)
  BY <1>4, PowerDoubles
<1> QED
  BY <1>3, <1>4, <1>5, <1>6, PowerDoubles

\* The position of the highest one bit.
LEMMA HighestBit ==
  ASSUME NEW n \in Nat, n >= 1
  PROVE  /\ \E k \in Nat : 2^k <= n /\ n < 2^(k + 1)
         /\ \A k, l \in Nat : /\ 2^k <= n /\ n < 2^(k + 1)
                              /\ 2^l <= n /\ n < 2^(l + 1)
                              => k = l
<1> DEFINE S == {m \in Nat : n < 2^m}
<1>1. S \in SUBSET Nat /\ n \in S
  BY PowerAbove
<1>2. PICK m \in S : \A k \in S : m <= k
  BY <1>1, LeastNumber
<1>3. m \in Nat /\ n < 2^m
  OBVIOUS
<1>4. m # 0
  <2>1. m = 0 => 2^m = 1
    BY PowerDoubles
  <2> QED
    BY <1>3, <2>1
<1>5. m - 1 \in Nat /\ (m - 1) + 1 = m /\ m - 1 \notin S
  BY <1>2, <1>3, <1>4
<1>6. 2^(m - 1) <= n
  BY <1>5, PowerDoubles
<1>7. ASSUME NEW k \in Nat, NEW l \in Nat, n < 2^(k + 1), 2^l <= n
      PROVE  ~(k < l)
  BY <1>7, PowerDoubles, PowerIsMonotone
<1>8. \E k \in Nat : 2^k <= n /\ n < 2^(k + 1)
  BY <1>3, <1>5, <1>6
<1> QED
  BY <1>7, <1>8

\* What the loop of ceil_log2 counts.  The recursive function exists: this one
\* satisfies its equation.  It is the only one: two would differ first at some
\* number, and not at its half.
LEMMA ShiftsCounted ==
  /\ shifts_to_zero[0] = 0
  /\ \A n, k \in Nat : 2^k <= n /\ n < 2^(k + 1) => shifts_to_zero[n] = k + 1
<1> DEFINE top(n) == CHOOSE k \in Nat : 2^k <= n /\ n < 2^(k + 1)
           bits   == [n \in Nat |-> IF n = 0 THEN 0 ELSE 1 + top(n)]
           S      == {n \in Nat : shifts_to_zero[n] # bits[n]}
<1>1. ASSUME NEW n \in Nat, NEW k \in Nat, 2^k <= n, n < 2^(k + 1)
      PROVE  bits[n] = k + 1 /\ n # 0
  <2>1. n >= 1
    BY <1>1, PowerDoubles
  <2>2. top(n) \in Nat /\ 2^top(n) <= n /\ n < 2^(top(n) + 1)
    BY <2>1, HighestBit
  <2>3. bits[n] = 1 + top(n)
    BY <2>1
  <2> HIDE DEF top, bits
  <2>4. top(n) = k
    BY <1>1, <2>1, <2>2, HighestBit
  <2> QED
    BY <2>1, <2>3, <2>4
<1>2. bits[0] = 0
  OBVIOUS
<1> HIDE DEF bits
<1>3. ASSUME NEW n \in Nat, n # 0 PROVE n \div 2 \in Nat /\ n \div 2 < n
  BY <1>3
<1>4. ASSUME NEW n \in Nat, n # 0 PROVE bits[n] = 1 + bits[n \div 2]
  <2>1. PICK k \in Nat : 2^k <= n /\ n < 2^(k + 1)
    <3>1. n >= 1
      BY <1>4
    <3> QED
      BY <3>1, HighestBit
  <2>2. CASE k = 0
    <3>1. n = 1 /\ n \div 2 = 0
      BY <1>4, <2>1, <2>2, PowerDoubles
    <3>2. bits[n] = k + 1
      BY <1>1, <2>1
    <3> QED
      BY <1>2, <2>2, <3>1, <3>2
  <2>3. CASE k # 0
    <3>1. k - 1 \in Nat /\ (k - 1) + 1 = k
      BY <2>3
    <3>2. 2^k = 2^(k - 1) + 2^(k - 1) /\ 2^(k + 1) = 2^k + 2^k
      BY <3>1, PowerDoubles
    <3>3. 2^(k - 1) \in Nat /\ 2^k \in Nat
      BY <3>1, PowerDoubles
    <3>4. n \div 2 \in Nat /\ 2^(k - 1) <= n \div 2 /\ n \div 2 < 2^k
      BY <2>1, <3>2, <3>3
    <3>5. bits[n \div 2] = k
      BY <1>1, <3>1, <3>4
    <3>6. bits[n] = k + 1
      BY <1>1, <2>1
    <3> QED
      BY <3>5, <3>6
  <2> QED
    BY <2>2, <2>3
<1>5. bits = [n \in Nat |-> IF n = 0 THEN 0 ELSE 1 + bits[n \div 2]]
  <2>1. bits \in [Nat -> {bits[n] : n \in Nat}]
    BY DEF bits
  <2> QED
    BY <1>2, <1>4, <2>1
<1>6. shifts_to_zero =
        [n \in Nat |-> IF n = 0 THEN 0 ELSE 1 + shifts_to_zero[n \div 2]]
  BY <1>5 DEF shifts_to_zero
<1>7. S = {}
  <2> SUFFICES ASSUME S # {} PROVE FALSE
    OBVIOUS
  <2>1. PICK m \in S : \A n \in S : m <= n
    BY LeastNumber
  <2>2. m # 0
    BY <1>2, <1>6
  <2>3. m \div 2 \in Nat /\ m \div 2 < m
    BY <1>3, <2>2
  <2>4. m \div 2 \notin S
    BY <2>1, <2>3
  <2> QED
    BY <1>4, <1>6, <2>2, <2>3, <2>4
<1> QED
  BY <1>1, <1>2, <1>7

\* ceil_log2 is what it says.
LEMMA CeilLog2 ==
  ASSUME NEW n \in Nat, n >= 1
  PROVE  /\ ceil_log2(n) \in Nat
         /\ n <= 2^ceil_log2(n)
         /\ \A k \in Nat : n <= 2^k <=> ceil_log2(n) <= k
<1> DEFINE c == ceil_log2(n)
<1>1. CASE n = 1
  <2>1. c = 0
    BY <1>1 DEF ceil_log2
  <2> QED
    BY <1>1, <2>1, PowerDoubles
<1>2. CASE n # 1
  <2>1. n - 1 \in Nat /\ n - 1 >= 1
    BY <1>2
  <2>2. PICK h \in Nat : 2^h <= n - 1 /\ n - 1 < 2^(h + 1)
    BY <2>1, HighestBit
  <2>3. c = h + 1
    BY <1>2, <2>1, <2>2, ShiftsCounted DEF ceil_log2
  <2> HIDE DEF c
  <2>4. c \in Nat /\ n <= 2^c
    BY <2>2, <2>3, PowerDoubles
  <2>5. ASSUME NEW k \in Nat, n <= 2^k PROVE c <= k
    <3>1. 2^h < 2^k
      BY <2>2, <2>5, PowerDoubles
    <3>2. ~(k < h) /\ k # h
      BY <3>1, PowerDoubles, PowerIsMonotone
    <3> QED
      BY <2>3, <3>2
  <2>6. ASSUME NEW k \in Nat, c <= k PROVE n <= 2^k
    <3>1. 2^c <= 2^k
      BY <2>4, <2>6, PowerDoubles, PowerIsMonotone
    <3> QED
      BY <2>4, <3>1, PowerDoubles
  <2> QED
    BY <2>4, <2>5, <2>6 DEF c
<1> QED
  BY <1>1, <1>2

LEMMA SizingConstants ==
  /\ HashBits \in Nat /\ HashBits >= 1
  /\ bitsPerKey \in Nat
  /\ min_num_bits \in Nat /\ min_num_bits >= 1
  /\ min_num_bits >= WordBits
  /\ min_num_bits < 2^HashBits
  /\ log_bits_block \in Nat /\ WordBits = 2^log_bits_block
<1>1. PICK k \in 0 .. WordBits : WordBits = 2^k
  BY SizingAssumption
<1>2. k \in Nat /\ WordBits \in Nat /\ WordBits >= 1
  BY CallConstants
<1>3. \A j \in Nat : WordBits <= 2^j <=> log_bits_block <= j
  BY <1>2, CeilLog2 DEF log_bits_block
<1>4. log_bits_block \in Nat /\ WordBits <= 2^log_bits_block
  BY <1>2, CeilLog2 DEF log_bits_block
<1>5. log_bits_block <= k
  BY <1>1, <1>2, <1>3, PowerDoubles
<1>6. ~(log_bits_block < k)
  BY <1>1, <1>2, <1>4, PowerDoubles, PowerIsMonotone
<1>7. log_bits_block = k
  BY <1>2, <1>4, <1>5, <1>6
<1> QED
  BY <1>1, <1>4, <1>7, SizingAssumption

\* A size of at least min_num_bits, and below 2^w, is that of 2^l blocks for an
\* l that is at least 0 and at most w; with room for two blocks and two bits in a
\* block, w - l is the width of a shift that C++ defines.
LEMMA BlocksOfSize ==
  ASSUME NEW bits \in Nat, bits >= min_num_bits,
         NEW w \in Nat, bits <= 2^w
  PROVE  LET l == ceil_log2(bits) - log_bits_block
         IN  /\ l \in 0 .. w
             /\ BlockShiftDefined => l \in 1 .. w - 1
<1> DEFINE c == ceil_log2(bits)
           k == log_bits_block
<1>1. /\ bits >= 1 /\ k \in Nat /\ WordBits = 2^k /\ bits >= WordBits
      /\ WordBits \in Nat /\ min_num_bits \in Nat
  BY SizingConstants, CallConstants
<1>2. c \in Nat /\ bits <= 2^c /\ c <= w
  BY <1>1, CeilLog2
<1> HIDE DEF c, k
<1>3. 2^c \in Nat /\ 2^k \in Nat /\ ~(c < k)
  BY <1>1, <1>2, PowerDoubles, PowerIsMonotone
<1>4. ASSUME BlockShiftDefined
      PROVE  c # k /\ k # 0
  <2>1. c = k => 2^c = 2^k
    OBVIOUS
  <2>2. k = 0 => 2^k = 1
    BY PowerDoubles
  <2> QED
    BY <1>1, <1>2, <1>3, <1>4, <2>1, <2>2 DEF BlockShiftDefined
<1> QED
  BY <1>1, <1>2, <1>3, <1>4 DEF c, k

\* The constructors' size, for every number of rows, whether the product wraps or
\* not: the blocks are at least one, and the shift by HashBits - LogNumBlocks that
\* selects a block is by less than the width of a hash and by more than nothing.
THEOREM BlocksOfRows ==
  ASSUME NEW rows \in Nat
  PROVE  /\ desired_num_bits(rows) \in Nat
         /\ desired_num_bits(rows) >= 1
         /\ desired_num_bits(rows) >= min_num_bits
         /\ desired_num_bits(rows) < 2^HashBits
         /\ LogNumBlocks(rows) \in 0 .. HashBits
         /\ NumBlocks(rows) \in Nat \ {0}
         /\ BlockShiftDefined =>
               LogNumBlocks(rows) \in 1 .. HashBits - 1
<1>1. rows * bitsPerKey \in Nat /\ 2^HashBits \in Nat /\ 2^HashBits >= 1
  BY SizingConstants, PowerDoubles
<1>2. (rows * bitsPerKey) % 2^HashBits \in 0 .. 2^HashBits - 1
  BY <1>1
<1>3. /\ desired_num_bits(rows) \in Nat
      /\ desired_num_bits(rows) >= min_num_bits
      /\ desired_num_bits(rows) < 2^HashBits
  BY <1>1, <1>2, SizingConstants DEF desired_num_bits
<1>4. /\ LogNumBlocks(rows) \in 0 .. HashBits
      /\ BlockShiftDefined =>
            LogNumBlocks(rows) \in 1 .. HashBits - 1
  BY <1>1, <1>3, SizingConstants, BlocksOfSize DEF LogNumBlocks
<1>5. NumBlocks(rows) \in Nat \ {0}
  BY <1>4, PowerDoubles DEF NumBlocks
<1> QED
  BY <1>3, <1>4, <1>5, SizingConstants

-----------------------------------------------------------------------------
(* Rotations                                                               *)

\* A shifted word is a word.
LEMMA ShiftsAreWords ==
  ASSUME NEW value \in Word, NEW n \in Nat
  PROVE  ShiftLeft(value, n) \in Word /\ ShiftRight(value, n) \in Word
<1>1. ASSUME NEW c \in value, c + n < WordBits PROVE c + n \in 0 .. WordBits - 1
  BY <1>1, CallConstants DEF Word
<1>2. ASSUME NEW c \in value, c >= n PROVE c - n \in 0 .. WordBits - 1
  BY <1>2, CallConstants DEF Word
<1> QED
  BY <1>1, <1>2 DEF ShiftLeft, ShiftRight, Word

\* Shifting by nothing and shifting everything out, which is what the vector
\* lanes do for a rotation by zero.
LEMMA ShiftByZero ==
  ASSUME NEW value \in Word
  PROVE  ShiftLeft(value, 0) = value /\ ShiftRight(value, WordBits) = {}
<1>1. ASSUME NEW c \in value
      PROVE  c + 0 = c /\ c + 0 < WordBits /\ ~(c >= WordBits)
  BY CallConstants DEF Word
<1> QED
  BY <1>1 DEF ShiftLeft, ShiftRight

\* A word is rotated by the or of two shifts, without a case for zero.
LEMMA RotateByShifts ==
  ASSUME NEW m \in Word, NEW r \in 0 .. WordBits - 1
  PROVE  /\ rotate_left(m, r) = ShiftLeft(m, r) \cup ShiftRight(m, WordBits - r)
         /\ rotate_left(m, r) \in Word
         /\ m # {} => rotate_left(m, r) # {}
<1>1. r \in Nat /\ WordBits - r \in Nat /\ r % WordBits = r
  BY CallConstants
<1>2. CASE r = 0
  <2>1. WordBits - r = WordBits
    BY <1>2, CallConstants
  <2> QED
    BY <1>1, <1>2, <2>1, ShiftByZero DEF rotate_left
<1>3. CASE r # 0
  <2>1. rotate_left(m, r) = ShiftLeft(m, r) \cup ShiftRight(m, WordBits - r)
    BY <1>1, <1>3 DEF rotate_left
  <2>2. ShiftLeft(m, r) \in Word /\ ShiftRight(m, WordBits - r) \in Word
    BY <1>1, ShiftsAreWords
  <2>3. ASSUME NEW b \in m PROVE rotate_left(m, r) # {}
    <3>1. b + r < WordBits \/ b >= WordBits - r
      BY <1>1, CallConstants DEF Word
    <3> QED
      BY <2>1, <3>1 DEF ShiftLeft, ShiftRight
  <2> QED
    BY <2>1, <2>2, <2>3 DEF Word
<1> QED
  BY <1>2, <1>3
=============================================================================
