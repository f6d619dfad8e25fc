---------------------------- MODULE FilterCalls ----------------------------
(***************************************************************************)
(* The interface BloomFilter<Impl> as its caller sees it: one thread makes *)
(* one call at a time, owns the array of hashes and the byte buffer for    *)
(* the answers, and reuses that buffer from call to call (as               *)
(* BENCH_probeFilters does), so a call finds old answers in it.            *)
(*                                                                         *)
(* A batch call is a sequence of steps: the call, the iterations of its    *)
(* loops (given by each implementation's module), the return.  Nothing     *)
(* else happens in between; the steps are there so that the loops, and     *)
(* what they leave in memory after every iteration, can be checked.        *)
(***************************************************************************)
EXTENDS HelperFuncs, Functions

CONSTANTS Hashes,   \* the hash values the caller uses
          Batches,  \* the values of hash_array it passes
          MaxBatch  \* bound: longest hash_array

ASSUME CallsAssumption ==
  /\ Hashes \subseteq Nat
  /\ MaxBatch \in Nat
  /\ \A hashes \in Batches :
       hashes \in Seq(Hashes) /\ Len(hashes) <= MaxBatch

VARIABLES call,        \* "idle", "inserting", "probing" or "answered"
          hash_array,  \* the array of the batch call in progress or answered
          i,           \* loop counter of the batch call
          result,      \* the caller's answer buffer, a function of byte index
          members      \* history: the hashes whose insertion has returned

callVars == <<call, hash_array, i, result, members>>

count   == Len(hash_array)
hash(k) == hash_array[k + 1]   \* hash_array[k] of the code

\* The largest part of the batch that an unrolled loop can process.
loop_count(unroll) == count - (count % unroll)

\* The buffer has one byte more than the longest batch needs.
BufferBytes == 0 .. result_bytes(MaxBatch)

CallsInit ==
  /\ call = "idle"
  /\ hash_array = <<>>
  /\ i = 0
  /\ result = [b \in BufferBytes |-> {}]
  /\ members = {}

Ready == call \in {"idle", "answered"}

\* insert(h), a call of a single step.
ScalarInsert(h) ==
  /\ Ready
  /\ call' = "idle"
  /\ hash_array' = <<>>
  /\ i' = 0
  /\ members' = members \cup {h}
  /\ UNCHANGED result

InsertBatchCall(hashes) ==
  /\ Ready
  /\ call' = "inserting"
  /\ hash_array' = hashes
  /\ i' = 0
  /\ UNCHANGED <<result, members>>

\* One iteration of an insertion loop, up to element next.
Inserting(next) ==
  /\ call = "inserting"
  /\ i' = next
  /\ UNCHANGED <<call, hash_array, result, members>>

InsertBatchReturn ==
  /\ call = "inserting"
  /\ i = count
  /\ call' = "idle"
  /\ hash_array' = <<>>
  /\ i' = 0
  /\ members' = members \cup Range(hash_array)
  /\ UNCHANGED result

\* containsBatch, with what it does to the buffer before its first loop.
ContainsBatchCall(hashes, buffer) ==
  /\ Ready
  /\ call' = "probing"
  /\ hash_array' = hashes
  /\ i' = 0
  /\ result' = buffer
  /\ UNCHANGED members

\* std::fill(result, result + (n + 7) / 8, 0)
Cleared(n) ==
  [b \in BufferBytes |-> IF b < result_bytes(n) THEN {} ELSE result[b]]

\* One iteration of a probing loop, up to element next.
Probing(next, buffer) ==
  /\ call = "probing"
  /\ i' = next
  /\ result' = buffer
  /\ UNCHANGED <<call, hash_array, members>>

ContainsBatchReturn ==
  /\ call = "probing"
  /\ i = count
  /\ call' = "answered"
  /\ UNCHANGED <<hash_array, i, result, members>>

-----------------------------------------------------------------------------
(* Properties of every implementation *)

CallsTypeOK ==
  /\ call \in {"idle", "inserting", "probing", "answered"}
  /\ hash_array \in Seq(Hashes) /\ count <= MaxBatch
  /\ i \in 0 .. count
  /\ result \in [BufferBytes -> Byte]
  /\ members \subseteq Hashes

\* The hashes whose bits the filter must hold: the members, and the part of
\* the batch that an insertion in progress has processed.
Inserted ==
  members \cup (IF call = "inserting" THEN {hash(k) : k \in 0 .. i - 1} ELSE {})

\* The answers of the last containsBatch, as its caller unpacks them.
Answers ==
  IF call = "answered"
  THEN [k \in 1 .. count |-> packed_result_bit(result, k - 1)]
  ELSE <<>>

\* The buffer is written only by containsBatch, and never past the
\* result_bytes(count) bytes the caller has to provide.
OnlyReplyBytesWritten ==
  [][\A b \in BufferBytes :
       result'[b] # result[b] =>
         call' = "probing" /\ b < result_bytes(Len(hash_array'))]_callVars

\* Every batch call returns, whatever the batch's length.
CallsReturn == (call \in {"inserting", "probing"}) ~> Ready
=============================================================================
