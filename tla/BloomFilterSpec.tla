-------------------------- MODULE BloomFilterSpec --------------------------
(***************************************************************************)
(* What the interface BloomFilter<Impl> promises, whatever the             *)
(* implementation: an approximate set.                                     *)
(*                                                                         *)
(*   - every hash whose insertion has returned is answered with true;      *)
(*   - a new filter answers false to everything;                           *)
(*   - a hash once answered with true stays so, and inserting hashes that  *)
(*     are all answered with true changes no answer;                       *)
(*   - probing changes no answer, and a batch answers for each of its      *)
(*     elements what contains would.                                       *)
(***************************************************************************)
EXTENDS Sequences, Naturals, Functions

CONSTANT Hashes

VARIABLES call,        \* "idle", "inserting", "probing" or "answered"
          hash_array,  \* the batch
          members,     \* hashes whose insertion has returned
          positives,   \* hashes that contains answers with true
          answers      \* the last batch of answers, while it is current

vars == <<call, hash_array, members, positives, answers>>

Init ==
  /\ call = "idle"
  /\ hash_array = <<>>
  /\ members = {}
  /\ positives = {}
  /\ answers = <<>>

Ready == call \in {"idle", "answered"}

\* positives may grow, but only on behalf of a hash in S that is not in yet.
Grow(S) ==
  /\ positives' \in SUBSET Hashes
  /\ positives \subseteq positives'
  /\ S \subseteq positives => positives' = positives

Insert(h) ==
  /\ Ready
  /\ Grow({h})
  /\ h \in positives'
  /\ members' = members \cup {h}
  /\ call' = "idle"
  /\ hash_array' = <<>>
  /\ answers' = <<>>

InsertBatchCall ==
  /\ Ready
  /\ call' = "inserting"
  /\ hash_array' \in Seq(Hashes)
  /\ answers' = <<>>
  /\ UNCHANGED <<members, positives>>

InsertSome ==
  /\ call = "inserting"
  /\ Grow(Range(hash_array))
  /\ UNCHANGED <<call, hash_array, members, answers>>

InsertBatchReturn ==
  /\ call = "inserting"
  /\ Range(hash_array) \subseteq positives
  /\ members' = members \cup Range(hash_array)
  /\ call' = "idle"
  /\ hash_array' = <<>>
  /\ UNCHANGED <<positives, answers>>

ContainsBatchCall ==
  /\ Ready
  /\ call' = "probing"
  /\ hash_array' \in Seq(Hashes)
  /\ answers' = <<>>
  /\ UNCHANGED <<members, positives>>

ContainsBatchReturn ==
  /\ call = "probing"
  /\ call' = "answered"
  /\ answers' = [k \in 1 .. Len(hash_array) |-> hash_array[k] \in positives]
  /\ UNCHANGED <<hash_array, members, positives>>

Next ==
  \/ \E h \in Hashes : Insert(h)
  \/ InsertBatchCall
  \/ ContainsBatchCall
  \/ InsertSome
  \/ InsertBatchReturn
  \/ ContainsBatchReturn

Spec == Init /\ [][Next]_vars
=============================================================================
