----------------------------- MODULE QuerySets -----------------------------
(***************************************************************************)
(* The query sets of util/HelperFuncs.h that the test and the benchmark    *)
(* use: two sets of hashes drawn against one set of used hashes, and their *)
(* alternating mix; and the count over a packed reply.                     *)
(*                                                                         *)
(* A component: the modules that use it INSTANCE it, and its operators are *)
(* conjuncts of their actions.                                             *)
(***************************************************************************)
EXTENDS HelperFuncs, FiniteSetsExt

CONSTANTS HashBits,
          murmur  \* murmurHash, a function on the hashes

VARIABLES used,         \* the hashes generated so far
          value,        \* the argument of the next murmurHash
          to_insert,    \* the hashes to insert,
          not_present,  \* those never inserted,
          mixed         \* and both in turn

setVars == <<used, value, to_insert, not_present, mixed>>

HashSpace == 0 .. 2^HashBits - 1

Init ==
  /\ used = {}
  /\ value = 0
  /\ to_insert = <<>> /\ not_present = <<>> /\ mixed = <<>>

\* A call of generate_unique begins.
Seed(seed) ==
  /\ value' = seed
  /\ UNCHANGED <<used, to_insert, not_present, mixed>>

\* Mutants: a hash that is in use already is taken; value does not advance.
draw_any(hashes) ==
  LET hash == murmur[value]
  IN  /\ value' = (value + 1) % 2^HashBits
      /\ used' = used \cup {hash}
      /\ hashes' = Append(hashes, hash)

draw_same(hashes) ==
  LET hash == murmur[value]
  IN  /\ value' = value
      /\ used' = used \cup {hash}
      /\ hashes' = IF hash \in used THEN hashes ELSE Append(hashes, hash)

\* One iteration of generate_unique, for the vector hashes.
draw(hashes) ==
  LET hash == murmur[value]
  IN  /\ value' = (value + 1) % 2^HashBits
      /\ used' = used \cup {hash}
      /\ hashes' = IF hash \in used THEN hashes ELSE Append(hashes, hash)

\* v2[i] exists for every index that mix_vector uses.
CanMix(v1, v2) == Len(v1) <= Len(v2)

mix_vector(v1, v2) ==
  [k \in 1 .. 2 * Len(v1) |->
     IF k % 2 = 1 THEN v1[(k + 1) \div 2] ELSE v2[k \div 2]]

\* Mutant: the tail is forgotten.
count_packed_true_bytes(bytes, n) ==
  MapThenSumSet(LAMBDA b : Cardinality(bytes[b]), 0 .. (n \div ByteBits) - 1)

\* Whole bytes, then the first n % ByteBits bits of the next.
count_packed_true(bytes, n) ==
  MapThenSumSet(LAMBDA b : Cardinality(bytes[b]), 0 .. (n \div ByteBits) - 1)
    + IF n % ByteBits = 0 THEN 0
      ELSE Cardinality(bytes[n \div ByteBits] \cap (0 .. (n % ByteBits) - 1))

TypeOK ==
  /\ used \subseteq HashSpace
  /\ value \in HashSpace
  /\ {to_insert, not_present, mixed} \subseteq Seq(HashSpace)
=============================================================================
