---------------------------- MODULE FilterSizing ----------------------------
(***************************************************************************)
(* How the constructors of the block filters turn the number of rows into  *)
(* a number of blocks (one word each).  Sizes are unsigned integers of     *)
(* HashBits bits (64 in the code), so products wrap.                       *)
(***************************************************************************)
EXTENDS HelperFuncs

CONSTANTS HashBits,     \* width of a hash and of std::size_t
          bitsPerKey,   \* filter bits allocated per row: 8
          min_num_bits  \* smallest filter: 512 bits

ASSUME SizingAssumption ==
  /\ HashBits \in Nat \ {0}
  /\ bitsPerKey \in Nat \ {0}
  /\ min_num_bits \in Nat \ {0}
  /\ min_num_bits >= WordBits
  /\ min_num_bits < 2^HashBits
  /\ \E k \in 0 .. WordBits : WordBits = 2^k

\* A block has several bits and the smallest filter several blocks: the shift
\* that selects a block by the top bits of a hash is by less than its width,
\* which C++ requires, and by more than nothing.
BlockShiftDefined ==
  /\ WordBits > 1
  /\ min_num_bits >= 2 * WordBits

\* Number of right shifts until x is zero, the loop of ceil_log2.
shifts_to_zero[x \in Nat] ==
  IF x = 0 THEN 0 ELSE 1 + shifts_to_zero[x \div 2]

\* Mutant: the number of bits of x, which is too large for powers of two.
ceil_log2_of_power(x) == IF x <= 1 THEN 0 ELSE shifts_to_zero[x]

ceil_log2(x) == IF x <= 1 THEN 0 ELSE shifts_to_zero[x - 1]

desired_num_bits(rows) ==
  LET product == (rows * bitsPerKey) % 2^HashBits
  IN  IF product > min_num_bits THEN product ELSE min_num_bits

\* log2 of the bits in a block: the constant 6 in the code.
log_bits_block == ceil_log2(WordBits)

LogNumBlocks(rows) == ceil_log2(desired_num_bits(rows)) - log_bits_block
NumBlocks(rows)    == 2^LogNumBlocks(rows)
=============================================================================
