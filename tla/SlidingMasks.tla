---------------------------- MODULE SlidingMasks ----------------------------
(***************************************************************************)
(* The lookup table of bit masks that BloomFilterMasks (Arrow) and         *)
(* ImprovedBloomFilterMasks keep: one string of bits in which mask k is    *)
(* the window of bitsPerMask bits that starts at bit k, so that adjacent   *)
(* masks overlap.                                                          *)
(*                                                                         *)
(* The byte array is represented by the set of the bit positions set in    *)
(* it: byte n holds positions ByteBits * n .. ByteBits * n + ByteBits - 1. *)
(***************************************************************************)
EXTENDS HelperFuncs

CONSTANTS numberMasks,  \* 1024 in the code
          minBitsSet,   \* 4: least number of bits in a mask
          maxBitsSet    \* 5: greatest number of bits in a mask

\* The widest window that one word-sized load at a byte boundary always
\* covers: the load is shifted right by at most ByteBits - 1 (64 - 7 = 57).
bitsPerMask == WordBits - ByteBits + 1

ASSUME MaskAssumption ==
  /\ numberMasks \in Nat \ {0}
  /\ numberMasks % ByteBits = 0
  /\ minBitsSet \in Nat \ {0}
  /\ maxBitsSet \in Nat
  /\ minBitsSet < maxBitsSet
  /\ maxBitsSet <= WordBits - ByteBits + 1

totalBytes == (numberMasks + WordBits) \div ByteBits
TableBits  == 0 .. (numberMasks + WordBits - 1)

\* The bits of the window that ends just before bit last.
WindowBefore(table, last) == table \cap (last - bitsPerMask .. last - 1)

\* Mutant: the word is not reduced to the bits of the window.
LookupMask_unmasked(table, bit_offset) ==
  {b \in 0 .. WordBits - 1 :
     /\ b + (bit_offset % ByteBits) < WordBits
     /\ bit_offset + b \in table}

\* mask(bit_offset): load a word at the byte that holds the first bit, shift
\* right to that bit, keep bitsPerMask bits.
LookupMask(table, bit_offset) ==
  LET start_byte == bit_offset \div ByteBits
      shift      == bit_offset % ByteBits
  IN  {b \in 0 .. bitsPerMask - 1 :
         b + shift < WordBits /\ ByteBits * start_byte + b + shift \in table}

\* What the constructors establish (theorem TableIsWellFormed of module
\* BloomFilterMasks_proofs): every mask has minBitsSet to maxBitsSet bits.
WellFormedTable(table) ==
  /\ table \subseteq TableBits
  /\ \A k \in 0 .. numberMasks - 1 :
       Cardinality(WindowBefore(table, k + bitsPerMask))
         \in minBitsSet .. maxBitsSet
=============================================================================
