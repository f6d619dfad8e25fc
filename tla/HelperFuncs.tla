---------------------------- MODULE HelperFuncs ----------------------------
(***************************************************************************)
(* The bit manipulation of util/HelperFuncs.h that all filters share.      *)
(*                                                                         *)
(* A machine word, or a byte, is the set of the positions of its one bits: *)
(* bitwise or, and, and-not are union, intersection, difference.  The      *)
(* widths are constants (8 and 64 in the code); values that are computed   *)
(* with (hashes, sizes, positions) are natural numbers.                    *)
(***************************************************************************)
EXTENDS Integers, Sequences, FiniteSets

CONSTANTS ByteBits,  \* bits in a std::uint8_t
          WordBits   \* bits in a std::uint64_t

ASSUME WidthAssumption ==
  /\ ByteBits \in Nat \ {0}
  /\ WordBits \in Nat
  /\ WordBits >= ByteBits
  /\ WordBits % ByteBits = 0

Byte == SUBSET (0 .. ByteBits - 1)
Word == SUBSET (0 .. WordBits - 1)

\* Mutant: the shift does not drop the bits that leave the word.
ShiftLeft_wide(value, n) == {b + n : b \in value}

\* value << n and value >> n: bits that leave the word are lost.  For
\* n = WordBits the result is empty, which is what the AVX2 shifts produce
\* (in C++ that shift would be undefined, and rotate_left avoids it).
ShiftLeft(value, n)  == {b + n : b \in {c \in value : c + n < WordBits}}
ShiftRight(value, n) == {b - n : b \in {c \in value : c >= n}}

rotate_left(value, shift) ==
  LET s == shift % WordBits
  IN  IF s = 0 THEN value
      ELSE ShiftLeft(value, s) \cup ShiftRight(value, WordBits - s)

\* Mutant: answers are packed from the most significant bit down.
setBit_msb_first(bytes, idx) ==
  [bytes EXCEPT ![idx \div ByteBits] =
     @ \cup {ByteBits - 1 - (idx % ByteBits)}]

\* A bit-packed array of bytes, as containsBatch fills it.
setBit(bytes, idx) ==
  [bytes EXCEPT ![idx \div ByteBits] = @ \cup {idx % ByteBits}]
packed_result_bit(bytes, idx) == idx % ByteBits \in bytes[idx \div ByteBits]

\* Bytes needed for the answers to n queries.
result_bytes(n) == (n + ByteBits - 1) \div ByteBits
=============================================================================
