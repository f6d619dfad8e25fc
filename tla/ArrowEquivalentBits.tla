------------------------ MODULE ArrowEquivalentBits ------------------------
(***************************************************************************)
(* calculate_arrow_equivalent_bits: the size that the test and the         *)
(* benchmark give the basic filter, computed by smearing the highest one   *)
(* bit downwards, next to the size the block filters give themselves,      *)
(* computed by counting shifts (module FilterSizing).                      *)
(***************************************************************************)
EXTENDS FilterSizing, FiniteSetsExt

VARIABLES rows_to_insert,
          x,               \* the bits set in x
          i                \* the distance of the next shift

vars == <<rows_to_insert, x, i>>

Sizes == 0 .. 2^HashBits - 1

\* A number as the set of its one bits, and back.
BitsOf(n)  == {b \in 0 .. HashBits - 1 : (n \div 2^b) % 2 = 1}
ValueOf(s) == SumSet({2^b : b \in s})

Init ==
  /\ rows_to_insert \in Sizes
  /\ x = BitsOf(desired_num_bits(rows_to_insert) - 1)
  /\ i = 1

\* Mutant: the loop shifts the wrong way.
Smear_left ==
  /\ i < HashBits
  /\ x' = x \cup {b + i : b \in x}
  /\ i' = 2 * i
  /\ UNCHANGED rows_to_insert

\* x = x | (x >> i), and the loop's i <<= 1.
Smear ==
  /\ i < HashBits
  /\ x' = x \cup {b - i : b \in {c \in x : c >= i}}
  /\ i' = 2 * i
  /\ UNCHANGED rows_to_insert

Next == Smear

Spec == Init /\ [][Next]_vars

Returned     == i >= HashBits
return_value == (ValueOf(x) + 1) % 2^HashBits

-----------------------------------------------------------------------------
(* Properties *)

\* Every variable keeps its type.
TypeOK ==
  /\ rows_to_insert \in Sizes
  /\ x \subseteq 0 .. HashBits - 1
  /\ i \in {2^k : k \in 0 .. HashBits}

\* "such that it has the same size as an ArrowBloomFilter"
\* (HelperFuncs.h:41-44): for every number of rows the two computations
\* agree, up to the wrap to 0 of a size of 2^HashBits bits.
SameSize ==
  Returned => return_value = (NumBlocks(rows_to_insert) * WordBits) % 2^HashBits
=============================================================================
