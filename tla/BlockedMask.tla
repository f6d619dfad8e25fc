---------------------------- MODULE BlockedMask ----------------------------
(***************************************************************************)
(* BlockedBloomFilter::mask: the loop that rehashes a hash until it has    *)
(* num_hashes different bit positions of a block.  Nothing bounds the      *)
(* inner loop: it ends when a rehash yields a bit not yet taken.           *)
(***************************************************************************)
EXTENDS HelperFuncs

CONSTANTS HashBits,
          num_hashes,  \* bits in a mask: 4
          murmur       \* murmurHash, a function on the hashes

HashSpace == 0 .. 2^HashBits - 1

ASSUME BlockedMaskAssumption ==
  /\ HashBits \in Nat
  /\ num_hashes \in 1 .. WordBits
  /\ murmur \in [HashSpace -> HashSpace]

VARIABLES argument, \* hash in the code
          x,        \* the last value drawn
          i,        \* bits taken so far: the counter of the for loop
          result    \* those bits

vars == <<argument, x, i, result>>

Init ==
  /\ argument \in HashSpace
  /\ x = argument
  /\ i = 0
  /\ result = {}

next_x  == murmur[(x + i) % 2^HashBits]

\* Mutant: the position is not reduced to the block.
bit_pos_unmasked == next_x

bit_pos == next_x % WordBits

\* Mutant: a position that is already taken counts.
Take_any ==
  /\ i < num_hashes
  /\ result' = result \cup {bit_pos}
  /\ i' = i + 1
  /\ x' = next_x
  /\ UNCHANGED argument

\* One draw of the while (true) loop; the break takes the for loop on.
Take ==
  /\ i < num_hashes
  /\ bit_pos \notin result
  /\ result' = result \cup {bit_pos}
  /\ i' = i + 1
  /\ x' = next_x
  /\ UNCHANGED argument

Redraw ==
  /\ i < num_hashes
  /\ bit_pos \in result
  /\ x' = next_x
  /\ UNCHANGED <<argument, i, result>>

Next == Take \/ Redraw

\* The function runs without waiting.
Spec == Init /\ [][Next]_vars /\ WF_vars(Next)

-----------------------------------------------------------------------------
(* Properties *)

\* Every variable keeps its type.
TypeOK ==
  /\ argument \in HashSpace
  /\ x \in HashSpace
  /\ i \in 0 .. num_hashes
  /\ result \in Word

\* A mask never has fewer bits than positions drawn for it: no two of the
\* num_hashes positions coincide, whatever the draws in between.
PositionsDistinct == Cardinality(result) = i

\* mask does what the comment in its first line says, "generate num_hashes bit
\* positions in the selected block", and so returns, whatever the hash.  Nothing
\* in the loop ensures it: rehashing may go round positions that are all taken,
\* and the run of this property finds a hash for which it does.
Returns == <>(i = num_hashes)
=============================================================================
