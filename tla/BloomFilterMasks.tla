-------------------------- MODULE BloomFilterMasks --------------------------
(***************************************************************************)
(* The constructors BloomFilterMasks::BloomFilterMasks and                 *)
(* ImprovedBloomFilterMasks::ImprovedBloomFilterMasks, which fill the mask *)
(* table from a pseudo-random generator.  They differ in one statement:    *)
(* only the first clears the table before it starts.                       *)
(*                                                                         *)
(* Both structs exist only as static members, so the table is zero before  *)
(* the constructor runs.  A draw from the generator is a nondeterministic  *)
(* choice over the values it can return; a draw that is thrown away (the   *)
(* drawn bit is already set) is a stuttering step.                         *)
(***************************************************************************)
EXTENDS SlidingMasks

VARIABLES struct,        \* whose constructor runs
          pc,            \* "start", "first", "slide", "done"
          masks,         \* positions set in the table
          num_bits_set,  \* bits set in the current window
          i              \* loop counter of the loop pc is in

vars == <<struct, pc, masks, num_bits_set, i>>

Structs == {"BloomFilterMasks", "ImprovedBloomFilterMasks"}

num_bits_total == numberMasks + bitsPerMask - 1

Init ==
  /\ struct \in Structs
  /\ pc = "start"
  /\ masks = {}
  /\ num_bits_set = 0
  /\ i = 0

\* std::memset (first struct only), then the number of bits of mask 0.
Start ==
  /\ pc = "start"
  /\ masks' = IF struct = "BloomFilterMasks" THEN {} ELSE masks
  /\ num_bits_set' \in minBitsSet .. maxBitsSet
  /\ pc' = "first"
  /\ i' = 0
  /\ UNCHANGED struct

\* The inner while (true) of the first loop: draw until a clear bit is hit.
SetFirst(bit_pos) ==
  /\ pc = "first"
  /\ i < num_bits_set
  /\ bit_pos \notin masks
  /\ masks' = masks \cup {bit_pos}
  /\ i' = i + 1
  /\ UNCHANGED <<struct, pc, num_bits_set>>

FirstDone ==
  /\ pc = "first"
  /\ i = num_bits_set
  /\ pc' = "slide"
  /\ i' = bitsPerMask
  /\ UNCHANGED <<struct, masks, num_bits_set>>

-----------------------------------------------------------------------------
(* The sliding loop: bit i enters the window, bit i - bitsPerMask leaves.  *)

bit_leaving == i - bitsPerMask \in masks

Sliding ==
  /\ pc = "slide"
  /\ i < num_bits_total
  /\ i' = i + 1
  /\ UNCHANGED <<struct, pc>>

\* The window would lose its minBitsSet-th bit: the new bit must be set.
ForcedSet ==
  /\ Sliding
  /\ bit_leaving /\ num_bits_set = minBitsSet
  /\ masks' = masks \cup {i}
  /\ UNCHANGED num_bits_set

\* The window is full: the new bit must stay clear.
ForcedClear ==
  /\ Sliding
  /\ ~bit_leaving /\ num_bits_set = maxBitsSet
  /\ UNCHANGED <<masks, num_bits_set>>

\* Mutant: a full window is not a reason to keep the new bit clear.
FreeChoice_when_full == ~(bit_leaving /\ num_bits_set = minBitsSet)

FreeChoice ==
  /\ ~(bit_leaving /\ num_bits_set = minBitsSet)
  /\ ~(~bit_leaving /\ num_bits_set = maxBitsSet)

RandomSet ==
  /\ Sliding
  /\ FreeChoice
  /\ masks' = masks \cup {i}
  /\ num_bits_set' = IF bit_leaving THEN num_bits_set ELSE num_bits_set + 1

\* Mutant: the bit that leaves is not subtracted from the counter.
RandomClear_keeps_count ==
  /\ Sliding
  /\ FreeChoice
  /\ UNCHANGED <<masks, num_bits_set>>

RandomClear ==
  /\ Sliding
  /\ FreeChoice
  /\ num_bits_set' = IF bit_leaving THEN num_bits_set - 1 ELSE num_bits_set
  /\ UNCHANGED masks

Done ==
  /\ pc = "slide"
  /\ i = num_bits_total
  /\ pc' = "done"
  /\ UNCHANGED <<struct, masks, num_bits_set, i>>

\* Mutant: the generator's value is reduced to too few positions.
PickFirst_few_positions ==
  \E bit_pos \in 0 .. minBitsSet - 1 : SetFirst(bit_pos)

PickFirst == \E bit_pos \in 0 .. bitsPerMask - 1 : SetFirst(bit_pos)

Next ==
  \/ Start
  \/ PickFirst
  \/ FirstDone
  \/ ForcedSet
  \/ ForcedClear
  \/ RandomSet
  \/ RandomClear
  \/ Done

\* The constructor runs without waiting for anything, and the generator does
\* not return set positions for ever (PickFirst).
Spec == Init /\ [][Next]_vars /\ WF_vars(Next)

-----------------------------------------------------------------------------
(* Properties *)

\* Every variable keeps its type; the table never holds a bit past the last
\* window, and no loop counter passes its end.
TypeOK ==
  /\ struct \in Structs
  /\ pc \in {"start", "first", "slide", "done"}
  /\ masks \subseteq 0 .. num_bits_total - 1
  /\ num_bits_set \in 0 .. maxBitsSet
  /\ i \in 0 .. num_bits_total

\* Whenever the sliding loop has produced a window, that window holds between
\* minBitsSet and maxBitsSet bits (ArrowBloomFilter.h:25): the counter the
\* loop steers by never drifts from the bits in the table.
EveryWindowBounded ==
  pc \in {"slide", "done"} =>
    \A last \in bitsPerMask .. i :
      Cardinality(WindowBefore(masks, last)) \in minBitsSet .. maxBitsSet

\* When the constructor returns, mask(k) reads exactly window k for every k:
\* the unaligned word load at k / 8 stays inside the table's bytes and its
\* shift never drops a bit of the window.
LookupReadsWindow ==
  pc = "done" =>
    \A k \in 0 .. numberMasks - 1 :
      /\ k \div ByteBits + WordBits \div ByteBits <= totalBytes
      /\ LookupMask(masks, k) = {b \in 0 .. WordBits - ByteBits : k + b \in masks}
      /\ Cardinality(LookupMask(masks, k)) \in minBitsSet .. maxBitsSet

\* The constructor returns: neither the draw-until-clear loop nor the sliding
\* loop runs for ever.
Terminates == <>(pc = "done")
=============================================================================
