---------------------- MODULE ModifiedBloomFilterMasks ----------------------
(***************************************************************************)
(* The constructor ModifiedBloomFilterMasks::ModifiedBloomFilterMasks,     *)
(* which draws every mask of the lookup table independently, bit by bit,   *)
(* and draws a mask again that it has drawn before.                        *)
(*                                                                         *)
(* A draw from the generator is a nondeterministic choice; a draw of a bit *)
(* that the mask already has is a stuttering step.                         *)
(***************************************************************************)
EXTENDS HelperFuncs, FiniteSetsExt, SequencesExt

CONSTANTS numberMasks,  \* 2048 in the code
          bitsPerMask   \* 5: bits in a mask

\* Without the last conjunct there are too few masks and the loop is endless.
ASSUME ModifiedMaskAssumption ==
  /\ numberMasks \in Nat
  /\ bitsPerMask \in 1 .. WordBits
  /\ numberMasks <= Cardinality(kSubset(bitsPerMask, 0 .. WordBits - 1))

VARIABLES masks,  \* the entries written so far: table_index is their number
          used,   \* every mask drawn
          value   \* the mask being drawn; bits_set is its cardinality

vars == <<masks, used, value>>

table_index == Len(masks)
bits_set    == Cardinality(value)

Init ==
  /\ masks = <<>>
  /\ used = {}
  /\ value = {}

\* Mutant: the construction does not stop at the end of the table.
DrawBit_past_end(bit) ==
  /\ bits_set < bitsPerMask
  /\ bit \notin value
  /\ value' = value \cup {bit}
  /\ UNCHANGED <<masks, used>>

\* The inner loop sets a bit the mask does not have yet.
DrawBit(bit) ==
  /\ table_index < numberMasks
  /\ bits_set < bitsPerMask
  /\ bit \notin value
  /\ value' = value \cup {bit}
  /\ UNCHANGED <<masks, used>>

\* Mutants: duplicates are accepted; the mask is not reset after one.
EndMask_duplicates ==
  /\ bits_set = bitsPerMask
  /\ masks' = Append(masks, value)
  /\ used' = used \cup {value}
  /\ value' = {}

EndMask_no_reset ==
  /\ bits_set = bitsPerMask
  /\ masks' = IF value \in used THEN masks ELSE Append(masks, value)
  /\ used' = used \cup {value}
  /\ value' = IF value \in used THEN value ELSE {}

\* The mask is complete: it enters the table unless it is a duplicate.
EndMask ==
  /\ bits_set = bitsPerMask
  /\ masks' = IF value \in used THEN masks ELSE Append(masks, value)
  /\ used' = used \cup {value}
  /\ value' = {}

Next ==
  \/ \E bit \in 0 .. WordBits - 1 : DrawBit(bit)
  \/ EndMask

\* A draw that can still lead to a mask not used before.
HelpfulDraw(n) ==
  /\ bits_set = n
  /\ \E bit \in 0 .. WordBits - 1 :
       /\ DrawBit(bit)
       /\ \E m \in kSubset(bitsPerMask, 0 .. WordBits - 1) \ used :
            value \cup {bit} \subseteq m

\* The constructor runs without waiting.  The generator is equidistributed:
\* a kind of draw that is possible again and again is made again and again.
Fairness ==
  /\ WF_vars(Next)
  /\ \A n \in 0 .. bitsPerMask - 1 : SF_vars(HelpfulDraw(n))

Spec == Init /\ [][Next]_vars /\ Fairness

-----------------------------------------------------------------------------
(* Properties *)

\* Every variable keeps its type.
TypeOK ==
  /\ masks \in Seq(Word) /\ table_index <= numberMasks
  /\ used \subseteq Word
  /\ value \in Word

\* No two entries of the table are equal and every entry has exactly
\* bitsPerMask bits, at every moment of the construction; the used set holds
\* exactly the entries, so nothing but an entry is ever rejected.
EntriesDistinct ==
  /\ \A j, k \in 1 .. table_index : masks[j] = masks[k] => j = k
  /\ \A k \in 1 .. table_index : Cardinality(masks[k]) = bitsPerMask
  /\ used = ToSet(masks)

\* The table is filled: rejecting duplicates does not go on for ever.
Terminates == <>(table_index = numberMasks)
=============================================================================
