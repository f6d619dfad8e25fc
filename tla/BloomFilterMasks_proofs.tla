---------------------- MODULE BloomFilterMasks_proofs ----------------------
(***************************************************************************)
(* Proofs about the constructors of the sliding mask tables, for every     *)
(* width, number of masks and bound on the bits of a mask.                 *)
(***************************************************************************)
EXTENDS BloomFilterMasks, FiniteSetTheorems, TLAPS

(***************************************************************************)
(* The inductive invariant.  What the sliding loop needs to keep every     *)
(* window within its bounds is that its counter is exact, and that nothing *)
(* is set at or after the position it has reached.                         *)
(***************************************************************************)
FirstInv ==
  /\ masks \subseteq 0 .. bitsPerMask - 1
  /\ i <= num_bits_set
  /\ Cardinality(masks) = i

SlideInv ==
  /\ i \in bitsPerMask .. num_bits_total
  /\ masks \subseteq 0 .. i - 1
  /\ Cardinality(WindowBefore(masks, i)) = num_bits_set

IndInv ==
  /\ TypeOK
  /\ EveryWindowBounded
  /\ pc # "start" => num_bits_set \in minBitsSet .. maxBitsSet
  /\ pc = "start" => masks = {}
  /\ pc = "first" => FirstInv
  /\ pc \in {"slide", "done"} => SlideInv
  /\ pc = "done" => i = num_bits_total

-----------------------------------------------------------------------------
(* Arithmetic of the constants *)

LEMMA Constants ==
  /\ ByteBits \in Nat /\ ByteBits >= 1
  /\ WordBits \in Nat
  /\ bitsPerMask \in Nat /\ bitsPerMask >= 1 /\ bitsPerMask <= WordBits
  /\ numberMasks \in Nat /\ numberMasks >= 1
  /\ num_bits_total \in Nat
  /\ num_bits_total = numberMasks + bitsPerMask - 1
  /\ minBitsSet \in Nat /\ minBitsSet >= 1
  /\ maxBitsSet \in Nat /\ minBitsSet < maxBitsSet
  BY WidthAssumption, MaskAssumption DEF bitsPerMask, num_bits_total

-----------------------------------------------------------------------------
(* How a window changes when the loop advances by one bit *)

\* A window of a finite table is finite.
LEMMA WindowFinite ==
  ASSUME NEW table \in SUBSET Nat, NEW last \in Nat
  PROVE  /\ IsFiniteSet(WindowBefore(table, last))
         /\ Cardinality(WindowBefore(table, last)) \in Nat
<1>1. last - bitsPerMask \in Int /\ last - 1 \in Int
  BY Constants
<1>2. IsFiniteSet(last - bitsPerMask .. last - 1)
  BY <1>1, FS_Interval
<1>3. WindowBefore(table, last) \subseteq last - bitsPerMask .. last - 1
  BY DEF WindowBefore
<1>4. IsFiniteSet(WindowBefore(table, last))
  BY <1>2, <1>3, FS_Subset
<1> QED
  BY <1>4, FS_CardinalityType

\* Setting the entering bit does not change a window that has been passed.
LEMMA PassedWindow ==
  ASSUME NEW table \in SUBSET Nat, NEW new \in Nat, NEW last \in Nat, last <= new
  PROVE  WindowBefore(table \cup {new}, last) = WindowBefore(table, last)
  BY Constants DEF WindowBefore

\* The window loses the leaving bit.
LEMMA WindowDrops ==
  ASSUME NEW table \in SUBSET Nat, NEW new \in Nat, table \subseteq 0 .. new - 1
  PROVE  /\ WindowBefore(table, new + 1) = WindowBefore(table, new) \ {new - bitsPerMask}
         /\ WindowBefore(table \cup {new}, new + 1)
              = (WindowBefore(table, new) \ {new - bitsPerMask}) \cup {new}
         /\ new \notin WindowBefore(table, new)
         /\ new - bitsPerMask \in WindowBefore(table, new)
              <=> new - bitsPerMask \in table
  BY Constants DEF WindowBefore

\* ... and the number of bits in it changes as the loop's counter does.
LEMMA WindowCount ==
  ASSUME NEW table \in SUBSET Nat, NEW new \in Nat, table \subseteq 0 .. new - 1
  PROVE  LET n == Cardinality(WindowBefore(table, new))
             left == IF new - bitsPerMask \in table THEN n - 1 ELSE n
         IN  /\ Cardinality(WindowBefore(table, new + 1)) = left
             /\ Cardinality(WindowBefore(table \cup {new}, new + 1)) = left + 1
<1> DEFINE W == WindowBefore(table, new)
           V == W \ {new - bitsPerMask}
<1>1. IsFiniteSet(W) /\ Cardinality(W) \in Nat
  BY WindowFinite
<1>2. /\ IsFiniteSet(V)
      /\ Cardinality(V) = IF new - bitsPerMask \in W
                          THEN Cardinality(W) - 1 ELSE Cardinality(W)
  BY <1>1, FS_RemoveElement
<1>3. new \notin V
  BY WindowDrops
<1>4. Cardinality(V \cup {new}) = Cardinality(V) + 1
  BY <1>2, <1>3, FS_AddElement
<1> QED
  BY <1>2, <1>4, WindowDrops

-----------------------------------------------------------------------------
(* The invariant *)

LEMMA InitInv == Init => IndInv
  BY Constants DEF Init, IndInv, TypeOK, EveryWindowBounded

\* An iteration of the sliding loop, whichever way the entering bit was
\* chosen: new is what the iteration adds to the table.
LEMMA SlideStep ==
  ASSUME IndInv, Sliding, num_bits_set' \in minBitsSet .. maxBitsSet,
         \/ /\ masks' = masks \cup {i}
            /\ num_bits_set' = IF bit_leaving THEN num_bits_set
                                              ELSE num_bits_set + 1
         \/ /\ masks' = masks
            /\ num_bits_set' = IF bit_leaving THEN num_bits_set - 1
                                              ELSE num_bits_set
  PROVE  IndInv'
<1>1. /\ TypeOK /\ EveryWindowBounded /\ SlideInv
      /\ pc = "slide" /\ pc' = "slide" /\ i' = i + 1
      /\ i \in Nat /\ i < num_bits_total
      /\ struct' = struct
  BY Constants DEF IndInv, Sliding, TypeOK
<1>2. masks \in SUBSET Nat /\ masks \subseteq 0 .. i - 1
  BY <1>1 DEF SlideInv
<1>3. masks' \subseteq masks \cup {i}
  OBVIOUS
<1>4. /\ i' \in bitsPerMask .. num_bits_total
      /\ masks' \subseteq 0 .. i' - 1
  <2>1. 0 .. i' - 1 = 0 .. i
    BY <1>1
  <2>2. masks' \subseteq 0 .. i
    BY <1>1, <1>2, <1>3
  <2> QED
    BY <1>1, <2>1, <2>2, Constants DEF SlideInv
<1>7. TypeOK'
  <2>1. 0 .. i' - 1 \subseteq 0 .. num_bits_total - 1
    BY <1>1, Constants
  <2>2. num_bits_set' \in 0 .. maxBitsSet
    BY Constants
  <2>3. i' \in 0 .. num_bits_total
    BY <1>4, Constants
  <2> QED
    BY <1>1, <1>4, <2>1, <2>2, <2>3 DEF TypeOK
<1>5. Cardinality(WindowBefore(masks', i')) = num_bits_set'
  <2>1. num_bits_set = Cardinality(WindowBefore(masks, i))
    BY <1>1 DEF SlideInv
  <2>2. num_bits_set \in Int
    BY <1>1, Constants DEF TypeOK
  <2>3. /\ Cardinality(WindowBefore(masks, i + 1))
             = IF bit_leaving THEN num_bits_set - 1 ELSE num_bits_set
        /\ Cardinality(WindowBefore(masks \cup {i}, i + 1))
             = (IF bit_leaving THEN num_bits_set - 1 ELSE num_bits_set) + 1
    BY <1>1, <1>2, <2>1, WindowCount DEF bit_leaving
  <2> HIDE DEF bit_leaving
  <2>4. CASE masks' = masks \cup {i} /\ num_bits_set' =
               IF bit_leaving THEN num_bits_set ELSE num_bits_set + 1
    BY <1>1, <2>2, <2>3, <2>4
  <2>5. CASE masks' = masks /\ num_bits_set' =
               IF bit_leaving THEN num_bits_set - 1 ELSE num_bits_set
    BY <1>1, <2>3, <2>5
  <2> QED
    BY <2>4, <2>5
<1>6. EveryWindowBounded'
  <2> SUFFICES ASSUME NEW last \in bitsPerMask .. i + 1
               PROVE  Cardinality(WindowBefore(masks', last))
                        \in minBitsSet .. maxBitsSet
    BY <1>1 DEF EveryWindowBounded
  <2>1. CASE last = i + 1
    BY <1>1, <1>5, <2>1
  <2>2. CASE last # i + 1
    <3>1. last \in bitsPerMask .. i /\ last \in Nat /\ last <= i
      BY <1>1, <2>2, Constants
    <3>2. WindowBefore(masks', last) = WindowBefore(masks, last)
      BY <1>1, <1>2, <3>1, PassedWindow
    <3> QED
      BY <1>1, <3>1, <3>2 DEF EveryWindowBounded
  <2> QED
    BY <2>1, <2>2
<1> QED
  BY <1>1, <1>4, <1>5, <1>6, <1>7 DEF IndInv, SlideInv

LEMMA NextInv == IndInv /\ [Next]_vars => IndInv'
<1> SUFFICES ASSUME IndInv, [Next]_vars PROVE IndInv'
  OBVIOUS
<1>1. CASE Start
  <2>1. /\ pc = "start" /\ masks = {} /\ struct \in Structs
        /\ pc' = "first" /\ masks' = {} /\ i' = 0 /\ struct' = struct
        /\ num_bits_set' \in minBitsSet .. maxBitsSet
    BY <1>1 DEF IndInv, Start, TypeOK
  <2>2. TypeOK'
    BY <2>1, Constants DEF TypeOK
  <2>3. FirstInv'
    BY <2>1, Constants, FS_EmptySet DEF FirstInv
  <2> QED
    BY <2>1, <2>2, <2>3 DEF IndInv, EveryWindowBounded
<1>2. CASE PickFirst
  <2>1. PICK bit_pos \in 0 .. bitsPerMask - 1 : SetFirst(bit_pos)
    BY <1>2 DEF PickFirst
  <2>2. FirstInv /\ TypeOK /\ pc = "first" /\ i \in Nat /\ num_bits_set \in Nat
    BY <2>1, Constants DEF IndInv, SetFirst, TypeOK
  <2>3. IsFiniteSet(masks)
    <3>1. IsFiniteSet(0 .. bitsPerMask - 1)
      BY Constants, FS_Interval
    <3> QED
      BY <2>2, <3>1, FS_Subset DEF FirstInv
  <2>4. Cardinality(masks') = i'
    BY <2>1, <2>2, <2>3, FS_AddElement DEF SetFirst, FirstInv
  <2>5. /\ masks' \subseteq 0 .. bitsPerMask - 1
        /\ i' <= num_bits_set'
        /\ pc' = "first"
    BY <2>1, <2>2 DEF SetFirst, FirstInv
  <2>6. 0 .. bitsPerMask - 1 \subseteq 0 .. num_bits_total - 1
    BY Constants
  <2>7. maxBitsSet <= num_bits_total
    BY Constants, MaskAssumption DEF bitsPerMask
  <2>8. TypeOK'
    BY <2>1, <2>2, <2>5, <2>6, <2>7, Constants DEF TypeOK, SetFirst
  <2> QED
    BY <2>1, <2>4, <2>5, <2>8
    DEF IndInv, FirstInv, EveryWindowBounded, SetFirst
<1>3. CASE FirstDone
  <2>1. /\ FirstInv /\ TypeOK
        /\ pc' = "slide" /\ i' = bitsPerMask
        /\ masks' = masks /\ num_bits_set' = num_bits_set /\ struct' = struct
        /\ i = num_bits_set /\ num_bits_set \in minBitsSet .. maxBitsSet
    BY <1>3 DEF IndInv, FirstDone
  <2>2. WindowBefore(masks, bitsPerMask) = masks
    <3>1. bitsPerMask - bitsPerMask = 0
      BY Constants
    <3> QED
      BY <2>1, <3>1 DEF WindowBefore, FirstInv
  <2>3. TypeOK'
    BY <2>1, Constants DEF TypeOK
  <2>4. SlideInv'
    BY <2>1, <2>2, Constants DEF SlideInv, FirstInv
  <2>5. EveryWindowBounded'
    <3> SUFFICES ASSUME NEW last \in bitsPerMask .. bitsPerMask
                 PROVE  Cardinality(WindowBefore(masks, last))
                          \in minBitsSet .. maxBitsSet
      BY <2>1 DEF EveryWindowBounded
    <3>1. last = bitsPerMask
      BY Constants
    <3> QED
      BY <2>1, <2>2, <3>1 DEF FirstInv
  <2> QED
    BY <2>1, <2>3, <2>4, <2>5 DEF IndInv
<1>4. CASE ForcedSet
  <2>1. num_bits_set \in minBitsSet .. maxBitsSet
    BY <1>4 DEF IndInv, ForcedSet, Sliding
  <2> QED
    BY <1>4, <2>1, SlideStep DEF ForcedSet
<1>5. CASE ForcedClear
  <2>1. num_bits_set \in minBitsSet .. maxBitsSet
    BY <1>5 DEF IndInv, ForcedClear, Sliding
  <2> QED
    BY <1>5, <2>1, SlideStep DEF ForcedClear
<1>6. CASE RandomSet
  <2>1. num_bits_set \in minBitsSet .. maxBitsSet
    BY <1>6 DEF IndInv, RandomSet, Sliding
  <2>2. num_bits_set' \in minBitsSet .. maxBitsSet
    BY <1>6, <2>1, Constants DEF RandomSet, FreeChoice
  <2> QED
    BY <1>6, <2>2, SlideStep DEF RandomSet
<1>7. CASE RandomClear
  <2>1. num_bits_set \in minBitsSet .. maxBitsSet
    BY <1>7 DEF IndInv, RandomClear, Sliding
  <2>2. num_bits_set' \in minBitsSet .. maxBitsSet
    BY <1>7, <2>1, Constants DEF RandomClear, FreeChoice
  <2> QED
    BY <1>7, <2>2, SlideStep DEF RandomClear
<1>8. CASE Done
  BY <1>8 DEF IndInv, Done, TypeOK, EveryWindowBounded, SlideInv
<1>9. CASE UNCHANGED vars
  BY <1>9 DEF vars, IndInv, TypeOK, EveryWindowBounded, FirstInv, SlideInv
<1> QED
  BY <1>1, <1>2, <1>3, <1>4, <1>5, <1>6, <1>7, <1>8, <1>9 DEF Next

LEMMA Invariance == Spec => []IndInv
<1>1. Init => IndInv
  BY InitInv
<1>2. IndInv /\ [Next]_vars => IndInv'
  BY NextInv
<1> QED
  BY <1>1, <1>2, PTL DEF Spec

-----------------------------------------------------------------------------
(* What mask(k) reads *)

LEMMA DivMod ==
  ASSUME NEW k \in Nat, NEW n \in Nat, n >= 1
  PROVE  /\ k \div n \in Nat
         /\ k % n \in 0 .. n - 1
         /\ k = n * (k \div n) + (k % n)
  OBVIOUS

LEMMA Multiple ==
  ASSUME NEW k \in Nat, NEW n \in Nat, n >= 1, k % n = 0
  PROVE  \E q \in Nat : k = n * q
<1>1. k = n * (k \div n) /\ k \div n \in Nat
  OBVIOUS
<1> QED
  BY <1>1, Zenon

\* The word loaded at the byte of bit k contains the window of bit k.
LEMMA LookupIsWindow ==
  ASSUME NEW table \in SUBSET Nat, NEW k \in Nat
  PROVE  LookupMask(table, k) = {b \in 0 .. WordBits - ByteBits : k + b \in table}
<1> DEFINE start_byte == k \div ByteBits
           shift      == k % ByteBits
<1>1. /\ start_byte \in Nat
      /\ shift \in 0 .. ByteBits - 1
      /\ k = ByteBits * start_byte + shift
  BY Constants, DivMod
<1>2. ByteBits * start_byte \in Int
  BY <1>1, Constants
<1> HIDE DEF start_byte, shift
<1>3. bitsPerMask - 1 = WordBits - ByteBits
  BY Constants DEF bitsPerMask
<1>4. ASSUME NEW b \in 0 .. WordBits - ByteBits
      PROVE  /\ b + shift < WordBits
             /\ ByteBits * start_byte + b + shift = k + b
  BY <1>1, <1>2, Constants
<1> QED
  BY <1>3, <1>4 DEF LookupMask, start_byte, shift

\* ... and has as many bits.
LEMMA LookupCount ==
  ASSUME NEW table \in SUBSET Nat, NEW k \in Nat
  PROVE  Cardinality(LookupMask(table, k))
           = Cardinality(WindowBefore(table, k + bitsPerMask))
<1> DEFINE W == WindowBefore(table, k + bitsPerMask)
           L == {b \in 0 .. WordBits - ByteBits : k + b \in table}
           shifted == [w \in W |-> w - k]
<1>1. W = table \cap (k .. k + bitsPerMask - 1)
  <2>1. k + bitsPerMask - bitsPerMask = k
    BY Constants
  <2> QED
    BY <2>1, Constants DEF WindowBefore
<1>2. bitsPerMask - 1 = WordBits - ByteBits
  BY Constants DEF bitsPerMask
<1>3. ASSUME NEW w \in W PROVE w - k \in L /\ w \in Int
  BY <1>1, <1>2, Constants
<1>4. ASSUME NEW b \in L PROVE k + b \in W /\ (k + b) - k = b
  BY <1>1, <1>2, Constants
<1> HIDE DEF W, L
<1>5. shifted \in Bijection(W, L)
  <2>1. shifted \in [W -> L]
    BY <1>3
  <2>2. ASSUME NEW v \in W, NEW w \in W, shifted[v] = shifted[w] PROVE v = w
    BY <1>3, <2>2
  <2>3. ASSUME NEW b \in L PROVE \E w \in W : shifted[w] = b
    BY <1>4
  <2> QED
    BY <2>1, <2>2, <2>3 DEF Bijection, Injection, Surjection, IsInjective
<1>6. IsFiniteSet(W)
  BY WindowFinite, Constants DEF W
<1>7. Cardinality(L) = Cardinality(W)
  BY <1>5, <1>6, FS_Bijection DEF ExistsBijection
<1> QED
  BY <1>7, LookupIsWindow DEF W, L

\* The last word that is loaded ends inside the table.
LEMMA LoadInBounds ==
  ASSUME NEW k \in 0 .. numberMasks - 1
  PROVE  k \div ByteBits + WordBits \div ByteBits <= totalBytes
<1>1. PICK masks_bytes \in Nat : numberMasks = ByteBits * masks_bytes
  BY Constants, Multiple, MaskAssumption
<1>2. PICK word_bytes \in Nat : WordBits = ByteBits * word_bytes
  BY Constants, Multiple, WidthAssumption
<1>3. WordBits \div ByteBits = word_bytes
  BY <1>2, Constants
<1>4. totalBytes = masks_bytes + word_bytes
  <2>1. numberMasks + WordBits = ByteBits * (masks_bytes + word_bytes)
    BY <1>1, <1>2, Constants
  <2> QED
    BY <2>1, Constants DEF totalBytes
<1>5. k \div ByteBits < masks_bytes
  <2>1. k \in Nat /\ k < ByteBits * masks_bytes
    BY <1>1, Constants
  <2> QED
    BY <2>1, Constants, DivMod
<1> QED
  BY <1>3, <1>4, <1>5, Constants, DivMod

-----------------------------------------------------------------------------
(* The theorems *)

\* The types hold, for every size of the table: no bit is set past the last
\* window (the constructor writes bytes inside the array only).
THEOREM TypeCorrect == Spec => []TypeOK
<1>1. IndInv => TypeOK
  BY DEF IndInv
<1> QED
  BY <1>1, Invariance, PTL

\* Every window produced so far has minBitsSet to maxBitsSet bits.
THEOREM WindowsBounded == Spec => []EveryWindowBounded
<1>1. IndInv => EveryWindowBounded
  BY DEF IndInv
<1> QED
  BY <1>1, Invariance, PTL

\* The finished table satisfies the assumption that the filters make about it.
THEOREM TableIsWellFormed == Spec => [](pc = "done" => WellFormedTable(masks))
<1>1. IndInv => (pc = "done" => WellFormedTable(masks))
  <2> SUFFICES ASSUME IndInv, pc = "done" PROVE WellFormedTable(masks)
    OBVIOUS
  <2>1. /\ masks \subseteq 0 .. num_bits_total - 1
        /\ i = num_bits_total
        /\ EveryWindowBounded
    BY DEF IndInv, TypeOK
  <2>2. masks \subseteq TableBits
    BY <2>1, Constants DEF TableBits
  <2>3. ASSUME NEW k \in 0 .. numberMasks - 1
        PROVE  Cardinality(WindowBefore(masks, k + bitsPerMask))
                 \in minBitsSet .. maxBitsSet
    <3>1. k + bitsPerMask \in bitsPerMask .. i
      BY <2>1, Constants
    <3> QED
      BY <2>1, <3>1 DEF EveryWindowBounded
  <2> QED
    BY <2>2, <2>3 DEF WellFormedTable
<1> QED
  BY <1>1, Invariance, PTL

\* mask(k) returns window k of the finished table, from inside the table.
THEOREM LookupsCorrect == Spec => []LookupReadsWindow
<1>1. IndInv /\ (pc = "done" => WellFormedTable(masks)) => LookupReadsWindow
  <2> SUFFICES ASSUME IndInv, WellFormedTable(masks), NEW k \in 0 .. numberMasks - 1
               PROVE  /\ k \div ByteBits + WordBits \div ByteBits <= totalBytes
                      /\ LookupMask(masks, k)
                           = {b \in 0 .. WordBits - ByteBits : k + b \in masks}
                      /\ Cardinality(LookupMask(masks, k)) \in minBitsSet .. maxBitsSet
    BY DEF LookupReadsWindow
  <2>1. masks \in SUBSET Nat /\ k \in Nat
    BY Constants DEF IndInv, TypeOK
  <2> QED
    BY <2>1, LoadInBounds, LookupIsWindow, LookupCount DEF WellFormedTable
<1> QED
  BY <1>1, Invariance, TableIsWellFormed, PTL

=============================================================================
