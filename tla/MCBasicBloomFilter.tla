------------------------- MODULE MCBasicBloomFilter -------------------------
(***************************************************************************)
(* BasicBloomFilter with bytes of 4 bits, filters of 6 bits (a byte and a  *)
(* half) and of 8, and generate_bit of HelperFuncs.h on hashes of 7 bits.  *)
(***************************************************************************)
EXTENDS BasicBloomFilter, TLC

CONSTANTS HashBits, MurmurShift, Factor1, Factor2, Golden

Murmur == INSTANCE MurmurHash

ASSUME MurmurAssumption == Murmur!ParametersOK

\* Out of eight bits, the bits of 3 and 64 cover those of 30; out of six,
\* both bits of 30 are the same.
MCHashes == {3, 30, 64}

\* The values of generate_bit, tabulated.
MCBitOf ==
  6 :> (<<3, 0>>  :> 2 @@ <<3, 1>>  :> 1 @@ <<30, 0>> :> 4 @@
        <<30, 1>> :> 4 @@ <<64, 0>> :> 5 @@ <<64, 1>> :> 0) @@
  8 :> (<<3, 0>>  :> 4 @@ <<3, 1>>  :> 7 @@ <<30, 0>> :> 4 @@
        <<30, 1>> :> 6 @@ <<64, 0>> :> 5 @@ <<64, 1>> :> 6)

ASSUME TableAssumption ==
  \A n \in Sizes : \A h \in MCHashes : \A k \in 0 .. num_hashes - 1 :
    MCBitOf[n][h, k] = Murmur!generate_bit(h, k, n)

\* Both sides of a byte's boundary.
MCBatches == UNION {[1 .. n -> MCHashes] : n \in 0 .. 2}
               \cup UNION {[1 .. n -> {3, 64}] : n \in {3, 5}}
=============================================================================
