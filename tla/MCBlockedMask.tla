--------------------------- MODULE MCBlockedMask ---------------------------
(***************************************************************************)
(* BlockedMask with hashes of 7 bits, blocks of 8 bits and the mixing      *)
(* function of HelperFuncs.h scaled to 7 bits.  mask is called with every  *)
(* hash there is.                                                          *)
(***************************************************************************)
EXTENDS BlockedMask

CONSTANTS MurmurShift, Factor1, Factor2, Golden

Murmur == INSTANCE MurmurHash

ASSUME MurmurAssumption == Murmur!ParametersOK

MCMurmur == [v \in HashSpace |-> Murmur!murmurHash(v)]
=============================================================================
