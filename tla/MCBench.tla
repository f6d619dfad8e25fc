------------------------------- MODULE MCBench -------------------------------
(***************************************************************************)
(* The benchmark with up to three rows, sizes and hashes of 7 bits, the    *)
(* mixing function of HelperFuncs.h scaled to 7 bits, and one benchmark in *)
(* each mode.                                                              *)
(***************************************************************************)
EXTENDS Bench

CONSTANTS MurmurShift, Factor1, Factor2, Golden

Murmur == INSTANCE MurmurHash

ASSUME MurmurAssumption == Murmur!ParametersOK

MCMurmur == [v \in Sizes |-> Murmur!murmurHash(v)]

\* Tails and whole bytes of answers; no rows; 64, twice which wraps to 0; -1,
\* which is 127; and 128, which is out of range.
MCRowTexts    == {-1, 0, 1, 3, 64, 128}
MCRunTexts    == {-1, 0, 1}
MCWarmupTexts == {0}

\* The largest vector of elements of 8 bytes: half the address space.
MCMaxSize == (2^(HashBits - 1) - 1) \div 8

MCEventNames == {"cycle", "instr"}

MCBenchmarks == <<"scalar", "batch">>
=============================================================================
