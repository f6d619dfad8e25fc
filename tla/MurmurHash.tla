----------------------------- MODULE MurmurHash -----------------------------
(***************************************************************************)
(* The hash mixing of util/HelperFuncs.h on words of HashBits bits.  The   *)
(* code has 64 bits, a shift of 33 and the multipliers of MurmurHash3.     *)
(* TLC's runs use it to give the modules that take a mixing function as a  *)
(* constant a value with the structure of the real one.                    *)
(***************************************************************************)
EXTENDS Naturals, Bitwise

CONSTANTS HashBits,    \* 64
          MurmurShift, \* 33
          Factor1,     \* 0xff51afd7ed558ccd
          Factor2,     \* 0xc4ceb9fe1a85ec53
          Golden       \* 0x9e3779b97f4a7c15

\* What the modules that take values from this one assume of its parameters.
ParametersOK ==
  /\ HashBits \in Nat \ {0}
  /\ MurmurShift \in 1 .. HashBits - 1
  /\ {Factor1, Factor2, Golden} \subseteq 0 .. 2^HashBits - 1
  /\ Factor1 % 2 = 1 /\ Factor2 % 2 = 1

xorshift(x)      == x ^^ (x \div 2^MurmurShift)
multiply(x, f)   == (x * f) % 2^HashBits

murmurHash(x) ==
  xorshift(multiply(xorshift(multiply(xorshift(x), Factor1)), Factor2))

generate_bit(hash, k, num_bits) ==
  murmurHash((hash + k * Golden) % 2^HashBits) % num_bits
=============================================================================
