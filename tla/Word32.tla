-------------------------------- MODULE Word32 --------------------------------
(* The format keeps lengths in 32 bits: "as u32" drops what does not fit.    *)
EXTENDS Integers

CONSTANT U32   \* 2^32 in the code
ASSUME U32Assumption == U32 \in Nat \ {0}

AsU32(n) == n % U32
=============================================================================
