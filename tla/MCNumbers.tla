------------------------------ MODULE MCNumbers ------------------------------
(* Numbers with limbs of two bits: a number below 2 is direct, 3 limbs are   *)
(* the longest operand, and a product has 6.                                 *)
EXTENDS Numbers

MCContents == UNION {[1 .. n -> 0 .. Ones] : n \in 1 .. 2 * MaxLimbs}

\* Few enough digests for chains and for two atoms with one digest.
MCDigest == [l \in MCContents |-> Value(l) % 13]

MCLiterals == {0, 5, 15, 17, 32, 56}
=============================================================================
