--------------------------- MODULE MCHostKernel ---------------------------
(* HostKernel for TLC: tokens are interchangeable in every safety run.     *)
EXTENDS HostKernel, TLC

TokenSymmetry == Permutations(Tokens)
===========================================================================
