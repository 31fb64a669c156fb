---------------------------- MODULE MCNvmRequest ---------------------------
(* Small instances of NvmRequest for TLC. *)
EXTENDS NvmRequest, TLC

CONSTANTS s1, s2

TwoSubmitters == {s1, s2}
StartsInside == {0, 1}
StartsWide == {0, 1, 3}
StartsAnywhere == {1, 2}

Symmetry == Permutations(TwoSubmitters)
=============================================================================
