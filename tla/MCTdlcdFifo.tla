---------------------------- MODULE MCTdlcdFifo ----------------------------
(* Small instances of TdlcdFifo for TLC. *)
EXTENDS TdlcdFifo, TLC

CONSTANTS r1, w1, w2, c1, a, b

OneReader == {r1}
OneWriter == {w1}
TwoWriters == {w1, w2}
OneClearer == {c1}
Nobody == {}
TwoBytes == {a, b}
OneByte == {a}
Forward == {"forward"}
EitherOrder == {"forward", "backward"}

\* Nothing in the driver looks at a byte.
Symmetry == Permutations(TwoBytes)
=============================================================================
