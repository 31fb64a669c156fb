------------------------------ MODULE MCTShell -----------------------------
(* A small instance of TShell for TLC. *)
EXTENDS TShell

CONSTANTS x, y
ThreeNames == {InitName, x, y}
AnyLevel == {1, 2, 3}
OnlyR2 == {2}
=============================================================================
