----------------------------- MODULE MCAcpTurn -----------------------------
(* Instances of AcpTurn for TLC. *)
EXTENDS AcpTurn, TLC

\* Turns are interchangeable where all may be cancelled (safety runs only).
Symmetry == Permutations(Turns)
=============================================================================
