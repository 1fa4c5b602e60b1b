---------------------------- MODULE MCServeTurn ----------------------------
(* Instances of ServeTurn for TLC. *)
EXTENDS ServeTurn, TLC

\* Connections and prompts are interchangeable (safety runs only).
Symmetry == Permutations(Conns) \union Permutations(Prompts)
=============================================================================
