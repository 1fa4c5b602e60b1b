--------------------------- MODULE MCAgySessions ---------------------------
(* Instances of AgySessions for TLC. *)
EXTENDS AgySessions, TLC

\* Sessions and prompts are interchangeable (safety runs only).
Symmetry == Permutations(Sessions) \union Permutations(Prompts)
=============================================================================
