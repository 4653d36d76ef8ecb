----------------------------- MODULE MCCrossCheck -----------------------------
(* Model-checking instances of CrossCheck. *)
EXTENDS CrossCheck, TLC

Symmetry == Permutations(Configs) \cup Permutations(Clients) \cup Permutations(Workers)
=============================================================================
