------------------------------ MODULE MCBudgets ------------------------------
(* Model-checking instance of Budgets. *)
EXTENDS Budgets, TLC

Symmetry == Permutations(Attempts) \cup Permutations(Sessions)
=============================================================================
