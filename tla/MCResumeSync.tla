----------------------------- MODULE MCResumeSync -----------------------------
(***************************************************************************)
(* Instances of ResumeSync for TLC.                                        *)
(***************************************************************************)
EXTENDS ResumeSync, TLC

Symmetry == Permutations(Items) \cup Permutations(Contents) \cup Permutations(Pulls)
=============================================================================
