------------------------- MODULE MCQualityReleases -------------------------
(* Model-checking instance of QualityReleases, and with it RulePublication.  The
   run checks no liveness, so symmetry is sound.                             *)
EXTENDS QualityReleases, TLC

Symmetry == Permutations(Labels) \cup Permutations(Editors)
              \cup Permutations(Releasers) \cup Permutations(GoldenLabels)
              \cup Permutations(Texts)
=============================================================================
