----------------------------- MODULE MCIngestion -----------------------------
(* Model-checking instances of Ingestion. *)
EXTENDS Ingestion, TLC

\* Workers and identities are interchangeable, and so are uploads and contents.
Symmetry ==
  Permutations(Uploads) \cup Permutations(Files)
    \cup Permutations(People) \cup Permutations(Workers)
=============================================================================
