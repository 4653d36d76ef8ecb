--------------------------- MODULE MCResumeParsing ---------------------------
(* Model-checking instance of ResumeParsing. *)
EXTENDS ResumeParsing
=============================================================================
