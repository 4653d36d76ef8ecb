---------------------------- MODULE IngestionStates ----------------------------
(***************************************************************************)
(* The states of an ingestion job and the transitions the state machine of *)
(* services/ingestion/states.py allows.  A row that has not been inserted  *)
(* yet is in the additional state "none".                                  *)
(***************************************************************************)

\* PROCESSING_STATES: a worker holds a lease on the row.
ProcessingStates == {"parsing", "extracting", "scoring"}

\* TERMINAL_STATES: the row no longer occupies the active slot of its sha256.
TerminalStates == {"ready", "completed", "terminal_failed", "deleted"}

\* Every member of the IngestionState enumeration.
IngestionState ==
  ProcessingStates \cup TerminalStates \cup {"queued", "retryable_failed"}

\* The states covered by the partial unique index on raw_file_sha256.
ActiveStates == IngestionState \ TerminalStates

\* The transition table.
Allowed ==
  [ s \in IngestionState |->
      CASE s = "queued"           -> {"parsing", "deleted"}
        [] s = "parsing"          -> {"extracting", "retryable_failed", "terminal_failed"}
        [] s = "extracting"       -> {"ready", "scoring", "retryable_failed", "terminal_failed"}
        [] s = "scoring"          -> {"completed", "retryable_failed", "terminal_failed"}
        [] s = "retryable_failed" -> {"queued", "terminal_failed"}
        [] s = "deleted"          -> {}
        [] OTHER                  -> {"deleted"} ]

\* assert_transition: a disabled step stands for the raised InvalidTransitionError.
AssertTransition(current, target) == target \in Allowed[current]
=============================================================================
