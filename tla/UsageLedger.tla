----------------------------- MODULE UsageLedger -----------------------------
(***************************************************************************)
(* Table llm_usage_attempts: one row per request to an LLM provider, in-   *)
(* serted as pending and committed before the request leaves, closed by the*)
(* caller's finalize or by the sweep of stale rows.  The operators below   *)
(* are one statement of services/llm/usage.py each; the modules that use   *)
(* the ledger say who runs them and when.                                  *)
(*                                                                         *)
(* Time is counted in days, the shortest period a budget is kept for.  An  *)
(* UPDATE and its commit are one step, so finished is the day of the       *)
(* commit.                                                                 *)
(***************************************************************************)
EXTENDS Naturals

CONSTANTS
  Attempts,  \* ids of the rows
  Costs,     \* estimated_cost_cny a finished request can have
  MaxDay,    \* bound on the days that pass
  None

ASSUME CostsAssumption == Costs \subseteq Nat /\ None \notin Nat
ASSUME MaxDayAssumption == MaxDay \in Nat \ {0}

AnswerStatus == {"succeeded", "unavailable", "invalid_response", "configuration_error"}

TerminalStatus == AnswerStatus \cup {"abandoned"}

VARIABLES
  day,       \* today
  status,    \* status; "none" while the row does not exist
  cost,      \* estimated_cost_cny, or None
  started,   \* started_at; 0 while the row does not exist
  finished   \* finished_at; 0 stands for NULL

ledgerVars == <<status, cost, started, finished>>

LedgerTypeOK ==
  /\ day \in 1..MaxDay
  /\ status \in [Attempts -> TerminalStatus \cup {"none", "pending"}]
  /\ cost \in [Attempts -> Costs \cup {None}]
  /\ started \in [Attempts -> 0..MaxDay]
  /\ finished \in [Attempts -> 0..MaxDay]

LedgerInit ==
  /\ day = 1
  /\ status = [a \in Attempts |-> "none"]
  /\ cost = [a \in Attempts |-> None]
  /\ started = [a \in Attempts |-> 0]
  /\ finished = [a \in Attempts |-> 0]

Pending == {a \in Attempts : status[a] = "pending"}

\* The INSERT of begin.  started_at is taken before it and midnight may pass
\* in between.
InsertPending(a) ==
  /\ status[a] = "none"
  /\ status' = [status EXCEPT ![a] = "pending"]
  /\ \E d \in {day, day - 1} \ {0} : started' = [started EXCEPT ![a] = d]
  /\ UNCHANGED <<cost, finished>>

\* Mutant of UpdatePending: any row is closed.
UpdatePending_AnyRow(a, s, c) ==
  /\ status' = [status EXCEPT ![a] = s]
  /\ cost' = [cost EXCEPT ![a] = c]
  /\ finished' = [finished EXCEPT ![a] = day]
  /\ UNCHANGED started

\* The UPDATE of finalize: a row that is no longer pending is left alone.
UpdatePending(a, s, c) ==
  IF status[a] = "pending"
  THEN /\ status' = [status EXCEPT ![a] = s]
       /\ cost' = [cost EXCEPT ![a] = c]
       /\ finished' = [finished EXCEPT ![a] = day]
       /\ UNCHANGED started
  ELSE UNCHANGED ledgerVars

\* Mutant of AbandonStale: the status is not assigned.
AbandonStale_StillPending(stale) ==
  /\ stale # {} /\ stale \subseteq Pending
  /\ finished' = [a \in Attempts |-> IF a \in stale THEN day ELSE finished[a]]
  /\ UNCHANGED <<status, cost, started>>

\* abandon_stale_attempts.  How old a row must be is not tied to the days: the
\* sweep may find any pending rows stale, those whose caller is alive too.
AbandonStale(stale) ==
  /\ stale # {} /\ stale \subseteq Pending
  /\ status' = [a \in Attempts |-> IF a \in stale THEN "abandoned" ELSE status[a]]
  /\ finished' = [a \in Attempts |-> IF a \in stale THEN day ELSE finished[a]]
  /\ UNCHANGED <<cost, started>>

\* The next local midnight.
NextDay ==
  /\ day < MaxDay
  /\ day' = day + 1
=============================================================================
