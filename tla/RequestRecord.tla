---------------------------- MODULE RequestRecord ----------------------------
(***************************************************************************)
(* What the usage ledger promises about each request to a provider: its    *)
(* record is opened before the request leaves, is closed once, with what   *)
(* the provider said, or is abandoned, and does not change any more.       *)
(***************************************************************************)
CONSTANTS Requests, None

VARIABLES
  phase,   \* of each record: "none", "open", "closed" or "abandoned"
  said,    \* what the provider said to the request, or None
  figures  \* what the record says of it once it is closed, or None

recordVars == <<phase, said, figures>>

Init ==
  /\ phase = [r \in Requests |-> "none"]
  /\ said = [r \in Requests |-> None]
  /\ figures = [r \in Requests |-> None]

Open(r) ==
  /\ phase[r] = "none" /\ phase' = [phase EXCEPT ![r] = "open"]
  /\ UNCHANGED <<said, figures>>

\* The provider may be slow: its answer comes once, to a record that may have
\* been abandoned.
Say(r) ==
  /\ phase[r] \in {"open", "abandoned"} /\ said[r] = None
  /\ said'[r] # None /\ said' = [said EXCEPT ![r] = said'[r]]
  /\ UNCHANGED <<phase, figures>>

Close(r) ==
  /\ phase[r] = "open" /\ said[r] # None
  /\ phase' = [phase EXCEPT ![r] = "closed"]
  /\ figures' = [figures EXCEPT ![r] = said[r]]
  /\ UNCHANGED said

Abandon(stale) ==
  /\ \A r \in stale : phase[r] = "open"
  /\ phase' = [r \in Requests |-> IF r \in stale THEN "abandoned" ELSE phase[r]]
  /\ UNCHANGED <<said, figures>>

Next ==
  \/ \E r \in Requests : Open(r) \/ Say(r) \/ Close(r)
  \/ \E stale \in SUBSET Requests : Abandon(stale)

Spec == Init /\ [][Next]_recordVars
=============================================================================
