---------------------------- MODULE CheckLifecycle ----------------------------
(***************************************************************************)
(* What the cross-engine checks of one score promise, without workers,     *)
(* transactions and messages: a check waits, is tried a bounded number of  *)
(* times and ends answered or given up; the score shows the answer of the  *)
(* newest check or less, but never goes back to an older one.              *)
(***************************************************************************)
EXTENDS Naturals

CONSTANTS Checks, MaxAttempts, Verdicts, None

VARIABLES
  order,     \* rank of each check by age, 0 before it exists
  phase,     \* "none", "waiting", "tried", "answered" or "given_up"
  attempts,  \* tries so far
  verdict,   \* the answer, or None
  shown      \* what the score shows: whose answer, and whether it is suspicious

checkVars == <<order, phase, attempts, verdict, shown>>

Init ==
  /\ order = [c \in Checks |-> 0]
  /\ phase = [c \in Checks |-> "none"]
  /\ attempts = [c \in Checks |-> 0]
  /\ verdict = [c \in Checks |-> None]
  /\ shown = [by |-> None, suspicious |-> FALSE]

Newest(c) == \A d \in Checks : order[d] <= order[c]

\* What may be left of what the score shows.
Less == [by : {shown.by, None}, suspicious : {shown.suspicious, FALSE}]

\* Someone asks for a second opinion; the rank is nobody else's.
Ask(c) ==
  /\ phase[c] = "none"
  /\ phase' = [phase EXCEPT ![c] = "waiting"]
  /\ order'[c] \in Nat \ {0} /\ \A d \in Checks : order[d] # order'[c]
  /\ order' = [order EXCEPT ![c] = order'[c]]
  /\ shown' \in Less
  /\ UNCHANGED <<attempts, verdict>>

\* It is asked for again, which at most hides the answer.
AskAgain == shown' \in Less /\ UNCHANGED <<order, phase, attempts, verdict>>

\* There is always a try left to spend.
Try(c) ==
  /\ phase[c] = "waiting" /\ attempts[c] < MaxAttempts
  /\ phase' = [phase EXCEPT ![c] = "tried"]
  /\ attempts' = [attempts EXCEPT ![c] = @ + 1]
  /\ UNCHANGED <<order, verdict, shown>>

Answer(c) ==
  /\ phase[c] = "tried"
  /\ phase' = [phase EXCEPT ![c] = "answered"]
  /\ \E v \in Verdicts :
       /\ verdict' = [verdict EXCEPT ![c] = v]
       /\ shown' = IF Newest(c) THEN [by |-> c, suspicious |-> v = "suspicious"] ELSE shown
  /\ UNCHANGED <<order, attempts>>

\* The tries come to nothing: a failure that another try would not mend.
GiveUp(c) ==
  /\ phase[c] = "tried"
  /\ phase' = [phase EXCEPT ![c] = "given_up"]
  /\ UNCHANGED <<order, attempts, verdict, shown>>

\* Tries that ended, or whose worker is taken for dead, are followed by another
\* one, or by giving up when they are spent; several checks at once.
Recover ==
  /\ \A c \in Checks :
       \/ phase'[c] = phase[c]
       \/ /\ phase[c] = "tried"
          /\ phase'[c] = IF attempts[c] < MaxAttempts THEN "waiting" ELSE "given_up"
  /\ UNCHANGED <<order, attempts, verdict, shown>>

Next ==
  \/ AskAgain
  \/ Recover
  \/ \E c \in Checks : Ask(c) \/ Try(c) \/ Answer(c) \/ GiveUp(c)

Spec == Init /\ [][Next]_checkVars
=============================================================================
