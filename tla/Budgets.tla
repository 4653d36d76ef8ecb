------------------------------- MODULE Budgets -------------------------------
(***************************************************************************)
(* Budget alerts over the usage ledger.  A caller whose finalize closed a  *)
(* row asks a worker to evaluate the day and the month the row belongs to; *)
(* a periodic reconciler drains the completed periods behind a cursor and  *)
(* evaluates the current ones.  Both run in sessions that add at most one  *)
(* alert (audit row) per period and threshold, under advisory locks held to*)
(* the end of their transaction.                                           *)
(*                                                                         *)
(* Notifications may be lost: a broker that refuses them, a caller or a    *)
(* worker that dies, a commit the database made and the client saw fail.   *)
(***************************************************************************)
EXTENDS UsageLedger, Sequences, FiniteSetsExt

CONSTANTS
  Sessions,       \* Celery workers, each with one database session
  DaysPerMonth,   \* length of a month, to name the month of a day
  DailyBudget,    \* DAILY_LLM_BUDGET_CNY
  MonthlyBudget,  \* MONTHLY_LLM_BUDGET_CNY
  WarnPercent,    \* LLM_BUDGET_WARN_RATIO, in percent
  MaxPeriods      \* LLM_BUDGET_RECONCILE_MAX_PERIODS_PER_RUN

ASSUME BudgetsAssumption ==
  /\ DaysPerMonth \in Nat \ {0} /\ DailyBudget \in Nat /\ MonthlyBudget \in Nat
  /\ WarnPercent \in 1..100 /\ MaxPeriods \in Nat \ {0}
ASSUME TasksAssumption ==
  /\ IsFiniteSet(Attempts) /\ None \notin Attempts
  /\ "reconcile" \notin Attempts /\ "reconcile" # None

Scopes == {"daily", "monthly"}
Thresholds == {"warning", "exceeded"}

MonthOf(d) == ((d - 1) \div DaysPerMonth) + 1

\* period_for: the period of a scope that contains a day.
PeriodFor(scope, d) == [scope |-> scope, n |-> IF scope = "daily" THEN d ELSE MonthOf(d)]

Periods == {PeriodFor(scope, d) : scope \in Scopes, d \in 1..MaxDay}

\* What a session can lock: the reconciler's cursor rows, and the advisory lock
\* of one alert.
AlertKeys == Periods \X Thresholds
CursorLock(scope) == <<[scope |-> scope, n |-> 0], "cursor">>

VARIABLES
  cursor,    \* operations_reconciliation_state: next period of a scope; 0: no row
  alerts,    \* audit rows committed for a period and a threshold
  caller,    \* of each attempt
  messages,  \* attempts with an evaluate_budget_attempt message in the broker
  lost,      \* attempts whose notification was lost
  session    \* of each worker

vars == <<day, ledgerVars, cursor, alerts, caller, messages, lost, session>>

Work == [kind : {"cursor"}, scope : Scopes] \cup [kind : {"period"}, period : Periods]

\* A database session: what is left to do, thresholds left for the first period,
\* locks held, alerts added and cursors moved but not committed.
Idle == [task |-> None, now |-> 0, todo |-> <<>>, reading |-> TRUE, crossed |-> <<>>,
         locks |-> {}, added |-> {}, moved |-> [scope \in Scopes |-> 0]]

SessionRow ==
  [task : Attempts \cup {"reconcile", None}, now : 0..MaxDay,
   todo : Seq(Work), reading : BOOLEAN, crossed : Seq(Thresholds),
   locks : SUBSET (AlertKeys \cup {CursorLock(scope) : scope \in Scopes}),
   added : SUBSET AlertKeys, moved : [Scopes -> Nat]]

TypeOK ==
  /\ LedgerTypeOK
  /\ cursor \in [Scopes -> Nat]
  /\ alerts \in [AlertKeys -> Nat]
  /\ caller \in [Attempts -> {"idle", "calling", "notify", "done"}]
  /\ messages \subseteq Attempts /\ lost \subseteq Attempts
  /\ session \in [Sessions -> SessionRow]

Init ==
  /\ LedgerInit
  /\ cursor = [scope \in Scopes |-> 0]
  /\ alerts = [k \in AlertKeys |-> 0]
  /\ caller = [a \in Attempts |-> "idle"]
  /\ messages = {} /\ lost = {}
  /\ session = [s \in Sessions |-> Idle]

-----------------------------------------------------------------------------
(***************************************************************************)
(* The callers of the ledger.                                              *)
(***************************************************************************)

Begin(a) ==
  /\ caller[a] = "idle"
  /\ InsertPending(a)
  /\ caller' = [caller EXCEPT ![a] = "calling"]
  /\ UNCHANGED <<day, cursor, alerts, messages, lost, session>>

\* finalize returns what its UPDATE did: a row the sweep has closed is not
\* notified.  A request without usage figures has no cost.
Finalize(a, c) ==
  /\ caller[a] = "calling"
  /\ UpdatePending(a, IF c = None THEN "unavailable" ELSE "succeeded", c)
  /\ caller' = [caller EXCEPT ![a] = IF status[a] = "pending" THEN "notify" ELSE "done"]
  /\ UNCHANGED <<day, cursor, alerts, messages, lost, session>>

\* The commit took effect and the client saw it fail: the next try updates no
\* row, and finalize returns False without a notification.
FinalizeAmbiguous(a, c) ==
  /\ caller[a] = "calling" /\ status[a] = "pending"
  /\ UpdatePending(a, IF c = None THEN "unavailable" ELSE "succeeded", c)
  /\ caller' = [caller EXCEPT ![a] = "done"]
  /\ lost' = lost \cup {a}
  /\ UNCHANGED <<day, cursor, alerts, messages, session>>

\* Every try failed, or the caller died: the row stays pending.
FinalizeFails(a) ==
  /\ caller[a] = "calling"
  /\ caller' = [caller EXCEPT ![a] = "done"]
  /\ UNCHANGED <<day, ledgerVars, cursor, alerts, messages, lost, session>>

Notify(a) ==
  /\ caller[a] = "notify"
  /\ caller' = [caller EXCEPT ![a] = "done"]
  /\ messages' = messages \cup {a}
  /\ UNCHANGED <<day, ledgerVars, cursor, alerts, lost, session>>

\* The broker refuses the message, or the caller dies before it sends it.
NotifyFails(a) ==
  /\ caller[a] = "notify"
  /\ caller' = [caller EXCEPT ![a] = "done"]
  /\ lost' = lost \cup {a}
  /\ UNCHANGED <<day, ledgerVars, cursor, alerts, messages, session>>

LoseMessage(a) ==
  /\ a \in messages
  /\ messages' = messages \ {a} /\ lost' = lost \cup {a}
  /\ UNCHANGED <<day, ledgerVars, cursor, alerts, caller, session>>

SweepStaleUsage ==
  /\ \E stale \in SUBSET Pending : AbandonStale(stale)
  /\ UNCHANGED <<day, cursor, alerts, caller, messages, lost, session>>

Midnight ==
  /\ NextDay
  /\ UNCHANGED <<ledgerVars, cursor, alerts, caller, messages, lost, session>>

-----------------------------------------------------------------------------
(***************************************************************************)
(* Evaluation of one period.                                               *)
(***************************************************************************)

\* Mutant of InPeriod: the window is closed at its end.
InPeriod_ClosedEnd(p, d) ==
  IF p.scope = "daily" THEN d \in {p.n, p.n + 1} ELSE MonthOf(d) = p.n

\* started_at in [start, end).
InPeriod(p, d) == d # 0 /\ PeriodFor(p.scope, d) = p

\* aggregate_period: NULL costs count as nothing.
Spend(p) ==
  MapThenSumSet(LAMBDA a : cost[a],
                {a \in Attempts : InPeriod(p, started[a]) /\ cost[a] # None})

BudgetFor(scope) == IF scope = "daily" THEN DailyBudget ELSE MonthlyBudget

BudgetState(spend, budget) ==
  CASE budget = 0 -> IF spend > 0 THEN "exceeded" ELSE "normal"
    [] budget > 0 /\ spend >= budget -> "exceeded"
    [] budget > 0 /\ spend < budget ->
         IF 100 * spend >= WarnPercent * budget THEN "warning" ELSE "normal"

ThresholdsCrossed(spend, budget) ==
  CASE BudgetState(spend, budget) = "exceeded" -> <<"warning", "exceeded">>
    [] BudgetState(spend, budget) = "warning" -> <<"warning">>
    [] OTHER -> <<>>

LockedByOther(s, lock) == \E t \in Sessions \ {s} : lock \in session[t].locks

\* The first query of _evaluate_period.  Nothing is locked yet.
ReadSpend(s) ==
  LET p == Head(session[s].todo).period
      crossed == ThresholdsCrossed(Spend(p), BudgetFor(p.scope)) IN
  /\ session[s].todo # <<>> /\ session[s].reading
  /\ Head(session[s].todo).kind = "period"
  /\ session' = [session EXCEPT
       ![s].reading = (crossed = <<>>),
       ![s].crossed = crossed,
       ![s].todo = IF crossed = <<>> THEN Tail(@) ELSE @]
  /\ UNCHANGED <<day, ledgerVars, cursor, alerts, caller, messages, lost>>

\* Mutant of InsertThresholdOnce: no advisory lock.
InsertThresholdOnce_NoLock(s) ==
  LET key == <<Head(session[s].todo).period, Head(session[s].crossed)>>
      last == Len(session[s].crossed) = 1 IN
  /\ session[s].todo # <<>> /\ ~session[s].reading
  /\ session' = [session EXCEPT
       ![s].added = IF alerts[key] = 0 THEN @ \cup {key} ELSE @,
       ![s].crossed = Tail(@),
       ![s].reading = last,
       ![s].todo = IF last THEN Tail(@) ELSE @]
  /\ UNCHANGED <<day, ledgerVars, cursor, alerts, caller, messages, lost>>

\* Wait for the advisory lock of the key; then no other session can add the
\* alert, and it is added unless one is there.
InsertThresholdOnce(s) ==
  LET key == <<Head(session[s].todo).period, Head(session[s].crossed)>>
      last == Len(session[s].crossed) = 1 IN
  /\ session[s].todo # <<>> /\ ~session[s].reading
  /\ ~LockedByOther(s, key)
  /\ session' = [session EXCEPT
       ![s].locks = @ \cup {key},
       ![s].added = IF alerts[key] = 0 THEN @ \cup {key} ELSE @,
       ![s].crossed = Tail(@),
       ![s].reading = last,
       ![s].todo = IF last THEN Tail(@) ELSE @]
  /\ UNCHANGED <<day, ledgerVars, cursor, alerts, caller, messages, lost>>

-----------------------------------------------------------------------------
(***************************************************************************)
(* The two tasks.                                                          *)
(***************************************************************************)

\* Mutant of CurrentPeriods: the month before the day.
CurrentPeriods_MonthFirst(d) ==
  <<[kind |-> "period", period |-> PeriodFor("monthly", d)],
    [kind |-> "period", period |-> PeriodFor("daily", d)]>>

\* local_periods, as evaluate_current_budgets visits them.
CurrentPeriods(d) ==
  <<[kind |-> "period", period |-> PeriodFor("daily", d)],
    [kind |-> "period", period |-> PeriodFor("monthly", d)]>>

\* Mutant of EvaluateBudgetAttempt: the periods of today.
EvaluateBudgetAttempt_Today(s, a) ==
  /\ session[s].task = None /\ a \in messages
  /\ messages' = messages \ {a}
  /\ session' = [session EXCEPT ![s].task = a,
                                ![s].todo = CurrentPeriods(day)]
  /\ UNCHANGED <<day, ledgerVars, cursor, alerts, caller, lost>>

\* evaluate_budget_attempt: the periods of the attempt, not of today.
EvaluateBudgetAttempt(s, a) ==
  /\ session[s].task = None /\ a \in messages
  /\ messages' = messages \ {a}
  /\ session' = [session EXCEPT ![s].task = a,
                                ![s].todo = CurrentPeriods(started[a])]
  /\ UNCHANGED <<day, ledgerVars, cursor, alerts, caller, lost>>

\* reconcile_budgets_task: both scopes behind their cursors, then today.
ReconcileBudgets(s) ==
  /\ session[s].task = None
  /\ session' = [session EXCEPT
       ![s].task = "reconcile", ![s].now = day,
       ![s].todo = <<[kind |-> "cursor", scope |-> "daily"],
                     [kind |-> "cursor", scope |-> "monthly"]>> \o CurrentPeriods(day)]
  /\ UNCHANGED <<day, ledgerVars, cursor, alerts, caller, messages, lost>>

\* _initial_cursor_start: the period of the earliest attempt, or of now.
InitialCursorStart(scope, now) ==
  LET days == {started[a] : a \in {b \in Attempts : started[b] # 0}}
  IN PeriodFor(scope, IF days = {} THEN now ELSE Min(days)).n

\* The periods with end <= now.
Complete(scope, now) == 1..(PeriodFor(scope, now).n - 1)

\* reconcile_budget_scope: take the cursor row, inserting it first if there is
\* none, and drain the completed periods from it on, oldest first.  A row another
\* reconciler has inserted or locked is waited for.
LockCursor(s) ==
  LET scope == Head(session[s].todo).scope
      from == IF cursor[scope] # 0 THEN cursor[scope]
              ELSE InitialCursorStart(scope, session[s].now)
      drain == {n \in Complete(scope, session[s].now) : n >= from /\ n < from + MaxPeriods}
      count == Cardinality(drain) IN
  /\ session[s].todo # <<>> /\ Head(session[s].todo).kind = "cursor"
  /\ ~LockedByOther(s, CursorLock(scope))
  /\ session' = [session EXCEPT
       ![s].locks = @ \cup {CursorLock(scope)},
       ![s].moved = [@ EXCEPT ![scope] = from + count],
       ![s].todo = [i \in 1..count |->
                      [kind |-> "period", period |-> [scope |-> scope, n |-> from + i - 1]]]
                   \o Tail(@)]
  /\ UNCHANGED <<day, ledgerVars, cursor, alerts, caller, messages, lost>>

\* The only commit of either task.
Commit(s) ==
  /\ session[s].task # None /\ session[s].todo = <<>>
  /\ alerts' = [k \in AlertKeys |-> IF k \in session[s].added THEN alerts[k] + 1
                                    ELSE alerts[k]]
  /\ cursor' = [scope \in Scopes |-> IF session[s].moved[scope] = 0 THEN cursor[scope]
                                     ELSE session[s].moved[scope]]
  /\ session' = [session EXCEPT ![s] = Idle]
  /\ UNCHANGED <<day, ledgerVars, caller, messages, lost>>

\* Mutant of Crash: the cursor has been committed on its own.
Crash_CursorSaved(s) ==
  /\ session[s].task # None
  /\ session' = [session EXCEPT ![s] = Idle]
  /\ cursor' = [scope \in Scopes |-> IF session[s].moved[scope] = 0 THEN cursor[scope]
                                     ELSE session[s].moved[scope]]
  /\ lost' = lost \cup ({session[s].task} \cap Attempts)
  /\ UNCHANGED <<day, ledgerVars, alerts, caller, messages>>

\* The worker dies or its task raises: the transaction is rolled back and the
\* message, acknowledged when it was taken, is gone.
Crash(s) ==
  /\ session[s].task # None
  /\ session' = [session EXCEPT ![s] = Idle]
  /\ lost' = lost \cup ({session[s].task} \cap Attempts)
  /\ UNCHANGED <<day, ledgerVars, cursor, alerts, caller, messages>>

SessionStep(s) == ReadSpend(s) \/ InsertThresholdOnce(s) \/ LockCursor(s) \/ Commit(s)

Next ==
  \/ \E a \in Attempts :
       \/ Begin(a) \/ FinalizeFails(a) \/ Notify(a) \/ NotifyFails(a) \/ LoseMessage(a)
       \/ \E c \in Costs \cup {None} : Finalize(a, c) \/ FinalizeAmbiguous(a, c)
       \/ \E s \in Sessions : EvaluateBudgetAttempt(s, a)
  \/ \E s \in Sessions : SessionStep(s) \/ ReconcileBudgets(s) \/ Crash(s)
  \/ SweepStaleUsage \/ Midnight

Spec == Init /\ [][Next]_vars

-----------------------------------------------------------------------------
(***************************************************************************)
(* Properties.                                                             *)
(***************************************************************************)

\* What the rows of a period come to, of those known by a day, and whether that
\* reaches a threshold: stated apart from the queries the properties are about.
Rows(p) == {a \in Attempts : started[a] # 0 /\ PeriodFor(p.scope, started[a]) = p}
Known(p) == {a \in Rows(p) : cost[a] # None}
KnownInTime(p) == {a \in Known(p) : PeriodFor(p.scope, finished[a]) = p}

Reaches(p, t, rows) ==
  LET spent == MapThenSumSet(LAMBDA a : cost[a], rows)
      budget == BudgetFor(p.scope)
  IN IF budget = 0 THEN spent > 0
     ELSE 100 * spent >= budget * (IF t = "warning" THEN WarnPercent ELSE 100)

\* A period and threshold is alerted at most once, however many evaluators and
\* reconcilers see the crossing at the same time (budgets.py:146).
AlertOnce == \A k \in AlertKeys : alerts[k] <= 1

\* No false alarm: what was alerted is crossed by the rows of that very period,
\* although the spend was read before the lock was taken and the alert written
\* later (budgets.py:203).
AlertJustified ==
  \A p \in Periods, t \in Thresholds : alerts[<<p, t>>] > 0 => Reaches(p, t, Known(p))

\* The durable path: once the cursor has passed a period, every threshold crossed
\* by the cost known when the period ended is alerted, whatever notification was
\* lost and whichever task crashed (budgets.py:250).
DurableAlerts ==
  \A p \in Periods, t \in Thresholds :
    p.n < cursor[p.scope] /\ Reaches(p, t, KnownInTime(p)) => alerts[<<p, t>>] > 0

Owed(a) == caller[a] = "notify" \/ a \in messages \/ \E s \in Sessions : session[s].task = a

\* The low-latency path: a crossing that is not alerted is about to be, or one of
\* the rows that made it lost its notification.  It covers rows closed after the
\* reconciler passed their period, and rows of a day that is over when they are
\* evaluated (wp7.py:27).
NothingForgotten ==
  \A p \in Periods, t \in Thresholds :
    Reaches(p, t, Known(p)) /\ alerts[<<p, t>>] = 0 =>
      \E a \in Rows(p) : Owed(a) \/ a \in lost

\* The lock a session asks for next.
Wants(s) ==
  IF session[s].todo = <<>> THEN {}
  ELSE IF Head(session[s].todo).kind = "cursor"
  THEN {CursorLock(Head(session[s].todo).scope)}
  ELSE IF session[s].reading THEN {}
  ELSE {<<Head(session[s].todo).period, Head(session[s].crossed)>>}

\* Sessions never wait for each other in a circle: the cursors and the periods are
\* locked in one order by both tasks (budgets.py:231, budgets.py:291).
NoLockCycle ==
  \A circle \in (SUBSET Sessions) \ {{}} :
    \E s \in circle : \A lock \in Wants(s), t \in circle \ {s} : lock \notin session[t].locks
=============================================================================
