---------------------------- MODULE BudgetsProofs ----------------------------
(***************************************************************************)
(* Safety of Budgets for any attempts, costs, workers, budgets and months. *)
(***************************************************************************)
EXTENDS Budgets, SetSums, SequenceTheorems

\* A row is closed once, is known from then on, and starts and finishes in days that
\* have come.
LedgerInv ==
  \A a \in Attempts :
    /\ status[a] \in {"none", "pending"} => cost[a] = None
    /\ status[a] = "none" <=> started[a] = 0
    /\ started[a] <= day

\* Whoever speaks of a row speaks of one that is there.
CallerInv ==
  /\ \A a \in Attempts : caller[a] # "idle" => started[a] # 0
  /\ \A a \in messages : started[a] # 0
  /\ \A s \in Sessions :
       /\ session[s].task \in Attempts => started[session[s].task] # 0
       /\ session[s].task = "reconcile" => session[s].now \in 1..day

\* A session reads the spend of the first period on its list, or has thresholds of it
\* to go through.  Only the reconciler has cursors to take.
Crossings == {<<>>, <<"warning">>, <<"warning", "exceeded">>, <<"exceeded">>}
SessionInv ==
  \A s \in Sessions :
    /\ session[s].task = None => session[s] = Idle
    /\ session[s].crossed \in Crossings
    /\ session[s].reading <=> session[s].crossed = <<>>
    /\ ~ session[s].reading =>
         session[s].todo # <<>> /\ Head(session[s].todo).kind = "period"
    /\ session[s].task \in Attempts =>
         \A i \in DOMAIN session[s].todo : session[s].todo[i].kind = "period"

\* What a session is about to alert is not alerted, and nobody else is about to.
LockInv ==
  /\ AlertOnce
  /\ \A s \in Sessions : session[s].added \subseteq session[s].locks
  /\ \A s, t \in Sessions : s # t => session[s].locks \cap session[t].locks = {}
  /\ \A s \in Sessions : \A k \in session[s].added : alerts[k] = 0

\* The first list entry of a session, and what it has found of it.
Item(p) == [kind |-> "period", period |-> p]
Found(s, p, t) ==
  /\ session[s].todo # <<>> /\ Head(session[s].todo) = Item(p)
  /\ t \in Range(session[s].crossed)

\* AlertJustified, with what is on its way to an alert.
JustifiedInv ==
  \A p \in Periods, t \in Thresholds :
    \/ alerts[<<p, t>>] > 0
    \/ \E s \in Sessions : <<p, t>> \in session[s].added \/ Found(s, p, t)
    => Reaches(p, t, Known(p))

\* A session will add the alert if it is due, or has added it.
Coming(s, p, t) ==
  \/ \E i \in DOMAIN session[s].todo :
       /\ session[s].todo[i] = Item(p)
       /\ i = 1 => session[s].reading \/ t \in Range(session[s].crossed)
  \/ <<p, t>> \in session[s].added

\* DurableAlerts, and the same of a reconciler that has moved its cursor and not
\* committed.  No cursor is beyond today, so that the rows behind it do not change.
CursorInv ==
  /\ \A scope \in Scopes : cursor[scope] <= PeriodFor(scope, day).n
  /\ \A s \in Sessions, scope \in Scopes : session[s].moved[scope] <= PeriodFor(scope, day).n
  /\ DurableAlerts
  /\ \A s \in Sessions, p \in Periods, t \in Thresholds :
       p.n < session[s].moved[p.scope] /\ Reaches(p, t, KnownInTime(p)) =>
         alerts[<<p, t>>] > 0 \/ Coming(s, p, t)

\* NothingForgotten, with the session that has taken a message.
OnItsWay(a, p, t) ==
  \/ a \in lost \/ caller[a] = "notify" \/ a \in messages
  \/ \E s \in Sessions : session[s].task = a /\ Coming(s, p, t)
ForgottenInv ==
  \A p \in Periods, t \in Thresholds :
    Reaches(p, t, Known(p)) /\ alerts[<<p, t>>] = 0 =>
      \E a \in Rows(p) : OnItsWay(a, p, t)

BudgetInv ==
  /\ TypeOK /\ LedgerInv /\ CallerInv /\ SessionInv /\ LockInv
  /\ JustifiedInv /\ CursorInv /\ ForgottenInv

-----------------------------------------------------------------------------
(***************************************************************************)
(* What a period comes to.                                                 *)
(***************************************************************************)

\* Reaches, of an amount.
Enough(p, t, spent) ==
  IF BudgetFor(p.scope) = 0 THEN spent > 0
  ELSE 100 * spent >= BudgetFor(p.scope) * (IF t = "warning" THEN WarnPercent ELSE 100)

LEMMA ReachesTotal ==
  ASSUME NEW p, NEW t
  PROVE  /\ Reaches(p, t, Known(p)) <=> Enough(p, t, SumOf(cost, Known(p)))
         /\ Reaches(p, t, Known(p))' <=> Enough(p, t, SumOf(cost', Known(p)'))
         /\ Reaches(p, t, KnownInTime(p)) <=> Enough(p, t, SumOf(cost, KnownInTime(p)))
         /\ Reaches(p, t, KnownInTime(p))' <=> Enough(p, t, SumOf(cost', KnownInTime(p)'))
         /\ Spend(p) = SumOf(cost, Known(p))
<1>1. Spend(p) = SumOf(cost, Known(p))
  <2>1. {a \in Attempts : InPeriod(p, started[a]) /\ cost[a] # None} = Known(p)
    BY DEF InPeriod, Known, Rows
  <2>. QED  BY <2>1 DEF Spend, SumOf, MapThenSumSet, MapThenFoldSet
<1>. QED  BY <1>1 DEF Reaches, Enough, SumOf, MapThenSumSet, MapThenFoldSet

\* More money reaches what less did, and none reaches nothing.
LEMMA EnoughGrows ==
  ASSUME NEW p \in Periods, NEW t \in Thresholds
  PROVE  /\ ~ Enough(p, t, 0)
         /\ \A x, y \in Nat : x <= y /\ Enough(p, t, x) => Enough(p, t, y)
<1>1. BudgetFor(p.scope) \in Nat /\ WarnPercent \in 1..100
  BY BudgetsAssumption DEF BudgetFor
<1>. QED  BY <1>1 DEF Enough

\* The thresholds that _evaluate_period walks through are the ones that are reached.
LEMMA CrossedEnough ==
  ASSUME NEW p \in Periods, NEW spent \in Nat
  PROVE  LET crossed == ThresholdsCrossed(spent, BudgetFor(p.scope)) IN
         /\ crossed \in {<<>>, <<"warning">>, <<"warning", "exceeded">>}
         /\ \A t \in Thresholds : t \in Range(crossed) <=> Enough(p, t, spent)
<1>. DEFINE b == BudgetFor(p.scope)
<1>1. b \in Nat /\ WarnPercent \in 1..100
  BY BudgetsAssumption DEF BudgetFor
<1>2. /\ Range(<<>>) = {} /\ Range(<<"warning">>) = {"warning"}
      /\ Range(<<"warning", "exceeded">>) = {"warning", "exceeded"}
  BY DEF Range
<1>3. CASE b = 0
  BY <1>1, <1>2, <1>3 DEF ThresholdsCrossed, BudgetState, Enough, Thresholds
<1>4. CASE b > 0 /\ spent >= b
  <2>1. 100 * spent >= b * WarnPercent
    <3>. HIDE DEF b
    <3>. QED  BY <1>1, <1>4
  <2>. QED  BY <1>1, <1>2, <1>4, <2>1 DEF ThresholdsCrossed, BudgetState, Enough, Thresholds
<1>5. CASE b > 0 /\ spent < b
  <2>1. /\ Enough(p, "warning", spent) <=> 100 * spent >= b * WarnPercent
        /\ Enough(p, "exceeded", spent) <=> 100 * spent >= b * 100
    BY <1>1, <1>5 DEF Enough
  <2>2. ~ Enough(p, "exceeded", spent)
    <3>. HIDE DEF b
    <3>. QED  BY <1>1, <1>5, <2>1
  <2>3. b * WarnPercent = WarnPercent * b
    <3>. HIDE DEF b
    <3>. QED  BY <1>1
  <2>. QED  BY <1>1, <1>2, <1>5, <2>1, <2>2, <2>3 DEF ThresholdsCrossed, BudgetState, Thresholds
<1>. QED  BY <1>1, <1>3, <1>4, <1>5

\* Days and periods.
LEMMA Calendar ==
  /\ \A p \in Periods : /\ p.scope \in Scopes /\ p.n \in Nat \ {0}
                        /\ p = [scope |-> p.scope, n |-> p.n]
  /\ \A scope \in Scopes, d \in 1..MaxDay :
       /\ PeriodFor(scope, d) \in Periods
       /\ PeriodFor(scope, d).scope = scope
       /\ PeriodFor(scope, d).n \in 1..MaxDay
       /\ \A e \in 1..MaxDay : d <= e => PeriodFor(scope, d).n <= PeriodFor(scope, e).n
       /\ \A n \in 1..PeriodFor(scope, d).n : [scope |-> scope, n |-> n] \in Periods
<1>. USE BudgetsAssumption, MaxDayAssumption
<1>1. \A d \in 1..MaxDay : MonthOf(d) \in 1..MaxDay
  BY DEF MonthOf
<1>2. \A d, e \in 1..MaxDay : d <= e => MonthOf(d) <= MonthOf(e)
  BY DEF MonthOf
<1>3. ASSUME NEW d \in 1..MaxDay, NEW n \in 1..MonthOf(d)
      PROVE  \E e \in 1..MaxDay : MonthOf(e) = n
  <2>. DEFINE e == (n - 1) * DaysPerMonth + 1
  <2>1. n \in Nat \ {0}
    BY <1>1
  <2>2. e \in Nat \ {0} /\ MonthOf(e) = n
    BY <2>1 DEF MonthOf
  <2>3. CASE n < MonthOf(d)
    <3>1. e <= d
      BY <2>1, <2>2, <2>3, <1>1 DEF MonthOf
    <3>. QED  BY <2>2, <3>1
  <2>4. CASE n = MonthOf(d)
    BY <2>4
  <2>. QED  BY <1>1, <2>3, <2>4
<1>4. \A scope \in Scopes, d \in 1..MaxDay :
        /\ PeriodFor(scope, d) \in Periods
        /\ PeriodFor(scope, d).scope = scope
        /\ PeriodFor(scope, d).n \in 1..MaxDay
  BY <1>1 DEF PeriodFor, Periods
<1>5. ASSUME NEW scope \in Scopes, NEW d \in 1..MaxDay, NEW n \in 1..PeriodFor(scope, d).n
      PROVE  [scope |-> scope, n |-> n] \in Periods
  <2>1. CASE scope = "daily"
    <3>1. n \in 1..MaxDay /\ PeriodFor(scope, n) = [scope |-> scope, n |-> n]
      BY <1>4, <2>1 DEF PeriodFor
    <3>. QED  BY <3>1 DEF Periods
  <2>2. CASE scope = "monthly"
    <3>1. PICK e \in 1..MaxDay : MonthOf(e) = n
      BY <1>3, <2>2 DEF PeriodFor
    <3>2. PeriodFor(scope, e) = [scope |-> scope, n |-> n]
      BY <2>2, <3>1 DEF PeriodFor
    <3>. QED  BY <3>2 DEF Periods
  <2>. QED  BY <2>1, <2>2 DEF Scopes
<1>6. \A scope \in Scopes, d, e \in 1..MaxDay : d <= e => PeriodFor(scope, d).n <= PeriodFor(scope, e).n
  BY <1>2 DEF PeriodFor
<1>7. \A p \in Periods : /\ p.scope \in Scopes /\ p.n \in Nat \ {0}
                         /\ p = [scope |-> p.scope, n |-> p.n]
  BY <1>1 DEF Periods, PeriodFor
<1>. QED  BY <1>4, <1>5, <1>6, <1>7

\* The rows of a period are finitely many and have costs that add up.
LEMMA KnownFinite ==
  ASSUME TypeOK, NEW p
  PROVE  /\ IsFiniteSet(Known(p)) /\ \A a \in Known(p) : cost[a] \in Nat
         /\ KnownInTime(p) \in SUBSET Known(p)
         /\ SumOf(cost, Known(p)) \in Nat /\ SumOf(cost, KnownInTime(p)) \in Nat
         /\ SumOf(cost, KnownInTime(p)) <= SumOf(cost, Known(p))
<1>1. Known(p) \subseteq Attempts
  BY DEF Known, Rows
<1>2. IsFiniteSet(Known(p))
  BY <1>1, TasksAssumption, FS_Subset
<1>3. \A a \in Known(p) : cost[a] \in Nat
  BY <1>1, CostsAssumption DEF TypeOK, LedgerTypeOK, Known
<1>4. KnownInTime(p) \in SUBSET Known(p)
  BY DEF KnownInTime
<1>. QED  BY <1>2, <1>3, <1>4, SumMonotonic
-----------------------------------------------------------------------------
(***************************************************************************)
(* The steps of the callers.                                               *)
(***************************************************************************)

\* What such a step may do to the ledger.
LedgerGrows ==
  /\ day <= day'
  /\ \A a \in Attempts :
       /\ started[a] # 0 => started'[a] = started[a]
       /\ cost[a] # None => cost'[a] = cost[a] /\ finished'[a] = finished[a]
       /\ cost[a] = None /\ cost'[a] # None => finished'[a] = day

\* Periods only gain rows and costs, and those that are over gain none in time.
LEMMA PeriodsGrow ==
  ASSUME TypeOK, TypeOK', LedgerInv, LedgerGrows, NEW p \in Periods, NEW t \in Thresholds
  PROVE  /\ Rows(p) \subseteq Rows(p)'
         /\ Reaches(p, t, Known(p)) => Reaches(p, t, Known(p))'
         /\ (\A a \in Rows(p)' : cost[a] = None => cost'[a] = None) =>
              (Reaches(p, t, Known(p))' => Reaches(p, t, Known(p)))
         /\ p.n < PeriodFor(p.scope, day).n =>
              (Reaches(p, t, KnownInTime(p))' => Reaches(p, t, KnownInTime(p)))
<1>1. Rows(p) \subseteq Rows(p)'
  BY DEF Rows, LedgerGrows
<1>2. Known(p) \subseteq Known(p)' /\ \A a \in Known(p) : cost'[a] = cost[a]
  BY <1>1 DEF Known, Rows, LedgerGrows
<1>3. \A a \in Attempts : cost[a] # None => started[a] # 0
  BY DEF LedgerInv
<1>4. /\ IsFiniteSet(Known(p)') /\ \A a \in Known(p)' : cost'[a] \in Nat
      /\ IsFiniteSet(Known(p)) /\ \A a \in Known(p) : cost[a] \in Nat
      /\ SumOf(cost, Known(p)) \in Nat
  <2>1. Known(p)' \subseteq Attempts /\ \A a \in Known(p)' : cost'[a] \in Nat
    BY CostsAssumption DEF TypeOK, LedgerTypeOK, Known, Rows
  <2>. QED  BY <2>1, KnownFinite, TasksAssumption, FS_Subset
<1>5. Reaches(p, t, Known(p)) => Reaches(p, t, Known(p))'
  <2>1. SumOf(cost, Known(p)) = SumOf(cost', Known(p))
    BY <1>2, <1>4, SumSame
  <2>2. SumOf(cost', Known(p)) <= SumOf(cost', Known(p)') /\ SumOf(cost', Known(p)') \in Nat
    BY <1>2, <1>4, SumMonotonic
  <2>. QED  BY <1>4, <2>1, <2>2, ReachesTotal, EnoughGrows
<1>6. ASSUME \A a \in Rows(p)' : cost[a] = None => cost'[a] = None, Reaches(p, t, Known(p))'
      PROVE  Reaches(p, t, Known(p))
  <2>1. Known(p)' = Known(p)
    BY <1>2, <1>3, <1>6 DEF Known, Rows, LedgerGrows
  <2>2. SumOf(cost, Known(p)) = SumOf(cost', Known(p)')
    BY <1>2, <1>4, <2>1, SumSame
  <2>. QED  BY <1>6, <2>2, ReachesTotal
<1>7. ASSUME p.n < PeriodFor(p.scope, day).n, Reaches(p, t, KnownInTime(p))'
      PROVE  Reaches(p, t, KnownInTime(p))
  <2>1. PeriodFor(p.scope, day) # p
    BY <1>7, Calendar DEF TypeOK, LedgerTypeOK
  <2>2. \A a \in Known(p)' : a \notin Known(p) => cost[a] = None
    BY <1>3 DEF Known, Rows, LedgerGrows
  <2>3. KnownInTime(p)' = KnownInTime(p)
    BY <1>2, <2>1, <2>2 DEF KnownInTime, Known, Rows, LedgerGrows
  <2>4. SumOf(cost, KnownInTime(p)) = SumOf(cost', KnownInTime(p)')
    <3>1. KnownInTime(p) \subseteq Known(p) /\ IsFiniteSet(KnownInTime(p))
      BY <1>4, FS_Subset DEF KnownInTime
    <3>. QED  BY <1>2, <2>3, <3>1, SumSame
  <2>. QED  BY <1>7, <2>4, ReachesTotal
<1>. QED  BY <1>1, <1>5, <1>6, <1>7

\* A step of a caller: no session, alert or cursor moves, and what becomes known is
\* notified or its notification lost.
LEMMA CallerStep ==
  ASSUME BudgetInv, TypeOK', LedgerGrows, UNCHANGED <<cursor, alerts, session>>,
         \A a \in Attempts :
           /\ cost[a] = None /\ cost'[a] # None => a \in lost' \/ caller'[a] = "notify"
           /\ a \in lost \/ caller[a] = "notify" \/ a \in messages =>
                a \in lost' \/ caller'[a] = "notify" \/ a \in messages'
  PROVE  SessionInv' /\ LockInv' /\ JustifiedInv' /\ CursorInv' /\ ForgottenInv'
<1>. USE DEF BudgetInv
<1>1. SessionInv' /\ LockInv'
  BY DEF SessionInv, LockInv, AlertOnce
<1>2. \A s, p, t : (Found(s, p, t)' <=> Found(s, p, t)) /\ (Coming(s, p, t)' <=> Coming(s, p, t))
  BY DEF Found, Coming
<1>3. JustifiedInv'
  BY <1>2, PeriodsGrow DEF JustifiedInv
<1>4. \A scope \in Scopes : PeriodFor(scope, day).n <= PeriodFor(scope, day').n
  BY Calendar DEF LedgerGrows, TypeOK, LedgerTypeOK
<1>5. \A scope \in Scopes : PeriodFor(scope, day).n \in Nat /\ PeriodFor(scope, day').n \in Nat
  BY Calendar DEF TypeOK, LedgerTypeOK
<1>6. CursorInv'
  <2>1. /\ \A scope \in Scopes : cursor[scope] \in Nat
        /\ \A s \in Sessions, scope \in Scopes : session[s].moved[scope] \in Nat
    BY DEF TypeOK, SessionRow
  <2>2. /\ \A scope \in Scopes : cursor[scope] <= PeriodFor(scope, day).n
        /\ \A s \in Sessions, scope \in Scopes : session[s].moved[scope] <= PeriodFor(scope, day).n
        /\ DurableAlerts
        /\ \A s \in Sessions, p \in Periods, t \in Thresholds :
             p.n < session[s].moved[p.scope] /\ Reaches(p, t, KnownInTime(p)) =>
               alerts[<<p, t>>] > 0 \/ Coming(s, p, t)
    BY DEF CursorInv
  <2>3. /\ \A scope \in Scopes : cursor[scope] <= PeriodFor(scope, day').n
        /\ \A s \in Sessions, scope \in Scopes : session[s].moved[scope] <= PeriodFor(scope, day').n
    BY <1>4, <1>5, <2>1, <2>2
  <2>4. ASSUME NEW p \in Periods, NEW t \in Thresholds, NEW m \in Nat,
               m <= PeriodFor(p.scope, day).n, p.n < m, Reaches(p, t, KnownInTime(p))'
        PROVE  Reaches(p, t, KnownInTime(p))
    BY <1>5, <2>4, Calendar, PeriodsGrow
  <2>5. DurableAlerts'
    BY <2>1, <2>2, <2>4, Calendar DEF DurableAlerts
  <2>6. \A s \in Sessions, p \in Periods, t \in Thresholds :
          p.n < session[s].moved[p.scope] /\ Reaches(p, t, KnownInTime(p))' =>
            alerts[<<p, t>>] > 0 \/ Coming(s, p, t)
    BY <2>1, <2>2, <2>4, Calendar
  <2>. QED  BY <1>2, <2>3, <2>5, <2>6 DEF CursorInv
<1>7. ForgottenInv'
  <2>. SUFFICES ASSUME NEW p \in Periods, NEW t \in Thresholds,
                       Reaches(p, t, Known(p))', alerts[<<p, t>>] = 0
                PROVE  \E a \in Rows(p)' : OnItsWay(a, p, t)'
    BY DEF ForgottenInv
  <2>1. Rows(p) \subseteq Rows(p)' /\ Rows(p)' \subseteq Attempts
    BY PeriodsGrow DEF Rows
  <2>2. CASE Reaches(p, t, Known(p))
    <3>1. PICK a \in Rows(p) : OnItsWay(a, p, t)
      BY <2>2 DEF ForgottenInv
    <3>2. OnItsWay(a, p, t)'
      BY <1>2, <2>1, <3>1 DEF OnItsWay
    <3>. QED  BY <2>1, <3>2
  <2>3. CASE ~ Reaches(p, t, Known(p))
    <3>1. PICK a \in Rows(p)' : cost[a] = None /\ cost'[a] # None
      BY <2>3, PeriodsGrow
    <3>. QED  BY <2>1, <3>1 DEF OnItsWay
  <2>. QED  BY <2>2, <2>3
<1>. QED  BY <1>1, <1>3, <1>6, <1>7
LEMMA BeginStep ==
  ASSUME BudgetInv, NEW a \in Attempts, Begin(a)
  PROVE  BudgetInv'
<1>. USE DEF BudgetInv
<1>1. PICK d \in {day, day - 1} \ {0} : started' = [started EXCEPT ![a] = d]
  BY DEF Begin, InsertPending
<1>2. status[a] = "none" /\ started[a] = 0 /\ cost[a] = None
  BY DEF Begin, InsertPending, LedgerInv
<1>3. d \in 1..MaxDay /\ d <= day
  BY MaxDayAssumption DEF TypeOK, LedgerTypeOK
<1>4. TypeOK' /\ LedgerInv' /\ CallerInv'
  <2>. USE <1>1, <1>2, <1>3 DEF Begin, InsertPending
  <2>1. TypeOK'
    BY DEF TypeOK, LedgerTypeOK
  <2>2. LedgerInv'
    BY DEF LedgerInv, TypeOK, LedgerTypeOK
  <2>3. CallerInv'
    BY DEF CallerInv, TypeOK, LedgerTypeOK
  <2>. QED  BY <2>1, <2>2, <2>3
<1>5. LedgerGrows
  BY <1>1, <1>2 DEF LedgerGrows, Begin, InsertPending, TypeOK, LedgerTypeOK
<1>6. /\ UNCHANGED <<cursor, alerts, session, cost, lost, messages>>
      /\ \A b \in Attempts : caller[b] = "notify" => caller'[b] = "notify"
  BY DEF Begin, InsertPending, TypeOK
<1>. QED  BY <1>4, <1>5, <1>6, CallerStep

\* What closing a row as its caller does to it.
LEMMA Closes ==
  ASSUME BudgetInv, NEW a \in Attempts, NEW c \in Costs \cup {None}, UNCHANGED day,
         caller[a] = "calling",
         UpdatePending(a, IF c = None THEN "unavailable" ELSE "succeeded", c)
  PROVE  /\ LedgerTypeOK' /\ LedgerInv' /\ LedgerGrows
         /\ UNCHANGED started
         /\ \A b \in Attempts : cost'[b] # cost[b] => b = a /\ status[a] = "pending"
<1>. USE DEF BudgetInv
<1>1. LedgerTypeOK
  BY DEF TypeOK
<1>2. CASE status[a] = "pending"
  <2>1. /\ status' = [status EXCEPT ![a] = IF c = None THEN "unavailable" ELSE "succeeded"]
        /\ cost' = [cost EXCEPT ![a] = c] /\ finished' = [finished EXCEPT ![a] = day]
        /\ started' = started
    BY <1>2 DEF UpdatePending
  <2>2. cost[a] = None
    BY <1>2 DEF LedgerInv
  <2>3. LedgerTypeOK'
    BY <1>1, <2>1 DEF LedgerTypeOK, TerminalStatus, AnswerStatus
  <2>4. LedgerInv' /\ LedgerGrows
    BY <1>1, <1>2, <2>1, <2>2 DEF LedgerInv, LedgerGrows, LedgerTypeOK
  <2>. QED  BY <1>1, <1>2, <2>1, <2>3, <2>4 DEF LedgerTypeOK
<1>3. CASE status[a] # "pending"
  BY <1>1, <1>3 DEF UpdatePending, ledgerVars, LedgerTypeOK, LedgerInv, LedgerGrows
<1>. QED  BY <1>2, <1>3

LEMMA FinalizeStep ==
  ASSUME BudgetInv, NEW a \in Attempts, NEW c \in Costs \cup {None},
         Finalize(a, c) \/ FinalizeAmbiguous(a, c)
  PROVE  BudgetInv'
<1>. USE DEF BudgetInv
<1>1. /\ caller[a] = "calling" /\ UNCHANGED <<day, cursor, alerts, messages, session>>
      /\ UpdatePending(a, IF c = None THEN "unavailable" ELSE "succeeded", c)
  BY DEF Finalize, FinalizeAmbiguous
<1>2. /\ LedgerTypeOK' /\ LedgerInv' /\ LedgerGrows /\ UNCHANGED started
      /\ \A b \in Attempts : cost'[b] # cost[b] => b = a /\ status[a] = "pending"
  BY <1>1, Closes
<1>3. /\ caller' \in [Attempts -> {"idle", "calling", "notify", "done"}]
      /\ \A b \in Attempts \ {a} : caller'[b] = caller[b]
      /\ lost' \subseteq Attempts /\ lost \subseteq lost'
      /\ status[a] = "pending" => caller'[a] = "notify" \/ a \in lost'
  BY DEF Finalize, FinalizeAmbiguous, TypeOK
<1>4. TypeOK' /\ CallerInv'
  BY <1>1, <1>2, <1>3 DEF TypeOK, CallerInv
<1>. QED  BY <1>1, <1>2, <1>3, <1>4, CallerStep

\* The other steps of a caller leave the rows as they are.
LEMMA NotifyStep ==
  ASSUME BudgetInv, NEW a \in Attempts,
         FinalizeFails(a) \/ Notify(a) \/ NotifyFails(a) \/ LoseMessage(a)
  PROVE  BudgetInv'
<1>. USE DEF BudgetInv
<1>. USE DEF FinalizeFails, Notify, NotifyFails, LoseMessage, ledgerVars
<1>1. UNCHANGED <<day, status, cost, started, finished, cursor, alerts, session>>
  OBVIOUS
<1>2. /\ caller' \in [Attempts -> {"idle", "calling", "notify", "done"}]
      /\ \A b \in Attempts \ {a} : caller'[b] = caller[b]
      /\ messages' \subseteq Attempts /\ lost' \subseteq Attempts
      /\ lost \subseteq lost' /\ messages \ {a} \subseteq messages'
      /\ messages' \subseteq messages \cup {a}
      /\ caller[a] = "notify" \/ a \in messages =>
           a \in lost' \/ caller'[a] = "notify" \/ a \in messages'
      /\ started[a] # 0
  BY DEF TypeOK, CallerInv
<1>. HIDE DEF FinalizeFails, Notify, NotifyFails, LoseMessage
<1>3. TypeOK' /\ LedgerInv' /\ CallerInv'
  BY <1>1, <1>2 DEF TypeOK, LedgerTypeOK, LedgerInv, CallerInv
<1>4. LedgerGrows
  BY <1>1 DEF LedgerGrows, TypeOK, LedgerTypeOK
<1>. QED  BY <1>1, <1>2, <1>3, <1>4, CallerStep

LEMMA SweepStep ==
  ASSUME BudgetInv, SweepStaleUsage
  PROVE  BudgetInv'
<1>. USE DEF BudgetInv
<1>1. PICK stale \in SUBSET Pending : AbandonStale(stale)
  BY DEF SweepStaleUsage
<1>2. /\ status' = [a \in Attempts |-> IF a \in stale THEN "abandoned" ELSE status[a]]
      /\ finished' = [a \in Attempts |-> IF a \in stale THEN day ELSE finished[a]]
      /\ UNCHANGED <<cost, started, day, cursor, alerts, caller, messages, lost, session>>
  BY <1>1 DEF AbandonStale, SweepStaleUsage
<1>3. \A a \in stale : status[a] = "pending" /\ cost[a] = None /\ started[a] # 0
  BY DEF Pending, LedgerInv
<1>4. TypeOK' /\ CallerInv'
  BY <1>2 DEF TypeOK, LedgerTypeOK, CallerInv, TerminalStatus
<1>5. LedgerInv' /\ LedgerGrows
  BY <1>2, <1>3 DEF LedgerInv, LedgerGrows, TypeOK, LedgerTypeOK
<1>. QED  BY <1>2, <1>4, <1>5, CallerStep

LEMMA MidnightStep ==
  ASSUME BudgetInv, Midnight
  PROVE  BudgetInv'
<1>. USE DEF BudgetInv, Midnight, NextDay, ledgerVars
<1>1. TypeOK' /\ LedgerInv' /\ CallerInv' /\ LedgerGrows
  <2>1. TypeOK'
    BY MaxDayAssumption DEF TypeOK, LedgerTypeOK
  <2>2. LedgerInv' /\ LedgerGrows
    BY DEF TypeOK, LedgerTypeOK, LedgerInv, LedgerGrows
  <2>3. CallerInv'
    <3>1. \A s \in Sessions : session[s].now \in 1..day => session[s].now \in 1..day'
      BY DEF TypeOK, LedgerTypeOK
    <3>. QED  BY <3>1 DEF CallerInv
  <2>. QED  BY <2>1, <2>2, <2>3
<1>. QED  BY <1>1, CallerStep
-----------------------------------------------------------------------------
(***************************************************************************)
(* The steps of the workers.                                               *)
(***************************************************************************)

\* What a step of a worker inside its task has to respect.
WorkerSound(s) ==
  /\ session'[s].task = session[s].task /\ session'[s].now = session[s].now
  /\ session[s].task # None
  /\ session'[s].crossed \in Crossings
  /\ session'[s].reading <=> session'[s].crossed = <<>>
  /\ ~ session'[s].reading =>
       session'[s].todo # <<>> /\ Head(session'[s].todo).kind = "period"
  /\ session[s].task \in Attempts =>
       \A i \in DOMAIN session'[s].todo : session'[s].todo[i].kind = "period"
  /\ session'[s].added \subseteq session'[s].locks
  /\ \A k \in session'[s].locks : k \in session[s].locks \/ ~ LockedByOther(s, k)
  /\ \A k \in session'[s].added : k \in session[s].added \/ alerts[k] = 0
AlertsSound(s) ==
  /\ \A p \in Periods, t \in Thresholds :
       /\ <<p, t>> \in session'[s].added \/ Found(s, p, t)' => Reaches(p, t, Known(p))
       /\ Coming(s, p, t) /\ Reaches(p, t, Known(p)) => alerts[<<p, t>>] > 0 \/ Coming(s, p, t)'
       /\ p.n < session'[s].moved[p.scope] /\ Reaches(p, t, KnownInTime(p)) =>
            alerts[<<p, t>>] > 0 \/ Coming(s, p, t)'
  /\ \A scope \in Scopes : session'[s].moved[scope] <= PeriodFor(scope, day).n

LEMMA WorkerStep ==
  ASSUME BudgetInv, TypeOK', NEW s \in Sessions, WorkerSound(s), AlertsSound(s),
         UNCHANGED <<day, ledgerVars, cursor, alerts, caller, messages, lost>>,
         \A r \in Sessions \ {s} : session'[r] = session[r]
  PROVE  BudgetInv'
<1>. USE DEF BudgetInv, ledgerVars
<1>1. \A p : /\ Known(p)' = Known(p) /\ KnownInTime(p)' = KnownInTime(p) /\ Rows(p)' = Rows(p)
  BY DEF Known, KnownInTime, Rows
<1>2. \A p, t : /\ Reaches(p, t, Known(p))' <=> Reaches(p, t, Known(p))
                /\ Reaches(p, t, KnownInTime(p))' <=> Reaches(p, t, KnownInTime(p))
  BY <1>1, ReachesTotal
<1>3. \A r \in Sessions \ {s} : \A p, t : /\ Found(r, p, t)' <=> Found(r, p, t)
                                          /\ Coming(r, p, t)' <=> Coming(r, p, t)
  BY DEF Found, Coming
<1>4. LedgerInv' /\ CallerInv'
  BY DEF LedgerInv, CallerInv, WorkerSound
<1>5. SessionInv'
  BY DEF SessionInv, WorkerSound
<1>6. LockInv'
  BY DEF LockInv, AlertOnce, WorkerSound, LockedByOther
<1>7. JustifiedInv'
  BY <1>2, <1>3 DEF JustifiedInv, AlertsSound
<1>8. CursorInv'
  <2>1. DurableAlerts'
    BY <1>2 DEF CursorInv, DurableAlerts
  <2>. QED  BY <1>2, <1>3, <2>1 DEF CursorInv, AlertsSound
<1>9. ForgottenInv'
  <2>. SUFFICES ASSUME NEW p \in Periods, NEW t \in Thresholds,
                       Reaches(p, t, Known(p)), alerts[<<p, t>>] = 0,
                       NEW a \in Rows(p), OnItsWay(a, p, t)
                PROVE  OnItsWay(a, p, t)'
    BY <1>1, <1>2 DEF ForgottenInv
  <2>. QED  BY <1>3 DEF OnItsWay, AlertsSound, WorkerSound
<1>. QED  BY <1>4, <1>5, <1>6, <1>7, <1>8, <1>9
LEMMA SessionFields ==
  ASSUME TypeOK, NEW s \in Sessions
  PROVE  /\ session[s] \in SessionRow
         /\ session[s].todo \in Seq(Work) /\ session[s].crossed \in Seq(Thresholds)
         /\ session[s].added \subseteq AlertKeys
         /\ session[s].locks \subseteq AlertKeys \cup {CursorLock(scope) : scope \in Scopes}
         /\ session[s].reading \in BOOLEAN /\ session[s].moved \in [Scopes -> Nat]
         /\ session[s].now \in 0..MaxDay
         /\ session[s].task \in Attempts \cup {"reconcile", None}
<1>1. session[s] \in SessionRow
  BY DEF TypeOK
<1>. QED  BY <1>1 DEF SessionRow

\* A list without its first entry.
LEMMA Tails ==
  ASSUME NEW S, NEW q \in Seq(S), q # <<>>
  PROVE  /\ 1 \in DOMAIN q /\ Head(q) = q[1] /\ Head(q) \in S /\ Tail(q) \in Seq(S)
         /\ \A i \in DOMAIN q : i # 1 => i - 1 \in DOMAIN Tail(q) /\ Tail(q)[i - 1] = q[i]
         /\ \A i \in DOMAIN Tail(q) : i + 1 \in DOMAIN q /\ Tail(q)[i] = q[i + 1]
<1>1. /\ Len(q) \in Nat \ {0} /\ DOMAIN q = 1..Len(q) /\ Head(q) = q[1]
      /\ Tail(q) \in Seq(S) /\ Len(Tail(q)) = Len(q) - 1
      /\ DOMAIN Tail(q) = 1..Len(Tail(q))
      /\ \A i \in 1..Len(Tail(q)) : Tail(q)[i] = q[i + 1]
  BY HeadTailProperties, LenProperties
<1>2. 1 \in DOMAIN q /\ Head(q) \in S
  BY <1>1, ElementOfSeq
<1>. QED  BY <1>1, <1>2

LEMMA FirstItem ==
  ASSUME BudgetInv, NEW s \in Sessions, session[s].todo # <<>>,
         Head(session[s].todo).kind = "period"
  PROVE  /\ Head(session[s].todo).period \in Periods
         /\ Head(session[s].todo) = Item(Head(session[s].todo).period)
<1>1. Head(session[s].todo) \in Work
  BY SessionFields, Tails DEF BudgetInv
<1>. QED  BY <1>1 DEF Work, Item

\* The thresholds left to a session, without the first.
LEMMA CrossingTails ==
  ASSUME NEW c \in Crossings, c # <<>>
  PROVE  /\ Head(c) \in Thresholds /\ Tail(c) \in Crossings
         /\ Tail(c) = <<>> <=> Len(c) = 1
         /\ Tail(c) = <<"exceeded">> <=> c = <<"warning", "exceeded">>
         /\ Tail(c) # <<>> => Tail(c) = <<"exceeded">>
         /\ Range(c) = {Head(c)} \cup Range(Tail(c))
         /\ Range(<<>>) = {}
<1>1. c \in {<<"warning">>, <<"warning", "exceeded">>, <<"exceeded">>}
  BY DEF Crossings
<1>2. /\ Range(<<>>) = {} /\ Range(<<"warning">>) = {"warning"}
      /\ Range(<<"exceeded">>) = {"exceeded"}
      /\ Range(<<"warning", "exceeded">>) = {"warning", "exceeded"}
  BY DEF Range
<1>3. CASE c = <<"warning">>
  <2>1. Head(c) = "warning" /\ Tail(c) = <<>> /\ Len(c) = 1
    BY <1>3
  <2>. QED  BY <1>2, <1>3, <2>1 DEF Crossings, Thresholds
<1>4. CASE c = <<"exceeded">>
  <2>1. Head(c) = "exceeded" /\ Tail(c) = <<>> /\ Len(c) = 1
    BY <1>4
  <2>. QED  BY <1>2, <1>4, <2>1 DEF Crossings, Thresholds
<1>5. CASE c = <<"warning", "exceeded">>
  <2>1. Head(c) = "warning" /\ Tail(c) = <<"exceeded">> /\ Len(c) = 2
    BY <1>5
  <2>2. <<"exceeded">> # <<>>
    OBVIOUS
  <2>. QED  BY <1>2, <1>5, <2>1, <2>2 DEF Crossings, Thresholds
<1>. QED  BY <1>1, <1>3, <1>4, <1>5

LEMMA CrossingsTyped == Crossings \subseteq Seq(Thresholds)
  BY DEF Crossings, Thresholds

LEMMA ReadSpendStep ==
  ASSUME BudgetInv, NEW s \in Sessions, ReadSpend(s)
  PROVE  BudgetInv'
<1>. DEFINE row == session[s]
            p == Head(row.todo).period
            crossed == ThresholdsCrossed(Spend(p), BudgetFor(p.scope))
<1>1. /\ row.todo # <<>> /\ row.reading /\ Head(row.todo).kind = "period"
      /\ session' = [session EXCEPT ![s].reading = (crossed = <<>>), ![s].crossed = crossed,
                       ![s].todo = IF crossed = <<>> THEN Tail(@) ELSE @]
      /\ UNCHANGED <<day, ledgerVars, cursor, alerts, caller, messages, lost>>
  BY DEF ReadSpend
<1>2. TypeOK
  BY DEF BudgetInv
<1>3. p \in Periods /\ Head(row.todo) = Item(p)
  BY <1>1, FirstItem
<1>4. /\ crossed \in {<<>>, <<"warning">>, <<"warning", "exceeded">>}
      /\ \A t \in Thresholds : t \in Range(crossed) <=> Reaches(p, t, Known(p))
      /\ Range(<<>>) = {}
  <2>1. Spend(p) = SumOf(cost, Known(p)) /\ Spend(p) \in Nat
    BY <1>2, KnownFinite, ReachesTotal
  <2>2. \A t \in Thresholds : Reaches(p, t, Known(p)) <=> Enough(p, t, Spend(p))
    BY <2>1, ReachesTotal
  <2>3. Range(<<>>) = {}
    BY DEF Range
  <2>. HIDE DEF p
  <2>. QED  BY <1>3, <2>1, <2>2, <2>3, CrossedEnough
<1>5. crossed \in Crossings /\ crossed \in Seq(Thresholds)
  BY <1>4, CrossingsTyped DEF Crossings
<1>. HIDE DEF crossed, p
<1>6. /\ row \in SessionRow /\ row.todo \in Seq(Work) /\ row.reading \in BOOLEAN
      /\ row.crossed = <<>>
  BY <1>1, <1>2, SessionFields DEF BudgetInv, SessionInv
<1>7. /\ session'[s].task = row.task /\ session'[s].now = row.now
      /\ session'[s].locks = row.locks /\ session'[s].added = row.added
      /\ session'[s].moved = row.moved
      /\ session'[s].reading = (crossed = <<>>) /\ session'[s].crossed = crossed
      /\ session'[s].todo = IF crossed = <<>> THEN Tail(row.todo) ELSE row.todo
      /\ \A r \in Sessions \ {s} : session'[r] = session[r]
  BY <1>1, <1>2, <1>6 DEF TypeOK, SessionRow
<1>8. TypeOK'
  <2>1. session' \in [Sessions -> SessionRow]
    BY <1>1, <1>2, <1>5, <1>6, Tails DEF TypeOK, SessionRow
  <2>. QED  BY <1>1, <1>2, <2>1 DEF TypeOK, LedgerTypeOK, ledgerVars
<1>9. WorkerSound(s)
  <2>1. row.task # None
    BY <1>1 DEF BudgetInv, SessionInv, Idle
  <2>2. ~ session'[s].reading =>
          session'[s].todo # <<>> /\ Head(session'[s].todo).kind = "period"
    BY <1>1, <1>7
  <2>3. session'[s].reading <=> session'[s].crossed = <<>>
    BY <1>7
  <2>4. row.added \subseteq row.locks
    BY DEF BudgetInv, LockInv
  <2>5. session[s].task \in Attempts =>
          \A i \in DOMAIN session'[s].todo : session'[s].todo[i].kind = "period"
    <3>1. row.task \in Attempts => \A i \in DOMAIN row.todo : row.todo[i].kind = "period"
      BY DEF BudgetInv, SessionInv
    <3>2. \A i \in DOMAIN Tail(row.todo) :
            i + 1 \in DOMAIN row.todo /\ Tail(row.todo)[i] = row.todo[i + 1]
      BY <1>1, <1>6, Tails
    <3>3. session'[s].todo = row.todo \/ session'[s].todo = Tail(row.todo)
      BY <1>7
    <3>. QED  BY <3>1, <3>2, <3>3
  <2>. QED  BY <1>5, <1>7, <2>1, <2>2, <2>3, <2>4, <2>5 DEF WorkerSound
<1>10. AlertsSound(s)
  <2>1. ASSUME NEW q \in Periods, NEW t \in Thresholds, Found(s, q, t)'
        PROVE  Reaches(q, t, Known(q))
    <3>1. crossed # <<>> /\ t \in Range(crossed) /\ Head(row.todo) = Item(q)
      BY <1>4, <1>7, <2>1 DEF Found
    <3>2. q = p
      BY <1>3, <3>1 DEF Item
    <3>. QED  BY <1>4, <3>1, <3>2
  <2>2. ASSUME NEW q \in Periods, NEW t \in Thresholds, Coming(s, q, t), Reaches(q, t, Known(q))
        PROVE  Coming(s, q, t)'
    <3>. SUFFICES ASSUME <<q, t>> \notin row.added PROVE Coming(s, q, t)'
      BY <1>7 DEF Coming
    <3>1. PICK i \in DOMAIN row.todo : row.todo[i] = Item(q)
      BY <2>2 DEF Coming
    <3>2. CASE i = 1
      <4>1. q = p
        BY <1>1, <1>3, <1>6, <3>1, <3>2, Tails DEF Item
      <4>2. t \in Range(crossed) /\ crossed # <<>>
        BY <1>4, <2>2, <4>1
      <4>. QED  BY <1>7, <3>1, <4>2 DEF Coming
    <3>3. CASE i # 1 /\ crossed = <<>>
      <4>1. i - 1 \in DOMAIN Tail(row.todo) /\ Tail(row.todo)[i - 1] = Item(q)
        BY <1>1, <1>6, <3>1, <3>3, Tails
      <4>. QED  BY <1>7, <3>3, <4>1 DEF Coming
    <3>4. CASE i # 1 /\ crossed # <<>>
      BY <1>7, <3>1, <3>4 DEF Coming
    <3>. QED  BY <3>2, <3>3, <3>4
  <2>3. \A q \in Periods, t \in Thresholds : Reaches(q, t, KnownInTime(q)) => Reaches(q, t, Known(q))
    BY <1>2, KnownFinite, ReachesTotal, EnoughGrows
  <2>. QED  BY <1>7, <2>1, <2>2, <2>3 DEF AlertsSound, BudgetInv, CursorInv, JustifiedInv
<1>. QED  BY <1>1, <1>7, <1>8, <1>9, <1>10, WorkerStep

LEMMA InsertStep ==
  ASSUME BudgetInv, NEW s \in Sessions, InsertThresholdOnce(s)
  PROVE  BudgetInv'
<1>. DEFINE row == session[s]
            p == Head(row.todo).period
            h == Head(row.crossed)
            key == <<p, h>>
            last == Len(row.crossed) = 1
<1>1. /\ row.todo # <<>> /\ ~ row.reading /\ ~ LockedByOther(s, key)
      /\ session' = [session EXCEPT
           ![s].locks = @ \cup {key},
           ![s].added = IF alerts[key] = 0 THEN @ \cup {key} ELSE @,
           ![s].crossed = Tail(@), ![s].reading = last,
           ![s].todo = IF last THEN Tail(@) ELSE @]
      /\ UNCHANGED <<day, ledgerVars, cursor, alerts, caller, messages, lost>>
  BY DEF InsertThresholdOnce
<1>2. TypeOK
  BY DEF BudgetInv
<1>3. Head(row.todo).kind = "period" /\ row.crossed \in Crossings /\ row.crossed # <<>>
  BY <1>1 DEF BudgetInv, SessionInv
<1>4. p \in Periods /\ Head(row.todo) = Item(p)
  BY <1>1, <1>3, FirstItem
<1>5. /\ h \in Thresholds /\ Tail(row.crossed) \in Crossings
      /\ Tail(row.crossed) \in Seq(Thresholds)
      /\ Tail(row.crossed) = <<>> <=> last
      /\ Range(row.crossed) = {h} \cup Range(Tail(row.crossed))
      /\ Range(<<>>) = {}
  BY <1>3, CrossingTails, CrossingsTyped
<1>6. Reaches(p, h, Known(p))
  BY <1>1, <1>4, <1>5 DEF BudgetInv, JustifiedInv, Found
<1>7. key \in AlertKeys /\ alerts[key] \in Nat
  BY <1>2, <1>4, <1>5 DEF TypeOK, AlertKeys
<1>. HIDE DEF p, h, last
<1>8. row \in SessionRow /\ row.todo \in Seq(Work)
  BY <1>2, SessionFields
<1>9. /\ session'[s].task = row.task /\ session'[s].now = row.now
      /\ session'[s].moved = row.moved
      /\ session'[s].locks = row.locks \cup {key}
      /\ session'[s].added = IF alerts[key] = 0 THEN row.added \cup {key} ELSE row.added
      /\ session'[s].reading = last /\ session'[s].crossed = Tail(row.crossed)
      /\ session'[s].todo = IF last THEN Tail(row.todo) ELSE row.todo
      /\ \A r \in Sessions \ {s} : session'[r] = session[r]
  BY <1>1, <1>2, <1>8 DEF TypeOK, SessionRow
<1>10. TypeOK'
  <2>1. last \in BOOLEAN
    BY DEF last
  <2>2. /\ Tail(row.todo) \in Seq(Work)
        /\ row.locks \cup {key} \in SUBSET (AlertKeys \cup {CursorLock(scope) : scope \in Scopes})
        /\ row.added \cup {key} \in SUBSET AlertKeys
    BY <1>1, <1>7, <1>8, Tails DEF SessionRow
  <2>3. session' \in [Sessions -> SessionRow]
    <3>. HIDE DEF key
    <3>. QED  BY <1>1, <1>2, <1>5, <1>8, <2>1, <2>2 DEF TypeOK, SessionRow
  <2>. QED  BY <1>1, <1>2, <2>3 DEF TypeOK, LedgerTypeOK, ledgerVars
<1>11. WorkerSound(s)
  <2>1. row.task # None
    BY <1>1 DEF BudgetInv, SessionInv, Idle
  <2>2. row.added \subseteq row.locks
    BY DEF BudgetInv, LockInv
  <2>3. /\ session'[s].reading <=> session'[s].crossed = <<>>
        /\ session'[s].crossed \in Crossings
    BY <1>5, <1>9
  <2>4. ~ session'[s].reading =>
          session'[s].todo # <<>> /\ Head(session'[s].todo).kind = "period"
    BY <1>1, <1>3, <1>9
  <2>5. /\ session'[s].added \subseteq session'[s].locks
        /\ \A k \in session'[s].locks : k \in session[s].locks \/ ~ LockedByOther(s, k)
        /\ \A k \in session'[s].added : k \in session[s].added \/ alerts[k] = 0
    <3>1. session'[s].added \subseteq session'[s].locks
      BY <1>9, <2>2
    <3>2. \A k \in session'[s].added : k \in session[s].added \/ alerts[k] = 0
      BY <1>9
    <3>3. ASSUME NEW k \in session'[s].locks, k \notin session[s].locks
          PROVE  ~ LockedByOther(s, k)
      <4>1. k = key
        BY <1>9, <3>3
      <4>. QED  BY <1>1, <4>1
    <3>. QED  BY <3>1, <3>2, <3>3
  <2>6. session[s].task \in Attempts =>
          \A i \in DOMAIN session'[s].todo : session'[s].todo[i].kind = "period"
    <3>1. row.task \in Attempts => \A i \in DOMAIN row.todo : row.todo[i].kind = "period"
      BY DEF BudgetInv, SessionInv
    <3>2. \A i \in DOMAIN Tail(row.todo) :
            i + 1 \in DOMAIN row.todo /\ Tail(row.todo)[i] = row.todo[i + 1]
      BY <1>1, <1>8, Tails
    <3>3. session'[s].todo = row.todo \/ session'[s].todo = Tail(row.todo)
      BY <1>9
    <3>. QED  BY <3>1, <3>2, <3>3
  <2>. QED  BY <1>9, <2>1, <2>3, <2>4, <2>5, <2>6 DEF WorkerSound
<1>12. AlertsSound(s)
  <2>1. ASSUME NEW q \in Periods, NEW t \in Thresholds, Found(s, q, t)'
        PROVE  Reaches(q, t, Known(q))
    <3>1. ~ last /\ t \in Range(row.crossed) /\ Head(row.todo) = Item(q)
      BY <1>5, <1>9, <2>1 DEF Found
    <3>. QED  BY <1>1, <3>1 DEF Found, BudgetInv, JustifiedInv
  <2>2. ASSUME NEW q \in Periods, NEW t \in Thresholds, <<q, t>> \in session'[s].added
        PROVE  Reaches(q, t, Known(q))
    BY <1>6, <1>9, <2>2 DEF BudgetInv, JustifiedInv
  <2>3. ASSUME NEW q \in Periods, NEW t \in Thresholds, Coming(s, q, t)
        PROVE  alerts[<<q, t>>] > 0 \/ Coming(s, q, t)'
    <3>. SUFFICES ASSUME <<q, t>> \notin row.added, ~ (alerts[<<q, t>>] > 0)
                  PROVE  Coming(s, q, t)'
      BY <1>9 DEF Coming
    <3>1. PICK i \in DOMAIN row.todo : /\ row.todo[i] = Item(q)
                                       /\ i = 1 => t \in Range(row.crossed)
      BY <1>1, <2>3 DEF Coming
    <3>2. CASE i = 1 /\ t = h
      <4>1. q = p
        BY <1>1, <1>4, <1>8, <3>1, <3>2, Tails DEF Item
      <4>. QED  BY <1>7, <1>9, <3>2, <4>1 DEF Coming
    <3>3. CASE i = 1 /\ t # h
      BY <1>5, <1>9, <3>1, <3>3 DEF Coming
    <3>4. CASE i # 1 /\ last
      <4>1. i - 1 \in DOMAIN Tail(row.todo) /\ Tail(row.todo)[i - 1] = Item(q)
        BY <1>1, <1>8, <3>1, <3>4, Tails
      <4>. QED  BY <1>9, <3>4, <4>1 DEF Coming
    <3>5. CASE i # 1 /\ ~ last
      BY <1>9, <3>1, <3>5 DEF Coming
    <3>. QED  BY <3>2, <3>3, <3>4, <3>5
  <2>. QED  BY <1>9, <2>1, <2>2, <2>3 DEF AlertsSound, BudgetInv, CursorInv
<1>. QED  BY <1>1, <1>9, <1>10, <1>11, <1>12, WorkerStep
LEMMA IdleRow ==
  /\ Idle \in SessionRow /\ Idle.task = None /\ Idle.todo = <<>> /\ Idle.crossed = <<>>
  /\ Idle.reading = TRUE /\ Idle.locks = {} /\ Idle.added = {} /\ Idle.now = 0
  /\ Idle.moved = [scope \in Scopes |-> 0] /\ Range(<<>>) = {}
  /\ <<>> \in Crossings
<1>1. Range(<<>>) = {}
  BY DEF Range
<1>. QED  BY <1>1, MaxDayAssumption DEF Idle, SessionRow, Crossings

LEMMA CurrentPeriodsTyped ==
  ASSUME NEW d \in 1..MaxDay
  PROVE  /\ CurrentPeriods(d) \in Seq(Work) /\ DOMAIN CurrentPeriods(d) = 1..2
         /\ CurrentPeriods(d)[1] = Item(PeriodFor("daily", d))
         /\ CurrentPeriods(d)[2] = Item(PeriodFor("monthly", d))
  BY Calendar DEF CurrentPeriods, Work, Item, Scopes

\* A session that is idle takes a task: nothing else has moved but a message.
LEMMA StartStep ==
  ASSUME BudgetInv, NEW s \in Sessions, session[s].task = None,
         NEW x \in Attempts \cup {"reconcile"}, NEW n \in 0..MaxDay, NEW q \in Seq(Work),
         session' = [session EXCEPT ![s] = [Idle EXCEPT !.task = x, !.now = n, !.todo = q]],
         UNCHANGED <<day, ledgerVars, cursor, alerts, caller, lost>>,
         messages' = messages \ {x},
         x = "reconcile" => n \in 1..day,
         x \in Attempts => started[x] # 0 /\ \A i \in DOMAIN q : q[i].kind = "period",
         \A p \in Periods : x \in Rows(p) => \E i \in DOMAIN q : q[i] = Item(p)
  PROVE  BudgetInv'
<1>. USE DEF BudgetInv, ledgerVars
<1>1. session[s] = Idle
  BY DEF SessionInv
<1>2. /\ session'[s] \in SessionRow /\ session'[s].task = x /\ session'[s].now = n
      /\ session'[s].todo = q /\ session'[s].crossed = <<>> /\ session'[s].reading = TRUE
      /\ session'[s].locks = {} /\ session'[s].added = {}
      /\ session'[s].moved = [scope \in Scopes |-> 0]
      /\ \A r \in Sessions \ {s} : session'[r] = session[r]
  BY IdleRow DEF TypeOK, Idle, SessionRow
<1>3. \A p : /\ Known(p)' = Known(p) /\ KnownInTime(p)' = KnownInTime(p) /\ Rows(p)' = Rows(p)
  BY DEF Known, KnownInTime, Rows
<1>4. \A p, t : /\ Reaches(p, t, Known(p))' <=> Reaches(p, t, Known(p))
                /\ Reaches(p, t, KnownInTime(p))' <=> Reaches(p, t, KnownInTime(p))
  BY <1>3, ReachesTotal
<1>5. \A r \in Sessions \ {s} : \A p, t : /\ Found(r, p, t)' <=> Found(r, p, t)
                                          /\ Coming(r, p, t)' <=> Coming(r, p, t)
  BY <1>2 DEF Found, Coming
<1>6. TypeOK'
  BY <1>2 DEF TypeOK, LedgerTypeOK
<1>7. LedgerInv' /\ CallerInv'
  BY <1>2 DEF LedgerInv, CallerInv
<1>8. SessionInv'
  BY <1>2, IdleRow, TasksAssumption DEF SessionInv
<1>9. LockInv'
  BY <1>2 DEF LockInv, AlertOnce
<1>10. JustifiedInv'
  BY <1>2, <1>4, <1>5, IdleRow DEF JustifiedInv, Found
<1>11. CursorInv'
  <2>1. DurableAlerts'
    BY <1>4 DEF CursorInv, DurableAlerts
  <2>2. \A scope \in Scopes : PeriodFor(scope, day).n \in Nat
    BY Calendar DEF TypeOK, LedgerTypeOK
  <2>3. \A p \in Periods : p.scope \in Scopes /\ p.n \in Nat /\ ~ (p.n < session'[s].moved[p.scope])
    BY <1>2, Calendar
  <2>. QED  BY <1>2, <1>4, <1>5, <2>1, <2>2, <2>3 DEF CursorInv
<1>12. ForgottenInv'
  <2>. SUFFICES ASSUME NEW p \in Periods, NEW t \in Thresholds,
                       Reaches(p, t, Known(p)), alerts[<<p, t>>] = 0,
                       NEW a \in Rows(p), OnItsWay(a, p, t)
                PROVE  OnItsWay(a, p, t)'
    BY <1>3, <1>4 DEF ForgottenInv
  <2>1. a \in Attempts /\ a # None
    BY TasksAssumption DEF Rows
  <2>2. CASE a = x
    <3>1. PICK i \in DOMAIN q : q[i] = Item(p)
      BY <2>2
    <3>2. Coming(s, p, t)'
      BY <1>2, <3>1 DEF Coming
    <3>. QED  BY <1>2, <2>2, <3>2 DEF OnItsWay
  <2>3. CASE a # x
    BY <1>2, <1>5, <2>1, <2>3 DEF OnItsWay
  <2>. QED  BY <2>2, <2>3
<1>. QED  BY <1>6, <1>7, <1>8, <1>9, <1>10, <1>11, <1>12

LEMMA EvaluateStep ==
  ASSUME BudgetInv, NEW s \in Sessions, NEW a \in Attempts, EvaluateBudgetAttempt(s, a)
  PROVE  BudgetInv'
<1>. DEFINE q == CurrentPeriods(started[a])
<1>1. /\ session[s].task = None /\ a \in messages /\ messages' = messages \ {a}
      /\ session' = [session EXCEPT ![s].task = a, ![s].todo = q]
      /\ UNCHANGED <<day, ledgerVars, cursor, alerts, caller, lost>>
  BY DEF EvaluateBudgetAttempt
<1>2. /\ session[s] = Idle /\ session \in [Sessions -> SessionRow]
      /\ started[a] \in 1..MaxDay
  BY <1>1 DEF BudgetInv, SessionInv, CallerInv, TypeOK, LedgerTypeOK
<1>3. /\ q \in Seq(Work) /\ DOMAIN q = 1..2
      /\ q[1] = Item(PeriodFor("daily", started[a]))
      /\ q[2] = Item(PeriodFor("monthly", started[a]))
  BY <1>2, CurrentPeriodsTyped
<1>. HIDE DEF q
<1>4. ASSUME NEW p \in Periods, a \in Rows(p)
      PROVE  \E i \in DOMAIN q : q[i] = Item(p)
  <2>1. PeriodFor(p.scope, started[a]) = p /\ p.scope \in {"daily", "monthly"}
    BY <1>4, Calendar DEF Rows, Scopes
  <2>2. 1 \in DOMAIN q /\ 2 \in DOMAIN q
    BY <1>3
  <2>. QED  BY <1>3, <2>1, <2>2
<1>5. session' = [session EXCEPT ![s] = [Idle EXCEPT !.task = a, !.now = 0, !.todo = q]]
  <2>1. session[s].now = 0
    BY <1>2, IdleRow
  <2>2. session' = [session EXCEPT ![s].task = a, ![s].now = 0, ![s].todo = q]
    BY <1>1, <1>2, <2>1 DEF SessionRow
  <2>. QED  BY <1>2, <2>2, IdleRow DEF Idle, SessionRow
<1>6. /\ a # "reconcile" /\ 0 \in 0..MaxDay /\ started[a] # 0
      /\ \A i \in DOMAIN q : q[i].kind = "period"
  <2>1. \A i \in DOMAIN q : i = 1 \/ i = 2
    BY <1>3
  <2>. QED  BY <1>2, <1>3, <2>1, TasksAssumption, MaxDayAssumption DEF Item
<1>7. \A p \in Periods : a \in Rows(p) => \E i \in DOMAIN q : q[i] = Item(p)
  BY <1>4
<1>8. UNCHANGED <<day, ledgerVars, cursor, alerts, caller, lost>> /\ q \in Seq(Work)
  BY <1>1, <1>3
<1>9. a \in Attempts \cup {"reconcile"} /\ session[s].task = None /\ messages' = messages \ {a}
  BY <1>1
<1>. QED  BY <1>5, <1>6, <1>7, <1>8, <1>9, StartStep

LEMMA ReconcileStep ==
  ASSUME BudgetInv, NEW s \in Sessions, ReconcileBudgets(s)
  PROVE  BudgetInv'
<1>. DEFINE first == [kind |-> "cursor", scope |-> "daily"]
            second == [kind |-> "cursor", scope |-> "monthly"]
            q == <<first, second>> \o CurrentPeriods(day)
<1>1. /\ session[s].task = None
      /\ session' = [session EXCEPT ![s].task = "reconcile", ![s].now = day, ![s].todo = q]
      /\ UNCHANGED <<day, ledgerVars, cursor, alerts, caller, messages, lost>>
  BY DEF ReconcileBudgets
<1>2. /\ session[s] = Idle /\ session \in [Sessions -> SessionRow] /\ day \in 1..MaxDay
      /\ messages \subseteq Attempts
  BY <1>1 DEF BudgetInv, SessionInv, TypeOK, LedgerTypeOK
<1>3. q \in Seq(Work)
  BY <1>2, CurrentPeriodsTyped, ConcatProperties DEF Work, Scopes
<1>4. session' = [session EXCEPT ![s] = [Idle EXCEPT !.task = "reconcile", !.now = day, !.todo = q]]
  <2>. HIDE DEF q
  <2>. QED  BY <1>1, <1>2, IdleRow DEF Idle, SessionRow
<1>5. messages' = messages \ {"reconcile"} /\ \A p : "reconcile" \notin Rows(p)
  BY <1>1, <1>2, TasksAssumption DEF Rows
<1>6. day \in 0..MaxDay /\ day \in 1..day
  BY <1>2
<1>. HIDE DEF q
<1>. QED  BY <1>1, <1>3, <1>4, <1>5, <1>6, TasksAssumption, StartStep

\* The end of a task: the session is idle again.
LEMMA EndedRows ==
  ASSUME BudgetInv, NEW s \in Sessions, session' = [session EXCEPT ![s] = Idle],
         UNCHANGED <<day, ledgerVars>>
  PROVE  /\ session' \in [Sessions -> SessionRow] /\ session'[s] = Idle
         /\ \A r \in Sessions \ {s} : session'[r] = session[r]
         /\ \A p : Rows(p)' = Rows(p)
         /\ \A p, t : /\ Reaches(p, t, Known(p))' <=> Reaches(p, t, Known(p))
                      /\ Reaches(p, t, KnownInTime(p))' <=> Reaches(p, t, KnownInTime(p))
         /\ \A r \in Sessions \ {s} : \A p, t : /\ Found(r, p, t)' <=> Found(r, p, t)
                                                /\ Coming(r, p, t)' <=> Coming(r, p, t)
         /\ \A p, t : ~ Found(s, p, t)' /\ ~ Coming(s, p, t)'
         /\ LedgerInv' /\ SessionInv'
<1>. USE DEF BudgetInv, ledgerVars
<1>1. /\ session' \in [Sessions -> SessionRow] /\ session'[s] = Idle
      /\ \A r \in Sessions \ {s} : session'[r] = session[r]
  BY IdleRow DEF TypeOK
<1>2. \A p : /\ Known(p)' = Known(p) /\ KnownInTime(p)' = KnownInTime(p) /\ Rows(p)' = Rows(p)
  BY DEF Known, KnownInTime, Rows
<1>3. \A p, t : /\ Reaches(p, t, Known(p))' <=> Reaches(p, t, Known(p))
                /\ Reaches(p, t, KnownInTime(p))' <=> Reaches(p, t, KnownInTime(p))
  BY <1>2, ReachesTotal
<1>4. \A r \in Sessions \ {s} : \A p, t : /\ Found(r, p, t)' <=> Found(r, p, t)
                                          /\ Coming(r, p, t)' <=> Coming(r, p, t)
  BY <1>1 DEF Found, Coming
<1>5. \A p, t : ~ Found(s, p, t)' /\ ~ Coming(s, p, t)'
  BY <1>1, IdleRow DEF Found, Coming
<1>6. LedgerInv' /\ SessionInv'
  BY <1>1, IdleRow DEF LedgerInv, SessionInv
<1>. QED  BY <1>1, <1>2, <1>3, <1>4, <1>5, <1>6

LEMMA CrashStep ==
  ASSUME BudgetInv, NEW s \in Sessions, Crash(s)
  PROVE  BudgetInv'
<1>. USE DEF BudgetInv
<1>1. /\ session' = [session EXCEPT ![s] = Idle]
      /\ lost' = lost \cup ({session[s].task} \cap Attempts)
      /\ UNCHANGED <<day, ledgerVars, cursor, alerts, caller, messages>>
  BY DEF Crash
<1>2. /\ session' \in [Sessions -> SessionRow] /\ session'[s] = Idle
      /\ \A r \in Sessions \ {s} : session'[r] = session[r]
      /\ \A p : Rows(p)' = Rows(p)
      /\ \A p, t : /\ Reaches(p, t, Known(p))' <=> Reaches(p, t, Known(p))
                   /\ Reaches(p, t, KnownInTime(p))' <=> Reaches(p, t, KnownInTime(p))
      /\ \A r \in Sessions \ {s} : \A p, t : /\ Found(r, p, t)' <=> Found(r, p, t)
                                             /\ Coming(r, p, t)' <=> Coming(r, p, t)
      /\ \A p, t : ~ Found(s, p, t)' /\ ~ Coming(s, p, t)'
      /\ LedgerInv' /\ SessionInv'
  BY <1>1, EndedRows
<1>3. TypeOK'
  BY <1>1, <1>2 DEF TypeOK, LedgerTypeOK, ledgerVars
<1>4. CallerInv'
  BY <1>1, <1>2, IdleRow, TasksAssumption DEF CallerInv, ledgerVars
<1>5. LockInv'
  BY <1>1, <1>2, IdleRow DEF LockInv, AlertOnce
<1>6. JustifiedInv'
  BY <1>1, <1>2, IdleRow DEF JustifiedInv
<1>7. CursorInv'
  <2>1. DurableAlerts'
    BY <1>1, <1>2 DEF CursorInv, DurableAlerts
  <2>2. \A scope \in Scopes : PeriodFor(scope, day).n \in Nat
    BY Calendar DEF TypeOK, LedgerTypeOK
  <2>3. \A p \in Periods : p.scope \in Scopes /\ p.n \in Nat /\ ~ (p.n < session'[s].moved[p.scope])
    BY <1>2, IdleRow, Calendar
  <2>. QED  BY <1>1, <1>2, <2>1, <2>2, <2>3, IdleRow DEF CursorInv
<1>8. ForgottenInv'
  <2>. SUFFICES ASSUME NEW p \in Periods, NEW t \in Thresholds,
                       Reaches(p, t, Known(p)), alerts[<<p, t>>] = 0,
                       NEW a \in Rows(p), OnItsWay(a, p, t)
                PROVE  OnItsWay(a, p, t)'
    BY <1>1, <1>2 DEF ForgottenInv
  <2>1. a \in Attempts
    BY DEF Rows
  <2>. QED  BY <1>1, <1>2, <2>1 DEF OnItsWay
<1>. QED  BY <1>2, <1>3, <1>4, <1>5, <1>6, <1>7, <1>8

LEMMA CommitStep ==
  ASSUME BudgetInv, NEW s \in Sessions, Commit(s)
  PROVE  BudgetInv'
<1>. USE DEF BudgetInv
<1>1. /\ session[s].task # None /\ session[s].todo = <<>>
      /\ alerts' = [k \in AlertKeys |-> IF k \in session[s].added THEN alerts[k] + 1 ELSE alerts[k]]
      /\ cursor' = [scope \in Scopes |-> IF session[s].moved[scope] = 0 THEN cursor[scope]
                                         ELSE session[s].moved[scope]]
      /\ session' = [session EXCEPT ![s] = Idle]
      /\ UNCHANGED <<day, ledgerVars, caller, messages, lost>>
  BY DEF Commit
<1>2. /\ session' \in [Sessions -> SessionRow] /\ session'[s] = Idle
      /\ \A r \in Sessions \ {s} : session'[r] = session[r]
      /\ \A p : Rows(p)' = Rows(p)
      /\ \A p, t : /\ Reaches(p, t, Known(p))' <=> Reaches(p, t, Known(p))
                   /\ Reaches(p, t, KnownInTime(p))' <=> Reaches(p, t, KnownInTime(p))
      /\ \A r \in Sessions \ {s} : \A p, t : /\ Found(r, p, t)' <=> Found(r, p, t)
                                             /\ Coming(r, p, t)' <=> Coming(r, p, t)
      /\ \A p, t : ~ Found(s, p, t)' /\ ~ Coming(s, p, t)'
      /\ LedgerInv' /\ SessionInv'
  BY <1>1, EndedRows
<1>3. /\ session[s].added \subseteq AlertKeys
      /\ session[s].moved \in [Scopes -> Nat]
      /\ alerts \in [AlertKeys -> Nat]
  BY SessionFields DEF TypeOK
<1>4. /\ \A k \in AlertKeys : alerts'[k] > 0 <=> alerts[k] > 0 \/ k \in session[s].added
      /\ \A k \in AlertKeys : alerts'[k] = 0 <=> alerts[k] = 0 /\ k \notin session[s].added
      /\ alerts' \in [AlertKeys -> Nat]
  BY <1>1, <1>3
<1>5. \A p \in Periods, t \in Thresholds :
        <<p, t>> \in AlertKeys /\ (Coming(s, p, t) <=> <<p, t>> \in session[s].added)
  <2>1. DOMAIN session[s].todo = {}
    BY <1>1
  <2>. QED  BY <2>1 DEF Coming, AlertKeys
<1>6. TypeOK'
  BY <1>1, <1>2, <1>3, <1>4 DEF TypeOK, LedgerTypeOK, ledgerVars
<1>7. CallerInv'
  BY <1>1, <1>2, IdleRow, TasksAssumption DEF CallerInv, ledgerVars
<1>8. LockInv'
  <2>1. AlertOnce'
    BY <1>1, <1>3 DEF LockInv, AlertOnce
  <2>2. ASSUME NEW r \in Sessions \ {s}, NEW k \in session[r].added
        PROVE  alerts'[k] = 0
    <3>1. k \in AlertKeys /\ k \notin session[s].added /\ alerts[k] = 0
      BY SessionFields DEF LockInv
    <3>. QED  BY <1>4, <3>1
  <2>. QED  BY <1>2, <2>1, <2>2, IdleRow DEF LockInv
<1>9. JustifiedInv'
  BY <1>2, <1>4, <1>5, IdleRow DEF JustifiedInv
<1>10. CursorInv'
  <2>1. /\ \A scope \in Scopes : PeriodFor(scope, day).n \in Nat
        /\ \A p \in Periods : p.scope \in Scopes /\ p.n \in Nat
    BY Calendar DEF TypeOK, LedgerTypeOK
  <2>2. \A p \in Periods : ~ (p.n < session'[s].moved[p.scope])
    BY <1>2, <2>1, IdleRow
  <2>3. DurableAlerts'
    <3>. SUFFICES ASSUME NEW p \in Periods, NEW t \in Thresholds,
                         p.n < cursor'[p.scope], Reaches(p, t, KnownInTime(p))
                  PROVE  alerts'[<<p, t>>] > 0
      BY <1>2 DEF DurableAlerts
    <3>1. CASE session[s].moved[p.scope] = 0
      BY <1>1, <1>4, <1>5, <2>1, <3>1 DEF CursorInv, DurableAlerts
    <3>2. CASE session[s].moved[p.scope] # 0
      BY <1>1, <1>4, <1>5, <2>1, <3>2 DEF CursorInv
    <3>. QED  BY <3>1, <3>2
  <2>4. \A scope \in Scopes : cursor'[scope] <= PeriodFor(scope, day).n
    BY <1>1 DEF CursorInv
  <2>5. \A r \in Sessions, scope \in Scopes : session'[r].moved[scope] <= PeriodFor(scope, day).n
    BY <1>2, <2>1, IdleRow DEF CursorInv
  <2>6. ASSUME NEW r \in Sessions, NEW p \in Periods, NEW t \in Thresholds,
               p.n < session'[r].moved[p.scope], Reaches(p, t, KnownInTime(p))
        PROVE  alerts'[<<p, t>>] > 0 \/ Coming(r, p, t)'
    BY <1>2, <1>4, <1>5, <2>2, <2>6 DEF CursorInv
  <2>7. day' = day
    BY <1>1
  <2>. QED  BY <1>2, <2>3, <2>4, <2>5, <2>6, <2>7 DEF CursorInv
<1>11. ForgottenInv'
  <2>. SUFFICES ASSUME NEW p \in Periods, NEW t \in Thresholds,
                       Reaches(p, t, Known(p)), alerts'[<<p, t>>] = 0
                PROVE  \E a \in Rows(p) : OnItsWay(a, p, t)'
    BY <1>2 DEF ForgottenInv
  <2>1. alerts[<<p, t>>] = 0 /\ ~ Coming(s, p, t)
    BY <1>4, <1>5
  <2>2. PICK a \in Rows(p) : OnItsWay(a, p, t)
    BY <2>1 DEF ForgottenInv
  <2>. QED  BY <1>1, <1>2, <2>1, <2>2 DEF OnItsWay
<1>. QED  BY <1>2, <1>6, <1>7, <1>8, <1>9, <1>10, <1>11
-----------------------------------------------------------------------------
(***************************************************************************)
(* The reconciler's cursor.                                                *)
(***************************************************************************)

\* A set of days has a first one.
LEMMA FirstDay ==
  ASSUME NEW days \in SUBSET (1..MaxDay), days # {}
  PROVE  Min(days) \in days /\ \A d \in days : Min(days) <= d
<1>. DEFINE Q == {T \in SUBSET days : T # {} => \E m \in T : \A d \in T : m <= d}
<1>1. IsFiniteSet(days)
  <2>1. 1 \in Int /\ MaxDay \in Int
    BY MaxDayAssumption
  <2>2. IsFiniteSet(1..MaxDay)
    BY <2>1, FS_Interval
  <2>. QED  BY <2>2, FS_Subset
<1>2. ASSUME NEW T \in SUBSET days, \A U \in SUBSET T : U # T => U \in Q
      PROVE  T \in Q
  <2>. SUFFICES ASSUME NEW x \in T
                PROVE  \E m \in T : \A d \in T : m <= d
    OBVIOUS
  <2>1. CASE T = {x}
    BY <2>1
  <2>2. CASE T # {x}
    <3>1. T \ {x} \in Q /\ T \ {x} # {}
      <4>1. T \ {x} \in SUBSET T /\ T \ {x} # T
        OBVIOUS
      <4>2. T \ {x} # {}
        BY <2>2
      <4>. HIDE DEF Q
      <4>. QED  BY <1>2, <4>1, <4>2
    <3>2. PICK m \in T \ {x} : \A d \in T \ {x} : m <= d
      BY <3>1
    <3>3. CASE m <= x
      BY <3>2, <3>3
    <3>4. CASE x <= m
      <4>1. \A d \in T : x <= d
        BY <3>2, <3>4
      <4>. QED  BY <4>1
    <3>. QED  BY <3>3, <3>4
  <2>. QED  BY <2>1, <2>2
<1>3. \A T \in SUBSET days : T \in Q
  <2>. HIDE DEF Q
  <2>. QED  BY <1>1, <1>2, SubsetInduction
<1>. QED  BY <1>3 DEF Min

\* A new cursor starts in a period that has come, and no row is before it.
LEMMA CursorStart ==
  ASSUME BudgetInv, NEW scope \in Scopes, NEW now \in 1..day
  PROVE  /\ InitialCursorStart(scope, now) \in Nat \ {0}
         /\ InitialCursorStart(scope, now) <= PeriodFor(scope, day).n
         /\ \A p \in Periods : p.scope = scope /\ p.n < InitialCursorStart(scope, now) =>
              Rows(p) = {}
<1>. DEFINE days == {started[a] : a \in {b \in Attempts : started[b] # 0}}
            first == IF days = {} THEN now ELSE Min(days)
<1>1. day \in 1..MaxDay /\ started \in [Attempts -> 0..MaxDay]
  BY DEF BudgetInv, TypeOK, LedgerTypeOK
<1>2. days \in SUBSET (1..MaxDay) /\ \A d \in days : d <= day
  BY <1>1 DEF BudgetInv, LedgerInv
<1>3. first \in 1..MaxDay /\ first <= day /\ \A d \in days : first <= d
  <2>1. CASE days = {}
    <3>1. first = now
      BY <2>1
    <3>. HIDE DEF days, first
    <3>. QED  BY <1>1, <2>1, <3>1, MaxDayAssumption
  <2>2. CASE days # {}
    <3>1. first = Min(days)
      BY <2>2
    <3>2. Min(days) \in days /\ \A d \in days : Min(days) <= d
      BY <1>2, <2>2, FirstDay
    <3>. QED  BY <1>2, <3>1, <3>2
  <2>. QED  BY <2>1, <2>2
<1>4. InitialCursorStart(scope, now) = PeriodFor(scope, first).n
  BY DEF InitialCursorStart
<1>5. ASSUME NEW p \in Periods, p.scope = scope, NEW a \in Rows(p)
      PROVE  PeriodFor(scope, first).n <= p.n
  <2>1. a \in Attempts /\ started[a] \in days /\ PeriodFor(scope, started[a]) = p
    BY <1>5 DEF Rows
  <2>. QED  BY <1>2, <1>3, <2>1, Calendar
<1>. HIDE DEF first, days
<1>6. PeriodFor(scope, first).n \in Nat \ {0} /\ PeriodFor(scope, first).n <= PeriodFor(scope, day).n
  BY <1>1, <1>3, Calendar
<1>. QED  BY <1>4, <1>5, <1>6, Calendar

\* The periods that one run drains follow each other.
LEMMA Drained ==
  ASSUME NEW from \in Nat \ {0}, NEW last \in Nat
  PROVE  LET count == Cardinality({n \in 1..last : n >= from /\ n < from + MaxPeriods}) IN
         /\ count \in Nat
         /\ \A i \in 1..count : from + i - 1 \in 1..last
         /\ count = 0 \/ from + count <= last + 1
<1>. DEFINE drain == {n \in 1..last : n >= from /\ n < from + MaxPeriods}
<1>1. MaxPeriods \in Nat \ {0}
  BY BudgetsAssumption
<1>2. CASE last < from
  <2>1. drain = {}
    BY <1>2
  <2>. QED  BY <2>1, FS_EmptySet
<1>3. CASE from <= last
  <2>. DEFINE hi == IF last < from + MaxPeriods THEN last ELSE from + MaxPeriods - 1
  <2>1. hi \in Nat /\ from <= hi /\ hi <= last
    BY <1>1, <1>3
  <2>2. drain = from..hi
    BY <1>1, <1>3
  <2>. HIDE DEF hi, drain
  <2>3. Cardinality(drain) = hi - from + 1
    BY <2>1, <2>2, FS_Interval
  <2>4. /\ Cardinality(drain) \in Nat
        /\ \A i \in 1..Cardinality(drain) : from + i - 1 \in 1..last
        /\ from + Cardinality(drain) <= last + 1
    BY <2>1, <2>3
  <2>. QED  BY <2>4 DEF drain
<1>. QED  BY <1>2, <1>3

\* A list put before another.
LEMMA Prefixed ==
  ASSUME NEW S, NEW count \in Nat, NEW q \in Seq(S), NEW f \in [1..count -> S]
  PROVE  /\ f \o q \in Seq(S)
         /\ \A i \in 1..count : i \in DOMAIN (f \o q) /\ (f \o q)[i] = f[i]
         /\ \A i \in DOMAIN q : count + i \in DOMAIN (f \o q) /\ (f \o q)[count + i] = q[i]
         /\ DOMAIN (f \o q) = 1..(count + Len(q)) /\ DOMAIN q = 1..Len(q) /\ Len(q) \in Nat
<1>1. f \in Seq(S) /\ Len(f) = count
  BY IsASeq, SeqDef
<1>2. /\ f \o q \in Seq(S) /\ Len(f \o q) = count + Len(q)
      /\ \A i \in 1..(count + Len(q)) : (f \o q)[i] = IF i <= count THEN f[i] ELSE q[i - count]
  BY <1>1, ConcatProperties
<1>3. DOMAIN q = 1..Len(q) /\ Len(q) \in Nat /\ DOMAIN (f \o q) = 1..Len(f \o q)
  BY <1>2, LenProperties
<1>4. ASSUME NEW i \in DOMAIN q
      PROVE  count + i \in DOMAIN (f \o q) /\ (f \o q)[count + i] = q[i]
  <2>1. count + i \in 1..(count + Len(q)) /\ ~ (count + i <= count) /\ count + i - count = i
    BY <1>3
  <2>. QED  BY <1>2, <1>3, <2>1
<1>. QED  BY <1>2, <1>3, <1>4
LEMMA LockCursorStep ==
  ASSUME BudgetInv, NEW s \in Sessions, LockCursor(s)
  PROVE  BudgetInv'
<1>. DEFINE row == session[s]
            scope == Head(row.todo).scope
            from == IF cursor[scope] # 0 THEN cursor[scope]
                    ELSE InitialCursorStart(scope, row.now)
            last == PeriodFor(scope, row.now).n - 1
            count == Cardinality({n \in 1..last : n >= from /\ n < from + MaxPeriods})
            drained == [i \in 1..count |-> Item([scope |-> scope, n |-> from + i - 1])]
            lock == CursorLock(scope)
<1>1. /\ row.todo # <<>> /\ Head(row.todo).kind = "cursor"
      /\ ~ LockedByOther(s, lock)
      /\ session' = [session EXCEPT
           ![s].locks = @ \cup {lock},
           ![s].moved = [@ EXCEPT ![scope] = from + count],
           ![s].todo = drained \o Tail(@)]
      /\ UNCHANGED <<day, ledgerVars, cursor, alerts, caller, messages, lost>>
  BY DEF LockCursor, Item, Complete
<1>2. /\ TypeOK /\ row \in SessionRow /\ row.todo \in Seq(Work) /\ day \in 1..MaxDay
      /\ row.moved \in [Scopes -> Nat] /\ cursor \in [Scopes -> Nat] /\ row.now \in 0..MaxDay
  BY SessionFields DEF BudgetInv, TypeOK, LedgerTypeOK
<1>3. scope \in Scopes /\ Head(row.todo) \in Work
  <2>1. Head(row.todo) \in Work
    BY <1>1, <1>2, Tails
  <2>. QED  BY <1>1, <2>1 DEF Work
<1>4. row.reading /\ row.crossed = <<>> /\ row.task # None
  <2>1. row.reading /\ row.crossed = <<>>
    BY <1>1 DEF BudgetInv, SessionInv
  <2>2. row.task # None
    BY <1>1, IdleRow DEF BudgetInv, SessionInv
  <2>. QED  BY <2>1, <2>2
<1>5. row.now \in 1..day
  <2>1. row.task \notin Attempts
    BY <1>1, <1>2, Tails DEF BudgetInv, SessionInv
  <2>2. row.task = "reconcile"
    BY <1>2, <1>4, <2>1 DEF SessionRow
  <2>. QED  BY <2>2 DEF BudgetInv, CallerInv
<1>6. from \in Nat \ {0} /\ from <= PeriodFor(scope, day).n
  <2>1. CASE cursor[scope] # 0
    BY <1>2, <1>3, <2>1 DEF BudgetInv, CursorInv
  <2>2. CASE cursor[scope] = 0
    BY <1>3, <1>5, <2>2, CursorStart
  <2>. QED  BY <2>1, <2>2
<1>7. \A p \in Periods, t \in Thresholds :
        p.scope = scope /\ p.n < from /\ Reaches(p, t, KnownInTime(p)) => alerts[<<p, t>>] > 0
  <2>1. CASE cursor[scope] # 0
    BY <2>1 DEF BudgetInv, CursorInv, DurableAlerts
  <2>2. CASE cursor[scope] = 0
    <3>. SUFFICES ASSUME NEW p \in Periods, NEW t \in Thresholds, p.scope = scope, p.n < from
                  PROVE  ~ Reaches(p, t, KnownInTime(p))
      OBVIOUS
    <3>1. KnownInTime(p) = {}
      BY <1>3, <1>5, <2>2, CursorStart DEF KnownInTime, Known
    <3>2. SumOf(cost, {}) = 0
      BY FS_EmptySet, SumStep
    <3>. QED  BY <3>1, <3>2, ReachesTotal, EnoughGrows
  <2>. QED  BY <2>1, <2>2
<1>8. /\ last \in Nat /\ last + 1 = PeriodFor(scope, row.now).n
      /\ last + 1 <= PeriodFor(scope, day).n
      /\ \A n \in 1..last : [scope |-> scope, n |-> n] \in Periods
  BY <1>2, <1>3, <1>5, Calendar
<1>. HIDE DEF from, last
<1>9. /\ count \in Nat /\ \A i \in 1..count : from + i - 1 \in 1..last
      /\ count = 0 \/ from + count <= last + 1
  BY <1>6, <1>8, Drained
<1>. HIDE DEF count
<1>10. drained \in [1..count -> Work]
  BY <1>8, <1>9 DEF Work, Item
<1>11. Tail(row.todo) \in Seq(Work)
  BY <1>1, <1>2, Tails
<1>. DEFINE todo == drained \o Tail(row.todo)
<1>12. /\ todo \in Seq(Work)
       /\ \A i \in 1..count : i \in DOMAIN todo /\ todo[i] = Item([scope |-> scope, n |-> from + i - 1])
       /\ \A i \in DOMAIN Tail(row.todo) :
            count + i \in DOMAIN todo /\ todo[count + i] = Tail(row.todo)[i]
  <2>. DEFINE rest == Tail(row.todo)
  <2>0. rest \in Seq(Work)
    BY <1>11
  <2>. HIDE DEF drained, rest
  <2>1. /\ todo \in Seq(Work) /\ \A i \in 1..count : i \in DOMAIN todo /\ todo[i] = drained[i]
        /\ \A i \in DOMAIN rest :
             count + i \in DOMAIN todo /\ todo[count + i] = rest[i]
    <3>1. count \in Nat
      BY <1>9
    <3>2. todo = drained \o rest
      BY DEF rest
    <3>. HIDE DEF todo
    <3>. QED  BY <1>10, <2>0, <3>1, <3>2, Prefixed
  <2>. HIDE DEF todo
  <2>. QED  BY <2>1 DEF drained, rest
<1>. HIDE DEF todo, drained
<1>13. /\ session'[s].task = row.task /\ session'[s].now = row.now
       /\ session'[s].crossed = <<>> /\ session'[s].reading = TRUE
       /\ session'[s].added = row.added /\ session'[s].locks = row.locks \cup {lock}
       /\ session'[s].moved = [row.moved EXCEPT ![scope] = from + count]
       /\ session'[s].todo = todo
       /\ \A r \in Sessions \ {s} : session'[r] = session[r]
  BY <1>1, <1>2, <1>4 DEF TypeOK, SessionRow, todo
<1>14. TypeOK'
  <2>1. /\ row.locks \cup {lock} \in SUBSET (AlertKeys \cup {CursorLock(c) : c \in Scopes})
        /\ [row.moved EXCEPT ![scope] = from + count] \in [Scopes -> Nat]
    BY <1>2, <1>3, <1>6, <1>9 DEF SessionRow
  <2>2. session' \in [Sessions -> SessionRow]
    <3>. HIDE DEF lock
    <3>. QED  BY <1>1, <1>2, <1>12, <2>1 DEF TypeOK, SessionRow, todo
  <2>. QED  BY <1>1, <1>2, <2>2 DEF TypeOK, LedgerTypeOK, ledgerVars
<1>15. WorkerSound(s)
  <2>1. row.task \notin Attempts
    BY <1>1, <1>2, Tails DEF BudgetInv, SessionInv
  <2>2. \A k \in session'[s].locks : k \in session[s].locks \/ ~ LockedByOther(s, k)
    <3>. SUFFICES ASSUME NEW k \in session'[s].locks, k \notin session[s].locks
                  PROVE  ~ LockedByOther(s, k)
      OBVIOUS
    <3>1. k = lock
      BY <1>13
    <3>. QED  BY <1>1, <3>1
  <2>3. session'[s].added \subseteq session'[s].locks
    BY <1>13 DEF BudgetInv, LockInv
  <2>. QED  BY <1>4, <1>13, <2>1, <2>2, <2>3 DEF WorkerSound, Crossings
<1>16. AlertsSound(s)
  <2>1. Range(<<>>) = {} /\ \A q, t : ~ Found(s, q, t)'
    BY <1>13, IdleRow DEF Found
  <2>2. ASSUME NEW q \in Periods, NEW t \in Thresholds, Coming(s, q, t)
        PROVE  Coming(s, q, t)'
    <3>. SUFFICES ASSUME <<q, t>> \notin row.added PROVE Coming(s, q, t)'
      BY <1>13 DEF Coming
    <3>1. PICK i \in DOMAIN row.todo : row.todo[i] = Item(q)
      BY <2>2 DEF Coming
    <3>2. i # 1
      BY <1>1, <1>2, <3>1, Tails DEF Item
    <3>3. i - 1 \in DOMAIN Tail(row.todo) /\ Tail(row.todo)[i - 1] = Item(q)
      BY <1>1, <1>2, <3>1, <3>2, Tails
    <3>4. count + (i - 1) \in DOMAIN todo /\ todo[count + (i - 1)] = Item(q)
      BY <1>12, <3>3
    <3>. QED  BY <1>13, <3>4 DEF Coming
  <2>3. ASSUME NEW q \in Periods, NEW t \in Thresholds,
               q.n < session'[s].moved[q.scope], Reaches(q, t, KnownInTime(q))
        PROVE  alerts[<<q, t>>] > 0 \/ Coming(s, q, t)'
    <3>0. q.scope \in Scopes /\ q.n \in Nat /\ q = [scope |-> q.scope, n |-> q.n]
      BY Calendar
    <3>1. CASE q.scope # scope
      BY <1>2, <1>13, <2>2, <2>3, <3>0, <3>1 DEF BudgetInv, CursorInv
    <3>2. CASE q.scope = scope /\ q.n < from
      BY <1>7, <2>3, <3>2
    <3>3. CASE q.scope = scope /\ from <= q.n
      <4>1. q.n < from + count
        BY <1>2, <1>13, <2>3, <3>0, <3>3
      <4>. DEFINE i == q.n - from + 1
      <4>2. i \in 1..count /\ from + i - 1 = q.n
        BY <1>6, <1>9, <3>0, <3>3, <4>1
      <4>. HIDE DEF i
      <4>3. i \in DOMAIN todo /\ todo[i] = Item(q)
        BY <1>12, <3>0, <3>3, <4>2
      <4>. QED  BY <1>13, <4>3 DEF Coming
    <3>. QED  BY <1>6, <3>0, <3>1, <3>2, <3>3
  <2>4. ASSUME NEW c \in Scopes
        PROVE  session'[s].moved[c] <= PeriodFor(c, day).n
    <3>1. CASE c # scope
      BY <1>2, <1>3, <1>13, <3>1 DEF BudgetInv, CursorInv
    <3>2. CASE c = scope
      <4>1. session'[s].moved[c] = from + count /\ PeriodFor(scope, day).n \in Nat
        BY <1>2, <1>3, <1>13, <3>2, Calendar
      <4>. QED  BY <1>6, <1>8, <1>9, <3>2, <4>1
    <3>. QED  BY <3>1, <3>2
  <2>5. \A q \in Periods, t \in Thresholds : <<q, t>> \in session'[s].added => Reaches(q, t, Known(q))
    BY <1>13 DEF BudgetInv, JustifiedInv
  <2>. QED  BY <2>1, <2>2, <2>3, <2>4, <2>5 DEF AlertsSound
<1>. QED  BY <1>1, <1>13, <1>14, <1>15, <1>16, WorkerStep
-----------------------------------------------------------------------------
(***************************************************************************)
(* The theorems.                                                           *)
(***************************************************************************)

LEMMA BudgetInitially ==
  ASSUME Init
  PROVE  BudgetInv
<1>. USE DEF Init, LedgerInit
<1>1. /\ TypeOK /\ LedgerInv /\ CallerInv
  BY MaxDayAssumption, IdleRow, TasksAssumption
     DEF TypeOK, LedgerTypeOK, TerminalStatus, LedgerInv, CallerInv
<1>2. SessionInv /\ LockInv
  BY IdleRow, TasksAssumption DEF SessionInv, LockInv, AlertOnce
<1>3. \A p : Known(p) = {} /\ KnownInTime(p) = {}
  BY DEF Known, KnownInTime, Rows
<1>4. \A p \in Periods, t \in Thresholds :
        ~ Reaches(p, t, Known(p)) /\ ~ Reaches(p, t, KnownInTime(p))
  <2>1. SumOf(cost, {}) = 0
    BY FS_EmptySet, SumStep
  <2>. QED  BY <1>3, <2>1, ReachesTotal, EnoughGrows
<1>5. JustifiedInv
  BY IdleRow DEF JustifiedInv, Found, AlertKeys
<1>6. CursorInv /\ ForgottenInv
  <2>1. \A scope \in Scopes : PeriodFor(scope, day).n \in Nat /\ PeriodFor(scope, day).n >= 0
    BY <1>1, Calendar DEF TypeOK, LedgerTypeOK
  <2>. QED  BY <1>4, <2>1, IdleRow DEF CursorInv, DurableAlerts, ForgottenInv
<1>. QED  BY <1>1, <1>2, <1>5, <1>6 DEF BudgetInv

LEMMA BudgetNext ==
  ASSUME BudgetInv, [Next]_vars
  PROVE  BudgetInv'
<1>1. ASSUME NEW a \in Attempts, Begin(a)
      PROVE  BudgetInv'
  BY <1>1, BeginStep
<1>2. ASSUME NEW a \in Attempts, FinalizeFails(a) \/ Notify(a) \/ NotifyFails(a) \/ LoseMessage(a)
      PROVE  BudgetInv'
  BY <1>2, NotifyStep
<1>3. ASSUME NEW a \in Attempts, NEW c \in Costs \cup {None}, Finalize(a, c) \/ FinalizeAmbiguous(a, c)
      PROVE  BudgetInv'
  BY <1>3, FinalizeStep
<1>4. ASSUME NEW a \in Attempts, NEW s \in Sessions, EvaluateBudgetAttempt(s, a)
      PROVE  BudgetInv'
  BY <1>4, EvaluateStep
<1>5. ASSUME NEW s \in Sessions, SessionStep(s) \/ ReconcileBudgets(s) \/ Crash(s)
      PROVE  BudgetInv'
  BY <1>5, ReadSpendStep, InsertStep, LockCursorStep, CommitStep, ReconcileStep, CrashStep
     DEF SessionStep
<1>6. ASSUME SweepStaleUsage \/ Midnight
      PROVE  BudgetInv'
  BY <1>6, SweepStep, MidnightStep
<1>7. ASSUME UNCHANGED vars
      PROVE  BudgetInv'
  <2>1. LedgerGrows /\ TypeOK'
    BY <1>7 DEF vars, ledgerVars, LedgerGrows, BudgetInv, TypeOK, LedgerTypeOK
  <2>2. LedgerInv' /\ CallerInv'
    BY <1>7 DEF vars, ledgerVars, BudgetInv, LedgerInv, CallerInv
  <2>. QED  BY <1>7, <2>1, <2>2, CallerStep DEF vars, ledgerVars, BudgetInv
<1>. QED  BY <1>1, <1>2, <1>3, <1>4, <1>5, <1>6, <1>7 DEF Next

THEOREM BudgetInvariance == Spec => []BudgetInv
<1>. QED  BY BudgetInitially, BudgetNext, PTL DEF Spec

\* The state has the types that the model gives it.
THEOREM TypeCorrect == Spec => []TypeOK
<1>1. BudgetInv => TypeOK
  BY DEF BudgetInv
<1>. QED  BY <1>1, BudgetInvariance, PTL

\* However many evaluators and reconcilers run, a period and threshold has at most one
\* alert: the advisory lock is held until the row is committed.
THEOREM AlertedOnce == Spec => []AlertOnce
<1>1. BudgetInv => AlertOnce
  BY DEF BudgetInv, LockInv
<1>. QED  BY <1>1, BudgetInvariance, PTL

\* No alert without the spend: rows are closed once and never reopened, so what was
\* reached when the session read it is still reached when it commits.
THEOREM AlertsJustified == Spec => []AlertJustified
<1>1. BudgetInv => AlertJustified
  BY DEF BudgetInv, JustifiedInv, AlertJustified
<1>. QED  BY <1>1, BudgetInvariance, PTL

\* What the reconciler's cursor has passed is alerted, whatever was lost or crashed.
THEOREM AlertsDurable == Spec => []DurableAlerts
<1>1. BudgetInv => DurableAlerts
  BY DEF BudgetInv, CursorInv
<1>. QED  BY <1>1, BudgetInvariance, PTL

\* A crossing without an alert has a row whose notification is on its way or lost.
THEOREM CrossingsRemembered == Spec => []NothingForgotten
<1>1. BudgetInv => NothingForgotten
  <2>. SUFFICES ASSUME BudgetInv, NEW p \in Periods, NEW t \in Thresholds,
                       Reaches(p, t, Known(p)), alerts[<<p, t>>] = 0
                PROVE  \E a \in Rows(p) : Owed(a) \/ a \in lost
    BY DEF NothingForgotten
  <2>. QED  BY DEF BudgetInv, ForgottenInv, OnItsWay, Owed
<1>. QED  BY <1>1, BudgetInvariance, PTL
-----------------------------------------------------------------------------
(***************************************************************************)
(* The order of the locks.  An evaluator takes those of one day and then   *)
(* those of its month.  Only one reconciler holds locks, since the first   *)
(* is a cursor's; it takes those of completed months before those of the   *)
(* current day, which is in another month.                                 *)
(***************************************************************************)

CursorItem(scope) == [kind |-> "cursor", scope |-> scope]
IsDaily(w) == w.kind = "period" /\ w.period.scope = "daily"
IsMonthly(w) == w.kind = "period" /\ w.period.scope = "monthly"
MonthKeys(locks) == {k \in locks : k[1].scope = "monthly" /\ k[2] # "cursor"}

\* A period is locked for the warning first.
ThresholdOrder(s) ==
  /\ \A p \in Periods : <<p, "exceeded">> \in session[s].locks => <<p, "warning">> \in session[s].locks
  /\ session[s].crossed = <<"exceeded">> =>
       <<Head(session[s].todo).period, "warning">> \in session[s].locks

\* An evaluator ends with the month of its day.
OfDay(d) == {PeriodFor("daily", d), PeriodFor("monthly", d)}
EvaluatorOrder(s) ==
  session[s].task \in Attempts =>
    LET todo == session[s].todo
        locks == session[s].locks
    IN /\ \A scope \in Scopes : CursorLock(scope) \notin locks
       /\ \E d \in 1..MaxDay : /\ \A i \in DOMAIN todo : \E p \in OfDay(d) : todo[i] = Item(p)
                               /\ \A k \in locks : k[1] \in OfDay(d)
       /\ \A i \in DOMAIN todo : IsMonthly(todo[i]) => i = Len(todo)
       /\ MonthKeys(locks) # {} =>
            todo = <<>> \/ (session[s].crossed = <<"exceeded">> /\ IsMonthly(Head(todo)))

\* The reconciler's list never leads from the locks of a month to those of its days.
InOrder(todo, locks, now) ==
  /\ \A i \in DOMAIN todo : todo[i] = CursorItem("daily") => i = 1 /\ locks = {}
  /\ \A i, j \in DOMAIN todo : i < j /\ IsDaily(todo[j]) =>
       /\ IsMonthly(todo[i]) => todo[i].period.n # MonthOf(todo[j].period.n)
       /\ todo[i] = CursorItem("monthly") => todo[j].period.n = now
  /\ \A j \in DOMAIN todo, k \in MonthKeys(locks) :
       IsDaily(todo[j]) => k[1].n # MonthOf(todo[j].period.n)
ReconcilerOrder(s) ==
  session[s].task = "reconcile" =>
    LET todo == session[s].todo
        locks == session[s].locks
    IN /\ CursorLock("daily") \notin locks =>
            locks = {} /\ todo # <<>> /\ Head(todo) = CursorItem("daily")
       /\ InOrder(todo, locks, session[s].now)

OrderInv ==
  \A s \in Sessions : ThresholdOrder(s) /\ EvaluatorOrder(s) /\ ReconcilerOrder(s)

\* What a session waits for if it holds locks or is an evaluator: the first lock of a
\* period.  An evaluator that waits has no lock of its month.
LEMMA Waits ==
  ASSUME BudgetInv, OrderInv, NEW s \in Sessions, NEW t \in Sessions, s # t,
         NEW lock \in Wants(s), lock \in session[t].locks
  PROVE  /\ session[t].task \in Attempts \cup {"reconcile"}
         /\ session[t].task = "reconcile" => CursorLock("daily") \in session[t].locks
         /\ session[s].locks # {} \/ session[s].task \in Attempts =>
              \E p \in Periods : /\ lock = <<p, "warning">>
                                 /\ session[s].todo # <<>> /\ Head(session[s].todo) = Item(p)
         /\ session[s].task \in Attempts => MonthKeys(session[s].locks) = {}
<1>1. session[t].task \in Attempts \cup {"reconcile"}
  BY SessionFields, IdleRow DEF BudgetInv, SessionInv
<1>2. session[t].task = "reconcile" => CursorLock("daily") \in session[t].locks
  BY DEF OrderInv, ReconcilerOrder
<1>3. session[s].todo # <<>> /\ session[s].todo \in Seq(Work)
  BY SessionFields DEF Wants, BudgetInv
<1>4. CASE Head(session[s].todo).kind = "cursor"
  <2>1. /\ Head(session[s].todo) \in Work /\ 1 \in DOMAIN session[s].todo
        /\ Head(session[s].todo) = session[s].todo[1]
    BY <1>3, Tails
  <2>2. /\ Head(session[s].todo).scope \in Scopes
        /\ lock = CursorLock(Head(session[s].todo).scope)
    BY <1>3, <1>4, <2>1 DEF Wants, Work
  <2>3. session[t].task = "reconcile"
    BY <1>1, <2>2 DEF OrderInv, EvaluatorOrder
  <2>4. session[s].task \notin Attempts
    BY <1>4, <2>1 DEF BudgetInv, SessionInv
  <2>5. session[s].task = "reconcile"
    BY <1>3, <2>4, SessionFields, IdleRow DEF BudgetInv, SessionInv
  <2>6. CursorLock("daily") \notin session[s].locks
    BY <1>2, <2>3 DEF BudgetInv, LockInv
  <2>7. session[s].locks = {}
    BY <2>5, <2>6 DEF OrderInv, ReconcilerOrder
  <2>. QED  BY <1>1, <1>2, <2>4, <2>7
<1>5. CASE Head(session[s].todo).kind # "cursor"
  <2>. DEFINE p == Head(session[s].todo).period
              h == Head(session[s].crossed)
  <2>1. ~ session[s].reading /\ lock = <<p, h>>
    BY <1>3, <1>5 DEF Wants
  <2>2. /\ p \in Periods /\ Head(session[s].todo) = Item(p)
        /\ session[s].crossed \in Crossings /\ session[s].crossed # <<>>
    BY <1>3, <2>1, FirstItem DEF BudgetInv, SessionInv
  <2>3. session[s].crossed # <<"exceeded">>
    <3>1. ASSUME session[s].crossed = <<"exceeded">>
          PROVE  FALSE
      <4>1. <<p, "warning">> \in session[s].locks /\ lock = <<p, "exceeded">>
        BY <2>1, <3>1 DEF OrderInv, ThresholdOrder
      <4>2. <<p, "warning">> \in session[t].locks
        BY <2>2, <4>1 DEF OrderInv, ThresholdOrder
      <4>. QED  BY <4>1, <4>2 DEF BudgetInv, LockInv
    <3>. QED  BY <3>1
  <2>4. h = "warning"
    BY <2>2, <2>3 DEF Crossings
  <2>5. session[s].task \in Attempts => MonthKeys(session[s].locks) = {}
    BY <1>3, <2>3 DEF OrderInv, EvaluatorOrder
  <2>. HIDE DEF p, h
  <2>. QED  BY <1>1, <1>2, <1>3, <2>1, <2>2, <2>4, <2>5
<1>. QED  BY <1>4, <1>5

\* Whoever holds a lock of a period holds its first.
LEMMA FirstLock ==
  ASSUME OrderInv, NEW s \in Sessions, NEW p \in Periods, NEW t \in Thresholds,
         <<p, t>> \in session[s].locks
  PROVE  <<p, "warning">> \in session[s].locks
  BY DEF OrderInv, ThresholdOrder, Thresholds

LEMMA NobodyInACircle ==
  ASSUME BudgetInv, OrderInv
  PROVE  NoLockCycle
<1>. SUFFICES ASSUME NEW circle \in SUBSET Sessions, circle # {},
                     \A s \in circle : \E lock \in Wants(s), t \in circle \ {s} :
                       lock \in session[t].locks
              PROVE  FALSE
  BY DEF NoLockCycle
<1>1. ASSUME NEW s \in circle, session[s].task \in Attempts
      PROVE  \E t \in circle \ {s}, p \in Periods, d \in 1..MaxDay :
               /\ <<p, "warning">> \in session[t].locks /\ p \in OfDay(d)
               /\ \A k \in session[s].locks : k[1] = PeriodFor("daily", d)
               /\ MonthKeys(session[s].locks) = {}
  <2>1. PICK t \in circle \ {s}, lock \in Wants(s) : lock \in session[t].locks
    OBVIOUS
  <2>2. PICK p \in Periods : /\ lock = <<p, "warning">>
                             /\ session[s].todo # <<>> /\ Head(session[s].todo) = Item(p)
    BY <1>1, <2>1, Waits
  <2>3. MonthKeys(session[s].locks) = {}
    BY <1>1, <2>1, Waits
  <2>4. PICK d \in 1..MaxDay :
          /\ \A i \in DOMAIN session[s].todo : \E q \in OfDay(d) : session[s].todo[i] = Item(q)
          /\ \A k \in session[s].locks : k[1] \in OfDay(d)
    BY <1>1 DEF OrderInv, EvaluatorOrder
  <2>5. p \in OfDay(d)
    <3>1. 1 \in DOMAIN session[s].todo /\ Head(session[s].todo) = session[s].todo[1]
      BY <2>2, SessionFields, Tails DEF BudgetInv
    <3>2. PICK q \in OfDay(d) : session[s].todo[1] = Item(q)
      BY <2>4, <3>1
    <3>3. p = q
      BY <2>2, <3>1, <3>2 DEF Item
    <3>. QED  BY <3>3
  <2>6. \A k \in session[s].locks : k[1] = PeriodFor("daily", d)
    <3>. SUFFICES ASSUME NEW k \in session[s].locks, k[1] = PeriodFor("monthly", d)
                  PROVE  FALSE
      BY <2>4 DEF OfDay
    <3>1. k[2] # "cursor"
      <4>1. k \in AlertKeys \cup {CursorLock(scope) : scope \in Scopes}
        BY SessionFields DEF BudgetInv
      <4>2. k \notin {CursorLock(scope) : scope \in Scopes}
        BY <1>1 DEF OrderInv, EvaluatorOrder
      <4>. QED  BY <4>1, <4>2 DEF AlertKeys, Thresholds
    <3>. QED  BY <2>3, <3>1 DEF MonthKeys, PeriodFor
  <2>. QED  BY <2>1, <2>2, <2>3, <2>5, <2>6
\* A reconciler that holds locks is in the circle.
<1>2. ASSUME NEW s \in circle, NEW t \in circle \ {s}, NEW lock \in Wants(s), lock \in session[t].locks,
             session[t].task # "reconcile"
      PROVE  session[t].task \in Attempts
  BY <1>2, Waits
<1>3. \E r \in circle : session[r].task = "reconcile" /\ session[r].locks # {}
  <2>1. PICK s \in circle : TRUE
    OBVIOUS
  <2>2. PICK t \in circle \ {s}, lock \in Wants(s) : lock \in session[t].locks
    BY <2>1
  <2>. SUFFICES ASSUME session[t].task # "reconcile" PROVE \E r \in circle :
                  session[r].task = "reconcile" /\ session[r].locks # {}
    BY <2>2
  <2>3. session[t].task \in Attempts
    BY <1>2, <2>2
  <2>4. PICK u \in circle \ {t}, p \in Periods, d \in 1..MaxDay :
          /\ <<p, "warning">> \in session[u].locks /\ p \in OfDay(d)
          /\ \A k \in session[t].locks : k[1] = PeriodFor("daily", d)
          /\ MonthKeys(session[t].locks) = {}
    BY <1>1, <2>3
  <2>. SUFFICES ASSUME session[u].task # "reconcile" PROVE FALSE
    BY <2>4
  <2>5. session[u].task \in Attempts
    BY <2>4, SessionFields, IdleRow DEF BudgetInv, SessionInv
  <2>6. p = PeriodFor("daily", d)
    <3>1. MonthKeys(session[u].locks) = {}
      BY <1>1, <2>5
    <3>. QED  BY <2>4, <3>1 DEF MonthKeys, OfDay, PeriodFor
  <2>7. \E k \in session[t].locks : k \in AlertKeys
    <3>1. lock \in AlertKeys \cup {CursorLock(scope) : scope \in Scopes}
      BY <2>2, SessionFields DEF BudgetInv
    <3>. QED  BY <2>2, <2>3, <3>1 DEF OrderInv, EvaluatorOrder
  <2>8. PICK h \in Thresholds : <<p, h>> \in session[t].locks
    BY <2>4, <2>6, <2>7 DEF AlertKeys
  <2>9. <<p, "warning">> \in session[t].locks
    BY <2>8, FirstLock
  <2>. QED  BY <2>4, <2>9 DEF BudgetInv, LockInv
<1>4. PICK r \in circle : session[r].task = "reconcile" /\ session[r].locks # {}
  BY <1>3
<1>5. \A t \in Sessions \ {r} : session[t].task = "reconcile" => session[t].locks = {}
  BY <1>4 DEF OrderInv, ReconcilerOrder, BudgetInv, LockInv
\* It waits for an evaluator of a day, which waits for it at the month.
<1>6. PICK v \in circle \ {r}, p \in Periods :
        /\ <<p, "warning">> \in session[v].locks
        /\ session[r].todo # <<>> /\ Head(session[r].todo) = Item(p)
  <2>1. PICK v \in circle \ {r}, lock \in Wants(r) : lock \in session[v].locks
    BY <1>4
  <2>2. \E p \in Periods : /\ lock = <<p, "warning">>
                           /\ session[r].todo # <<>> /\ Head(session[r].todo) = Item(p)
    BY <1>4, <2>1, Waits
  <2>. QED  BY <2>1, <2>2
<1>7. session[v].task \in Attempts
  BY <1>5, <1>6, SessionFields, IdleRow DEF BudgetInv, SessionInv
<1>8. PICK x \in circle \ {v}, q \in Periods, d \in 1..MaxDay :
        /\ <<q, "warning">> \in session[x].locks /\ q \in OfDay(d)
        /\ \A k \in session[v].locks : k[1] = PeriodFor("daily", d)
  BY <1>1, <1>7
<1>9. p = PeriodFor("daily", d)
  BY <1>6, <1>8
<1>10. q = PeriodFor("monthly", d)
  BY <1>6, <1>8, <1>9 DEF OfDay, BudgetInv, LockInv
<1>11. <<q, "warning">> \in MonthKeys(session[x].locks)
  BY <1>8, <1>10 DEF MonthKeys, PeriodFor
<1>12. x = r
  <2>1. session[x].task \in Attempts \cup {"reconcile"}
    BY <1>8, SessionFields, IdleRow DEF BudgetInv, SessionInv
  <2>2. session[x].task \notin Attempts
    BY <1>1, <1>11
  <2>. QED  BY <1>5, <1>8, <2>1, <2>2
<1>13. /\ 1 \in DOMAIN session[r].todo /\ session[r].todo[1] = Item(p)
  BY <1>6, SessionFields, Tails DEF BudgetInv
<1>14. IsDaily(session[r].todo[1]) /\ session[r].todo[1].period.n = d
  BY <1>9, <1>13 DEF IsDaily, Item, PeriodFor
<1>15. q.n # MonthOf(d)
  BY <1>4, <1>11, <1>12, <1>13, <1>14 DEF OrderInv, ReconcilerOrder, InOrder
<1>. QED  BY <1>10, <1>15 DEF PeriodFor
\* A period that is read, and maybe locked for a threshold, and maybe done with.
LEMMA OrderAdvances ==
  ASSUME NEW todo \in Seq(Work), todo # <<>>, NEW p \in Periods, Head(todo) = Item(p),
         NEW locks, NEW now, NEW t \in Thresholds, NEW more \in SUBSET {<<p, t>>},
         InOrder(todo, locks, now)
  PROVE  InOrder(todo, locks \cup more, now) /\ InOrder(Tail(todo), locks \cup more, now)
<1>1. /\ 1 \in DOMAIN todo /\ todo[1] = Item(p) /\ DOMAIN todo = 1..Len(todo)
      /\ \A i \in DOMAIN Tail(todo) : i + 1 \in DOMAIN todo /\ Tail(todo)[i] = todo[i + 1]
      /\ DOMAIN todo \subseteq Nat /\ DOMAIN Tail(todo) \subseteq Nat
  <2>1. Tail(todo) \in Seq(Work)
    BY Tails
  <2>. QED  BY <2>1, Tails, LenProperties
<1>2. todo[1] # CursorItem("daily") /\ todo[1] # CursorItem("monthly")
  BY <1>1 DEF Item, CursorItem
<1>3. \A i \in DOMAIN todo : todo[i] # CursorItem("daily")
  BY <1>1, <1>2 DEF InOrder
<1>4. ASSUME NEW j \in DOMAIN todo, IsDaily(todo[j]), NEW k \in MonthKeys(locks \cup more)
      PROVE  k[1].n # MonthOf(todo[j].period.n)
  <2>1. CASE k \in MonthKeys(locks)
    BY <1>4, <2>1 DEF InOrder
  <2>2. CASE k \notin MonthKeys(locks)
    <3>1. k = <<p, t>> /\ p.scope = "monthly"
      BY <1>4, <2>2 DEF MonthKeys
    <3>2. IsMonthly(todo[1]) /\ todo[1].period = p
      BY <1>1, <3>1 DEF IsMonthly, Item
    <3>3. j # 1
      BY <1>4, <3>2 DEF IsDaily, IsMonthly
    <3>. QED  BY <1>1, <1>4, <3>1, <3>2, <3>3 DEF InOrder
  <2>. QED  BY <2>1, <2>2
<1>5. InOrder(todo, locks \cup more, now)
  BY <1>3, <1>4 DEF InOrder
<1>6. ASSUME NEW i \in DOMAIN Tail(todo), NEW j \in DOMAIN Tail(todo), i < j, IsDaily(Tail(todo)[j])
      PROVE  /\ IsMonthly(Tail(todo)[i]) => Tail(todo)[i].period.n # MonthOf(Tail(todo)[j].period.n)
             /\ Tail(todo)[i] = CursorItem("monthly") => Tail(todo)[j].period.n = now
  <2>1. i + 1 < j + 1
    BY <1>1, <1>6
  <2>. QED  BY <1>1, <1>6, <2>1 DEF InOrder
<1>7. InOrder(Tail(todo), locks \cup more, now)
  BY <1>1, <1>3, <1>4, <1>6 DEF InOrder
<1>. QED  BY <1>5, <1>7

\* A cursor that is taken puts periods of its scope before the rest, days before any
\* lock of a month and months before the current day only.
LEMMA OrderTakesCursor ==
  ASSUME NEW todo \in Seq(Work), todo # <<>>, NEW scope \in Scopes, Head(todo) = CursorItem(scope),
         NEW locks, NEW now \in 1..MaxDay, InOrder(todo, locks, now),
         NEW count \in Nat, NEW f \in [1..count -> Work],
         \A i \in 1..count : \E n \in Nat : /\ n < PeriodFor(scope, now).n
                                            /\ f[i] = Item([scope |-> scope, n |-> n])
  PROVE  InOrder(f \o Tail(todo), locks \cup {CursorLock(scope)}, now)
<1>. DEFINE q == f \o Tail(todo)
            held == locks \cup {CursorLock(scope)}
<1>1. /\ 1 \in DOMAIN todo /\ todo[1] = CursorItem(scope) /\ Tail(todo) \in Seq(Work)
      /\ \A i \in DOMAIN Tail(todo) : i + 1 \in DOMAIN todo /\ Tail(todo)[i] = todo[i + 1]
      /\ DOMAIN todo = 1..Len(todo)
  BY Tails, LenProperties
<1>2. /\ \A i \in 1..count : q[i] = f[i]
      /\ \A i \in DOMAIN Tail(todo) : q[count + i] = Tail(todo)[i]
      /\ DOMAIN q = 1..(count + Len(Tail(todo))) /\ DOMAIN Tail(todo) = 1..Len(Tail(todo))
      /\ Len(Tail(todo)) \in Nat
  <2>. DEFINE rest == Tail(todo)
  <2>1. rest \in Seq(Work) /\ q = f \o rest
    BY <1>1
  <2>. HIDE DEF rest, q
  <2>2. /\ \A i \in 1..count : q[i] = f[i]
        /\ \A i \in DOMAIN rest : q[count + i] = rest[i]
        /\ DOMAIN q = 1..(count + Len(rest)) /\ DOMAIN rest = 1..Len(rest)
        /\ Len(rest) \in Nat
    BY <2>1, Prefixed
  <2>. QED  BY <2>2 DEF rest
<1>3. ASSUME NEW i \in DOMAIN q
      PROVE  \/ i <= count /\ \E n \in Nat : /\ n < PeriodFor(scope, now).n
                                             /\ q[i] = Item([scope |-> scope, n |-> n])
             \/ i > count /\ i - count + 1 \in DOMAIN todo /\ i - count + 1 > 1
                          /\ q[i] = todo[i - count + 1]
  <2>1. i \in Nat
    BY <1>2
  <2>2. CASE i <= count
    <3>1. i \in 1..count
      BY <1>2, <2>2
    <3>. QED  BY <1>2, <2>2, <3>1
  <2>3. CASE i > count
    <3>1. i - count \in DOMAIN Tail(todo) /\ count + (i - count) = i
      BY <1>2, <2>1, <2>3
    <3>2. i - count > 0
      BY <2>1, <2>3
    <3>. QED  BY <1>1, <1>2, <2>1, <2>3, <3>1, <3>2
  <2>. QED  BY <2>1, <2>2, <2>3
<1>4. \A i \in DOMAIN q : i \in Nat
  BY <1>2
<1>. HIDE DEF q
<1>5. \A i \in DOMAIN q : q[i] # CursorItem("daily")
  BY <1>1, <1>3 DEF InOrder, Item, CursorItem
<1>6. ASSUME NEW i \in DOMAIN q, NEW j \in DOMAIN q, i < j, IsDaily(q[j])
      PROVE  /\ IsMonthly(q[i]) => q[i].period.n # MonthOf(q[j].period.n)
             /\ q[i] = CursorItem("monthly") => q[j].period.n = now
  <2>1. CASE i > count
    <3>. DEFINE a == i - count + 1
                b == j - count + 1
    <3>1. j > count /\ a < b
      BY <1>4, <1>6, <2>1
    <3>2. a \in DOMAIN todo /\ b \in DOMAIN todo /\ q[i] = todo[a] /\ q[j] = todo[b]
      BY <1>3, <1>4, <2>1, <3>1
    <3>. HIDE DEF a, b
    <3>. QED  BY <1>6, <3>1, <3>2 DEF InOrder
  <2>2. CASE i <= count
    <3>1. PICK n \in Nat : n < PeriodFor(scope, now).n /\ q[i] = Item([scope |-> scope, n |-> n])
      BY <1>3, <1>4, <2>2
    <3>2. q[i] # CursorItem("monthly")
      BY <3>1 DEF Item, CursorItem
    <3>. SUFFICES ASSUME IsMonthly(q[i])
                  PROVE  q[i].period.n # MonthOf(q[j].period.n)
      BY <3>2
    <3>3. scope = "monthly" /\ q[i].period.n = n
      BY <3>1 DEF IsMonthly, Item
    <3>4. ~ (j <= count)
      BY <1>3, <1>4, <1>6, <3>3 DEF IsDaily, Item
    <3>. DEFINE b == j - count + 1
    <3>5. b \in DOMAIN todo /\ 1 < b /\ q[j] = todo[b]
      BY <1>3, <1>4, <3>4
    <3>. HIDE DEF b
    <3>6. q[j].period.n = now
      BY <1>1, <1>6, <3>3, <3>5 DEF InOrder
    <3>7. PeriodFor("monthly", now).n = MonthOf(now) /\ MonthOf(now) \in Nat
      BY Calendar DEF PeriodFor, Scopes
    <3>. QED  BY <3>1, <3>3, <3>6, <3>7
  <2>. QED  BY <1>4, <2>1, <2>2
<1>7. ASSUME NEW j \in DOMAIN q, IsDaily(q[j]), NEW k \in MonthKeys(held)
      PROVE  k[1].n # MonthOf(q[j].period.n)
  <2>1. k \in MonthKeys(locks)
    BY <1>7 DEF MonthKeys, CursorLock
  <2>2. locks # {}
    BY <2>1 DEF MonthKeys
  <2>3. scope = "monthly"
    BY <1>1, <2>2 DEF InOrder, Scopes
  <2>4. ~ (j <= count)
    BY <1>3, <1>4, <1>7, <2>3 DEF IsDaily, Item
  <2>5. j - count + 1 \in DOMAIN todo /\ q[j] = todo[j - count + 1]
    BY <1>3, <1>4, <2>4
  <2>. QED  BY <1>7, <2>1, <2>5 DEF InOrder
<1>. QED  BY <1>5, <1>6, <1>7 DEF InOrder, q
\* A step of one session concerns that session.
LEMMA OrderOfOne ==
  ASSUME OrderInv, NEW s \in Sessions, \A r \in Sessions \ {s} : session'[r] = session[r],
         (ThresholdOrder(s) /\ EvaluatorOrder(s) /\ ReconcilerOrder(s))'
  PROVE  OrderInv'
<1>. SUFFICES ASSUME NEW r \in Sessions \ {s}
              PROVE  (ThresholdOrder(r) /\ EvaluatorOrder(r) /\ ReconcilerOrder(r))'
  BY DEF OrderInv
<1>1. session'[r] = session[r] /\ ThresholdOrder(r) /\ EvaluatorOrder(r) /\ ReconcilerOrder(r)
  BY DEF OrderInv
<1>2. ThresholdOrder(r)'
  BY <1>1 DEF ThresholdOrder
<1>3. EvaluatorOrder(r)'
  BY <1>1 DEF EvaluatorOrder
<1>4. ReconcilerOrder(r)'
  BY <1>1 DEF ReconcilerOrder
<1>. QED  BY <1>2, <1>3, <1>4

\* A session that is idle, or has only begun, has no locks.
LEMMA OrderWithoutLocks ==
  ASSUME OrderInv, BudgetInv', NEW s \in Sessions, session'[s].locks = {}, session'[s].crossed = <<>>,
         \A r \in Sessions \ {s} : session'[r] = session[r],
         \/ session'[s].task = None
         \/ \E d \in 1..MaxDay : session'[s].task \in Attempts /\ session'[s].todo = CurrentPeriods(d)
         \/ \E d \in 1..MaxDay : /\ session'[s].task = "reconcile" /\ session'[s].now = d
                                 /\ session'[s].todo = <<CursorItem("daily"), CursorItem("monthly")>>
                                                       \o CurrentPeriods(d)
  PROVE  OrderInv'
<1>. SUFFICES (ThresholdOrder(s) /\ EvaluatorOrder(s) /\ ReconcilerOrder(s))'
  BY OrderOfOne
<1>1. ThresholdOrder(s)' /\ MonthKeys(session'[s].locks) = {}
  BY DEF ThresholdOrder, MonthKeys
<1>2. CASE session'[s].task = None
  BY <1>1, <1>2, TasksAssumption DEF EvaluatorOrder, ReconcilerOrder
<1>3. ASSUME NEW d \in 1..MaxDay, session'[s].task \in Attempts, session'[s].todo = CurrentPeriods(d)
      PROVE  EvaluatorOrder(s)' /\ ReconcilerOrder(s)'
  <2>. DEFINE q == CurrentPeriods(d)
  <2>1. /\ DOMAIN q = 1..2 /\ q[1] = Item(PeriodFor("daily", d)) /\ q[2] = Item(PeriodFor("monthly", d))
        /\ Len(q) = 2
    BY CurrentPeriodsTyped DEF CurrentPeriods
  <2>. HIDE DEF q
  <2>2. \A i \in DOMAIN q : i = 1 \/ i = 2
    BY <2>1
  <2>3. \A i \in DOMAIN q : IsMonthly(q[i]) => i = Len(q)
    BY <2>1, <2>2 DEF IsMonthly, Item, PeriodFor
  <2>4. \A i \in DOMAIN q : \E p \in OfDay(d) : q[i] = Item(p)
    BY <2>1, <2>2 DEF OfDay
  <2>5. session'[s].todo = q
    BY <1>3 DEF q
  <2>6. EvaluatorOrder(s)'
    BY <1>1, <2>3, <2>4, <2>5 DEF EvaluatorOrder
  <2>. QED  BY <1>3, <2>6, TasksAssumption DEF ReconcilerOrder
<1>4. ASSUME NEW d \in 1..MaxDay, session'[s].task = "reconcile", session'[s].now = d,
             session'[s].todo = <<CursorItem("daily"), CursorItem("monthly")>> \o CurrentPeriods(d)
      PROVE  EvaluatorOrder(s)' /\ ReconcilerOrder(s)'
  <2>. DEFINE c == CurrentPeriods(d)
              q == <<CursorItem("daily"), CursorItem("monthly")>> \o c
  <2>1. /\ Len(q) = 4 /\ q[1] = CursorItem("daily") /\ q[2] = CursorItem("monthly")
        /\ q[3] = Item(PeriodFor("daily", d)) /\ q[4] = Item(PeriodFor("monthly", d))
        /\ DOMAIN q = 1..4 /\ q # <<>> /\ Head(q) = q[1]
    BY DEF CurrentPeriods, Item
  <2>. HIDE DEF q
  <2>2. \A i \in DOMAIN q : i = 1 \/ i = 2 \/ i = 3 \/ i = 4
    BY <2>1
  <2>3. \A i \in DOMAIN q : q[i] = CursorItem("daily") => i = 1
    BY <2>1, <2>2 DEF CursorItem, Item
  <2>4. \A j \in DOMAIN q : IsDaily(q[j]) => j = 3 /\ q[j].period.n = d
    BY <2>1, <2>2 DEF IsDaily, CursorItem, Item, PeriodFor
  <2>5. \A i \in DOMAIN q : IsMonthly(q[i]) => i = 4
    BY <2>1, <2>2 DEF IsMonthly, CursorItem, Item, PeriodFor
  <2>6. InOrder(q, {}, d)
    BY <2>3, <2>4, <2>5 DEF InOrder, MonthKeys
  <2>7. session'[s].todo = q
    BY <1>4 DEF q
  <2>8. ReconcilerOrder(s)'
    BY <1>4, <2>1, <2>6, <2>7 DEF ReconcilerOrder
  <2>. QED  BY <1>4, <2>8, TasksAssumption DEF EvaluatorOrder
<1>. QED  BY <1>1, <1>2, <1>3, <1>4

\* The step of a session in its first period.
LEMMA OrderInPeriod ==
  ASSUME BudgetInv, OrderInv, NEW s \in Sessions, ReadSpend(s) \/ InsertThresholdOnce(s)
  PROVE  OrderInv'
<1>. DEFINE row == session[s]
            p == Head(row.todo).period
            h == IF row.reading THEN "warning" ELSE Head(row.crossed)
            more == IF row.reading THEN {} ELSE {<<p, h>>}
            new == session'[s]
<1>1. /\ row.todo # <<>> /\ row.todo \in Seq(Work) /\ row \in SessionRow
      /\ session \in [Sessions -> SessionRow]
      /\ row.crossed \in Crossings /\ (row.reading <=> row.crossed = <<>>)
  BY SessionFields DEF BudgetInv, SessionInv, TypeOK, ReadSpend, InsertThresholdOnce
<1>2. p \in Periods /\ Head(row.todo) = Item(p) /\ Head(row.todo).kind = "period"
  BY <1>1, FirstItem DEF BudgetInv, SessionInv, ReadSpend, InsertThresholdOnce
<1>3. /\ \A r \in Sessions \ {s} : session'[r] = session[r]
      /\ new.task = row.task /\ new.now = row.now /\ new.locks = row.locks \cup more
      /\ h \in Thresholds
      /\ \/ row.reading /\ new.crossed \in {<<>>, <<"warning">>, <<"warning", "exceeded">>}
         \/ ~ row.reading /\ row.crossed # <<>> /\ new.crossed = Tail(row.crossed)
      /\ \/ new.todo = row.todo /\ (row.reading \/ new.crossed # <<>>)
         \/ new.todo = Tail(row.todo) /\ new.crossed = <<>>
  <2>1. CASE ReadSpend(s)
    <3>. DEFINE crossed == ThresholdsCrossed(Spend(p), BudgetFor(p.scope))
    <3>1. crossed \in {<<>>, <<"warning">>, <<"warning", "exceeded">>}
      BY DEF ThresholdsCrossed
    <3>2. /\ row.reading
          /\ session' = [session EXCEPT ![s].reading = (crossed = <<>>), ![s].crossed = crossed,
                           ![s].todo = IF crossed = <<>> THEN Tail(@) ELSE @]
      BY <2>1 DEF ReadSpend
    <3>. HIDE DEF crossed, p
    <3>. QED  BY <1>1, <3>1, <3>2 DEF SessionRow, Thresholds
  <2>2. CASE InsertThresholdOnce(s)
    <3>. DEFINE key == <<p, Head(row.crossed)>>
                last == Len(row.crossed) = 1
    <3>1. /\ ~ row.reading
          /\ session' = [session EXCEPT
               ![s].locks = @ \cup {key},
               ![s].added = IF alerts[key] = 0 THEN @ \cup {key} ELSE @,
               ![s].crossed = Tail(@), ![s].reading = last,
               ![s].todo = IF last THEN Tail(@) ELSE @]
      BY <2>2 DEF InsertThresholdOnce
    <3>2. Head(row.crossed) \in Thresholds /\ (Tail(row.crossed) = <<>> <=> last)
      BY <1>1, <3>1, CrossingTails
    <3>3. more = {key}
      BY <3>1
    <3>. HIDE DEF key, last, more
    <3>. QED  BY <1>1, <3>1, <3>2, <3>3 DEF SessionRow
  <2>. QED  BY <2>1, <2>2
<1>4. more \in SUBSET {<<p, h>>}
  OBVIOUS
<1>5. ~ row.reading /\ h = "exceeded" => row.crossed = <<"exceeded">>
  BY <1>1 DEF Crossings
<1>6. new.crossed = <<"exceeded">> =>
        /\ row.crossed = <<"warning", "exceeded">> /\ ~ row.reading /\ h = "warning"
        /\ new.todo = row.todo
  <2>1. <<"exceeded">> \notin {<<>>, <<"warning">>, <<"warning", "exceeded">>}
    OBVIOUS
  <2>2. ~ row.reading /\ new.crossed = <<"exceeded">> => row.crossed = <<"warning", "exceeded">>
    BY <1>1, <1>3, CrossingTails
  <2>. QED  BY <1>3, <2>1, <2>2
<1>7. ThresholdOrder(s) /\ EvaluatorOrder(s) /\ ReconcilerOrder(s)
  BY DEF OrderInv
<1>8. ~ row.reading => more = {<<p, h>>}
  OBVIOUS
<1>9. row.reading => more = {}
  OBVIOUS
<1>10. \A k \in more : k = <<p, h>>
  OBVIOUS
<1>11. row.crossed = <<"exceeded">> => <<p, "warning">> \in row.locks
  BY <1>7 DEF ThresholdOrder
<1>. HIDE DEF p, h, more, new
<1>12. ThresholdOrder(s)'
  <2>1. ASSUME NEW q \in Periods, <<q, "exceeded">> \in new.locks
        PROVE  <<q, "warning">> \in new.locks
    <3>1. CASE <<q, "exceeded">> \in row.locks
      BY <1>3, <1>7, <3>1 DEF ThresholdOrder
    <3>2. CASE <<q, "exceeded">> \in more
      BY <1>3, <1>5, <1>9, <1>10, <1>11, <3>2
    <3>. QED  BY <1>3, <2>1, <3>1, <3>2
  <2>2. ASSUME new.crossed = <<"exceeded">>
        PROVE  <<Head(new.todo).period, "warning">> \in new.locks
    <3>1. Head(new.todo).period = p
      BY <1>6, <2>2 DEF p
    <3>. QED  BY <1>3, <1>6, <1>8, <2>2, <3>1
  <2>. QED  BY <2>1, <2>2 DEF ThresholdOrder, new
<1>13. /\ \A i \in DOMAIN Tail(row.todo) : i + 1 \in DOMAIN row.todo /\ Tail(row.todo)[i] = row.todo[i + 1]
       /\ 1 \in DOMAIN row.todo /\ Head(row.todo) = row.todo[1]
       /\ DOMAIN row.todo = 1..Len(row.todo) /\ Len(row.todo) \in Nat
       /\ Tail(row.todo) \in Seq(Work) /\ Len(Tail(row.todo)) = Len(row.todo) - 1
  BY <1>1, Tails, LenProperties, HeadTailProperties
<1>14. EvaluatorOrder(s)'
  <2>. SUFFICES ASSUME row.task \in Attempts
                PROVE  /\ \A scope \in Scopes : CursorLock(scope) \notin new.locks
                       /\ \E d \in 1..MaxDay :
                            /\ \A i \in DOMAIN new.todo : \E q \in OfDay(d) : new.todo[i] = Item(q)
                            /\ \A k \in new.locks : k[1] \in OfDay(d)
                       /\ \A i \in DOMAIN new.todo : IsMonthly(new.todo[i]) => i = Len(new.todo)
                       /\ MonthKeys(new.locks) # {} =>
                            new.todo = <<>> \/ (new.crossed = <<"exceeded">> /\ IsMonthly(Head(new.todo)))
    BY <1>3 DEF EvaluatorOrder, new
  <2>1. \A scope \in Scopes : CursorLock(scope) \notin new.locks
    BY <1>3, <1>7, <1>10 DEF EvaluatorOrder, CursorLock, Thresholds
  <2>2. PICK d \in 1..MaxDay : /\ \A i \in DOMAIN row.todo : \E q \in OfDay(d) : row.todo[i] = Item(q)
                               /\ \A k \in row.locks : k[1] \in OfDay(d)
    BY <1>7 DEF EvaluatorOrder
  <2>3. p \in OfDay(d)
    <3>1. PICK q \in OfDay(d) : row.todo[1] = Item(q)
      BY <1>13, <2>2
    <3>2. p = q
      BY <1>2, <1>13, <3>1 DEF Item
    <3>. QED  BY <3>1, <3>2
  <2>4. /\ \A i \in DOMAIN new.todo : \E q \in OfDay(d) : new.todo[i] = Item(q)
        /\ \A k \in new.locks : k[1] \in OfDay(d)
    <3>1. \A i \in DOMAIN new.todo : \E q \in OfDay(d) : new.todo[i] = Item(q)
      <4>1. CASE new.todo = row.todo
        BY <2>2, <4>1
      <4>2. CASE new.todo = Tail(row.todo)
        BY <1>13, <2>2, <4>2
      <4>. QED  BY <1>3, <4>1, <4>2
    <3>2. ASSUME NEW k \in more
          PROVE  k[1] \in OfDay(d)
      <4>1. k = <<p, h>>
        BY <1>10
      <4>. QED  BY <2>3, <4>1
    <3>. QED  BY <1>3, <2>2, <3>1, <3>2
  <2>5. \A i \in DOMAIN row.todo : IsMonthly(row.todo[i]) => i = Len(row.todo)
    BY <1>7 DEF EvaluatorOrder
  <2>6. \A i \in DOMAIN new.todo : IsMonthly(new.todo[i]) => i = Len(new.todo)
    <3>1. CASE new.todo = row.todo
      BY <2>5, <3>1
    <3>2. CASE new.todo = Tail(row.todo)
      <4>1. ASSUME NEW i \in DOMAIN Tail(row.todo), IsMonthly(Tail(row.todo)[i])
            PROVE  i = Len(Tail(row.todo))
        <5>1. i + 1 = Len(row.todo) /\ i \in Nat
          BY <1>13, <2>5, <4>1, LenProperties
        <5>. QED  BY <1>13, <5>1
      <4>. QED  BY <3>2, <4>1
    <3>. QED  BY <1>3, <3>1, <3>2
  <2>7. ASSUME MonthKeys(new.locks) # {}
        PROVE  new.todo = <<>> \/ (new.crossed = <<"exceeded">> /\ IsMonthly(Head(new.todo)))
    <3>1. ~ row.reading
      <4>. SUFFICES ASSUME row.reading PROVE FALSE
        OBVIOUS
      <4>1. MonthKeys(row.locks) # {}
        BY <1>3, <1>9, <2>7
      <4>2. row.crossed = <<>> /\ <<>> # <<"exceeded">>
        BY <1>1
      <4>. QED  BY <1>1, <1>7, <4>1, <4>2 DEF EvaluatorOrder
    <3>2. IsMonthly(Head(row.todo))
      <4>1. CASE MonthKeys(row.locks) # {}
        BY <1>1, <1>7, <4>1 DEF EvaluatorOrder
      <4>2. CASE MonthKeys(row.locks) = {}
        <5>1. p.scope = "monthly"
          BY <1>3, <1>10, <2>7, <4>2 DEF MonthKeys
        <5>. QED  BY <1>2, <5>1 DEF IsMonthly, Item
      <4>. QED  BY <4>1, <4>2
    <3>3. Len(row.todo) = 1
      BY <1>13, <2>5, <3>2
    <3>4. CASE new.todo = Tail(row.todo)
      <4>1. new.todo \in Seq(Work) /\ Len(new.todo) = 0
        BY <1>13, <3>3, <3>4
      <4>2. new.todo # <<>> => Len(new.todo) \in Nat \ {0}
        BY <4>1, EmptySeq
      <4>3. new.todo = <<>>
        BY <4>1, <4>2
      <4>. QED  BY <4>3
    <3>5. CASE new.todo = row.todo /\ new.crossed # <<>>
      <4>1. Tail(row.crossed) = <<"exceeded">>
        BY <1>1, <1>3, <3>1, <3>5, CrossingTails
      <4>. QED  BY <1>3, <3>1, <3>2, <3>5, <4>1
    <3>. QED  BY <1>3, <3>1, <3>4, <3>5
  <2>. QED  BY <2>1, <2>4, <2>6, <2>7
<1>15. ReconcilerOrder(s)'
  <2>. SUFFICES ASSUME row.task = "reconcile"
                PROVE  /\ CursorLock("daily") \in new.locks
                       /\ InOrder(new.todo, new.locks, row.now)
    BY <1>3 DEF ReconcilerOrder, new
  <2>1. CursorLock("daily") \in row.locks
    BY <1>2, <1>7 DEF ReconcilerOrder, CursorItem
  <2>2. InOrder(row.todo, row.locks, row.now)
    BY <1>7 DEF ReconcilerOrder
  <2>3. InOrder(row.todo, row.locks \cup more, row.now) /\ InOrder(Tail(row.todo), row.locks \cup more, row.now)
    BY <1>1, <1>2, <1>3, <1>4, <2>2, OrderAdvances
  <2>. QED  BY <1>3, <2>1, <2>3
<1>. QED  BY <1>3, <1>12, <1>14, <1>15, OrderOfOne
LEMMA OrderAtCursor ==
  ASSUME BudgetInv, BudgetInv', OrderInv, NEW s \in Sessions, LockCursor(s)
  PROVE  OrderInv'
<1>. DEFINE row == session[s]
            new == session'[s]
            scope == Head(row.todo).scope
            from == IF cursor[scope] # 0 THEN cursor[scope]
                    ELSE InitialCursorStart(scope, row.now)
            last == PeriodFor(scope, row.now).n - 1
            count == Cardinality({n \in 1..last : n >= from /\ n < from + MaxPeriods})
            drained == [i \in 1..count |-> Item([scope |-> scope, n |-> from + i - 1])]
<1>1. /\ row.todo # <<>> /\ Head(row.todo).kind = "cursor"
      /\ session' = [session EXCEPT
           ![s].locks = @ \cup {CursorLock(scope)},
           ![s].moved = [@ EXCEPT ![scope] = from + count],
           ![s].todo = drained \o Tail(@)]
      /\ UNCHANGED day
  BY DEF LockCursor, Item, Complete
<1>2. /\ row \in SessionRow /\ row.todo \in Seq(Work) /\ day \in 1..MaxDay
      /\ cursor \in [Scopes -> Nat] /\ row.now \in 0..MaxDay
      /\ session \in [Sessions -> SessionRow]
  BY SessionFields DEF BudgetInv, TypeOK, LedgerTypeOK
<1>3. scope \in Scopes /\ Head(row.todo) = CursorItem(scope)
  <2>1. Head(row.todo) \in Work
    BY <1>1, <1>2, Tails
  <2>. QED  BY <1>1, <2>1 DEF Work, CursorItem
<1>4. row.task = "reconcile" /\ row.crossed = <<>>
  <2>1. row.task \notin Attempts
    <3>1. 1 \in DOMAIN row.todo /\ row.todo[1].kind = "cursor"
      BY <1>1, <1>2, Tails
    <3>. QED  BY <3>1 DEF BudgetInv, SessionInv
  <2>2. row.task # None
    BY <1>1, IdleRow DEF BudgetInv, SessionInv
  <2>. QED  BY <1>1, <1>2, <2>1, <2>2 DEF BudgetInv, SessionInv, SessionRow
<1>5. row.now \in 1..MaxDay /\ row.now \in 1..day
  BY <1>2, <1>4 DEF BudgetInv, CallerInv
<1>6. from \in Nat \ {0} /\ last \in Nat /\ last + 1 = PeriodFor(scope, row.now).n
  <2>1. from \in Nat \ {0}
    <3>1. CASE cursor[scope] # 0
      BY <1>2, <1>3, <3>1
    <3>2. CASE cursor[scope] = 0
      BY <1>3, <1>5, <3>2, CursorStart
    <3>. QED  BY <3>1, <3>2
  <2>. HIDE DEF from, scope
  <2>. QED  BY <1>3, <1>5, <2>1, Calendar
<1>7. /\ ThresholdOrder(s) /\ InOrder(row.todo, row.locks, row.now)
      /\ scope = "monthly" => CursorLock("daily") \in row.locks
  BY <1>3, <1>4 DEF OrderInv, ReconcilerOrder, CursorItem
<1>. HIDE DEF from, last, scope
<1>8. count \in Nat /\ \A i \in 1..count : from + i - 1 \in 1..last
  BY <1>6, Drained
<1>. HIDE DEF count
<1>9. /\ drained \in [1..count -> Work]
      /\ \A i \in 1..count : \E n \in Nat : /\ n < PeriodFor(scope, row.now).n
                                            /\ drained[i] = Item([scope |-> scope, n |-> n])
  <2>1. \A n \in 1..last : [scope |-> scope, n |-> n] \in Periods /\ n \in Nat /\ n < PeriodFor(scope, row.now).n
    BY <1>3, <1>5, <1>6, Calendar
  <2>. QED  BY <1>8, <2>1 DEF Work, Item
<1>. HIDE DEF drained
<1>10. /\ \A r \in Sessions \ {s} : session'[r] = session[r]
       /\ new.task = "reconcile" /\ new.now = row.now /\ new.crossed = <<>>
       /\ new.locks = row.locks \cup {CursorLock(scope)} /\ new.todo = drained \o Tail(row.todo)
  BY <1>1, <1>2, <1>4 DEF SessionRow
<1>11. InOrder(new.todo, new.locks, new.now)
  <2>. DEFINE todo == row.todo
              locks == row.locks
              now == row.now
  <2>1. /\ todo \in Seq(Work) /\ todo # <<>> /\ Head(todo) = CursorItem(scope)
        /\ now \in 1..MaxDay /\ InOrder(todo, locks, now)
    BY <1>1, <1>2, <1>3, <1>5, <1>7
  <2>2. \A i \in 1..count : \E n \in Nat : /\ n < PeriodFor(scope, now).n
                                          /\ drained[i] = Item([scope |-> scope, n |-> n])
    BY <1>9
  <2>. HIDE DEF todo, locks, now
  <2>3. InOrder(drained \o Tail(todo), locks \cup {CursorLock(scope)}, now)
    BY <1>3, <1>8, <1>9, <2>1, <2>2, OrderTakesCursor
  <2>. QED  BY <1>10, <2>3 DEF todo, locks, now
<1>12. CursorLock("daily") \in new.locks
  BY <1>3, <1>7, <1>10 DEF Scopes
<1>13. ThresholdOrder(s)'
  <2>1. \A p \in Periods : <<p, "exceeded">> # CursorLock(scope)
    BY DEF CursorLock
  <2>. QED  BY <1>7, <1>10, <2>1 DEF ThresholdOrder
<1>14. EvaluatorOrder(s)' /\ ReconcilerOrder(s)'
  BY <1>10, <1>11, <1>12, TasksAssumption DEF EvaluatorOrder, ReconcilerOrder
<1>. QED  BY <1>10, <1>13, <1>14, OrderOfOne

LEMMA OrderNext ==
  ASSUME BudgetInv, BudgetInv', OrderInv, [Next]_vars
  PROVE  OrderInv'
<1>1. ASSUME UNCHANGED session
      PROVE  OrderInv'
  <2>. SUFFICES ASSUME NEW s \in Sessions
                PROVE  (ThresholdOrder(s) /\ EvaluatorOrder(s) /\ ReconcilerOrder(s))'
    BY DEF OrderInv
  <2>2. session'[s] = session[s]
    BY <1>1
  <2>3. ThresholdOrder(s)'
    BY <2>2 DEF OrderInv, ThresholdOrder
  <2>4. EvaluatorOrder(s)'
    <3>1. EvaluatorOrder(s)
      BY DEF OrderInv
    <3>. QED  BY <2>2, <3>1 DEF EvaluatorOrder
  <2>5. ReconcilerOrder(s)'
    BY <2>2 DEF OrderInv, ReconcilerOrder
  <2>. QED  BY <2>3, <2>4, <2>5
<1>2. ASSUME NEW s \in Sessions, Commit(s) \/ Crash(s)
      PROVE  OrderInv'
  <2>1. session' = [session EXCEPT ![s] = Idle] /\ session \in [Sessions -> SessionRow]
    BY <1>2 DEF Commit, Crash, BudgetInv, TypeOK
  <2>. QED  BY <2>1, IdleRow, OrderWithoutLocks
<1>3. ASSUME NEW s \in Sessions, session[s].task = None
      PROVE  session[s] = Idle /\ session \in [Sessions -> SessionRow]
  BY <1>3 DEF BudgetInv, SessionInv, TypeOK
<1>4. ASSUME NEW s \in Sessions, NEW a \in Attempts, EvaluateBudgetAttempt(s, a)
      PROVE  OrderInv'
  <2>. DEFINE q == CurrentPeriods(started[a])
  <2>1. /\ session[s].task = None /\ a \in messages
        /\ session' = [session EXCEPT ![s].task = a, ![s].todo = q]
    BY <1>4 DEF EvaluateBudgetAttempt
  <2>2. started[a] \in 1..MaxDay
    BY <2>1 DEF BudgetInv, CallerInv, TypeOK, LedgerTypeOK
  <2>3. session[s] = Idle /\ session \in [Sessions -> SessionRow]
    BY <1>3, <2>1
  <2>. HIDE DEF q
  <2>4. /\ session'[s].task = a /\ session'[s].todo = q /\ session'[s].locks = {}
        /\ session'[s].crossed = <<>> /\ \A r \in Sessions \ {s} : session'[r] = session[r]
    BY <2>1, <2>3, IdleRow DEF SessionRow
  <2>. QED  BY <2>2, <2>4, OrderWithoutLocks DEF q
<1>5. ASSUME NEW s \in Sessions, ReconcileBudgets(s)
      PROVE  OrderInv'
  <2>. DEFINE q == <<CursorItem("daily"), CursorItem("monthly")>> \o CurrentPeriods(day)
  <2>1. /\ session[s].task = None
        /\ session' = [session EXCEPT ![s].task = "reconcile", ![s].now = day, ![s].todo = q]
    BY <1>5 DEF ReconcileBudgets, CursorItem
  <2>2. day \in 1..MaxDay
    BY DEF BudgetInv, TypeOK, LedgerTypeOK
  <2>3. session[s] = Idle /\ session \in [Sessions -> SessionRow]
    BY <1>3, <2>1
  <2>. HIDE DEF q
  <2>4. /\ session'[s].task = "reconcile" /\ session'[s].now = day /\ session'[s].todo = q
        /\ session'[s].locks = {} /\ session'[s].crossed = <<>>
        /\ \A r \in Sessions \ {s} : session'[r] = session[r]
    BY <2>1, <2>3, IdleRow DEF SessionRow
  <2>. QED  BY <2>2, <2>4, OrderWithoutLocks DEF q
<1>6. ASSUME NEW s \in Sessions, ReadSpend(s) \/ InsertThresholdOnce(s) \/ LockCursor(s)
      PROVE  OrderInv'
  BY <1>6, OrderInPeriod, OrderAtCursor
<1>7. ASSUME NEW a \in Attempts, NEW c \in Costs \cup {None}, Finalize(a, c) \/ FinalizeAmbiguous(a, c)
      PROVE  UNCHANGED session
  BY <1>7 DEF Finalize, FinalizeAmbiguous
<1>8. ASSUME NEW a \in Attempts,
             Begin(a) \/ FinalizeFails(a) \/ Notify(a) \/ NotifyFails(a) \/ LoseMessage(a)
      PROVE  UNCHANGED session
  BY <1>8 DEF Begin, FinalizeFails, Notify, NotifyFails, LoseMessage
<1>9. SweepStaleUsage \/ Midnight \/ UNCHANGED vars => UNCHANGED session
  BY DEF SweepStaleUsage, Midnight, vars
<1>. QED  BY <1>1, <1>2, <1>4, <1>5, <1>6, <1>7, <1>8, <1>9 DEF Next, SessionStep

\* Evaluators and reconcilers never wait for each other in a circle.
THEOREM LocksOrdered == Spec => []NoLockCycle
<1>1. Init => OrderInv
  BY IdleRow, TasksAssumption DEF Init, OrderInv, ThresholdOrder, EvaluatorOrder, ReconcilerOrder
<1>2. BudgetInv /\ BudgetInv' /\ OrderInv /\ [Next]_vars => OrderInv'
  BY OrderNext
<1>3. BudgetInv /\ OrderInv => NoLockCycle
  BY NobodyInACircle
<1>. QED  BY <1>1, <1>2, <1>3, BudgetInvariance, PTL DEF Spec
=============================================================================
