SPECIFICATION Spec
CONSTANTS
  Attempts = {a1, a2}
  Sessions = {s1, s2}
  Costs = {1}
  MaxDay = 2
  DaysPerMonth = 1
  DailyBudget = 2
  MonthlyBudget = 2
  WarnPercent = 50
  MaxPeriods = 1
  None = None
SYMMETRY Symmetry
INVARIANTS
  AlertOnce
  AlertJustified
  DurableAlerts
  NothingForgotten
  NoLockCycle
CHECK_DEADLOCK FALSE
