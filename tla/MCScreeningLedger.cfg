SPECIFICATION Spec

CONSTANTS
  p1 = p1
  p2 = p2
  Requesters = {p1, p2}
  assess = assess
  triage = triage
  Keys = {assess, triage}
  sourceLock = sourceLock
  GlobalLock = GlobalLock
  Locks = {sourceLock, GlobalLock}
  LockOf <- MCLockOf
  r1 = r1
  r2 = r2
  r3 = r3
  Runs = {r1, r2, r3}
  MaxReserve = 2
  ReserveOf <- MCReserveOf
  DailyBudget = 2
  MonthlyBudget = 3
  DaysPerMonth = 2
  MaxDay = 1
  NoRun = NoRun
  None = None

SYMMETRY Symmetries

INVARIANTS
  TypeOK
  LedgerCoversBill
  SpendWithinBudget
  PaidOnce
