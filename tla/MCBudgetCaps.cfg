SPECIFICATION Spec
CONSTANTS
  Tasks = {t1, t2}
  Earlier = {t0}
  Writers = {w1}
  NoWriter = NoWriter
  NoRun = NoRun
  WorkLimit = 1
  Concurrency = 1
  Price <- UnitPrice
  RunCap = 3
  SessionCap = 6
  MaxFaults = 1
SYMMETRY BudgetSymmetry
INVARIANTS
  CapsHold
  ReservedBeforeDispatch
