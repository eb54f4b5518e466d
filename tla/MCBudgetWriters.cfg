SPECIFICATION FairSpec
CONSTANTS
  Tasks = {t1}
  Earlier = {}
  Writers = {w1, w2}
  NoWriter = NoWriter
  NoRun = NoRun
  WorkLimit = 2
  Concurrency = 1
  Price <- UnitPrice
  RunCap = 4
  SessionCap = 4
  MaxFaults = 1
INVARIANTS
  SharedSlots
PROPERTIES
  LedgerNeverForgets
  BudgetDrains
