SPECIFICATION Spec
CONSTANTS
  Services = 1
  Approvals = {a1}
  NoApproval = NoApproval
  NoEffect = NoEffect
  NoJournal = NoJournal
  MaxAgentId = 1
  MaxBreaks = 0
  MaxForeign = 1
  MaxReorgs = 0
  MaxLosses = 0
INVARIANT JournalValidates
