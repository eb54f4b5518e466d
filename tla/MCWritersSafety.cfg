SPECIFICATION WritersSpec
CONSTANTS
  Services = 1
  Approvals = {a1, a2}
  NoApproval = NoApproval
  NoEffect = NoEffect
  NoJournal = NoJournal
  NoPoint = NoPoint
  NoConfig = NoConfig
  NoResult = NoResult
  Submitters = {p1, p2}
  Attempts = 2
  MaxAsks = 2
  Starts = {"onboarding", "migration", "feedback"}
  MaxAgentId = 1
  MaxBreaks = 1
  MaxForeign = 1
  MaxReorgs = 1
  MaxLosses = 1
  MaxTroubles = 2
SYMMETRY WriterSymmetry
INVARIANTS
  SentIsJournaled
  RecordsAreFacts
  RotatesThenRepublishes
  AnswersAreTrue
PROPERTY JournalNeverForgets
CHECK_DEADLOCK FALSE
