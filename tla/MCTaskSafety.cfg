\* One interaction, two concurrent requests, one conflicting content; the request
\* window is 1..2, the license ends at 3, one crash or close, one failed write and
\* one backward clock step.
SPECIFICATION Spec
CONSTANTS
  Interactions = {k1}
  Contents = {d1, d2}
  Slots = {s1, s2}
  NoRecord = NoRecord
  NoContent = NoContent
  CreatedAt = 1
  Deadline = 2
  LicenseEnd = 3
  MaxTime = 3
  MaxRestarts = 1
  MaxFaults = 1
  MaxRewinds = 1
SYMMETRY RequestSymmetry
INVARIANTS
  DurableFirst
  TruthfulReceipts
  BoundedRuns
PROPERTIES
  ImplementsContract
  BytesWithinLicense
CHECK_DEADLOCK FALSE
