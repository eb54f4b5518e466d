\* Liveness under FairSpec: no symmetry, one content, a clock that is not set back;
\* one crash or close and one failed write, the two things that lose an execution.
SPECIFICATION FairSpec
CONSTANTS
  Interactions = {k1}
  Contents = {d1}
  Slots = {s1, s2}
  NoRecord = NoRecord
  NoContent = NoContent
  CreatedAt = 1
  Deadline = 2
  LicenseEnd = 2
  MaxTime = 2
  MaxRestarts = 1
  MaxFaults = 1
  MaxRewinds = 0
PROPERTY EventuallySettled
CHECK_DEADLOCK FALSE
