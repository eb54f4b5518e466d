\* Liveness, so no symmetry.  Of the lock: one child, one call of the controller's own,
\* one stranger and one recovery at a time, and an inode that is used again.  Of the
\* writers: the script of two services, one approval for each of their calls.
SPECIFICATION JournalSpec
CONSTANTS
  Children = {c1}
  Locals = {l1}
  Strangers = {s1}
  Recoveries = {r1}
  Inodes = {i1, i2}
  NoLock = NoLock
  NoOwner = NoOwner
  NoInode = NoInode
  MaxWrites = 1
  MaxUnheard = 1
  Services = 2
  Approvals = {a1}
  NoApproval = NoApproval
  NoEffect = NoEffect
  NoJournal = NoJournal
  NoPoint = NoPoint
  NoConfig = NoConfig
  NoResult = NoResult
  Submitters = {p1}
  Attempts = 1
  MaxAsks = 0
  Starts = {"onboarding"}
  MaxAgentId = 2
  MaxBreaks = 2
  MaxForeign = 0
  MaxReorgs = 0
  MaxLosses = 2
  MaxTroubles = 3
INVARIANT Exclusive
PROPERTIES
  NoLostUpdate
  DeadLockRecovered
  HandsOver
CHECK_DEADLOCK FALSE
