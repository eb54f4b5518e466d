SPECIFICATION FairSpec
CONSTANTS
  s1 = s1
  s2 = s2
  a1 = a1
  a2 = a2
  Requests = {s1, s2, a1, a2}
  Lane <- LaneOfRequest
  Kind <- KindOfRequest
  CallLimit <- SmallCalls
  ByteLimit <- SmallBytes
  Permits = 2
  QueueLimit = 3
  MaxChunk = 1
INVARIANTS
  Reservations
  LanesIsolated
PROPERTY EverythingAnswered
