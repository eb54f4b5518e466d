INIT Init
NEXT Next
CONSTANTS
 Alice = Alice
 Bob = Bob
 None = None
 Pairs <- PairOrder
 PairLimit = 2
 TotalLimit = 3
 MaxRows = 2
 Groups <- GroupsOfOne
 Sample = 2
 Rating <- Ratings3
 MaxFaults = 1
INVARIANTS
 CoverageHolds
 VerdictIsTrue
