INIT Init
NEXT Next
CONSTANTS
 Tip = 5
 Chunk = 2
 MaxLogs = 2
 RequestLimit = 16
 PageLimit = 2
 ShortlistLimit = 1
 MaxTroubles = 1
INVARIANTS
 AuthorityHolds
 EpochHolds
 SlotsHold
 CheckpointHolds
 ActivationHolds
 CarryHolds
 DiscoveryHolds
 DiscoveryBudget
