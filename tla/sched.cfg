SPECIFICATION FairSpec
CONSTANTS
    Shapes <- SmallRequests
    Requests = {1, 2, 3}
    MaxSequences = 2
    MaxBatchTokens = 2
    MaxBatchSequences = 2
    MaxPrefillTokens = 2
    None = None
INVARIANTS ListsMatchStates FedOnce BatchWithinLimits
PROPERTIES ServedInTurn
