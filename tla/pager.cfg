SPECIFICATION FairSpec
CONSTANTS
    hot = hot
    Tensors = {hot, x1, x2, x3}
    Threads = {t1, t2}
    SizeOf <- Sizes
    Pinned = {hot}
    Budget = 3
    Modulus = 32
    None = None
    MaxCalls = 5
INVARIANTS BytesAccounted QueueMatchesResident OvershootBounded
 
CHECK_DEADLOCK FALSE
