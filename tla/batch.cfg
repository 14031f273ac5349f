SPECIFICATION FairSpec
CONSTANTS
    j1 = j1  j2 = j2
    Jobs = {j1, j2}
    Input <- MixedInput
    None = None
    QueueCap = 1
    MaxCancels = 2
    MaxFaults = 1
    MaxCrashes = 1
INVARIANTS TypeOK CountsBounded OncePerLine ProgressBacked
PROPERTY JobsFinish
