SPECIFICATION Spec
CONSTANTS
    Requests = {r1, r2}
    t1 = t1  t2 = t2  A = A  B = B  w1 = w1  w2 = w2
    Names = {A, B}
    Weights = {w1, w2}
    UnitScale = 10000000
    OtherScale = 5000000
    Scales <- BothScales
    Tokens = {t1, t2}
    GenToken = g
    None = None
    Shapes <- CacheShapes
    InitLoras <- BothLoras
    Unsupported = {}
    Composes = TRUE
    QueueCap = 1
    ChanCap = 1
    MaxTokens = 1
    MaxNamespaces = 2
    MaxEntries = 1
    MinPrefix = 1
    MaxPanics = 1
    MaxAdmin = 0
INVARIANT StackCleared
