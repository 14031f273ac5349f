SPECIFICATION Spec
CONSTANTS
    a = a  b = b
    Keys <- ForkingKeys
    None = None
    MaxEntries = 2
    MaxMemory = 4
    MinPrefix = 1
    MaxOps = 7
INVARIANTS CountersExact TreeShape
PROPERTY ImplementsMap
