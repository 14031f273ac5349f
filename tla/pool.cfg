SPECIFICATION Spec
CONSTANTS
    m1 = m1  m2 = m2  m3 = m3
    Models = {m1, m2, m3}
    Users = {u1, u2}
    MemOf <- Sizes
    Capacity = 2
    Budget = 4
    None = None
    MaxLoads = 1
SYMMETRY UserSymmetry
INVARIANTS TypeOK QueueMatchesMap WithinLimits InUseStaysLoaded
