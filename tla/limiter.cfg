SPECIFICATION LimiterSpec
CONSTANTS
    k1 = k1  k2 = k2  k3 = k3
    Keys = {k1, k2, k3}
    Threads = {t1, t2}
    CapacityOf <- Capacities
    RateOf <- Rates
    MaxEntries = 1
    Absent = Absent
    MaxTime = 3
    MaxInserts = 5
INVARIANTS LimiterTypeOK AdmissionBound TrackedInQueue GrowthNeedsRace
SYMMETRY ThreadSymmetry
CHECK_DEADLOCK FALSE
