SPECIFICATION FairSpec
CONSTANTS
    t1 = t1  r1 = r1  r2 = r2  u1 = u1  u2 = u2
    Threads = {t1}
    Runs = {r1, r2}
    Posts = {u1}
    ThreadOf <- OneThread
    Newline = Newline
    None = None
    MaxCancels = 1
    MaxFaults = 1
    MaxCrashes = 1
INVARIANTS TypeOK CompletedDelivers RepliesSeen
PROPERTIES RunsFinish StreamsEnd
