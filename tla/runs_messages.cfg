SPECIFICATION Spec
CONSTANTS
    t1 = t1  r1 = r1  r2 = r2  u1 = u1  u2 = u2
    Threads = {t1}
    Runs = {r1}
    Posts = {u1, u2}
    ThreadOf <- OneThread
    Newline = Newline
    None = None
    MaxCancels = 0
    MaxFaults = 0
    MaxCrashes = 0
INVARIANT MessagesKept
