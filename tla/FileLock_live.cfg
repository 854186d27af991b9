\* Three processes that call once: one works at a time, every call returns and dead owners
\* are recovered.
SPECIFICATION LiveSpec
CONSTANTS
    c1 = c1  c2 = c2  c3 = c3
    p1 = p1  p2 = p2  p3 = p3
    Caller = {c1, c2, c3}
    Pid = {p1, p2, p3}
    pidOf <- ThreeProcesses
    LateRetries = 1
    MaxMisses = 1
    MaxAttempts = 1
    NoOwner = NoOwner
    Stray = Stray
PROPERTIES ImplementsExclusiveLock CallersGetOn
CHECK_DEADLOCK FALSE
