\* Two processes that call twice in a lock directory that others write to.
SPECIFICATION SpecDisturbed
CONSTANTS
    c1 = c1  c2 = c2  c3 = c3
    p1 = p1  p2 = p2  p3 = p3
    Caller = {c1, c2}
    Pid = {p1, p2}
    pidOf <- TwoProcesses
    LateRetries = 0
    MaxMisses = 1
    MaxAttempts = 2
    NoOwner = NoOwner
    Stray = Stray
INVARIANTS RecoveryTargetsDead NoDoubleSuccess
CHECK_DEADLOCK FALSE
