SPECIFICATION MCSpec
CONSTANTS
    h1 = h1
    h2 = h2
    a = a
    b = b
    Host = {h1, h2}
    None = None
    Lease = 3
    Cooldown = 1
    Day = 6
    Limit = 2
    Timeout = 2
    Delay = 1
    MaxTime = 9
    MaxBack = 1
    MaxLogouts = 1
    Student = {a, b}
    Own = a
    MaxJar = 2
    Prepare = {}
    Submit = {}
    MaxCookies = 0
SYMMETRY SYM
INVARIANTS
    PromptsAreRare
    
CHECK_DEADLOCK FALSE
