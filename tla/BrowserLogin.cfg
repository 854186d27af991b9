\* A login that finds a browser, and one that sweeps and finds none.
SPECIFICATION MCSpec
CONSTANTS
    l1 = l1  l2 = l2  t1 = t1
    User = {l1, l2}
    Supplied = {l1}
    Reached = {l1}
    Tab = {t1}
    FollowTab = TRUE
    None = None
    Client = {}
    Admin = {}
    Path = {}
    Retained = Retained
    Nobody = Nobody
    MaxRotation = 0

    
PROPERTIES
    RunningIsSpared 
CHECK_DEADLOCK FALSE
