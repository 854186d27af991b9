\* InfoMentorClient: a read, a login, two logouts; two accounts, two children.
\* Collection: two children, two pages of a folder, two calls, two changes, one
\* skipped row.
SPECIFICATION MCSpec
SYMMETRY SYM
CONSTANTS
    r1 = r1
    s1 = s1
    o1 = o1
    o2 = o2
    a = a
    b = b
    k1 = k1
    k2 = k2
    Read = {r1}
    Setup = {s1}
    Logout = {o1, o2}
    Account = {a, b}
    Child = {k1, k2}
    Configured = b
    None = None
    MaxIds = 2
    c1 = c1
    c2 = c2
    m1 = m1
    m2 = m2
    Children = {c1, c2}
    Listed <- InOrder
    Message = {m1, m2}
    FirstMail <- Folders
    MaxPages = 2
    IncludeExisting = TRUE
    Retention = 1
    MaxCalls = 2
    MaxChanges = 2
    MaxSkips = 1
    MaxTime = 2
    Host <- Hosts
    Stranger = "elsewhere"
    Root = "infomentor.is"
    Address <- Addresses
    Top = "/"
    Offer <- OfferedCookies
    HostKey = {"sid"}
    Retry = {0, 2}
    MaxPause = 1
    Never = None
    MaxHops = 2
INVARIANTS
    CallsAreTrue
    OriginalIsBack
    
    
    
PROPERTIES
    SessionsGoOn
