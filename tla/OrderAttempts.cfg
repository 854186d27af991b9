\* Two orders and a reservation of one checkout with two possible contents.
SPECIFICATION OrdersSpec
CONSTANTS
    v1 = v1  v2 = v2
    Value = {v1, v2}
    NoValue = NoValue
    MaxGeneration = 3
    MaxKeys = 2
    MaxWrites = 5
    NoMarker = NoMarker
    NoRecord = NoRecord
    NoWrite = NoWrite
    NoState = NoState
    r1 = r1  r2 = r2  u1 = u1  u2 = u2
    Request = {r1, r2}  User = {u1, u2}
    owner <- Owners
    NoToken = NoToken
    c1 = c1  c2 = c2  c3 = c3
    complete = complete  reserve = reserve
    p1 = p1  p2 = p2
    Call = {c1, c2, c3}
    Tool = {complete, reserve}
    Consuming = {complete}
    tool <- Tools
    Token = {"checkout"}
    token <- Tokens
    Contents = {p1, p2}
    Unread = Unread
    Cli = Cli
    Nobody = Nobody
SYMMETRY Symmetry
INVARIANTS
    AtMostOnce
PROPERTIES
    AttemptsAreKept
CHECK_DEADLOCK FALSE
