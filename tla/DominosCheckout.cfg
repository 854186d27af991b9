\* A quote that two hosts order, two payments and a question, for two accounts.
\* Calls that returned leave nothing to do but logins.
CONSTANTS
    Quote = {q1}
    CreateCall = {k1, k2}
    PayCall = {b1, b2}
    GetCall = {g1}
    Account = {u1, u2}
    None = none
    MaxRotation = 1
SPECIFICATION Spec
SYMMETRY Symmetric
INVARIANTS
    NothingTwice
    OwnStateOnly
    SpentStaysSpent
CHECK_DEADLOCK FALSE
