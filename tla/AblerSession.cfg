\* A server and two commands on two plaintext files.  A store without a session
\* and commands that are done leave nothing to do.
CONSTANTS
    Client = {c1}
    Admin = {a1, a2}
    Path = {p1, p2}
    Retained = retained
    None = none
    Nobody = nobody
    MaxRotation = 1
SPECIFICATION Spec
SYMMETRY Symmetric
INVARIANTS
    SpentStaysSpent
    SessionIsTrue
CHECK_DEADLOCK FALSE
