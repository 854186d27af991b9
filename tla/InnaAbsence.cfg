\* Two previews, two submissions, two students.  Calls that
\* returned leave nothing to do but sign-ins.
CONSTANTS
    Prepare = {p1, p2}
    Submit = {s1, s2}
    Student = {a1, a2}
    None = none
    MaxCookies = 2
SPECIFICATION Spec
SYMMETRY Symmetric
INVARIANTS
    SentOnce
    UncertainIsKept
    
    
CHECK_DEADLOCK FALSE
