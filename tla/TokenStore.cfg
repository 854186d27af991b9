\* Two commands, one load, one startup check and two publications.  Commands that are done
\* leave nothing to do.
CONSTANTS
    Command = {c1, c2}
    Reader = {r1}
    Check = {k1}
    Plain = plain
    LoggedOut = out
    None = none
    Nobody = nobody
    MaxKeys = 2
    Environment <- Environments
    MaxSaves = 1
SPECIFICATION MCSpec
SYMMETRY Symmetric
INVARIANTS
    OwnLeftoversPass
    EndedStaysEnded
    NobodyElseGetsIn
    LeftOutOfBackups
    OldIsTold
PROPERTIES
    NothingIsLost
CHECK_DEADLOCK FALSE
