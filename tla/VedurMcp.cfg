SPECIFICATION MCSpec
CONSTANTS
    c1 = c1
    c2 = c2
    met = met
    brief = brief
    geo = geo
    Call = {c1, c2}
    Tool = {"observations", "alerts", "watch"}
    Warning <- Warnings
    Weather = {met, brief}
    Expires <- Ends
    Area <- Areas
    Responses <- Answers
    Garbage = Garbage
    MinTtl = 1
    MaxTtl = 1
    MaxEntries = 1
    Attempts = 2
    Ages = {0, 5}
    MaxTime = 2
    MaxChanges = 1
SYMMETRY Symmetry
INVARIANTS
    
    NothingRenders

CHECK_DEADLOCK FALSE
