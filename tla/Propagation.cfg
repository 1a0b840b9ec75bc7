CONSTANTS
    s1 = s1
    u1 = u1
    u2 = u2
    a1 = a1
    a2 = a2
    Systems = {s1}
    Subs = {u1, u2}
    Applies = {a1, a2}
    Versions = {1, 2}
    MaxAttempts = 2
    MaxFaults = 1
    MaxEdits = 2
SPECIFICATION FairSpec
INVARIANTS NotForgotten StatusEarned
PROPERTY EveryDispatchEnds
CHECK_DEADLOCK FALSE
