\* Two sessions of which one may run at a time, one of them followed; two decisions and two attempts.
CONSTANTS
    Sessions = {s1, s2}
    Watched = {s1}
    Deciders = {d1, d2}
    Limit = 1
    MaxAttempts = 2
    MaxEvents = 2
    None = None
SYMMETRY Symmetry
SPECIFICATION Spec
INVARIANTS JobsWithinLimit CleanedIsTornDown
 
CHECK_DEADLOCK FALSE
