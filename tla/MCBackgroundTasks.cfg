\* One task contended by two workers, up to three claims, followed under fairness; two dispatchers of one channel's notifications; a report of two types.
CONSTANTS
    Tasks = {t1}
    Workers = {w1, w2}
    Batches <- MCBatches
    BackpressureLimit = 1
    MaxAttempts = 2
    MaxClaims = 3
    NoWorker = NoWorker
    NoTask = NoTask
    Events = {e1}
    EMERGENCY_EVENTS = {}
    Dispatchers = {s1, s2}
    MaxDeliveries = 2
    MaxSends = 2
    Types = {r1, r2}
    MaxExecutions = 2
    MaxEvents = 1
    Ids = {i1, i2}
    None = None
SPECIFICATION MCFairSpec
INVARIANTS ExportIsClosed NewsIsQueued
PROPERTIES CommitsAreFenced ReportsAreKept TaskSettles
CHECK_DEADLOCK FALSE
