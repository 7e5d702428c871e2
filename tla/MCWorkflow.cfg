\* One handler at a time, one job for each scanning stage; three batches of results through a queue for two, one restart; followed under fairness.
CONSTANTS
    Sessions = {s1}
    MaxJobs = 3
    Chunks = 3
    Cap = 2
    MaxRestarts = 1
SPECIFICATION PartsFairSpec
INVARIANTS TailTraversed IntrusiveOnlyIfApproved EvidenceArrives
PROPERTIES RunEnds DrainsUnlessBlocked
CHECK_DEADLOCK FALSE
