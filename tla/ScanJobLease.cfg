\* One job offered up to twice: reclaim, fencing and restarts, followed under fairness.
CONSTANTS
    Jobs = {j1}
    MaxFence = 2
    MaxReports = 1
    NoJob = NoJob
SPECIFICATION FairSpec
INVARIANT OneActiveAttempt
PROPERTIES ImplementsAttemptLog UndoneOnlyByStaleReads AllJobsSettle
CHECK_DEADLOCK FALSE
