\* One network with two ranges, one Scout, two jobs and one change, followed under fairness.
CONSTANTS
    Networks = {n1}
    Probes = {p1}
    Ranges = {r1, r2}
    Jobs = {j1, j2}
    Interval = 1
    MaxLate = 1
    MaxEdits = 1
    None = None
SPECIFICATION FairSpec
INVARIANT OneActivePerNetwork
PROPERTIES PolicyConverges ScheduleKeepsFiring
