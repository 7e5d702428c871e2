\* Two requests, two runs and two changes of a connector; two records of two sources, two MAC addresses and one scan; one asset and two groups; four records behind five adapters.
CONSTANTS
    Requests = {p1, p2}
    Runs = {1, 2}
    Keys = {k1}
    Slots = {t1}
    MaxChanges = 1
    Assets = {1, 2, 3}
    Observations = {1, 2}
    Sources = {r1, r2}
    Macs = {m1, m2}
    Names = {n1}
    Addresses = {i1}
    MaxTime = 2
    MaxScans = 1
    Rejecters = {d1}
    Grouped = {1}
    Groups = {1, 2}
    Sites = {s1, s2}
    Priorities = {1}
    Connected = {"aws", "entra", "vcenter", "unifi", "dhcp"}
    Records = {1, 2, 3, 4}
    Hidden = {3}
    PageSize = 1
    Limit = 3
    None = None
SPECIFICATION MCSpec
INVARIANTS CollectedIsTested DerivedRowsFollow
PROPERTIES SplitRestores SuccessIsComplete
CHECK_DEADLOCK FALSE
