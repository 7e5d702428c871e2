\* One asset and two groups, which may move between two sites.
CONSTANTS
    Assets = {1}
    Groups = {1, 2}
    Sites = {s1, s2}
    Priorities = {1}
    None = None
SPECIFICATION Spec
INVARIANT IngestionMeetsNoTie
CHECK_DEADLOCK FALSE
