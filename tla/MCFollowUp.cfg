\* Two acceptances of one finding's risk; two scored findings, one with a CVE; two findings and two keys of remediation units; two tasks of a ticket.
CONSTANTS
    Acceptances = {a1, a2}
    Scored = {f1, f2}
    WithCve = {f1}
    MaxVersion = 2
    MaxTransactions = 3
    Grouping = {g1, g2}
    Keys = {"shared", "own"}
    MaxEdits = 4
    Syncs = {1, 2}
    MaxTries = 2
    MaxConfigs = 1
    None = None
SPECIFICATION MCFairSpec
INVARIANTS  ScoreIsCurrent RejectedStaysOut OneTicket
PROPERTIES ResolvedWasAbsent StillPresentResurfaces
CHECK_DEADLOCK FALSE
