\* A source whose cursor would have to advance twice.
CONSTANTS
    Connected = {"dhcp"}
    Records = {1, 2, 3}
    Hidden = {}
    PageSize = 1
    Limit = 3
    None = None
SPECIFICATION FairSpec
PROPERTY CursorAdvances
CHECK_DEADLOCK FALSE
