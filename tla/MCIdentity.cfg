\* Three sessions, a change and two refreshes under way; one provider, two logins and two changes; one account in two groups; one service account with two tokens; two hosts, two tokens for them and two events.
CONSTANTS
    Sessions = {s1, s2, s3}
    Changes = {c1}
    Refreshers = {r1, r2}
    MaxConcurrentSessions = 1
    MaxLogins = 2
    MaxTokens = 3
    MaxChanges = 1
    None = None
    States = {1, 2}
    Callbacks = {1, 2}
    MaxConfigs = 2
    Members = {m1}
    ScimGroups = {g1, g2}
    ScimTokens = {1, 2}
    Clients = {q1, q2}
    MaxScim = 3
    Principals = {p1}
    Services = {p1}
    ApiTokenIds = {1, 2}
    Handlers = {h1, h2}
    MaxHandlers = 4
    EnrollTokens = {t1, t2}
    Identities = {i1, i2}
    Hosts = {n1, n2}
    MaxEvents = 2
SYMMETRY Symmetry
SPECIFICATION MCSpec
INVARIANTS ReplacedCredentialsEnd  AccessFollowsGroups  
CHECK_DEADLOCK FALSE
