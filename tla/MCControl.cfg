\* Two credentials and a job; four accounts; two relays that may be given one range; three releases, the last of which migrates the schema, one write and one archive; two handlers and two jobs of a run.
CONSTANTS
    Creds = {c1, c2}
    Levels = {1, 2}
    Jobs = {1}
    Requests = {q1}
    Deactivations = {d1}
    MaxChanges = 2
    Local = {u1, u2}
    Scim = {m1}
    Jit = {j1}
    MaxRequests = 5
    Relays = {r1, r2}
    Ranges = {n1}
    RelayRequests = {s1, s2}
    MaxCerts = 3
    MaxRelayChanges = 3
    Releases = {1, 2, 3}
    Migrating = {3}
    MaxWrites = 1
    MaxArchives = 3
    Sessions = {h1, h2}
    MaxJobs = 2
    None = None
SYMMETRY Symmetry
SPECIFICATION MCSpec
INVARIANTS RangesDisjoint ReportedBeforeOver
PROPERTIES DeactivatedIsNotOffered AdministratorStays 
CHECK_DEADLOCK FALSE
