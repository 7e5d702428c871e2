\* Three releases, the last of which migrates the schema; no writes of the application; three archives.
CONSTANTS
    Releases = {1, 2, 3}
    Migrating = {3}
    MaxWrites = 0
    MaxArchives = 3
    None = None
SPECIFICATION Spec
INVARIANT RollbackStaysCompatible
CHECK_DEADLOCK FALSE
