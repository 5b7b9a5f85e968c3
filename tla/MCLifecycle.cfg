\* Three releases on one database, three starts in all.
SPECIFICATION Spec
CONSTANTS
    Servers = {"old", "new", "edited"}
    Versions = {1, 2}
    Sums = {"a", "b", "c"}
    Content <- Releases
    MaxRequests = 1
    MaxStarts = 3
    None = None
INVARIANTS
    MigrationsOnce
    SchemaReady
    ClosedAfterUse
PROPERTIES
    ShutdownEnds
CHECK_DEADLOCK FALSE
