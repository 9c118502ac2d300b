SPECIFICATION FairSpec
CONSTANTS
    r1 = r1
    r2 = r2
    Replicas = {r1, r2}
    Files <- RollingImages
    Commands = {"serve", "serve_only", "up", "down"}
    MaxSteps = 2
    MaxRequests = 1
    MaxStarts = 3
    NoReplica = NoReplica
INVARIANT SchemaMatchesVersion
INVARIANT ServesMigrated
INVARIANT BackendsOutliveRequests
INVARIANT CleanExit
PROPERTY MigrationContract
PROPERTY StopsOnSignal
PROPERTY StartsOrFails
CHECK_DEADLOCK FALSE
