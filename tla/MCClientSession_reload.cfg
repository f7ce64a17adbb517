SPECIFICATION FairSpec
CONSTANTS
    Hosts = {h1, h2}
    Requests = {r1, r2}
    MaxRevision = 2
    MaxReconnects = 1
    MaxIssued = 1
    MaxCrashes = 1
    MaxPages = 1
    Faults = TRUE
    None = None
INVARIANTS
    StaleSessionIsCancelled
    ChangeWakesLoop
    CredentialBelongsToHost
    AssignmentsAreCurrent
    ConnectedMeansSession
    NoBlindOverwrite
PROPERTIES
    ChangeIsApplied
