SPECIFICATION FairSpec
CONSTANTS
    Conns = {c1}
    MaxAttempts = 3
    SlowScheduling = FALSE
    MaxReconnects = 2
    None = None
CHECK_DEADLOCK FALSE
INVARIANTS
    OneOwner
    ActiveCountsRelays
    ClosedTunnelHasNoPending
PROPERTIES
    ImplementsPromise
    ConnectionResolved
