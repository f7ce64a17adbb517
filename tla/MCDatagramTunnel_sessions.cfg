SPECIFICATION FairSpec
CONSTANTS
    Remotes = {r1}
    Sessions = {1, 2}
    MaxAttempts <- FirstRetries
    None = None
CHECK_DEADLOCK FALSE
INVARIANTS
    OpenSessionIsTimed
    ActiveCountsSessions
    OpenTunnelKnowsSessions
PROPERTIES
    SessionEnds
