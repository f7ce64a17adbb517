SPECIFICATION FairSpec
CONSTANTS
    Users = {u1, u2}
    Shells = {p1, p2}
    MaxSessions = 2
    MaxFaults = 1
    MaxExits = 1
    None = None
CHECK_DEADLOCK FALSE
INVARIANTS
    RunningShellIsVisible
    KeyHasSession
    WaitingSessionHasKey
PROPERTIES
    EndedShellEndsSession
