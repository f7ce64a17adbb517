SPECIFICATION FairSpec
CONSTANTS
    Names = {n1}
    Presets = {1, 2}
    tcp = tcp
    udp = udp
    Protocols = {tcp, udp}
    Registrations <- TwoRegistrations
    Ports = {1, 2}
    ForeignPorts = {1}
    Conns = {c1}
    Admins = {a1}
    None = None
    NodeObjs = {1, 2}
    TunnelIds = {1, 2, 3, 4}
    MaxTokens = 2
    MaxRequests = 2
    MaxExits = 1
    MaxShutdowns = 1
    MaxFailures = 0
    MaxStalls = 1
    StateFile = TRUE
    PeriodicSaves = TRUE
    SaveMayFail = TRUE
CHECK_DEADLOCK FALSE
INVARIANTS
    RestartKeepsPorts
    RestartKeepsMapping
PROPERTIES
    OperationsSettle
