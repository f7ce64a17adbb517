SPECIFICATION Spec
CONSTANTS
    Names = {n1}
    Presets = {1, 2}
    tcp = tcp
    udp = udp
    Protocols = {tcp, udp}
    Registrations <- TwoRegistrations
    Ports = {1, 2}
    ForeignPorts = {}
    Conns = {c1, c2}
    Admins = {a1}
    None = None
    NodeObjs = {1, 2}
    TunnelIds = {1, 2, 3, 4}
    MaxTokens = 1
    MaxRequests = 1
    MaxExits = 1
    MaxShutdowns = 1
    MaxFailures = 0
    MaxStalls = 0
    StateFile = TRUE
    PeriodicSaves = FALSE
    SaveMayFail = FALSE
SYMMETRY ConnSymmetry
CHECK_DEADLOCK FALSE
INVARIANTS
    ShutdownKeepsPorts
