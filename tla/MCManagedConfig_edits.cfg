SPECIFICATION Spec
CONSTANTS
    Primary = "p"
    Addrs = {"p", "a"}
    Names = {"t", "u"}
    BuiltInTls = "t"
    PlainTls = "u"
    Nodes = {"n", "m"}
    Hostname = "n"
    MaxServers = 2
    MaxEntries = 2
    MaxEdits = 2
    MaxIssued = 1
    MaxCrashes = 1
CHECK_DEADLOCK FALSE
INVARIANTS
    CredentialStaysHome
    RestartKeepsConfiguration
    EditsAreKept
