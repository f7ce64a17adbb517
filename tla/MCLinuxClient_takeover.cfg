SPECIFICATION FairSpec
CONSTANTS
    Foreground = {f1, f2}
    Service = s
    Probe = Probe
    None = None
    MaxSaves = 1
    MaxInterrupts = 1
    MaxErrors = 1
    MaxStarts = 2
CHECK_DEADLOCK FALSE
INVARIANTS
    RunsNewestConfig
    TakeoverLeavesOne
    TakeoverFindsPort
PROPERTIES
    StartupEnds
