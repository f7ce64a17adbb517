SPECIFICATION Spec
CONSTANTS
    MaxOps = 3
    MaxFailures = 2
    MaxIssued = 3
    MaxCrashes = 1
    MaxHalts = 1
CHECK_DEADLOCK FALSE
INVARIANTS
    FailureRestoresService
    SshdConfigIsUsable
    CredentialKept
