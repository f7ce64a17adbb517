SPECIFICATION FairSpec
CONSTANTS
    Reqs = {q1, q2, q3}
    MaxAnswers = 2
    None = None
CHECK_DEADLOCK FALSE
INVARIANTS
    SenderNeverBlocks
    NoForgottenEntry
PROPERTIES
    SessionCloses
