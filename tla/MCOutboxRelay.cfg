\* MCOutboxRelay
CONSTANTS
    b1 = b1
    b2 = b2
    b3 = b3
    Bots = {b1, b2}
    NRows = 2
    MaxAttempts = 2
    MaxPerTick = 1
    EditRows = {1}
    MaxEdits = 2
    MaxFaults = 1
    MaxStalls = 0
SPECIFICATION FairSpec
INVARIANTS
    TypeOK
    SentIsShown
PROPERTIES
    KeepsPromise
CHECK_DEADLOCK FALSE
