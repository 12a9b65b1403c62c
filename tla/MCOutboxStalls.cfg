\* MCOutboxStalls
CONSTANTS
    b1 = b1
    b2 = b2
    b3 = b3
    Bots = {b1, b2, b3}
    NRows = 2
    MaxAttempts = 2
    MaxPerTick = 2
    EditRows = {}
    MaxEdits = 0
    MaxFaults = 1
    MaxStalls = 1
SPECIFICATION Spec
SYMMETRY BotSymmetry
INVARIANTS
    CopiesAccounted
CHECK_DEADLOCK FALSE
