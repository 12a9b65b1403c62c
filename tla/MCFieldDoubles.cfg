\* MCFieldDoubles
CONSTANTS
    p1 = p1
    p2 = p2
    p3 = p3
    es = es
    ed = ed
    Players = {p1, p2, p3}
    SinglesEvents = {}
    DoublesEvents = {ed}
    EntryCap = 0
    LimitValues = {1, 2}
    DeskStatuses = {"withdrawn"}
    MaxBatch = 2
    MaxPairRows = 2
    MaxCalls = 1
    MaxLost = 0
    LastStatus = "checkin"
    MaxChanges = 0
SPECIFICATION Spec
INVARIANTS
    TypeOK
    InOnce
    FreePlaceIsOffered
PROPERTIES
    PlacesWithinLimit
    NobodyOvertakes
    OutStaysOut
SYMMETRY Symmetry
CHECK_DEADLOCK FALSE
