\* MCFieldTwoEvents
CONSTANTS
    p1 = p1
    p2 = p2
    p3 = p3
    es = es
    ed = ed
    Players = {p1, p2}
    SinglesEvents = {es}
    DoublesEvents = {ed}
    EntryCap = 1
    LimitValues = {1}
    DeskStatuses = {}
    MaxBatch = 1
    MaxPairRows = 1
    MaxCalls = 1
    MaxLost = 0
    LastStatus = "registration"
    MaxChanges = 0
SPECIFICATION Spec
INVARIANTS
    WithinEntryCap
SYMMETRY Symmetry
CHECK_DEADLOCK FALSE
