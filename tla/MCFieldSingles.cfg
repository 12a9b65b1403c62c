\* MCFieldSingles
CONSTANTS
    p1 = p1
    p2 = p2
    p3 = p3
    es = es
    ed = ed
    Players = {p1, p2}
    SinglesEvents = {es}
    DoublesEvents = {}
    EntryCap = 0
    LimitValues = {0, 1}
    DeskStatuses = {"withdrawn", "checked_in", "no_show", "registered"}
    MaxBatch = 2
    MaxPairRows = 1
    MaxCalls = 2
    MaxLost = 1
    LastStatus = "bracket_generated"
    MaxChanges = 1
SPECIFICATION FairSpec
INVARIANTS
    FreePlaceIsOffered
    WaitersCanBeServed
PROPERTIES
    FreePlaceIsHandedOut
CHECK_DEADLOCK FALSE
