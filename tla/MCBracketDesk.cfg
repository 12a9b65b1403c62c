\* MCBracketDesk
CONSTANTS
    d1 = d1
    d2 = d2
    q = q
    s1 = s1
    f = f
    t = t
    e1 = e1
    e2 = e2
    e3 = e3
    e4 = e4
    e5 = e5
    Desks = {d1}
    Matches = {q, s1, f, t}
    Entries = {e1, e2, e3, e4, e5}
    Ops = {"enter", "walkover", "void", "noshow", "unvoid", "undo", "edit", "reaward", "exit", "live"}
    MaxOps = 4
    MaxFaults = 1
    Rounds <- LongRounds
    WinnerTo <- LongWinnerTo
    LoserTo <- LongLoserTo
    Seats <- LongSeats
SPECIFICATION Spec
CONSTRAINT FaultsEarly
INVARIANTS
    TypeOK
    DecidedIsRated
    SwingAddsUp
    WinnerPlayed
    ReadyIsKnown
    SlotsFollowResults
PROPERTIES
    RatedInOrder
CHECK_DEADLOCK FALSE
