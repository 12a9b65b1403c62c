\* MCBracketExit
CONSTANTS
    d1 = d1
    d2 = d2
    q = q
    s1 = s1
    f = f
    t = t
    e1 = e1
    e2 = e2
    e3 = e3
    e4 = e4
    e5 = e5
    Desks = {d1, d2}
    Matches = {s1, f}
    Entries = {e1, e2, e3}
    Ops = {"enter", "exit"}
    MaxOps = 3
    MaxFaults = 0
    Rounds <- ShortRounds
    WinnerTo <- ShortWinnerTo
    LoserTo <- ShortLoserTo
    Seats <- ShortSeats
SPECIFICATION Spec
PROPERTIES
    ResultStands
SYMMETRY Symmetry
CHECK_DEADLOCK FALSE
