\* MCLadderRatedTwice
CONSTANTS
    p1 = p1
    p2 = p2
    p3 = p3
    p4 = p4
    c1 = c1
    c2 = c2
    d1 = d1
    d2 = d2
    s1 = s1
    s2 = s2
    NoPlayer = NoPlayer
    NoSeason = NoSeason
    Players = {p1, p2}
    Challenges = {c1}
    DirectMatches = {}
    Seasons = {s1}
    SideA <- SinglesA
    SideB <- SinglesB
    Challenger <- SinglesChallenger
    MaxActive = 1
    Admins = {}
    Lo = 0
    Hi = 3
    Baseline = 1
    Tier = 1
    Grain = 1
    Points = {1}
    MaxDisputes = 1
    MaxOpenings = 1
SPECIFICATION Spec
PROPERTIES
    NeverRatedTwice
CHECK_DEADLOCK FALSE
