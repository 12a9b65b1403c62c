\* MCLadderChallenge
CONSTANTS
    p1 = p1
    p2 = p2
    p3 = p3
    p4 = p4
    c1 = c1
    c2 = c2
    d1 = d1
    d2 = d2
    s1 = s1
    s2 = s2
    NoPlayer = NoPlayer
    NoSeason = NoSeason
    Players = {p1, p2, p3, p4}
    Challenges = {c1}
    DirectMatches = {}
    Seasons = {s1}
    SideA <- DoublesA
    SideB <- DoublesB
    Challenger <- SinglesChallenger
    MaxActive = 1
    Admins = {p1}
    Lo = 0
    Hi = 2
    Baseline = 1
    Tier = 1
    Grain = 1
    Points = {1}
    MaxDisputes = 2
    MaxOpenings = 1
SPECIFICATION Spec
INVARIANTS
    TypeOK
    NoBuriedResult
    ForfeitAnswered
    DisputedIsQueued
    UnconfirmedMovesNoRating
    PlayedByAgreement
    LadderInv
PROPERTIES
    OverStaysOver
    VoidStands
    OneOutcomePerChallenge
CHECK_DEADLOCK FALSE
