SPECIFICATION Spec
CONSTANTS
    c1 = c1
    c2 = c2
    Levels <- MCLevels
    Amounts <- MCAmounts
    HandsToLock = 5
    Titles <- MCTitles
    Pictures <- MCPictures
    Chairs = {c1, c2}
    Evidence <- MCEvidence
    MaxHands = 5
INVARIANTS
    TypeOK
    MajorityIsRight
    SavedOncePerHand
    LocksAreOfThisHand
    AlwaysLimits
    ShownTournamentNeverLocks
PROPERTY
    LimitsStand
SYMMETRY Symmetry
