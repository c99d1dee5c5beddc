SPECIFICATION Spec
CONSTANTS
    MaxReserve = 1000
    MaxAmount = 100
    User <- MCUser
    Request <- MCRequest
    Cash <- MCCash
    Debt <- MCDebt
    Bind <- MCBind
    House = 13
    Seed = 10
    FeeBps = {500}
    MinVotes = 2
    OiFloor = 5
    HoldThreshold = 16
    RatioVotes = 2
    RepMinPot = 12
    OpensAt = 0
    HiddenAt = 1
    ClosesAt = 2
    SweepDelay = 1
    AdminEvent = {"StartIntegritySweep"}
    AdminDecision = {None, "tally", "void"}
    PauseKey = {"market_paused", "voting_paused"}
    MaxPauses = 1
    MaxTime = 3
    None = None
INVARIANTS
    Collateral
    AlwaysSettleable
    BooksBalance
    PaidAtFinalTally
PROPERTIES
    AcceptedWhileOpen
    SettledUnderLocks
    BigPotsReviewed
