SPECIFICATION FairSpec
CONSTANTS
    MaxReserve = 1000
    MaxAmount = 100
    User <- MCUser
    Request <- FewRequests
    Cash <- MCCash
    Debt <- NoDebt
    Bind <- MCBind
    House = 13
    Seed = 10
    FeeBps = {500}
    MinVotes = 2
    OiFloor = 0
    HoldThreshold = 16
    RatioVotes = 2
    RepMinPot = 12
    OpensAt = 0
    HiddenAt = 1
    ClosesAt = 2
    SweepDelay = 1
    AdminEvent = {}
    AdminDecision = {None}
    PauseKey = {}
    MaxPauses = 0
    MaxTime = 3
    None = None
PROPERTIES
    HeldIsDecided
    ResolutionEnds
