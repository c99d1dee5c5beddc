SPECIFICATION Spec
CONSTANTS
    ann = ann
    bob = bob
    d1 = d1
    d2 = d2
    i1 = i1
    i2 = i2
    i3 = i3
    p1 = p1
    p2 = p2
    f1 = f1
    f2 = f2
    s1 = s1
    c1 = c1
    c2 = c2
    k1 = k1
    k2 = k2
    NoKey = NoKey
    Client = {c1}
    User = {ann}
    Dest = {d1}
    Intent = {i1, i2, p1}
    UserOf <- SoloUserOf
    DestOf <- SoloDestOf
    AmountOf <- SoloAmountOf
    Key = {NoKey}
    Bound <- NoBound
    Finance = {}
    Super = {}
    Funds <- SoloFunds
    Debts <- NoDebts
    MinMicro = 1
    MaxMicro = 3
    AutoMicro = 2
    DualMicros = {2}
    DailyMicro = 3
    DestDailyMicro = 3
    HotDailyMicro = 3
    ApproveCapMicro = 2
    WarmFloor = 3
    WarmAge = 1
    SourceOf = {}
    RefundedTo = {}
    PastIntent = {p1}
    RecentIntent = {}
    Answer = {"clear"}
    Fact = {}
    Day = 1
    Ttl = 1
    DualDelay = 1
    ConfirmWindow = 1
    MaxTime = 2
    MaxChanges = 2
INVARIANTS
    RescreenedAtSend
CHECK_DEADLOCK FALSE
