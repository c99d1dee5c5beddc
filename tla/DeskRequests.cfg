SPECIFICATION Spec
CONSTANTS
    ann = ann
    bob = bob
    d1 = d1
    d2 = d2
    i1 = i1
    i2 = i2
    i3 = i3
    p1 = p1
    p2 = p2
    f1 = f1
    f2 = f2
    s1 = s1
    c1 = c1
    c2 = c2
    k1 = k1
    k2 = k2
    NoKey = NoKey
    Client = {c1, c2}
    User = {ann, bob}
    Dest = {d1, d2}
    Intent = {i1, i2, i3, p1, p2}
    UserOf <- MCUserOf
    DestOf <- MCDestOf
    AmountOf <- MCAmountOf
    Key = {NoKey}
    Bound <- NoBound
    Finance = {}
    Super = {}
    Funds <- MCFunds
    Debts <- MCDebts
    MinMicro = 1
    MaxMicro = 2
    AutoMicro = 0
    DualMicros = {2}
    DailyMicro = 3
    DestDailyMicro = 3
    HotDailyMicro = 3
    ApproveCapMicro = 2
    WarmFloor = 3
    WarmAge = 1
    SourceOf = {}
    RefundedTo = {d2}
    PastIntent = {p1, p2}
    RecentIntent = {p2}
    Answer = {"clear"}
    Fact = {"config"}
    Day = 1
    Ttl = 9
    DualDelay = 1
    ConfirmWindow = 1
    MaxTime = 1
    MaxChanges = 1
INVARIANTS
    HoldMatchesActive
    WindowLimits
PROPERTIES
    ReplayStable
CHECK_DEADLOCK FALSE
SYMMETRY ClientSymmetry
