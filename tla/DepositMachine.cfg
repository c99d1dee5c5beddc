CONSTANTS
    w1 = w1
    w2 = w2
    c1 = c1
    c2 = c2
    u1 = u1
    none = none
    Caller = {w1, c1, c2}
    Watcher = {w1}
    User = {u1}
    NoUser = none
    N = 2
    UserOf <- OneUser
    AmountOf <- UnequalAmounts
    Cash <- OneCash
    Debt <- OneDebt
    Command = {"reevaluate", "admit", "refund"}
    Fact = {"banned", "blocked"}
    Window = 0
    MaxTime = 1
    MaxCrash = 0
SPECIFICATION Spec
INVARIANTS
    SuspenseSigma
    CreditedOnce
CHECK_DEADLOCK FALSE
