CONSTANTS
    w1 = w1
    w2 = w2
    c1 = c1
    c2 = c2
    u1 = u1
    none = none
    Caller = {w1, w2, c1}
    Watcher = {w1, w2}
    User = {u1}
    NoUser = none
    N = 2
    UserOf <- OneUnmatched
    AmountOf <- UnequalAmounts
    Cash <- OneCash
    Debt <- OneDebt
    Command = {"reevaluate", "admit", "refund"}
    Fact = {"clear", "aml"}
    Window = 0
    MaxTime = 0
    MaxCrash = 1
SPECIFICATION Spec
INVARIANTS
    SweptIsDecided
CHECK_DEADLOCK FALSE
