SPECIFICATION Spec
CONSTANTS
    w1 = w1
    w2 = w2
    p1 = p1
    p2 = p2
    e1 = e1
    e2 = e2
    e3 = e3
    Worker = {w1, w2}
    Proc = {p1, p2}
    Host <- MCHost
    Endpoint = {e1, e2, e3}
    Faulty = {e3}
    Amount = 5
    MaxAttempt = 3
    MaxHeight = 3
    Validity = 0
INVARIANT
    BroadcastWasSent
