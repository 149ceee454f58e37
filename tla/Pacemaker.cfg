CONSTANTS
    n1 = n1
    n2 = n2
    n3 = n3
    Node = {n1, n2, n3}
    Honest = {n1, n2, n3}
    F = 0
    C = 1
    K = 0
    Payload = {p1}
    Leader <- TwiceN1
    MaxRound = 3
    MaxTimeouts <- NoTimeouts
    Failing = {n1}
    MaxUnstable = 1
    Unheard <- Partly
SPECIFICATION Spec
INVARIANT
    TypeOK
PROPERTIES
    LeavesEveryRound
    CommitsOnceStable
CHECK_DEADLOCK FALSE
