CONSTANTS
    n1 = n1
    n2 = n2
    n3 = n3
    n4 = n4
    Node = {n1, n2, n3}
    Honest = {n1, n2, n3}
    F = 0
    C = 1
    K = 0
    Payload = {p1}
    Leader <- InTurn
    MaxRound = 2
    MaxTimeouts <- OnceButN1
    Lost <- Divided
SPECIFICATION Spec
INVARIANTS
    OutputIsExtended
    NoPanic
    RequestedIsAvailable
CHECK_DEADLOCK FALSE
