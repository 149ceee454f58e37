CONSTANTS
    n1 = n1
    n2 = n2
    n3 = n3
    n4 = n4
    Node = {n1, n2, n3}
    Honest = {n1, n2, n3}
    F = 0
    C = 1
    K = 0
    Payload = {p1}
    Leader <- InTurn
    MaxRound = 1
    MaxTimeouts <- Twice
    Lost <- Nothing
SPECIFICATION Spec
INVARIANTS
    ScheduledIsRequested
CHECK_DEADLOCK FALSE
