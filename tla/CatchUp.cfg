CONSTANTS
    n1 = n1
    n2 = n2
    n3 = n3
    p1 = p1
    Node = {n1, n2, n3}
    Honest = {n1, n2, n3}
    F = 0
    C = 1
    K = 0
    Payload = {p1}
    Leader <- PeersInTurn
    MaxRound = 3
    MaxTimeouts <- NoTimeouts
    Me = n1
    Top <- Longest
    Final <- SecondAndLast
    Disk <- OnlyN3
SPECIFICATION Spec
INVARIANTS
    TypeOK
    NoPanic
    AskedForWhileWanted
    NothingForgotten
PROPERTY
    CommitEventually
CHECK_DEADLOCK FALSE
