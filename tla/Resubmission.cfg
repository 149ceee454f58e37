SPECIFICATION Spec
CONSTANTS
    Node = {n1, n2, n3, n4}
    F = 1
    C = 0
    K = 0
    Running = {n1, n2}
    Client = {n1}
    Txn = {t1}
    MaxSubmissions = 2
    MaxCopies = 0
    MaxBlocks = 0
    batch_size = 2
    header_size = 2
    max_block_size = 2
INVARIANT
    OwnVoteCounts
CHECK_DEADLOCK FALSE
