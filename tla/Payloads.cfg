SPECIFICATION Spec
CONSTANTS
    Node = {n1, n2, n3, n4}
    F = 1
    C = 0
    K = 0
    Running = {n1, n2}
    Client = {n1}
    Txn = {t1, t2}
    MaxSubmissions = 1
    MaxCopies = 1
    MaxBlocks = 1
    batch_size = 2
    header_size = 2
    max_block_size = 2
INVARIANTS
    TypeOK
    TransactionsConserved
    CertifiedIsAvailable
    CommittedIsKnown
    OncePerBlock
PROPERTY
    CertifiedEventually
CHECK_DEADLOCK FALSE
