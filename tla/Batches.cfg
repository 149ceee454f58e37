CONSTANTS
    n1 = n1
    n2 = n2
    n3 = n3
    t1 = t1
    t2 = t2
    Node = {n1, n2, n3}
    F = 0
    C = 1
    K = 0
    Txn = {t1, t2}
    Client <- ToN1
    Behind = {n3}
    batch_size = 2
    gc_depth = 1
    sync_retry_nodes = 1
    MaxCleanup = 1
SPECIFICATION Spec
INVARIANTS
    TypeOK
    ReportedIsHeld
    PendingIsWaited
PROPERTIES
    TransactionsReported
    BatchesArrive
CHECK_DEADLOCK FALSE
