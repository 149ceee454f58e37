CONSTANTS
    n1 = n1
    n2 = n2
    n3 = n3
    n4 = n4
    Node = {n1, n2, n3, n4}
    Honest = {n1, n2, n3}
    F = 0
    C = 1
    K = 1
    Payload = {p1, p2}
    Leader <- Failed
    MaxRound = 1
    MaxTimeouts <- Once
    Lost <- Nothing
SYMMETRY Alike
SPECIFICATION Spec
INVARIANTS
    OneVotePerRound
    CertificatesBacked
    OneCertificatePerRound
CHECK_DEADLOCK FALSE
