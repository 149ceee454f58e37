CONSTANTS
    Last = 4
    Refused = {1}
    Capacity = 2
    MaxBreaks = 1
SPECIFICATION Spec
INVARIANTS
    TypeOK
    AcksMatch
    ReachInOrder
PROPERTY
    ImplementsLink
CHECK_DEADLOCK FALSE
