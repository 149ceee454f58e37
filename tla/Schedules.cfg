CONSTANT
    MaxSize = 12
SPECIFICATION Spec
INVARIANTS
    ScheduleCloses
    EveryPairOnce
    LeadsAgainSoon
    HonestSuccession
CHECK_DEADLOCK FALSE
