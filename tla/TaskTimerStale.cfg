CONSTANTS
    DutyPeriod = 5
    UiPeriod = 3
    OffDelay = 1
    MaxPass = 3
    Word = 32
    MaxUptime = 70
SPECIFICATION Spec
INVARIANTS
    TipReadingFresh
CHECK_DEADLOCK FALSE
