CONSTANTS
    DutyPeriod = 5
    UiPeriod = 3
    OffDelay = 1
    MaxPass = 3
    Word = 32
    MaxUptime = 38
    One = 256
    IntMax = 128
    TicksPerMs = 1
    MsPerSecond = 50
    Full = 10
    MaxDuty = 7
    Deltas <- FarAndNear
SPECIFICATION ControlSpec
INVARIANTS
    StaleOnlyByWrap
    DutyInRange
    IntegralIsRecent
PROPERTIES
    PausesSpaced
CHECK_DEADLOCK FALSE
