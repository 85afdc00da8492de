CONSTANTS
    DutyPeriod = 5
    UiPeriod = 3
    OffDelay = 1
    MaxPass = 3
    Word = 64
    MaxUptime = 50
    One = 64
    IntMax = 16
    TicksPerMs = 1
    MsPerSecond = 15
    Full = 3
    MaxDuty = 2
    Deltas = {1, 2}
SPECIFICATION ControlSpec
INVARIANTS
    IntegralIsRecent
CHECK_DEADLOCK FALSE
