CONSTANTS
    Inputs <- WarmInputs
    MaxCurrent = 5000
    SetPower = 95
    MaxBoardTemp = 50
    MaxTipTemp = 500
    TipEvery = {2}
    Burst = 1
    Settle = 419
    MaxChanges = 1
    MaxTimeouts = 1
SPECIFICATION Spec
INVARIANTS
    AveragesSettle
    ShortSeenInTime
    ScreenTells
    NtcFalls
    TipInReach
CHECK_DEADLOCK FALSE
