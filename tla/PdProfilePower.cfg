CONSTANTS
    PDOs <- FixedPDOs
    MaxPDOs = 2
    MinPowers = {100}
    MaxPower = 140
    MaxVoltage = 28000
    SetPower = 95
    TipR = 2500
    Word = 65536
SPECIFICATION Spec
INVARIANTS
    DutyWithinPowerLimit
CHECK_DEADLOCK FALSE
