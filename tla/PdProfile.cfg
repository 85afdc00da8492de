CONSTANTS
    PDOs <- MixedPDOs
    MaxPDOs = 3
    MinPowers = {0, 60, 140, 141}
    MaxPower = 140
    MaxVoltage = 28000
    SetPower = 95
    TipR = 2500
    Word = 65536
SPECIFICATION FairSpec
INVARIANTS
    TypeOK
    RequestsFirstFit
    FailsOnlyWithoutFit
    RootIsExact
    MeanVoltageFits
PROPERTIES
    StartupEnds
CHECK_DEADLOCK FALSE
