CONSTANTS
    MinSet = 4
    MaxSet = 7
    DefaultSet = 5
    FastFrom = 2
    FastStep = 3
    Word = 16
    MaxDetents = 3
    TimMax = 3
    Duties = {0, 50, 100}
    Sensors = {"current", "tip"}
SPECIFICATION FairSpec
INVARIANTS
    TypeOK
    MenuIsCold
    RailNeedsPress
    FaultDrivesAtMostTwoPasses
PROPERTIES
    SampledBetweenPulses
    SetTempFollowsKnob
    ModesSpec
    FaultEndsHeating
