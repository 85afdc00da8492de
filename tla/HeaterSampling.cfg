CONSTANTS
    MinSet = 5
    MaxSet = 5
    DefaultSet = 5
    FastFrom = 3
    FastStep = 20
    Word = 64
    MaxDetents = 1
    TimMax = 1
    Duties = {0, 100}
    Sensors = {"current", "tip"}
SPECIFICATION Spec
PROPERTIES
    SampledUnpowered
