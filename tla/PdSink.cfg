CONSTANTS
    Offers <- FiveNineTwenty
    Fits = {20}
    IdMod = 2
    CCDebounce = 1
    Quietness = {TRUE, FALSE}
    ClockRuns = TRUE
    MaxLosses = 2
    MaxResets = 1
    MaxRejects = 1
    MaxReoffers = 1
SPECIFICATION FairSpec
INVARIANTS
    TypeOK
    SuccessMeansContract
    OnlyFittingVoltages
    RequestIsServed
PROPERTIES
    NegotiationEnds
    NegotiationSucceeds
    QuietTakesEffect
CHECK_DEADLOCK FALSE
