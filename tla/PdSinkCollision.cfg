CONSTANTS
    Offers <- FiveTwenty
    Fits = {20}
    IdMod = 2
    CCDebounce = 1
    Quietness = {FALSE}
    ClockRuns = FALSE
    MaxLosses = 0
    MaxResets = 0
    MaxRejects = 0
    MaxReoffers = 0
SPECIFICATION FairSpec
PROPERTIES
    ProfileTakesEffect
CHECK_DEADLOCK FALSE
