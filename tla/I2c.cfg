CONSTANTS
    BufferSize = 3
    MaxTransfer = 3
    Registers = 2
    Readings = 2
SPECIFICATION FairSpec
INVARIANTS
    OkMeansReceived
    BufferInBounds
    BusGivenBack
    TwoTimeoutsAtMost
PROPERTIES
    CallsReturn
    DisplayRecovers
CHECK_DEADLOCK FALSE
