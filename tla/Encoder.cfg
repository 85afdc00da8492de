CONSTANTS
    MaxMoves = 8
SPECIFICATION Spec
INVARIANTS
    TypeOK
    FollowsTheKnob
    BounceCountsNothing
CHECK_DEADLOCK FALSE
