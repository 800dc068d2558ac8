CONSTANTS
    Stories = {{a1, a2}}
    TriggerCount = 3
    MaxOffers = 1
    Others = {"sweeper"}
SPECIFICATION Spec
INVARIANT NoHitLost
CHECK_DEADLOCK FALSE
