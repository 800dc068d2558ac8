CONSTANTS
    Stories = {{a1}, {a2}}
    TriggerCount = 2
    MaxOffers = 2
    Others = {"sweeper", "foreign", "raise", "crash"}
SPECIFICATION Spec
INVARIANT NoHitLost 
CHECK_DEADLOCK FALSE
