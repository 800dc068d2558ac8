CONSTANTS
    Stories = {{a1, a2}, {a3}}
    TriggerCount = 2
    MaxOffers = 2
    Others = {"sweeper"}
SPECIFICATION FairSpec
INVARIANT TypeOK NoDoublePush
PROPERTY HitsArePushed
CHECK_DEADLOCK FALSE
