CONSTANTS
    Articles = {a1, a2}
    MaxTime = 2
    Period = 1
    Offset = 0
    Lookback = 1
    HistorySpan = 3
    NoTime = NoTime
    FireRate = 2
    MaxReplays = 2
    Mixes = {{"tick", "replay"}, {"tick", "fire"}, {"replay", "external"}}
    SkipSeen = TRUE
    Requests = 1
SPECIFICATION Spec
INVARIANT TypeOK SeenIsAccountedFor DeliveredOnce HistoryIsPast ReplayStaysInWindow LockFollowsReplay
SYMMETRY Symmetry
CHECK_DEADLOCK FALSE
