CONSTANTS
    Locked = {r1, r2, w3}
    Immediate = {}
    Implicit = {}
    NoOwner = NoOwner
    Kinds = {"rss", "ledger", "wisburg", "newsapi"}
    News = {n1, n2}
    Feeds = {f1, f2}
    MaxNow = 3
    DayLength = 2
    MaxDelay = 2
    FireLookback = 4
    Overlap = 1
    MaxWindow = 3
    IndexingLag = 2
    PageSize = 1
    MaxPages = 1
    Never = Never
    PlainFeeds = {f3}
    CohortFeeds = {n1, n2}
    Configs = {c1, c2}
    FeedRequests = {r1, r2}
    Points = {1, 2, 3, 4}
    ScrollBatch = 2
    StallRounds = 3
    QuarantineCap = 3
    IntentIds = {1, 2, 3}
    Texts = {c1, c2}
SPECIFICATION SourcesSpec
SYMMETRY SourcesSymmetry
INVARIANT SourcesTypeOK   OwedIsReachable  NoSilentUnderRecall MigratedWhole
 
CHECK_DEADLOCK FALSE
