CONSTANTS
    Articles = {a1}
    Feeds = {f1}
    Runs = {r1}
    MaxAttempts = 2
    BatchSize = 2
    NoFeed = NoFeed
    NoRow = NoRow
    NoRun = NoRun
    ArchiveEnabled = TRUE
    Jobs = {"reconcile"}
    Ops = {"prune"}
SPECIFICATION FairSpec
PROPERTY  OrphansSwept
