CONSTANTS
    Articles = {a1, a2}
    Feeds = {f1}
    Runs = {r1}
    MaxAttempts = 2
    BatchSize = 2
    NoFeed = NoFeed
    NoRow = NoRow
    NoRun = NoRun
    ArchiveEnabled = TRUE
    Jobs = {"ttl"}
    Ops = {"crash"}
SPECIFICATION Spec
SYMMETRY Symmetry
INVARIANT TypeOK NoArticleLost OfferedBeforeDequeued DeadExhausted
PROPERTY ArchivedBeforeDeleted
