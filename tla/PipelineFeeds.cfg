CONSTANTS
    Articles = {a1, a2}
    Feeds = {f1, f2}
    Runs = {r1, r2}
    MaxAttempts = 2
    BatchSize = 2
    NoFeed = NoFeed
    NoRow = NoRow
    NoRun = NoRun
    ArchiveEnabled = TRUE
    Jobs = {"dead_ttl"}
    Ops = {"delete_feed", "crash"}
SPECIFICATION Spec
SYMMETRY Symmetry
INVARIANT LedgerMatchesQueue
