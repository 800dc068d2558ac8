CONSTANTS
    Keys <- MCKeys
    LastDay = 3
    RetentionDays = 1
    MaxThreads = 3
    MaxWrites = 3
    Ingests = {ingest}
    Lints = {lint}
    Edits = {edit}
    Rebuilds = {r1, r2}
    NoText = NoText
    Articles = {a1, a2}
    Tasks = {r1, r2}
    Digests = {digest}
    Slots = 1
    Contents = {c1, c2}
    MaxSaves = 2
    NoTask = NoTask
    Names <- MCNames
    ta = a1
    tb = a2
    tc = tc
    Intents = {i1}
    Renames = {r1, r2, r3}
    SembrKeys = {"LLM_API_KEY"}
    PassKeys = {"TWITTER_AUTH_TOKEN"}
    Secrets = {"LLM_API_KEY"}
    Values = {"x", "bad"}
    Rejected = {"bad"}
    Requests = {1, 2}
    MaxLines = 4
    MaxEnvWrites = 3
SPECIFICATION KnowledgeSpec
SYMMETRY KnowledgeSymmetry
INVARIANT KnowledgeTypeOK ExtractedAsKeyed OneTaskPerDigest ReferencesResolve 
PROPERTY TimelinesKept KeysStayUnique IngestBuildsOnFile 
CHECK_DEADLOCK FALSE
