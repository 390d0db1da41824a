SPECIFICATION Spec
CONSTANTS
    a = a
    b = b
    x = x
    p = p
    q = q
    t1 = t1
    t2 = t2
    Doc = {a, b, x}
    Name = {p, q}
    Tenant = {t1, t2}
    TenantOf <- Owners
    ChunkCount <- Counts
    NamesIn <- Names
    PairsIn <- Pairs
    Indexed = {a, x}
    Leaving = {a}
    Relevance <- Scores
    Oversample = 2
    Asks <- Question
    MaxTokens = 2
    Faulty = TRUE
INVARIANTS
    ContextIsOwn
    FusedIsBest
    FailureCostsNothing
    SavedIsWhole
