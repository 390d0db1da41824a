SPECIFICATION Spec
CONSTANTS
    x1 = x1
    x2 = x2
    d1 = d1
    d2 = d2
    c1 = c1
    c2 = c2
    p = p
    q = q
    t1 = t1
    t2 = t2
    Execution = {x1, x2}
    Doc = {d1, d2}
    Chunk = {c1, c2}
    Name = {p, q}
    Tenant = {t1, t2}
    Ownerships <- OneTenantOnly
    DocOf <- TwoDocuments
    ChunksOf <- ChunkEach
    NamesIn <- Names
    PairsIn <- Pairs
    Deletable = {}
    Faulty = FALSE
    Scope = {t1}
    Limit = 2
    MaxRetries = 0
INVARIANT OneNodePerKey
