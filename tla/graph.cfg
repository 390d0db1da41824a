SPECIFICATION FairSpec
CONSTANTS
    x1 = x1
    x2 = x2
    d1 = d1
    d2 = d2
    c1 = c1
    c2 = c2
    p = p
    q = q
    t1 = t1
    t2 = t2
    Execution = {x1, x2}
    Doc = {d1, d2}
    Chunk = {c1, c2}
    Name = {p, q}
    Tenant = {t1, t2}
    Ownerships <- OneOrTwoTenants
    DocOf <- TwoDocuments
    ChunksOf <- ChunkEach
    NamesIn <- Names
    PairsIn <- Pairs
    Deletable = {d1, d2}
    Faulty = TRUE
    Scope = {t1}
    Limit = 2
    MaxRetries = 1
INVARIANTS
    DoneIsComplete
    TenantsApart
PROPERTIES
    SweepEnds
