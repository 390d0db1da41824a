SPECIFICATION Spec
CONSTANTS
    a = a
    b = b
    r1 = r1
    r2 = r2
    Request = {r1, r2}
    FilesOf <- OneFile
    MaxFiles = 3
    Doc = {d1}
    Key = {a}
    Blank = {}
    Faults = {"pg", "fs", "broker", "ocr", "qdrant", "neo4j", "crash"}
    Worker = {w1, w2}
    MaxRedelivery = 1
    Deletion = {h1}
SYMMETRY Symmetry
INVARIANTS
    TypeOK
    FileReady
    CompletedIsIndexed
    LooseOnlyAfterDelete
    SettledDeleteIsClean
PROPERTIES
    ImplementsCatalog
