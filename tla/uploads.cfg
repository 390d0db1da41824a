SPECIFICATION FairSpec
CONSTANTS
    a = a
    b = b
    r1 = r1
    r2 = r2
    Request = {r1, r2}
    FilesOf <- Crossed
    MaxFiles = 3
    Doc = {d1, d2, d3, d4}
    Key = {a, b}
    Blank = {}
    Faults = {"fs", "broker", "crash", "ocr"}
    Worker = {w1}
    MaxRedelivery = 0
    Deletion = {}
INVARIANTS
    UniqueContent
    NoWorkBeforeCommit
    AnsweredMeansSent
    DuplicateHasCounterpart
    FilesAreAccountedFor
    JobTellsAll
PROPERTIES
    UploadsEnd
    ImplementsCatalog
