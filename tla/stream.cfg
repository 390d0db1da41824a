SPECIFICATION FairServiceSpec
CONSTANTS
    a = a
    b = b
    r1 = r1
    r2 = r2
    Request = {r1, r2}
    FilesOf <- OneFile
    MaxFiles = 3
    Doc = {d1}
    Key = {a}
    Blank = {}
    Faults = {"ocr", "broker", "neo4j"}
    Worker = {w1}
    MaxRedelivery = 0
    Deletion = {h1}
    Stream = {s1}
    MaxPolls = 2
INVARIANTS
    ToldForward
    ToldIsTrue
PROPERTIES
    StreamsEnd
    SettledIsTold
    SentSettles
