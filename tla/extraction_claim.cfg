SPECIFICATION Spec
CONSTANTS
    Separators <- SeparatorsDef
    ValidTypes = {"ORG", "OTHER"}
    Documents = {}
    Replies <- RepliesDef
    Questions = {}
    Experiments = {}
INVARIANTS
    OneChunkLost
