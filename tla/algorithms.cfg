SPECIFICATION Spec
CONSTANTS
    Separators <- SeparatorsDef
    ValidTypes = {"ORG", "OTHER"}
    Documents <- DocumentsDef
    Replies <- RepliesDef
    Questions <- QuestionsDef
    Experiments <- ExperimentsDef
INVARIANTS
    NothingLost
    ChunkBounded
    RowsResolve
    PrecisionIsAverage
    FailuresMoveNoMean
