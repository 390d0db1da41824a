SPECIFICATION Spec
CONSTANTS
    Request = {r1, r2, r3}
    MaxTurns = 1
    Waits = FALSE
    Faulty = TRUE
SYMMETRY Symmetry
INVARIANTS
    WindowIsSuffix
    WindowBounded
    ForgetsOnlyInOverlap
    ContextComplete
