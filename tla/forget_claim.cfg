SPECIFICATION Spec
CONSTANTS
    Request = {r1, r2, r3}
    MaxTurns = 1
    Waits = TRUE
    Faulty = FALSE
SYMMETRY Symmetry
INVARIANT NothingForgotten
