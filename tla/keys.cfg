SPECIFICATION Spec
CONSTANTS
    Command = {c1, c2, c3}
    Name = {default, acme}
    DefaultName = default
    Request = {r1}
    Faulty = TRUE
SYMMETRY Symmetry
INVARIANTS
    SameNameOverlapped
    SeedsOnce
    ShownOpens
    RevokedIsOut
