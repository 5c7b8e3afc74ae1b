SPECIFICATION Spec
CONSTANTS
    Patches = {x1, x2}
    NoPatch = NoPatch
    Diffs = {d1, d2}
    NoDiff = NoDiff
    MaxVersion = 3
    Requests = {p1, p2}
SYMMETRY Symmetry
INVARIANTS
    AcceptedIsMade
    MadeAsReviewed
    MadeApart
