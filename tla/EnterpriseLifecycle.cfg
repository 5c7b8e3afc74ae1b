SPECIFICATION Spec
CONSTANTS
    MaxVersion = 3
    Requests = {p1, p2}
    Approvals = {a1}
    NoApproval = none
SYMMETRY Symmetry
INVARIANTS ActiveIsPublished LiveWasChecked RecordsTellTruth
PROPERTY IsRegister
CHECK_DEADLOCK FALSE
