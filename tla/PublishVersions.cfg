SPECIFICATION Spec
CONSTANTS
    MaxVersion = 2
    Graphs = {sound, broken}
    SoundGraphs = {sound}
    Approvals = {}
    NoApproval = NoApproval
    NoGraph = NoGraph
    Requests = {p1, p2}
    Calls = {c1}
SYMMETRY Symmetry
INVARIANTS
    PinnedGraphUnchanged
    ActiveNeverStale
    RollbackTargetWasLive
PROPERTY IsRegister
