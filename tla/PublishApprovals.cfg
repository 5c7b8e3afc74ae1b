SPECIFICATION Spec
CONSTANTS
    MaxVersion = 2
    Graphs = {sound}
    SoundGraphs = {sound}
    Approvals = {a1}
    NoApproval = NoApproval
    NoGraph = NoGraph
    Requests = {p1, p2}
    Calls = {}
SYMMETRY Symmetry
INVARIANTS
    AiPublishNeedsApproval
    ExecutedOnlyAfterDecision
PROPERTY DecisionIsFinal
