SPECIFICATION GraphSpec
CONSTANTS
    menu = menu
    switch = switch
    hours = hours
    end = end
    Nodes = {menu, switch, hours, end}
    NoNode = NoNode
    Missing = Missing
    d1 = d1
    Keys <- MCKeys
    NoDigits = NoDigits
    Graphs <- MCGraphs
    MaxDepth = 2
    WalkLimit = 5
    MaxActions = 4
INVARIANTS
    VerdictMatchesRules
    PublishedNeverStrays
    SimulationForetells
PROPERTY CallFollowsEdges
CHECK_DEADLOCK FALSE
