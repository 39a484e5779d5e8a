CONSTANTS
    n1 = n1
    n2 = n2
    x1 = x1
    p1 = p1
    p2 = p2
    p3 = p3
    i1 = i1
    i2 = i2
    i3 = i3
    c1 = c1
    c2 = c2
    Nodes <- MCNodes
    Agents <- MCAgents
    Names <- MCNames
    Ports <- MCPorts
    Ids <- MCIds
    Clients <- MCClients
    Kinds <- AllKinds
    MaxBots = 1
    MaxOps = 3
SPECIFICATION Spec
INVARIANTS TypeOK LimitBounded RowsFit
PROPERTIES DrainHolds DrainEmpties
SYMMETRY Symmetry
