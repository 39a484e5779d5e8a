CONSTANTS
    n1 = n1
    n2 = n2
    p1 = p1
    p2 = p2
    c1 = c1
    c2 = c2
    Nodes <- MCNodes1
    NoNode = NoNode
    Pids <- MCPids
    NoPid = NoPid
    Home = n1
    Clients <- MCClients2
    Kinds <- NotMoved
    MaxOps = 3
    MaxAttempts = 1
    StartErrors <- CommandSpawn
    StopErrors <- NoErrors
    Stops = TRUE
    Crashes = FALSE
    Aborts = TRUE
    MaxDowns = 2
SYMMETRY Symmetry2
SPECIFICATION Spec
INVARIANTS TypeOK ProcessesTracked AtMostOneProcess StoppedMeansDead
