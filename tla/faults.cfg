CONSTANTS
    n1 = n1
    n2 = n2
    p1 = p1
    p2 = p2
    c1 = c1
    c2 = c2
    Nodes <- MCNodes1
    NoNode = NoNode
    Pids <- MCPids
    NoPid = NoPid
    Home = n1
    Clients <- MCClients2
    Kinds <- StartStop
    MaxOps = 2
    MaxAttempts = 1
    StartErrors <- NoErrors
    StopErrors <- InShutdown
    Stops = TRUE
    Crashes = TRUE
    Aborts = FALSE
    MaxDowns = 1
SPECIFICATION FairSpec
PROPERTIES StartConverges StopConverges
