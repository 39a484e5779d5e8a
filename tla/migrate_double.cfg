CONSTANTS
    n1 = n1
    n2 = n2
    p1 = p1
    p2 = p2
    c1 = c1
    c2 = c2
    Nodes <- MCNodes2
    NoNode = NoNode
    Pids <- MCPids
    NoPid = NoPid
    Home = n1
    Clients <- MCClients1
    Kinds <- BotOps
    MaxOps = 2
    MaxAttempts = 1
    StartErrors <- NoErrors
    StopErrors <- NoErrors
    Stops = FALSE
    Crashes = FALSE
    Aborts = FALSE
    MaxDowns = 0
SPECIFICATION Spec
INVARIANTS AtMostOneProcess
