CONSTANTS
    n1 = n1
    n2 = n2
    p1 = p1
    p2 = p2
    c1 = c1
    c2 = c2
    Nodes <- MCNodes2
    NoNode = NoNode
    Pids <- MCPids1
    NoPid = NoPid
    Home = n1
    Clients <- MCClients1
    Kinds <- AllBotOps
    MaxOps = 1
    MaxAttempts = 1
    StartErrors <- LimitOnly
    StopErrors <- InTick
    Stops = FALSE
    Crashes = FALSE
    Aborts = TRUE
    MaxDowns = 0
SPECIFICATION FairSpec
INVARIANTS ProcessesTracked
PROPERTIES DesiredAgree MovedConverges StopConverges ImplementsAbstractLease ImplementsAbstractRestart
