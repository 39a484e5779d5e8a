CONSTANTS
    agent = agent
    ctl = ctl
    r1 = r1
    Processes <- MCProcesses
    Rows <- MCRows
    Backends <- MCBackends
    Agent = agent
    MaxCalls = 2
    MaxFaults = 1
    MaxDrops = 1
SPECIFICATION FairSpec
INVARIANTS TypeOK
PROPERTIES ImplementsAtomicStore CallsReturn NoticedIsSeen
