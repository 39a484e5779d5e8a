CONSTANTS
    n1 = n1
    n2 = n2
    b1 = b1
    b2 = b2
    c1 = c1
    c2 = c2
    Nodes <- MCNodes1
    Bots <- MCBots2
    Webhook <- MCWebhook
    Home = n1
    Clients <- MCClients1
    Kinds <- OnOneNode
    MaxOps = 1
    MaxAttempts = 1
    Threshold = 1
    StartErrors = TRUE
    Stops = TRUE
SPECIFICATION FairSpec
INVARIANTS TypeOK StoppedIsSilent
PROPERTIES WantedIsServed RunnerStops
