CONSTANTS
    n1 = n1
    n2 = n2
    b1 = b1
    b2 = b2
    c1 = c1
    c2 = c2
    Nodes <- MCNodes1
    Bots <- MCBots1
    Webhook <- NoBots
    Home = n1
    Clients <- MCClients1
    Kinds <- StartStop
    MaxOps = 1
    MaxAttempts = 1
    Threshold = 1
    StartErrors = FALSE
    Stops = FALSE
SPECIFICATION FairSpec
PROPERTIES UnwantedOnly
