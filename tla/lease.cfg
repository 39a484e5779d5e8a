CONSTANTS
    n1 = n1
    n2 = n2
    Nodes <- MCNodes2
    NoNode = NoNode
    TTL = 2
    Skew <- SkewBoth
    Backends <- BothBackends
    MaxClock = 6
SPECIFICATION Spec
INVARIANTS TypeOK LeaseBounded
PROPERTIES HoldsSound GrantedIsKept ImplementsAbstractLease
