CONSTANTS
    a1 = a1
    a2 = a2
    a3 = a3
    n1 = n1
    n2 = n2
    n3 = n3
    n4 = n4
    Apps <- TwoApps
    Iterators <- FourNodes
    Timeout = 2
    Restarts = TRUE
SPECIFICATION FairSpec
INVARIANTS LookupConsistent FrontIsLeastRecent
PROPERTIES ImplementsLeases SilentAppEvicted
